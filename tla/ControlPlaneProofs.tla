------------------------- MODULE ControlPlaneProofs -------------------------
(***************************************************************************)
(* Theorems about ControlPlane for every choice of its constants: any      *)
(* parameters, batches, operators, payloads and word size.                 *)
(***************************************************************************)
EXTENDS ControlPlane, CommonLemmas

-----------------------------------------------------------------------------
(* Batches *)

\* A batch leaves the keys it does not name alone, and gives the others one of
\* its values.
LEMMA BatchWrites ==
    ASSUME NEW s \in [Key -> 0..U64Max \cup Key \cup {Absent}],
           NEW batch \in Seq(ParamKey \X Value), NEW k \in Key
    PROVE  /\ AfterBatch(s, batch)[k] \in 0..U64Max \cup Key \cup {Absent}
           /\ (\A i \in DOMAIN batch : batch[i][1] # k)
                => AfterBatch(s, batch)[k] = s[k]
           /\ AfterBatch(s, batch)[k] = s[k]
                \/ AfterBatch(s, batch)[k] \in 0..U64Max
<1> DEFINE writes == {i \in DOMAIN batch : batch[i][1] = k}
           last == CHOOSE i \in writes : \A j \in writes : j <= i
<1>1. DOMAIN batch = 1..Len(batch) /\ Len(batch) \in Nat
  OBVIOUS
<1>2. AfterBatch(s, batch)[k] = IF writes = {} THEN s[k] ELSE batch[last][2]
  BY DEF AfterBatch
<1>3. ASSUME writes # {} PROVE batch[last][2] \in 0..U64Max
  <2>1. \E i \in writes : \A j \in writes : j <= i
    BY <1>1, <1>3, LastPosition
  <2>2. last \in writes
    BY <2>1
  <2> HIDE DEF last
  <2>3. batch[last] \in ParamKey \X Value
    BY <2>2
  <2> QED
    BY <2>3, ControlPlaneAssumption
<1> QED
  BY <1>2, <1>3

-----------------------------------------------------------------------------
(* Type correctness *)

\* What a submission that is accepted does: it is the administrator's, the
\* breaker is closed, and the chain absorbs the commitment's pair.
LEMMA Accepted ==
    ASSUME TypeOK, NEW c \in Client, NEW p \in Payload, Submit(c, p)
    PROVE  /\ cb_state = "Closed"
           /\ admin # Absent
           /\ prepared[c] \in Commitment
           /\ prepared[c].sequence > last_seq
           /\ last_seq' = prepared[c].sequence
           /\ state_hash' = prepared[c].state_hash
           /\ state_hash' = Append(state_hash, <<prepared[c].sequence, p>>)
           /\ UNCHANGED <<breakerVars, admin, zkVars, prepared>>
<1>1. PICK a \in Address :
         /\ RequireAdmin(a)
         /\ ValidateTransition(prepared[c], p)
         /\ UNCHANGED <<breakerVars, admin, zkVars, prepared>>
  BY DEF Submit, UpdateParam, BatchUpdateParam
<1>2. prepared[c] \in Commitment
  BY DEF Submit, TypeOK
<1>3. admin # Absent
  BY <1>1, ControlPlaneAssumption DEF RequireAdmin
<1> QED
  BY <1>1, <1>2, <1>3
  DEF ValidateTransition, integrity_check, compute_commitment, AssertClosed

\* What an accepted submission leaves in the store before it counts: the
\* parameters are written, and P_COUNT is what it was unless it is among them.
Writes(written, keys) ==
    /\ written \in [Key -> 0..U64Max \cup Key \cup {Absent}]
    /\ written[KEY_PARAM_COUNT] \in 0..U64Max \cup {Absent}
    /\ KEY_PARAM_COUNT \notin keys => written[KEY_PARAM_COUNT] = store[KEY_PARAM_COUNT]
    /\ CanIncrement(written)
    /\ store' = Incremented(written)
    /\ Counts(keys, written)

\* update_param and batch_update_param write and count in this way.
LEMMA Written ==
    ASSUME TypeOK, NEW c \in Client, NEW p \in Payload, Submit(c, p)
    PROVE  \E written, keys : Writes(written, keys)
<1> USE ControlPlaneAssumption
<1>1. ASSUME NEW a \in Address, NEW k \in ParamKey, NEW v \in Value,
             UpdateParam(a, k, v, prepared[c], p)
      PROVE  Writes([store EXCEPT ![k] = v, ![KEY_LAST_PARAM] = k], {k})
  <2> DEFINE written == [store EXCEPT ![k] = v, ![KEY_LAST_PARAM] = k]
  <2>1. written \in [Key -> 0..U64Max \cup Key \cup {Absent}]
    BY DEF TypeOK
  <2>2. written[KEY_PARAM_COUNT] = IF KEY_PARAM_COUNT = k THEN v
                                   ELSE store[KEY_PARAM_COUNT]
    BY DEF TypeOK
  <2>3. CanIncrement(written) /\ store' = Incremented(written) /\ Counts({k}, written)
    BY <1>1 DEF UpdateParam
  <2>4. written[KEY_PARAM_COUNT] \in 0..U64Max \cup {Absent}
    BY <2>2 DEF TypeOK
  <2> HIDE DEF written
  <2>5. Writes(written, {k})
    BY <2>1, <2>2, <2>3, <2>4 DEF Writes
  <2> QED
    BY <2>5 DEF written
<1>2. ASSUME NEW a \in Address, NEW b \in Batches,
             BatchUpdateParam(a, b, prepared[c], p)
      PROVE  Writes(AfterBatch(store, b), KeysOf(b))
  <2> DEFINE written == AfterBatch(store, b)
  <2>1. b \in Seq(ParamKey \X Value)
    OBVIOUS
  <2>2. store \in [Key -> 0..U64Max \cup Key \cup {Absent}]
    BY DEF TypeOK
  <2>3. \A k \in Key : written[k] \in 0..U64Max \cup Key \cup {Absent}
    BY <2>1, <2>2, BatchWrites
  <2>4. written \in [Key -> 0..U64Max \cup Key \cup {Absent}]
    <3>1. written = [k \in Key |-> written[k]]
      BY DEF AfterBatch
    <3> HIDE DEF written
    <3> QED
      BY <2>3, <3>1
  <2>5. written[KEY_PARAM_COUNT] \in 0..U64Max \cup {Absent}
    <3>1. \/ written[KEY_PARAM_COUNT] = store[KEY_PARAM_COUNT]
          \/ written[KEY_PARAM_COUNT] \in 0..U64Max
      BY <2>1, <2>2, BatchWrites
    <3> QED
      BY <3>1 DEF TypeOK
  <2>6. /\ CanIncrement(written)
        /\ store' = Incremented(written)
        /\ Counts(KeysOf(b), written)
    BY <1>2 DEF BatchUpdateParam
  <2>7. KEY_PARAM_COUNT \notin KeysOf(b)
          => written[KEY_PARAM_COUNT] = store[KEY_PARAM_COUNT]
    BY <2>1, <2>2, BatchWrites DEF KeysOf
  <2> HIDE DEF written
  <2>8. Writes(written, KeysOf(b))
    BY <2>4, <2>5, <2>6, <2>7 DEF Writes
  <2> QED
    BY <2>8 DEF written
<1> QED
  BY <1>1, <1>2 DEF Submit

\* The counter goes up by one and stays within u64.
LEMMA CountsUp ==
    ASSUME NEW s \in [Key -> 0..U64Max \cup Key \cup {Absent}],
           s[KEY_PARAM_COUNT] \in 0..U64Max \cup {Absent}, CanIncrement(s)
    PROVE  /\ Incremented(s) \in [Key -> 0..U64Max \cup Key \cup {Absent}]
           /\ Incremented(s)[KEY_PARAM_COUNT] = ParamCount(s) + 1
           /\ Incremented(s)[KEY_PARAM_COUNT] \in 1..U64Max
           /\ ParamCount(s) \in 0..U64Max
<1>1. ParamCount(s) \in 0..U64Max /\ ParamCount(s) + 1 \in 1..U64Max
  BY ControlPlaneAssumption DEF ParamCount, CanIncrement
<1> QED
  BY <1>1, ControlPlaneAssumption DEF Incremented

\* Every invocation, and every commitment prepared, keeps the variables in
\* their types: sequences grow within bounds, the counter never leaves u64.
LEMMA TypeStep == TypeOK /\ [Next]_vars => TypeOK'
<1> SUFFICES ASSUME TypeOK, [Next]_vars PROVE TypeOK'
  OBVIOUS
<1> USE ControlPlaneAssumption, GuardianListsAssumption
<1>1. ASSUME NEW a \in Address, Initialize(a) PROVE TypeOK'
  <2>1. store' \in [Key -> 0..U64Max \cup Key \cup {Absent}]
        /\ store'[KEY_PARAM_COUNT] = 0
    BY <1>1 DEF Initialize, TypeOK
  <2> QED
    BY <1>1, <2>1
    DEF Initialize, TypeOK, BreakerTypeOK, breakerVars, auditVars, zkVars
<1>2. ASSUME NEW c \in Client, NEW n \in 1..MaxSequence, NEW p \in Payload,
             Prepare(c, n, p)
      PROVE  TypeOK'
  <2>1. Append(state_hash, <<n, p>>) \in StateHash
    BY DEF TypeOK, StateHash
  <2>2. prepared' \in [Client -> Commitment \cup {Absent}]
    BY <1>2, <2>1 DEF Prepare, compute_commitment, Commitment, TypeOK
  <2> QED
    BY <1>2, <2>2
    DEF Prepare, TypeOK, BreakerTypeOK, breakerVars, auditVars, zkVars
<1>3. ASSUME NEW c \in Client, NEW p \in Payload, Submit(c, p) PROVE TypeOK'
  <2>1. /\ last_seq' \in 0..MaxSequence
        /\ state_hash' \in StateHash
        /\ UNCHANGED <<breakerVars, admin, zkVars, prepared>>
    BY <1>3, Accepted DEF Commitment
  <2>2. PICK written, keys : Writes(written, keys)
    BY <1>3, Written
  <2>3. /\ store' \in [Key -> 0..U64Max \cup Key \cup {Absent}]
        /\ store'[KEY_PARAM_COUNT] \in 0..U64Max \cup {Absent}
        /\ ParamCount(written) \in 0..U64Max
    BY <2>2, CountsUp DEF Writes
  <2>4. counted_from' \in (0..U64Max) \X Nat
    BY <2>2, <2>3 DEF Writes, Counts, TypeOK, StateHash
  <2> QED
    BY <2>1, <2>3, <2>4 DEF TypeOK, BreakerTypeOK, breakerVars, zkVars
<1>4. ASSUME NEW a \in Address, NEW r \in Roots, NEW h \in ProofHash,
             RegisterProof(a, r, h)
      PROVE  TypeOK'
  <2>1. zk_count' \in 0..MaxProofs
    BY <1>4 DEF RegisterProof, TypeOK
  <2>2. \A pr \in proofs' : pr[1] \in StateHash /\ pr[2] \in ProofHash
    BY <1>4 DEF RegisterProof, TypeOK
  <2> QED
    BY <1>4, <2>1, <2>2 DEF RegisterProof, TypeOK, BreakerTypeOK, breakerVars, auditVars
<1>5. ASSUME BreakerCalls PROVE TypeOK'
  BY <1>5 DEF BreakerCalls, InitBreaker, Trip, Reset, TypeOK, BreakerTypeOK,
              auditVars, zkVars
<1>6. CASE UNCHANGED vars
  BY <1>6 DEF vars, TypeOK, BreakerTypeOK, breakerVars, auditVars, zkVars
<1> QED
  BY <1>1, <1>2, <1>3, <1>4, <1>5, <1>6 DEF Next

\* ControlPlane is type correct: no sequence of calls, batches with repeated or
\* reserved keys included, takes a variable out of its type.
THEOREM TypeCorrect == Spec => []TypeOK
<1>1. Init => TypeOK
  BY ControlPlaneAssumption DEF Init, BreakerInit, TypeOK, BreakerTypeOK, StateHash
<1> QED
  BY <1>1, TypeStep, PTL DEF Spec

-----------------------------------------------------------------------------
(* The commitment chain *)

\* Only an accepted submission moves the head of the chain or its sequence.
LEMMA HeadMoves ==
    ASSUME TypeOK, [Next]_vars, auditVars' # auditVars
    PROVE  \E c \in Client, p \in Payload : Submit(c, p)
BY DEF Next, Initialize, Prepare, RegisterProof, BreakerCalls, vars, auditVars

\* The chain stays replay free.  The guard compares a new sequence with KEY_SEQ
\* alone; that this makes it larger than all earlier ones needs that KEY_SEQ is
\* the last of an increasing chain, which is why the two parts go together.
LEMMA ChainStep == TypeOK /\ ChainInv /\ [Next]_vars => ChainInv'
<1> SUFFICES ASSUME TypeOK, ChainInv, [Next]_vars PROVE ChainInv'
  OBVIOUS
<1>1. ASSUME NEW c \in Client, NEW p \in Payload, Submit(c, p) PROVE ChainInv'
  <2> DEFINE n == prepared[c].sequence
             l == Len(state_hash)
  <2>1. /\ n \in 1..MaxSequence /\ n > last_seq
        /\ last_seq' = n
        /\ state_hash' = Append(state_hash, <<n, p>>)
    BY <1>1, Accepted DEF Commitment
  <2>2. state_hash \in Seq((1..MaxSequence) \X Payload) /\ l \in Nat
    BY DEF TypeOK, StateHash
  <2>3. /\ DOMAIN state_hash = 1..l /\ DOMAIN state_hash' = 1..(l + 1)
        /\ Len(state_hash') = l + 1
        /\ \A i \in 1..l : state_hash'[i] = state_hash[i]
        /\ \A i \in 1..l : state_hash[i][1] \in Nat
        /\ state_hash'[l + 1][1] = n
    BY <2>1, <2>2, ControlPlaneAssumption
  <2> HIDE DEF n, l
  <2>4. \A i \in 1..l : state_hash[i][1] <= last_seq
    <3>1. ASSUME NEW i \in 1..l PROVE state_hash[i][1] <= state_hash[l][1]
      <4>1. CASE i = l
        BY <2>2, <2>3, <4>1
      <4>2. CASE i # l
        <5>1. i < l /\ i \in DOMAIN state_hash /\ l \in DOMAIN state_hash
          BY <2>2, <2>3, <4>2
        <5>2. state_hash[i][1] < state_hash[l][1]
          BY <5>1 DEF ChainInv
        <5> QED
          BY <2>2, <2>3, <5>1, <5>2
      <4> QED
        BY <4>1, <4>2
    <3>2. l # 0 => last_seq = state_hash[l][1]
      BY <2>2, <2>3 DEF ChainInv, l
    <3> QED
      BY <2>2, <3>1, <3>2
  <2>5. ASSUME NEW i \in 1..(l + 1), NEW j \in 1..(l + 1), i < j
        PROVE  state_hash'[i][1] < state_hash'[j][1]
    <3>1. CASE j = l + 1
      <4>1. i \in 1..l
        BY <2>2, <2>5, <3>1
      <4> QED
        BY <2>1, <2>3, <2>4, <3>1, <4>1, ControlPlaneAssumption DEF TypeOK
    <3>2. CASE j # l + 1
      <4>1. i \in 1..l /\ j \in 1..l
        BY <2>2, <2>5, <3>2
      <4> QED
        BY <2>3, <2>5, <4>1 DEF ChainInv
    <3> QED
      BY <3>1, <3>2
  <2>6. state_hash' # <<>>
    BY <2>2, <2>3
  <2> QED
    BY <2>1, <2>3, <2>5, <2>6 DEF ChainInv
<1>2. CASE UNCHANGED auditVars
  BY <1>2 DEF ChainInv, auditVars
<1> QED
  BY <1>1, <1>2, HeadMoves

\* The commitment chain is replay free for any number of operators, payloads
\* and stale or repeated submissions.
THEOREM ChainCorrect == Spec => []ChainInv
<1>1. Init => ChainInv
  BY DEF Init, ChainInv
<1> QED
  BY <1>1, ChainStep, TypeCorrect, PTL DEF Spec

-----------------------------------------------------------------------------
(* One chain of updates *)

\* Before the contract has an administrator nothing is chained and nobody
\* guards the breaker.
Deployed ==
    admin = Absent => state_hash = <<>> /\ cb_state = "Closed" /\ cb_guardians = <<>>

\* Deployed is kept: every call but initialize needs an administrator, and
\* nobody ever takes the administrator away.
LEMMA DeployedStep == TypeOK /\ Deployed /\ [Next]_vars => Deployed'
<1> SUFFICES ASSUME TypeOK, Deployed, [Next]_vars PROVE Deployed'
  OBVIOUS
<1>1. ASSUME NEW a \in Address, Initialize(a) PROVE Deployed'
  BY <1>1, ControlPlaneAssumption DEF Initialize, Deployed
<1>2. ASSUME NEW c \in Client, NEW p \in Payload, Submit(c, p) PROVE Deployed'
  BY <1>2, Accepted DEF Deployed
<1>3. ASSUME BreakerCalls PROVE Deployed'
  BY <1>3 DEF BreakerCalls, InitBreaker, Trip, Reset, Members, Deployed, auditVars
<1> QED
  BY <1>1, <1>2, <1>3
  DEF Next, Prepare, RegisterProof, Deployed, vars, breakerVars, auditVars

\* What NoLostUpdate says, for one step: the new head is what some operator
\* derived from the old one.
LEMMA NoUpdateOvertakes ==
    ASSUME TypeOK, [Next]_vars, state_hash' # state_hash
    PROVE  /\ \E c \in Client : prepared[c] # Absent /\ state_hash' = prepared[c].state_hash
           /\ SubSeq(state_hash', 1, Len(state_hash)) = state_hash
           /\ Len(state_hash') = Len(state_hash) + 1
<1>1. PICK c \in Client, p \in Payload : Submit(c, p)
  BY HeadMoves DEF auditVars
<1>2. prepared[c] # Absent /\ state_hash' = prepared[c].state_hash
  BY <1>1, Accepted DEF Submit
<1>3. state_hash' = Append(state_hash, <<prepared[c].sequence, p>>)
  BY <1>1, Accepted
<1>4. state_hash \in Seq((1..MaxSequence) \X Payload)
      /\ <<prepared[c].sequence, p>> \in (1..MaxSequence) \X Payload
  BY <1>1, Accepted DEF TypeOK, StateHash, Commitment
<1>5. SubSeq(state_hash', 1, Len(state_hash)) = state_hash
      /\ Len(state_hash') = Len(state_hash) + 1
  BY <1>3, <1>4
<1> QED
  BY <1>2, <1>5

\* The accepted updates form one chain, for any number of racing operators:
\* whoever moves the head had read it, and the store moves with the chain or,
\* with the breaker open, not at all.
THEOREM UpdatesAreOneChain == Spec => UpdatesFormOneChain
<1>1. TypeOK /\ [Next]_vars
      => (state_hash' # state_hash =>
             /\ \E c \in Client :
                   /\ prepared[c] # Absent
                   /\ state_hash' = prepared[c].state_hash
             /\ SubSeq(state_hash', 1, Len(state_hash)) = state_hash
             /\ Len(state_hash') = Len(state_hash) + 1)
  BY NoUpdateOvertakes
<1>2. TypeOK /\ Deployed /\ [Next]_vars
      => /\ admin # Absent /\ store' # store => state_hash' # state_hash
         /\ cb_state = "Open" => UNCHANGED <<store, auditVars>>
  <2> SUFFICES ASSUME TypeOK, Deployed, [Next]_vars
               PROVE  /\ admin # Absent /\ store' # store => state_hash' # state_hash
                      /\ cb_state = "Open" => UNCHANGED <<store, auditVars>>
    OBVIOUS
  <2>1. ASSUME NEW a \in Address, Initialize(a)
        PROVE  admin = Absent /\ cb_state # "Open"
    BY <2>1 DEF Initialize, Deployed
  <2>2. ASSUME NEW c \in Client, NEW p \in Payload, Submit(c, p)
        PROVE  cb_state # "Open" /\ state_hash' # state_hash
    <3>1. state_hash' = Append(state_hash, <<prepared[c].sequence, p>>)
          /\ cb_state = "Closed"
      BY <2>2, Accepted
    <3> QED
      BY <3>1 DEF TypeOK, StateHash
  <2>3. \/ \E a \in Address : Initialize(a)
        \/ \E c \in Client, p \in Payload : Submit(c, p)
        \/ UNCHANGED <<store, auditVars>>
    BY DEF Next, Prepare, RegisterProof, BreakerCalls, vars, auditVars
  <2> QED
    BY <2>1, <2>2, <2>3 DEF auditVars
<1>3. Init => Deployed
  BY DEF Init, BreakerInit, Deployed
<1> QED
  BY <1>1, <1>2, <1>3, DeployedStep, TypeCorrect, PTL
  DEF Spec, UpdatesFormOneChain, NoLostUpdate, UpdatesAreAnchored

-----------------------------------------------------------------------------
(* The update counter *)

\* Before initialize nothing has been counted.
NothingCounted == admin = Absent => counted_from = <<0, 0>>

\* Counting is kept: an update moves chain and counter by one each, from the
\* value it gave P_COUNT if it named it, and nothing else moves either.
LEMMA CountStep ==
    TypeOK /\ Deployed /\ NothingCounted /\ ParamCountFollowsChain /\ [Next]_vars
      => NothingCounted' /\ ParamCountFollowsChain'
<1> SUFFICES ASSUME TypeOK, Deployed, NothingCounted, ParamCountFollowsChain, [Next]_vars
             PROVE  NothingCounted' /\ ParamCountFollowsChain'
  OBVIOUS
<1> USE ControlPlaneAssumption
<1>1. ASSUME NEW a \in Address, Initialize(a)
      PROVE  NothingCounted' /\ ParamCountFollowsChain'
  <2>1. /\ store'[KEY_PARAM_COUNT] = 0
        /\ state_hash' = <<>>
        /\ counted_from' = <<0, 0>>
    BY <1>1 DEF Initialize, Deployed, NothingCounted, TypeOK, auditVars
  <2>2. ParamCount(store') = 0 /\ Len(state_hash') = 0
        /\ counted_from'[1] = 0 /\ counted_from'[2] = 0
    BY <2>1 DEF ParamCount
  <2> QED
    BY <2>1, <2>2 DEF NothingCounted, ParamCountFollowsChain
<1>2. ASSUME NEW c \in Client, NEW p \in Payload, Submit(c, p)
      PROVE  NothingCounted' /\ ParamCountFollowsChain'
  <2>1. state_hash' = Append(state_hash, <<prepared[c].sequence, p>>)
        /\ admin' = admin /\ admin # Absent
    BY <1>2, Accepted
  <2>2. Len(state_hash') = Len(state_hash) + 1 /\ Len(state_hash) \in Nat
    BY <2>1 DEF TypeOK, StateHash
  <2>3. PICK written, keys : Writes(written, keys)
    BY <1>2, Written
  <2>4. /\ store'[KEY_PARAM_COUNT] = ParamCount(written) + 1
        /\ store'[KEY_PARAM_COUNT] \in 1..U64Max
        /\ ParamCount(written) \in 0..U64Max
    BY <2>3, CountsUp DEF Writes
  <2>5. ParamCount(store') = ParamCount(written) + 1
    BY <2>4 DEF ParamCount
  <2>6. counted_from[1] \in Nat /\ counted_from[2] \in Nat
    BY DEF TypeOK
  <2>7. CASE KEY_PARAM_COUNT \in keys
    <3>1. counted_from'[1] = ParamCount(written) /\ counted_from'[2] = Len(state_hash)
      BY <2>3, <2>7 DEF Writes, Counts
    <3> QED
      BY <2>1, <2>2, <2>4, <2>5, <3>1 DEF NothingCounted, ParamCountFollowsChain
  <2>8. CASE KEY_PARAM_COUNT \notin keys
    <3>1. counted_from' = counted_from
      BY <2>3, <2>8 DEF Writes, Counts
    <3>2. ParamCount(written) = ParamCount(store)
      BY <2>3, <2>8 DEF Writes, ParamCount
    <3> QED
      BY <2>1, <2>2, <2>4, <2>5, <2>6, <3>1, <3>2 DEF NothingCounted, ParamCountFollowsChain
  <2> QED
    BY <2>7, <2>8
<1>3. CASE UNCHANGED <<admin, store, state_hash, counted_from>>
  BY <1>3 DEF NothingCounted, ParamCountFollowsChain, ParamCount
<1> QED
  BY <1>1, <1>2, <1>3
  DEF Next, Prepare, RegisterProof, BreakerCalls, vars, auditVars

\* param_update_count counts every accepted commitment once, from the value an
\* update last gave it, whatever batches, repetitions and refusals lie between;
\* if none ever names P_COUNT it is the length of the chain.
THEOREM CounterCorrect == Spec => []ParamCountFollowsChain
<1>1. Init => ParamCountFollowsChain /\ NothingCounted /\ Deployed
  BY ControlPlaneAssumption
  DEF Init, BreakerInit, ParamCountFollowsChain, ParamCount, Deployed, NothingCounted
<1> QED
  BY <1>1, CountStep, DeployedStep, TypeCorrect, PTL DEF Spec

-----------------------------------------------------------------------------
(* Attestations *)

\* A prefix of the chain stays one when the chain grows.
LEMMA PrefixGrows ==
    ASSUME NEW s \in StateHash, NEW t \in StateHash, NEW x \in (1..MaxSequence) \X Payload,
           IsPrefixOf(s, t)
    PROVE  IsPrefixOf(s, Append(t, x))
<1>1. /\ Len(s) \in Nat /\ Len(t) \in Nat /\ Len(s) <= Len(t)
      /\ DOMAIN s = 1..Len(s)
      /\ Len(Append(t, x)) = Len(t) + 1
      /\ \A i \in 1..Len(t) : Append(t, x)[i] = t[i]
  BY DEF StateHash, IsPrefixOf
<1> QED
  BY <1>1 DEF IsPrefixOf

\* ProofsOnChain is inductive together with the finiteness of what is stored.
ProofsInv == ProofsOnChain /\ IsFiniteSet(proofs)

\* register_proof attests the current head and replaces what it had before;
\* nothing else touches an attestation, and the chain only grows.
LEMMA ProofsStep == TypeOK /\ ChainInv /\ ProofsInv /\ [Next]_vars => ProofsInv'
<1> SUFFICES ASSUME TypeOK, ChainInv, ProofsInv, [Next]_vars PROVE ProofsInv'
  OBVIOUS
<1>1. ASSUME NEW a \in Address, NEW r \in Roots, NEW h \in ProofHash,
             RegisterProof(a, r, h)
      PROVE  ProofsInv'
  <2> DEFINE kept == {pr \in proofs : pr[1] # state_hash}
             new == <<state_hash, h>>
  <2>1. proofs' = kept \cup {new} /\ zk_count' = zk_count + 1
        /\ UNCHANGED state_hash /\ last_seq # 0
    BY <1>1 DEF RegisterProof, auditVars
  <2>2. IsFiniteSet(kept) /\ Cardinality(kept) <= Cardinality(proofs)
    BY FS_Subset DEF ProofsInv
  <2>3. IsFiniteSet(proofs')
        /\ Cardinality(proofs') <= Cardinality(kept) + 1
    <3> HIDE DEF kept, new
    <3>1. Cardinality(kept) \in Nat
      BY <2>2, FS_CardinalityType
    <3>2. /\ IsFiniteSet(kept \cup {new})
          /\ Cardinality(kept \cup {new})
                = IF new \in kept THEN Cardinality(kept) ELSE Cardinality(kept) + 1
      BY <2>2, FS_AddElement
    <3> QED
      BY <2>1, <3>1, <3>2
  <2>4. Cardinality(proofs') <= zk_count'
    <3>1. /\ Cardinality(kept) \in Nat /\ Cardinality(proofs) \in Nat
          /\ Cardinality(proofs') \in Nat /\ zk_count \in Nat
      BY <2>2, <2>3, FS_CardinalityType, ControlPlaneAssumption DEF ProofsInv, TypeOK
    <3>2. Cardinality(proofs) <= zk_count
      BY DEF ProofsInv, ProofsOnChain
    <3> HIDE DEF kept, new
    <3> QED
      BY <2>1, <2>2, <2>3, <3>1, <3>2
  <2>5. \A pr \in proofs' : pr[1] # <<>> /\ IsPrefixOf(pr[1], state_hash')
    <3>1. state_hash # <<>>
      BY <2>1 DEF ChainInv
    <3>2. IsPrefixOf(state_hash, state_hash)
      BY DEF IsPrefixOf, TypeOK, StateHash
    <3> QED
      BY <2>1, <3>1, <3>2 DEF ProofsInv, ProofsOnChain
  <2>6. \A p, q \in proofs' : p[1] = q[1] => p = q
    BY <2>1 DEF ProofsInv, ProofsOnChain
  <2> QED
    BY <2>3, <2>4, <2>5, <2>6 DEF ProofsInv, ProofsOnChain
<1>2. ASSUME NEW c \in Client, NEW p \in Payload, Submit(c, p) PROVE ProofsInv'
  <2>1. /\ state_hash' = Append(state_hash, <<prepared[c].sequence, p>>)
        /\ <<prepared[c].sequence, p>> \in (1..MaxSequence) \X Payload
        /\ UNCHANGED zkVars
    BY <1>2, Accepted DEF Commitment
  <2>2. \A pr \in proofs : IsPrefixOf(pr[1], state_hash')
    BY <2>1, PrefixGrows DEF ProofsInv, ProofsOnChain, TypeOK
  <2> QED
    BY <2>1, <2>2 DEF ProofsInv, ProofsOnChain, zkVars
<1>3. CASE UNCHANGED <<proofs, zk_count, state_hash>>
  BY <1>3 DEF ProofsInv, ProofsOnChain, IsPrefixOf
<1> QED
  BY <1>1, <1>2, <1>3
  DEF Next, Initialize, Prepare, BreakerCalls, vars, zkVars, auditVars

\* Every attested root is a state the contract went through and keeps at most
\* one attestation, however many updates and replacements come after it.
THEOREM ProofsStayOnChain == Spec => []ProofsOnChain
<1>1. Init => ProofsInv
  <2>1. IsFiniteSet({}) /\ Cardinality({}) = 0
    BY FS_EmptySet
  <2> QED
    BY <2>1 DEF Init, ProofsInv, ProofsOnChain
<1>2. ProofsInv => ProofsOnChain
  BY DEF ProofsInv
<1> QED
  BY <1>1, <1>2, ProofsStep, TypeCorrect, ChainCorrect, PTL DEF Spec

=============================================================================
