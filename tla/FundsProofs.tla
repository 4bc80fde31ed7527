---------------------------- MODULE FundsProofs -----------------------------
(***************************************************************************)
(* Theorems about ContractFunds for every choice of its constants: any     *)
(* outflows, delays, snapshot lifetimes, admin vectors, thresholds, rates  *)
(* and amounts.                                                            *)
(***************************************************************************)
EXTENDS ContractFunds, CommonLemmas

-----------------------------------------------------------------------------
(* Treasury: types *)

\* The types are kept by every call of the treasury ...
LEMMA TreasuryTypes ==
    ASSUME TreasuryTypeOK, TreasuryNext, UNCHANGED now
    PROVE  TreasuryTypeOK'
<1> USE TreasuryAssumption
<1>1. ASSUME NEW a \in Address, InitTreasury(a) PROVE TreasuryTypeOK'
  <2>1. NoOutflow \in Outflow /\ NoOutflow.executable_at = 0
    BY DEF NoOutflow, Outflow
  <2> QED
    BY <1>1, <2>1 DEF InitTreasury, TreasuryTypeOK
<1>2. ASSUME NEW a \in Address, NEW id \in OutflowId, NEW x \in OutflowAmount,
             ScheduleOutflow(a, id, x)
      PROVE  TreasuryTypeOK'
  <2> DEFINE new == [scheduled |-> TRUE, requested_at |-> now,
                     executable_at |-> now + OUTFLOW_TIMELOCK_SECONDS, executed |-> FALSE]
  <2>1. new \in Outflow /\ new.executable_at \in 0..TimeMax
    BY <1>2 DEF ScheduleOutflow, Outflow, TreasuryTypeOK
  <2>2. outflows' = [outflows EXCEPT ![id] = new]
    BY <1>2 DEF ScheduleOutflow
  <2> HIDE DEF new
  <2>3. outflows' \in [OutflowId -> Outflow]
        /\ \A i \in OutflowId : outflows'[i].executable_at \in 0..TimeMax
    BY <2>1, <2>2 DEF TreasuryTypeOK
  <2> QED
    BY <1>2, <2>3 DEF ScheduleOutflow, TreasuryTypeOK
<1>3. ASSUME NEW a \in Address, NEW id \in OutflowId, ExecuteOutflow(a, id)
      PROVE  TreasuryTypeOK'
  <2> DEFINE done == [outflows[id] EXCEPT !.executed = TRUE]
  <2>1. done \in Outflow /\ done.executable_at \in 0..TimeMax
    BY DEF Outflow, TreasuryTypeOK
  <2>2. outflows' = [outflows EXCEPT ![id] = done]
    BY <1>3 DEF ExecuteOutflow, TreasuryTypeOK
  <2> HIDE DEF done
  <2>3. outflows' \in [OutflowId -> Outflow]
        /\ \A i \in OutflowId : outflows'[i].executable_at \in 0..TimeMax
    BY <2>1, <2>2 DEF TreasuryTypeOK
  <2> QED
    BY <1>3, <2>3 DEF ExecuteOutflow, TreasuryTypeOK
<1>4. ASSUME NEW a \in Address, RecordSnapshot(a) PROVE TreasuryTypeOK'
  <2>1. snap_count + 1 \in 1..MaxSnapshots /\ now + SNAP_TTL \in -1..(TimeMax + SNAP_TTL)
    BY <1>4 DEF RecordSnapshot, TreasuryTypeOK
  <2> QED
    BY <1>4, <2>1 DEF RecordSnapshot, TreasuryTypeOK
<1> QED
  BY <1>1, <1>2, <1>3, <1>4 DEF TreasuryNext

\* ... and by everything else in the contract and around it.
LEMMA TreasuryTypeStep == TreasuryTypeOK /\ [Next]_vars => TreasuryTypeOK'
<1> SUFFICES ASSUME TreasuryTypeOK, [Next]_vars PROVE TreasuryTypeOK'
  OBVIOUS
<1>1. CASE TreasuryStep
  BY <1>1, TreasuryTypes DEF TreasuryStep
<1>2. CASE TimePasses
  BY <1>2, TreasuryAssumption DEF TimePasses, TreasuryTypeOK, treasuryVars
<1>3. CASE UNCHANGED <<now, treasuryVars>>
  BY <1>3 DEF TreasuryTypeOK, treasuryVars
<1> QED
  BY <1>1, <1>2, <1>3
  DEF Next, RecoveryStep, FeeStep, BreakerStep, DepositStep, vars

\* The treasury is type correct: its clock arithmetic never leaves u64.
THEOREM TreasuryTypeCorrect == Spec => []TreasuryTypeOK
<1>1. Init => TreasuryTypeOK
  <2>1. NoOutflow \in Outflow /\ NoOutflow.executable_at = 0
    BY DEF NoOutflow, Outflow
  <2> QED
    BY <2>1, TreasuryAssumption DEF Init, TreasuryInit, TreasuryTypeOK
<1> QED
  BY <1>1, TreasuryTypeStep, PTL DEF Spec

-----------------------------------------------------------------------------
(* Treasury: outflows *)

\* What an entry of KEY_OUTFLOWS and the history of its id have to do with each
\* other: the delay runs from the request, and the flag stands for exactly one
\* execution, not before the delay was over.
OneOutflow(o, runs) ==
    /\ o.scheduled => o.executable_at = o.requested_at + OUTFLOW_TIMELOCK_SECONDS
    /\ o.executed => /\ o.scheduled
                     /\ \E t \in Int : runs = {t} /\ t >= o.executable_at
    /\ ~o.executed => runs = {}

\* Inductive: OneOutflow for every id.  init writes an empty map, so it also
\* needs that there was nothing in the map before.
OutflowInv ==
    /\ out_runs \in [OutflowId -> SUBSET Int]
    /\ \A id \in OutflowId : OneOutflow(outflows[id], out_runs[id])
    /\ tr_admin = "none" => \A id \in OutflowId : outflows[id] = NoOutflow

\* Every call of the treasury keeps it.
LEMMA OutflowCalls ==
    ASSUME TreasuryTypeOK, OutflowInv, TreasuryNext, UNCHANGED now
    PROVE  OutflowInv'
<1> USE TreasuryAssumption
<1>1. ASSUME NEW a \in Address, InitTreasury(a) PROVE OutflowInv'
  <2>1. \A id \in OutflowId : outflows[id] = NoOutflow /\ outflows'[id] = NoOutflow
    BY <1>1 DEF InitTreasury, OutflowInv
  <2> QED
    BY <1>1, <2>1 DEF InitTreasury, OutflowInv
<1>2. ASSUME NEW a \in Address, NEW id \in OutflowId, NEW x \in OutflowAmount,
             ScheduleOutflow(a, id, x)
      PROVE  OutflowInv'
  <2> DEFINE new == [scheduled |-> TRUE, requested_at |-> now,
                     executable_at |-> now + OUTFLOW_TIMELOCK_SECONDS, executed |-> FALSE]
  <2>1. outflows' = [outflows EXCEPT ![id] = new] /\ out_runs' = out_runs
        /\ tr_admin' = tr_admin /\ tr_admin # "none"
    BY <1>2 DEF ScheduleOutflow
  <2>2. out_runs[id] = {}
    BY <1>2 DEF ScheduleOutflow, OutflowInv, OneOutflow, TreasuryTypeOK, Outflow
  <2>3. OneOutflow(new, {})
    BY DEF OneOutflow
  <2> HIDE DEF new
  <2>4. \A i \in OutflowId : OneOutflow(outflows'[i], out_runs'[i])
    BY <2>1, <2>2, <2>3 DEF OutflowInv, TreasuryTypeOK
  <2> QED
    BY <2>1, <2>4 DEF OutflowInv
<1>3. ASSUME NEW a \in Address, NEW id \in OutflowId, ExecuteOutflow(a, id)
      PROVE  OutflowInv'
  <2> DEFINE done == [outflows[id] EXCEPT !.executed = TRUE]
  <2>1. /\ outflows' = [outflows EXCEPT ![id] = done]
        /\ out_runs' = [out_runs EXCEPT ![id] = @ \cup {now}]
        /\ tr_admin' = tr_admin /\ tr_admin # "none"
    BY <1>3 DEF ExecuteOutflow, TreasuryTypeOK
  <2>2. /\ done.scheduled = outflows[id].scheduled
        /\ done.requested_at = outflows[id].requested_at
        /\ done.executable_at = outflows[id].executable_at
        /\ done.executed = TRUE
    BY DEF TreasuryTypeOK, Outflow
  <2>3. outflows[id].scheduled /\ ~outflows[id].executed
        /\ now >= outflows[id].executable_at
    BY <1>3 DEF ExecuteOutflow
  <2> HIDE DEF done
  <2>4. out_runs[id] = {}
    BY <2>3 DEF OutflowInv, OneOutflow
  <2>5. now \in Int
    BY DEF TreasuryTypeOK
  <2>6. OneOutflow(done, {now})
    BY <2>2, <2>3, <2>5 DEF OutflowInv, OneOutflow
  <2>7. out_runs' \in [OutflowId -> SUBSET Int]
        /\ out_runs'[id] = {now} /\ \A i \in OutflowId \ {id} : out_runs'[i] = out_runs[i]
    BY <2>1, <2>4, <2>5 DEF OutflowInv
  <2>8. outflows'[id] = done /\ \A i \in OutflowId \ {id} : outflows'[i] = outflows[i]
    BY <2>1 DEF TreasuryTypeOK
  <2> QED
    BY <2>1, <2>6, <2>7, <2>8 DEF OutflowInv
<1>4. ASSUME NEW a \in Address, RecordSnapshot(a) PROVE OutflowInv'
  BY <1>4 DEF RecordSnapshot, OutflowInv
<1> QED
  BY <1>1, <1>2, <1>3, <1>4 DEF TreasuryNext

\* An outflow is executed at most once, and not before its full delay, for any
\* number of outflows and any delay.
THEOREM OutflowsAreLocked == Spec => []OutflowOnceAfterDelay
<1>1. Init => OutflowInv
  BY DEF Init, TreasuryInit, OutflowInv, OneOutflow, NoOutflow
<1>2. TreasuryTypeOK /\ OutflowInv /\ [Next]_vars => OutflowInv'
  <2> SUFFICES ASSUME TreasuryTypeOK, OutflowInv, [Next]_vars PROVE OutflowInv'
    OBVIOUS
  <2>1. CASE TreasuryStep
    BY <2>1, OutflowCalls DEF TreasuryStep
  <2>2. CASE UNCHANGED treasuryVars
    BY <2>2 DEF OutflowInv, treasuryVars
  <2> QED
    BY <2>1, <2>2
    DEF Next, RecoveryStep, FeeStep, BreakerStep, TimePasses, DepositStep, vars
<1>3. TreasuryTypeOK /\ OutflowInv => OutflowOnceAfterDelay
  <2> SUFFICES ASSUME TreasuryTypeOK, OutflowInv, NEW id \in OutflowId
               PROVE  /\ Cardinality(out_runs[id]) <= 1
                      /\ \A t \in out_runs[id] :
                            /\ outflows[id].executed
                            /\ t >= outflows[id].requested_at + OUTFLOW_TIMELOCK_SECONDS
    BY DEF OutflowOnceAfterDelay
  <2>1. OneOutflow(outflows[id], out_runs[id]) /\ outflows[id].executed \in BOOLEAN
    BY DEF OutflowInv, TreasuryTypeOK, Outflow
  <2>2. CASE out_runs[id] = {}
    BY <2>2, FS_EmptySet
  <2>3. CASE outflows[id].executed
    <3>1. PICK t \in Int : out_runs[id] = {t} /\ t >= outflows[id].executable_at
      BY <2>1, <2>3 DEF OneOutflow
    <3>2. Cardinality(out_runs[id]) = 1
      BY <3>1, FS_Singleton
    <3> QED
      BY <2>1, <2>3, <3>1, <3>2 DEF OneOutflow
  <2> QED
    BY <2>1, <2>2, <2>3 DEF OneOutflow
<1> QED
  BY <1>1, <1>2, <1>3, TreasuryTypeCorrect, PTL DEF Spec

-----------------------------------------------------------------------------
(* Treasury: snapshots *)

\* Inductive: snapshots were written in the order of their ids, none later than
\* now, so an older one never outlives a newer one.
TrailInv ==
    /\ \A n \in 1..snap_count : snap_until[n] <= now + SNAP_TTL
    /\ \A m, n \in 1..snap_count : m <= n => snap_until[m] <= snap_until[n]
    /\ tr_admin = "none" => snap_count = 0

\* Every call of the treasury keeps it.
LEMMA TrailCalls ==
    ASSUME TreasuryTypeOK, TrailInv, TreasuryNext, UNCHANGED now
    PROVE  TrailInv'
<1> USE TreasuryAssumption
<1>1. ASSUME NEW a \in Address, InitTreasury(a) PROVE TrailInv'
  BY <1>1 DEF InitTreasury, TrailInv
<1>2. ASSUME NEW a \in Address, RecordSnapshot(a) PROVE TrailInv'
  <2> DEFINE l == snap_count + 1
  <2>1. /\ snap_count' = l /\ l \in 1..MaxSnapshots /\ snap_count \in Nat
        /\ tr_admin' = tr_admin /\ tr_admin # "none"
        /\ snap_until'[l] = now + SNAP_TTL
        /\ \A n \in 1..snap_count : snap_until'[n] = snap_until[n]
    BY <1>2 DEF RecordSnapshot, TreasuryTypeOK
  <2>2. \A n \in 1..snap_count : snap_until[n] \in Int
    BY DEF TreasuryTypeOK
  <2>3. \A n \in 1..l : n \in 1..snap_count \/ n = l
    BY <2>1
  <2>4. now + SNAP_TTL \in Int
    BY DEF TreasuryTypeOK
  <2> HIDE DEF l
  <2>5. \A n \in 1..l : snap_until'[n] <= now + SNAP_TTL
    BY <2>1, <2>3, <2>4 DEF TrailInv
  <2>6. ASSUME NEW m \in 1..l, NEW n \in 1..l, m <= n
        PROVE  snap_until'[m] <= snap_until'[n]
    <3>1. CASE n = l
      BY <2>1, <2>5, <3>1
    <3>2. CASE n # l
      <4>1. n \in 1..snap_count /\ m \in 1..snap_count
        BY <2>1, <2>3, <2>6, <3>2
      <4> QED
        BY <2>1, <2>6, <4>1 DEF TrailInv
    <3> QED
      BY <3>1, <3>2
  <2> QED
    BY <2>1, <2>5, <2>6, <1>2 DEF TrailInv
<1>3. CASE UNCHANGED <<tr_admin, snap_count, snap_until>>
  BY <1>3 DEF TrailInv
<1> QED
  BY <1>1, <1>2, <1>3 DEF TreasuryNext, ScheduleOutflow, ExecuteOutflow

\* The audit trail loses its oldest end only, for any lifetime of snapshots and
\* however time and calls interleave.
THEOREM TrailStaysWhole == Spec => []AuditTrailHasNoHoles
<1>1. Init => TrailInv
  BY DEF Init, TreasuryInit, TrailInv
<1>2. TreasuryTypeOK /\ TrailInv /\ [Next]_vars => TrailInv'
  <2> SUFFICES ASSUME TreasuryTypeOK, TrailInv, [Next]_vars PROVE TrailInv'
    OBVIOUS
  <2>1. CASE TreasuryStep
    BY <2>1, TrailCalls DEF TreasuryStep
  <2>2. CASE TimePasses
    <3>1. \A n \in 1..snap_count : snap_until[n] \in Int
      BY TreasuryAssumption DEF TreasuryTypeOK
    <3> QED
      BY <2>2, <3>1, TreasuryAssumption
      DEF TimePasses, TrailInv, TreasuryTypeOK, treasuryVars
  <2>3. CASE UNCHANGED <<now, treasuryVars>>
    BY <2>3 DEF TrailInv, treasuryVars
  <2> QED
    BY <2>1, <2>2, <2>3
    DEF Next, RecoveryStep, FeeStep, BreakerStep, DepositStep, vars
<1>3. TreasuryTypeOK /\ TrailInv => AuditTrailHasNoHoles
  <2> SUFFICES ASSUME TreasuryTypeOK, TrailInv, NEW from \in 1..MaxSnapshots,
                      NEW n \in audit_trail(from), NEW m \in n..snap_count
               PROVE  m \in audit_trail(from)
    BY DEF AuditTrailHasNoHoles
  <2> DEFINE start == IF from < 1 THEN 1
                      ELSE IF from > snap_count THEN snap_count ELSE from
  <2>1. snap_count # 0 /\ n \in start..snap_count /\ Alive(n)
    BY DEF audit_trail
  <2>2. snap_count \in 1..MaxSnapshots /\ start \in 1..snap_count
    BY <2>1, TreasuryAssumption DEF TreasuryTypeOK
  <2>3. m \in start..snap_count /\ m \in 1..snap_count /\ n \in 1..snap_count /\ n <= m
    BY <2>1, <2>2
  <2> HIDE DEF start
  <2>4. snap_until[n] \in Int /\ snap_until[m] \in Int /\ now \in Int
    BY <2>2, <2>3, TreasuryAssumption DEF TreasuryTypeOK
  <2>5. Alive(m)
    BY <2>1, <2>3, <2>4 DEF TrailInv, Alive
  <2> QED
    BY <2>1, <2>3, <2>5 DEF audit_trail, start
<1> QED
  BY <1>1, <1>2, <1>3, TreasuryTypeCorrect, PTL DEF Spec

-----------------------------------------------------------------------------
(* Emergency recovery *)

\* Inductive.  The code compares the length of KEY_APPROVALS with the threshold
\* and never looks back at a request it has replaced; that this pays each
\* request once and for its own signatures needs that the vector repeats
\* nobody, holds admins only, and holds those who signed for the current
\* request, which has not been paid yet.
RecoveryInv ==
    /\ RecoveryTypeOK
    /\ ~HasDuplicates(er_admins)
    /\ er_admins = <<>> => er_number = 0 /\ er_pending = <<>>
    /\ er_admins # <<>> => er_threshold \in 1..Len(er_admins)
    /\ er_pending # <<>> =>
          /\ er_number >= 1
          /\ er_paid[er_number] = 0
          /\ ~HasDuplicates(er_approvals)
          /\ Len(er_approvals) < er_threshold
          /\ Members(er_approvals) \subseteq Members(er_admins)
          /\ \A a \in Members(er_approvals) : <<a, er_number>> \in er_signed
    /\ \A n \in 1..MaxRequests : n > er_number => er_paid[n] = 0
    /\ PaidByOwnQuorum

\* A vector without the zero address is a vector of accounts.
LEMMA Accounts ==
    ASSUME NEW s \in Seq(Address \cup {ZERO_ADDRESS}), ZERO_ADDRESS \notin Members(s)
    PROVE  s \in Seq(Address)
<1>1. Len(s) \in Nat /\ DOMAIN s = 1..Len(s) /\ s = [i \in 1..Len(s) |-> s[i]]
  OBVIOUS
<1>2. \A i \in 1..Len(s) : s[i] \in Address
  BY <1>1 DEF Members
<1> QED
  BY <1>1, <1>2, SeqDef

\* The admins that signed for request n.
SignersOf(admins, n, signed) == {a \in Members(admins) : <<a, n>> \in signed}

\* Those who signed for a request are a quorum once that many are in a vector
\* that repeats nobody.
LEMMA SignedQuorum ==
    ASSUME er_admins \in Seq(Address), ~HasDuplicates(er_admins),
           NEW v \in Seq(Address), ~HasDuplicates(v), Members(v) \subseteq Members(er_admins),
           NEW t \in Nat, Len(v) >= t, NEW n, NEW signed,
           \A a \in Members(v) : <<a, n>> \in signed
    PROVE  Cardinality(SignersOf(er_admins, n, signed)) >= t
<1> DEFINE Q == SignersOf(er_admins, n, signed)
<1>1. IsFiniteSet(Members(er_admins)) /\ Cardinality(Members(v)) = Len(v)
  BY VectorCounts
<1>2. IsFiniteSet(Q)
  BY <1>1, FS_Subset DEF SignersOf
<1>3. Members(v) \subseteq Q
  BY DEF SignersOf
<1> HIDE DEF Q
<1>4. Cardinality(Members(v)) <= Cardinality(Q) /\ Cardinality(Q) \in Nat
  BY <1>2, <1>3, FS_Subset, FS_CardinalityType
<1>5. Len(v) \in Nat
  OBVIOUS
<1> QED
  BY <1>1, <1>4, <1>5 DEF Q

\* More signatures never undo a quorum.
LEMMA SignaturesGrow ==
    ASSUME er_admins \in Seq(Address), ~HasDuplicates(er_admins), NEW n, NEW t \in Nat,
           NEW old, NEW new, old \subseteq new,
           Cardinality(SignersOf(er_admins, n, old)) >= t
    PROVE  Cardinality(SignersOf(er_admins, n, new)) >= t
<1> DEFINE P == SignersOf(er_admins, n, old)
           Q == SignersOf(er_admins, n, new)
<1>1. IsFiniteSet(Members(er_admins))
  BY VectorCounts
<1>2. IsFiniteSet(P) /\ IsFiniteSet(Q)
  BY <1>1, FS_Subset DEF SignersOf
<1>3. P \subseteq Q
  BY DEF SignersOf
<1> HIDE DEF P, Q
<1>4. Cardinality(P) <= Cardinality(Q) /\ Cardinality(Q) \in Nat /\ Cardinality(P) \in Nat
  BY <1>2, <1>3, FS_Subset, FS_CardinalityType
<1>5. Cardinality(P) >= t
  BY DEF P
<1>6. Cardinality(Q) >= t
  BY <1>4, <1>5
<1> QED
  BY <1>6 DEF Q

\* The common end of request and approve: v has signed for request n, which is
\* the current one and not paid.
LEMMA Settled ==
    ASSUME RecoveryInv, er_admins # <<>>,
           NEW v \in Seq(Address), ~HasDuplicates(v), Members(v) \subseteq Members(er_admins),
           NEW p \in Dest \X (1..EventMax),
           NEW n \in 1..MaxRequests, n >= er_number, er_paid[n] = 0,
           er_number' = n,
           er_signed \subseteq er_signed', er_signed' \subseteq Address \X (1..MaxRequests),
           \A a \in Members(v) : <<a, n>> \in er_signed',
           UNCHANGED recoveryConfig, Settle(v, p, n)
    PROVE  RecoveryInv'
<1>1. /\ er_admins' = er_admins /\ er_threshold' = er_threshold
      /\ er_admins \in Seq(Address) /\ ~HasDuplicates(er_admins)
      /\ er_threshold \in Nat /\ er_number \in Nat
      /\ er_paid \in [1..MaxRequests -> Nat]
      /\ n \in 0..MaxRequests
  BY RecoveryAssumption DEF recoveryConfig, RecoveryInv, RecoveryTypeOK
<1>2. p # <<>>
  OBVIOUS
<1>3. CASE Len(v) >= er_threshold
  <2>1. /\ er_paid' = [er_paid EXCEPT ![n] = 1]
        /\ er_approvals' = <<>> /\ er_pending' = <<>>
    BY <1>1, <1>3 DEF Settle
  <2>2. /\ er_paid' \in [1..MaxRequests -> Nat]
        /\ er_paid'[n] = 1
        /\ \A m \in 1..MaxRequests \ {n} : er_paid'[m] = er_paid[m]
    BY <1>1, <2>1
  <2>3. PaidByOwnQuorum'
    <3>1. Cardinality(SignersOf(er_admins, n, er_signed')) >= er_threshold
      BY <1>1, <1>3, SignedQuorum
    <3>2. ASSUME NEW m \in 1..MaxRequests, m # n, er_paid[m] = 1
          PROVE  Cardinality(SignersOf(er_admins, m, er_signed')) >= er_threshold
      <4>1. Cardinality(SignersOf(er_admins, m, er_signed)) >= er_threshold
        BY <3>2 DEF RecoveryInv, PaidByOwnQuorum, SignersOf
      <4> QED
        BY <1>1, <4>1, SignaturesGrow
    <3>3. ASSUME NEW m \in 1..MaxRequests
          PROVE  /\ er_paid'[m] <= 1
                 /\ er_paid'[m] = 1 =>
                       Cardinality(SignersOf(er_admins, m, er_signed')) >= er_threshold
      <4>1. m # n => er_paid[m] <= 1
        BY DEF RecoveryInv, PaidByOwnQuorum
      <4> QED
        BY <2>2, <3>1, <3>2, <4>1
    <3> QED
      BY <1>1, <3>3 DEF PaidByOwnQuorum, SignersOf
  <2>4. \A m \in 1..MaxRequests : m > n => er_paid'[m] = 0
    BY <1>1, <2>2 DEF RecoveryInv
  <2>5. RecoveryTypeOK'
    BY <1>1, <2>1, <2>2 DEF RecoveryTypeOK
  <2> QED
    BY <1>1, <2>1, <2>3, <2>4, <2>5 DEF RecoveryInv
<1>4. CASE ~(Len(v) >= er_threshold)
  <2>1. /\ er_paid' = er_paid /\ er_approvals' = v /\ er_pending' = p
    BY <1>4 DEF Settle
  <2>2. PaidByOwnQuorum'
    <3>1. ASSUME NEW m \in 1..MaxRequests, er_paid[m] = 1
          PROVE  Cardinality(SignersOf(er_admins, m, er_signed')) >= er_threshold
      <4>1. Cardinality(SignersOf(er_admins, m, er_signed)) >= er_threshold
        BY <3>1 DEF RecoveryInv, PaidByOwnQuorum, SignersOf
      <4> QED
        BY <1>1, <4>1, SignaturesGrow
    <3> QED
      BY <1>1, <2>1, <3>1 DEF RecoveryInv, PaidByOwnQuorum, SignersOf
  <2>3. \A m \in 1..MaxRequests : m > n => er_paid'[m] = 0
    BY <1>1, <2>1 DEF RecoveryInv
  <2>4. RecoveryTypeOK'
    BY <1>1, <2>1 DEF RecoveryTypeOK
  <2>5. Len(v) < er_threshold
    BY <1>1, <1>4
  <2> QED
    BY <1>1, <1>2, <2>1, <2>2, <2>3, <2>4, <2>5 DEF RecoveryInv
<1> QED
  BY <1>3, <1>4

\* Every call of the recovery keeps it.
LEMMA RecoveryCalls == RecoveryInv /\ RecoveryNext => RecoveryInv'
<1> SUFFICES ASSUME RecoveryInv, RecoveryNext PROVE RecoveryInv'
  OBVIOUS
<1> USE RecoveryAssumption
<1>1. ASSUME NEW vec \in AdminLists, NEW t \in RecThresholds, InitRecovery(vec, t)
      PROVE  RecoveryInv'
  <2>1. /\ vec \in Seq(Address) /\ ~HasDuplicates(vec)
        /\ t \in 1..Len(vec) /\ vec # <<>>
    <3>1. vec \in Seq(Address)
      BY <1>1, Accounts DEF InitRecovery
    <3>2. ~HasDuplicates(vec) /\ t # 0 /\ t <= Len(vec)
      BY <1>1, Zenon DEF InitRecovery
    <3>3. t \in 1..Len(vec)
      BY <3>1, <3>2
    <3>4. vec # <<>>
      BY <3>3
    <3> QED
      BY <3>1, <3>2, <3>3, <3>4, Zenon
  <2>2. /\ er_admins = <<>> /\ er_number = 0
        /\ er_admins' = vec /\ er_threshold' = t /\ er_approvals' = <<>> /\ er_pending' = <<>>
        /\ UNCHANGED <<er_number, er_signed, er_paid>>
    BY <1>1 DEF InitRecovery, RecoveryInv
  <2>3. \A n \in 1..MaxRequests : er_paid[n] = 0
    BY <2>2 DEF RecoveryInv
  <2>4. PaidByOwnQuorum'
    BY <2>2, <2>3 DEF PaidByOwnQuorum
  <2>5. RecoveryTypeOK'
    BY <2>1, <2>2 DEF RecoveryInv, RecoveryTypeOK
  <2> QED
    BY <2>1, <2>2, <2>3, <2>4, <2>5 DEF RecoveryInv
<1>2. ASSUME NEW a \in Address, NEW d \in Dest, NEW x \in RecAmount,
             RequestRecovery(a, d, x)
      PROVE  RecoveryInv'
  <2> DEFINE n == er_number + 1
  <2>1. /\ a \in Members(er_admins) /\ x \in 1..EventMax /\ er_number < MaxRequests
        /\ er_number' = n /\ er_signed' = er_signed \cup {<<a, n>>}
        /\ UNCHANGED recoveryConfig /\ Settle(<<a>>, <<d, x>>, n)
    BY <1>2, HoldingsAssumption DEF RequestRecovery
  <2>2. n \in 1..MaxRequests /\ n >= er_number /\ er_paid[n] = 0
    BY <2>1 DEF RecoveryInv, RecoveryTypeOK
  <2>3. er_admins # <<>>
    BY <2>1, MembersEmpty
  <2>4. <<a>> \in Seq(Address) /\ ~HasDuplicates(<<a>>) /\ Members(<<a>>) = {a}
    BY DEF HasDuplicates, Members
  <2>5. <<d, x>> \in Dest \X (1..EventMax)
    BY <2>1
  <2>6. er_signed' \subseteq Address \X (1..MaxRequests)
    BY <2>1, <2>2 DEF RecoveryInv, RecoveryTypeOK
  <2> HIDE DEF n
  <2> QED
    BY <2>1, <2>2, <2>3, <2>4, <2>5, <2>6, Settled
<1>3. ASSUME NEW a \in Address, ApproveRecovery(a) PROVE RecoveryInv'
  <2>1. /\ a \in Members(er_admins) /\ er_pending # <<>> /\ a \notin Members(er_approvals)
        /\ er_signed' = er_signed \cup {<<a, er_number>>} /\ er_number' = er_number
        /\ UNCHANGED recoveryConfig
        /\ Settle(Append(er_approvals, a), er_pending, er_number)
    BY <1>3 DEF ApproveRecovery
  <2>2. /\ er_number \in 1..MaxRequests /\ er_paid[er_number] = 0
        /\ er_admins # <<>> /\ er_pending \in Dest \X (1..EventMax)
    BY <2>1, MembersEmpty DEF RecoveryInv, RecoveryTypeOK
  <2>3. er_approvals \in Seq(Address) /\ ~HasDuplicates(er_approvals)
    BY <2>1 DEF RecoveryInv, RecoveryTypeOK
  <2>4. /\ Append(er_approvals, a) \in Seq(Address)
        /\ ~HasDuplicates(Append(er_approvals, a))
        /\ Members(Append(er_approvals, a)) = Members(er_approvals) \cup {a}
    BY <2>1, <2>3, AppendIsNew, MembersAppend
  <2>5. /\ Members(er_approvals) \cup {a} \subseteq Members(er_admins)
        /\ \A b \in Members(er_approvals) \cup {a} : <<b, er_number>> \in er_signed'
    BY <2>1 DEF RecoveryInv
  <2>6. er_signed' \subseteq Address \X (1..MaxRequests)
    BY <2>1, <2>2 DEF RecoveryInv, RecoveryTypeOK
  <2>7. er_number >= er_number /\ er_signed \subseteq er_signed'
    BY <2>1, <2>2
  <2> QED
    BY <2>1, <2>2, <2>4, <2>5, <2>6, <2>7, Settled
<1> QED
  BY <1>1, <1>2, <1>3 DEF RecoveryNext

\* Each request is paid at most once and for its own quorum, and what is pending
\* can still be completed, for any admins, thresholds, amounts and order of
\* requests, replacements, signatures and failed payments.
THEOREM RecoveryCorrect == Spec => []ApprovalsFitRequests
<1>1. Init => RecoveryInv
  <2> SUFFICES ASSUME Init PROVE RecoveryInv
    OBVIOUS
  <2>1. RecoveryInit
    BY DEF Init
  <2>2. ~HasDuplicates(<<>>)
    BY DEF HasDuplicates
  <2> QED
    BY <2>1, <2>2, RecoveryAssumption
    DEF RecoveryInit, RecoveryInv, RecoveryTypeOK, PaidByOwnQuorum
<1>2. RecoveryInv /\ [Next]_vars => RecoveryInv'
  <2> SUFFICES ASSUME RecoveryInv, [Next]_vars PROVE RecoveryInv'
    OBVIOUS
  <2>1. CASE RecoveryStep
    BY <2>1, RecoveryCalls DEF RecoveryStep
  <2>2. CASE UNCHANGED recoveryVars
    BY <2>2 DEF recoveryVars, recoveryConfig, RecoveryInv, RecoveryTypeOK, PaidByOwnQuorum
  <2> QED
    BY <2>1, <2>2
    DEF Next, TreasuryStep, FeeStep, BreakerStep, TimePasses, DepositStep, vars
<1>3. RecoveryInv => ApprovalsFitRequests
  <2> SUFFICES ASSUME RecoveryInv, er_pending # <<>>
               PROVE  /\ Len(er_approvals) < er_threshold
                      /\ Members(er_admins) \ Members(er_approvals) # {}
    BY DEF ApprovalsFitRequests, PendingWaitsForSomebody, RecoveryInv
  <2>1. /\ er_admins \in Seq(Address) /\ ~HasDuplicates(er_admins)
        /\ er_approvals \in Seq(Address) /\ ~HasDuplicates(er_approvals)
        /\ Len(er_approvals) < er_threshold /\ er_threshold \in 1..Len(er_admins)
    BY DEF RecoveryInv, RecoveryTypeOK
  <2>2. /\ IsFiniteSet(Members(er_approvals))
        /\ Cardinality(Members(er_approvals)) = Len(er_approvals)
        /\ Cardinality(Members(er_admins)) = Len(er_admins)
        /\ Len(er_approvals) \in Nat /\ Len(er_admins) \in Nat
    BY <2>1, VectorCounts
  <2>3. ASSUME Members(er_admins) \subseteq Members(er_approvals) PROVE FALSE
    <3>1. Cardinality(Members(er_admins)) <= Cardinality(Members(er_approvals))
      BY <2>2, <2>3, FS_Subset
    <3> QED
      BY <2>1, <2>2, <3>1
  <2> QED
    BY <2>1, <2>3
<1> QED
  BY <1>1, <1>2, <1>3, PTL DEF Spec

-----------------------------------------------------------------------------
(* Protocol fees *)

\* No setter, and no order of setters, takes the rate above MAX_BPS.
LEMMA FeeTypeStep == FeeTypeOK /\ [Next]_vars => FeeTypeOK'
<1> SUFFICES ASSUME FeeTypeOK, [Next]_vars PROVE FeeTypeOK'
  OBVIOUS
<1>1. CASE FeeStep
  BY <1>1, FeeAssumption
  DEF FeeStep, FeeNext, InitAdmin, InitFee, SetFeeBps, SetFeeRecipient, DeductFee,
      ValidBps, FeeTypeOK, feeVars
<1>2. CASE UNCHANGED feeVars
  BY <1>2 DEF FeeTypeOK, feeVars
<1> QED
  BY <1>1, <1>2
  DEF Next, TreasuryStep, RecoveryStep, BreakerStep, TimePasses, DepositStep, vars

\* A fee is at most its share and at most the amount, and splitting an amount
\* never costs more, for any rates and amounts that calculate_fee accepts.
THEOREM FeesAreFair == Spec => []FeeIsFair
<1>1. Init => FeeTypeOK
  BY FeeAssumption DEF Init, FeeInit, FeeTypeOK
<1>2. FeeTypeOK => FeeIsFair
  <2> SUFFICES ASSUME FeeTypeOK, NEW x \in FeeAmount, NEW y \in FeeAmount
               PROVE  /\ FeeDefined(x) => Fee(x) \in 0..x /\ Fee(x) * MAX_BPS <= x * fee_bps
                      /\ FeeDefined(x) /\ FeeDefined(y) /\ FeeDefined(x + y)
                            => Fee(x) + Fee(y) <= Fee(x + y)
    BY DEF FeeIsFair
  <2> DEFINE b == fee_bps
             m == MAX_BPS
  <2>1. x \in Int /\ y \in Int /\ b \in Nat /\ b <= m /\ m \in Nat \ {0}
    BY FeeAssumption DEF FeeTypeOK
  <2>2. \A z : Fee(z) = (z * b) \div m
    BY DEF Fee
  <2> HIDE DEF b, m
  <2>3. ASSUME NEW z \in Nat
        PROVE  /\ Fee(z) \in Nat
               /\ m * Fee(z) <= z * b
               /\ z * b < m * Fee(z) + m
    <3>1. z * b \in Nat
      BY <2>1
    <3> QED
      BY <2>1, <2>2, <3>1, Quotient
  <2>4. ASSUME FeeDefined(x) PROVE Fee(x) \in 0..x /\ Fee(x) * m <= x * b
    <3>1. x \in Nat
      BY <2>1, <2>4 DEF FeeDefined
    <3>2. x * b <= m * x
      BY <2>1, <3>1
    <3>3. Fee(x) \in Nat /\ m * Fee(x) <= x * b
      BY <2>3, <3>1
    <3> DEFINE q == Fee(x)
    <3> HIDE DEF q
    <3>4. q \in Nat /\ m * q <= x * b
      BY <3>3 DEF q
    <3>5. m * q < m * x + m
      BY <2>1, <3>1, <3>2, <3>4
    <3>6. q <= x
      BY <2>1, <3>1, <3>4, <3>5, Cancels
    <3>7. q * m <= x * b
      BY <2>1, <3>4
    <3> QED
      BY <3>1, <3>4, <3>6, <3>7 DEF q
  <2>5. ASSUME FeeDefined(x), FeeDefined(y) PROVE Fee(x) + Fee(y) <= Fee(x + y)
    <3>1. x \in Nat /\ y \in Nat /\ x + y \in Nat
      BY <2>1, <2>5 DEF FeeDefined
    <3> DEFINE p == Fee(x)
               q == Fee(y)
               r == Fee(x + y)
    <3>2. /\ p \in Nat /\ m * p <= x * b
          /\ q \in Nat /\ m * q <= y * b
          /\ r \in Nat /\ (x + y) * b < m * r + m
      BY <2>3, <3>1
    <3> HIDE DEF p, q, r
    <3>3. (x + y) * b = x * b + y * b /\ m * (p + q) = m * p + m * q
      BY <2>1, <3>1, <3>2
    <3>4. m * (p + q) < m * r + m
      BY <2>1, <3>1, <3>2, <3>3
    <3>5. p + q <= r
      BY <2>1, <3>2, <3>4, Cancels
    <3> QED
      BY <3>5 DEF p, q, r
  <2> QED
    BY <2>4, <2>5 DEF b, m
<1> QED
  BY <1>1, <1>2, FeeTypeStep, PTL DEF Spec

=============================================================================
