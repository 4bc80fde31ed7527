---------------------------- MODULE ControlPlane ----------------------------
(***************************************************************************)
(* The administrative contract of engine-core (core/control_plane.rs): the *)
(* parameter store, the audit commitment chain every update is anchored in *)
(* (audit.rs), the ZK proof attestations (core/zk_hooks.rs), and the       *)
(* breaker.  One action is one contract invocation that returns.           *)
(*                                                                         *)
(* SHA-256 is taken to be collision free, so a state hash is modelled by   *)
(* what was hashed: the sequence of <<sequence, payload>> pairs chained so *)
(* far.  Operators prepare a commitment from what they read of the chain   *)
(* and submit it later, possibly more than once, while others do the same. *)
(***************************************************************************)
EXTENDS CircuitBreaker

CONSTANTS
    Key,               \* instance-storage keys of parameters and counters
    ParamKey,          \* those callers pass as param_key
    RESERVED_KEYS,
    KEY_PARAM_COUNT,   \* P_COUNT
    KEY_LAST_PARAM,    \* LASTPAR
    Value,             \* u64 parameter values
    Batches,           \* vectors of (key, value) somebody may submit
    Payload,           \* audited payloads
    ProofHash, ZeroProof,
    Client,            \* operator consoles that prepare commitments
    MaxSequence,       \* bound on the sequence numbers operators choose
    MaxProofs,         \* bound on attestation calls
    U64Max,
    Absent             \* a storage entry that does not exist

ASSUME ControlPlaneAssumption ==
    /\ RESERVED_KEYS \subseteq Key
    /\ ParamKey \subseteq Key
    /\ {KEY_PARAM_COUNT, KEY_LAST_PARAM} \subseteq Key
    /\ KEY_PARAM_COUNT # KEY_LAST_PARAM
    /\ Value \subseteq 0..U64Max
    /\ Batches \subseteq Seq(ParamKey \X Value)
    /\ MaxSequence \in Nat
    /\ MaxProofs \in Nat
    /\ U64Max \in Nat
    /\ Absent \notin Nat \cup Key \cup Address \cup ProofHash

VARIABLES
    admin,       \* KEY_ADMIN; Absent before initialize (KEY_INIT goes with it)
    last_seq,    \* KEY_SEQ of audit.rs
    state_hash,  \* KEY_PREV of audit.rs: everything hashed so far, <<>> for zero
    store,       \* instance storage, as far as parameter keys go
    proofs,      \* ZkProofKey::Proof: <<root, proof hash>> pairs, one per root
    zk_count,    \* KEY_PROOF_COUNT
    prepared,    \* off chain: the commitment each client holds
    counted_from \* history: <<value, length>>, the value P_COUNT was last given
                 \* and the length of the chain at that time

auditVars == <<last_seq, state_hash>>
zkVars == <<proofs, zk_count>>
vars == <<breakerVars, admin, auditVars, store, zkVars, prepared, counted_from>>

StateHash == Seq((1..MaxSequence) \X Payload)

\* StateCommitment, as far as validation reads it.
Commitment == [sequence : 1..MaxSequence, state_hash : StateHash]

TypeOK ==
    /\ BreakerTypeOK
    /\ admin \in Address \cup {Absent}
    /\ last_seq \in 0..MaxSequence
    /\ state_hash \in StateHash
    /\ store \in [Key -> 0..U64Max \cup Key \cup {Absent}]
    /\ store[KEY_PARAM_COUNT] \in 0..U64Max \cup {Absent}
    /\ \A pr \in proofs : pr[1] \in StateHash /\ pr[2] \in ProofHash
    /\ zk_count \in 0..MaxProofs
    /\ prepared \in [Client -> Commitment \cup {Absent}]
    /\ counted_from \in (0..U64Max) \X Nat

Init ==
    /\ BreakerInit
    /\ admin = Absent
    /\ last_seq = 0
    /\ state_hash = <<>>
    /\ store = [k \in Key |-> Absent]
    /\ proofs = {}
    /\ zk_count = 0
    /\ prepared = [c \in Client |-> Absent]
    /\ counted_from = <<0, 0>>

-----------------------------------------------------------------------------
(* audit.rs *)

compute_commitment(prev_hash, sequence, payload) ==
    Append(prev_hash, <<sequence, payload>>)

\* Wrong on purpose: a sequence may repeat.
integrity_check_Replay(commitment, payload) ==
    /\ commitment.sequence >= last_seq
    /\ compute_commitment(state_hash, commitment.sequence, payload)
          = commitment.state_hash

integrity_check(commitment, payload) ==
    /\ commitment.sequence > last_seq
    /\ compute_commitment(state_hash, commitment.sequence, payload)
          = commitment.state_hash

\* validate_transition_inner: check, then advance the chain head.
ValidateTransition(commitment, payload) ==
    /\ AssertClosed
    /\ integrity_check(commitment, payload)
    /\ last_seq' = commitment.sequence
    /\ state_hash' = commitment.state_hash

-----------------------------------------------------------------------------
(* Helpers of control_plane.rs *)

RequireAdmin(caller) == caller = admin

is_reserved_key(k) == k \in RESERVED_KEYS

\* increment_param_count over the store s it finds; checked_add on u64.
ParamCount(s) == IF s[KEY_PARAM_COUNT] = Absent THEN 0 ELSE s[KEY_PARAM_COUNT]
CanIncrement(s) == ParamCount(s) < U64Max
Incremented(s) == [s EXCEPT ![KEY_PARAM_COUNT] = ParamCount(s) + 1]

\* The writes of a batch, in order: the last write of a key stands.
AfterBatch(s, batch) ==
    LET writes(k) == {i \in DOMAIN batch : batch[i][1] = k}
        last(k) == CHOOSE i \in writes(k) : \A j \in writes(k) : j <= i
    IN  [k \in Key |-> IF writes(k) = {} THEN s[k] ELSE batch[last(k)][2]]

KeysOf(batch) == {batch[i][1] : i \in DOMAIN batch}

\* History: P_COUNT is not a reserved key, so an update that names it sets it.
Counts(keys, written) ==
    counted_from' = IF KEY_PARAM_COUNT \in keys
                    THEN <<ParamCount(written), Len(state_hash)>>
                    ELSE counted_from

-----------------------------------------------------------------------------
(* Entry points *)

\* The deploying account becomes administrator; the parameter counter is set.
Initialize(a) ==
    /\ admin = Absent
    /\ admin' = a
    /\ store' = [store EXCEPT ![KEY_PARAM_COUNT] = 0]
    /\ UNCHANGED <<breakerVars, auditVars, zkVars, prepared, counted_from>>

UpdateParam(caller, k, v, commitment, payload) ==
    LET written == [store EXCEPT ![k] = v, ![KEY_LAST_PARAM] = k] IN
    /\ RequireAdmin(caller)
    /\ AssertClosed
    /\ ~is_reserved_key(k)
    /\ ValidateTransition(commitment, payload)
    /\ CanIncrement(written)
    /\ store' = Incremented(written)
    /\ Counts({k}, written)
    /\ UNCHANGED <<breakerVars, admin, zkVars, prepared>>

\* Wrong on purpose: the loop over the pairs commits and counts, so an empty
\* batch is counted without a commitment; a batch is not counted.
BatchUpdateParam_EmptyFree(caller, batch, commitment, payload) ==
    LET written == AfterBatch(store, batch) IN
    /\ RequireAdmin(caller)
    /\ AssertClosed
    /\ IF batch # <<>> THEN ValidateTransition(commitment, payload)
                       ELSE UNCHANGED auditVars
    /\ \A i \in DOMAIN batch : ~is_reserved_key(batch[i][1])
    /\ CanIncrement(written)
    /\ store' = Incremented(written)
    /\ Counts(KeysOf(batch), written)
    /\ UNCHANGED <<breakerVars, admin, zkVars, prepared>>

BatchUpdateParam_NotCounted(caller, batch, commitment, payload) ==
    LET written == AfterBatch(store, batch) IN
    /\ RequireAdmin(caller)
    /\ AssertClosed
    /\ ValidateTransition(commitment, payload)
    /\ \A i \in DOMAIN batch : ~is_reserved_key(batch[i][1])
    /\ store' = written
    /\ Counts(KeysOf(batch), written)
    /\ UNCHANGED <<breakerVars, admin, zkVars, prepared>>

\* One commitment and one count for the whole batch; LASTPAR is not touched.
BatchUpdateParam(caller, batch, commitment, payload) ==
    LET written == AfterBatch(store, batch) IN
    /\ RequireAdmin(caller)
    /\ AssertClosed
    /\ ValidateTransition(commitment, payload)
    /\ \A i \in DOMAIN batch : ~is_reserved_key(batch[i][1])
    /\ CanIncrement(written)
    /\ store' = Incremented(written)
    /\ Counts(KeysOf(batch), written)
    /\ UNCHANGED <<breakerVars, admin, zkVars, prepared>>

\* Wrong on purpose: the root is not compared with the head.
RegisterProof_AnyRoot(caller, root, proof_hash) ==
    /\ RequireAdmin(caller)
    /\ last_seq # 0
    /\ proof_hash # ZeroProof
    /\ zk_count < MaxProofs
    /\ proofs' = {pr \in proofs : pr[1] # root} \cup {<<root, proof_hash>>}
    /\ zk_count' = zk_count + 1
    /\ UNCHANGED <<breakerVars, admin, auditVars, store, prepared, counted_from>>

\* zk_hooks::register_proof: only the current head, never the zero hash; an
\* earlier attestation of the same head is replaced.
RegisterProof(caller, root, proof_hash) ==
    /\ RequireAdmin(caller)
    /\ last_seq # 0
    /\ root = state_hash
    /\ proof_hash # ZeroProof
    /\ zk_count < MaxProofs
    /\ proofs' = {pr \in proofs : pr[1] # root} \cup {<<root, proof_hash>>}
    /\ zk_count' = zk_count + 1
    /\ UNCHANGED <<breakerVars, admin, auditVars, store, prepared, counted_from>>

\* init_breaker is the administrator's; trip and reset are the guardians'.
BreakerCalls ==
    /\ \/ \E gs \in GuardianLists : admin # Absent /\ InitBreaker(gs)
       \/ \E g \in Address : Trip(g)
       \/ \E g \in Address : Reset(g)
    /\ UNCHANGED <<admin, auditVars, store, zkVars, prepared, counted_from>>

-----------------------------------------------------------------------------
(* Operators, off chain.  A client reads the chain head and derives the    *)
(* next hash from it; it keeps the result until it prepares another one.   *)

Prepare(c, sequence, payload) ==
    /\ prepared' = [prepared EXCEPT ![c] =
                       [sequence   |-> sequence,
                        state_hash |-> compute_commitment(state_hash, sequence, payload)]]
    /\ UNCHANGED <<breakerVars, admin, auditVars, store, zkVars, counted_from>>

\* A client submits what it holds, with a payload of its choice.
Submit(c, payload) ==
    /\ prepared[c] # Absent
    /\ \/ \E a \in Address, k \in ParamKey, v \in Value :
             UpdateParam(a, k, v, prepared[c], payload)
       \/ \E a \in Address, b \in Batches :
             BatchUpdateParam(a, b, prepared[c], payload)

\* The roots somebody may ask to attest: any state of the chain, the zero hash
\* among them, and any state a client has prepared, accepted or not.
Roots == {SubSeq(state_hash, 1, n) : n \in 0..Len(state_hash)}
            \cup {prepared[c].state_hash : c \in {d \in Client : prepared[d] # Absent}}

Next ==
    \/ \E a \in Address : Initialize(a)
    \/ \E c \in Client, n \in 1..MaxSequence, p \in Payload : Prepare(c, n, p)
    \/ \E c \in Client, p \in Payload : Submit(c, p)
    \/ \E a \in Address, r \in Roots, h \in ProofHash : RegisterProof(a, r, h)
    \/ BreakerCalls

Spec == Init /\ [][Next]_vars

-----------------------------------------------------------------------------
(* Properties *)

IsPrefixOf(s, t) == Len(s) <= Len(t) /\ \A i \in DOMAIN s : s[i] = t[i]

\* The commitment chain is replay free: the sequence numbers it has absorbed
\* strictly increase, and KEY_SEQ is the last of them.
ChainInv ==
    /\ \A i, j \in DOMAIN state_hash : i < j => state_hash[i][1] < state_hash[j][1]
    /\ last_seq = IF state_hash = <<>> THEN 0 ELSE state_hash[Len(state_hash)][1]

\* An attestation outlives the head it was made for, but never leaves the
\* chain: each attested root is a state the contract went through, whatever
\* racing or repeated submissions came after.
ProofsOnChain ==
    /\ \A pr \in proofs : pr[1] # <<>> /\ IsPrefixOf(pr[1], state_hash)
    /\ \A p, q \in proofs : p[1] = q[1] => p = q
    /\ Cardinality(proofs) <= zk_count

\* Of the commitments prepared from the same head at most one is accepted:
\* an update goes through only if the head its author read is still the head,
\* so no operator's change silently overtakes another's.
NoLostUpdate ==
    [][state_hash' # state_hash =>
          /\ \E c \in Client :
                /\ prepared[c] # Absent
                /\ state_hash' = prepared[c].state_hash
          /\ SubSeq(state_hash', 1, Len(state_hash)) = state_hash
          /\ Len(state_hash') = Len(state_hash) + 1]_vars

\* No parameter moves off the record: after initialize, the store changes only
\* in a step that also extends the chain, a whole batch with one commitment, and
\* neither changes while the breaker is open.
UpdatesAreAnchored ==
    [][/\ admin # Absent /\ store' # store => state_hash' # state_hash
       /\ cb_state = "Open" => UNCHANGED <<store, auditVars>>]_vars

\* Together: the accepted updates form one chain, each made by somebody who knew
\* all those before it, and none is made beside the chain.
UpdatesFormOneChain == NoLostUpdate /\ UpdatesAreAnchored

\* Every commitment the chain absorbs is counted once, a batch as one, and
\* nothing else is.  P_COUNT is no reserved key (RESERVED_KEYS lacks it), so an
\* update may also set it, and the count goes on from the value it was given.
ParamCountFollowsChain ==
    ParamCount(store) = counted_from[1] + (Len(state_hash) - counted_from[2])

\* param_update_count's doc: the number of successful parameter updates, that
\* is, of the commitments the chain has absorbed.  Not so once an update has
\* written P_COUNT (MCControlPlane_pcount.cfg).
ParamCountMatchesChain == ParamCount(store) = Len(state_hash)

=============================================================================
