------------------------------ MODULE Treasury ------------------------------
(***************************************************************************)
(* Outflow time-locks and state snapshots of engine-core (treasury.rs).    *)
(* An outflow is only marked executed; no token moves here.  A snapshot is *)
(* kept as far as its id and its lifetime in temporary storage go.         *)
(***************************************************************************)
EXTENDS CircuitBreaker, Integers

CONSTANTS
    OutflowId,
    OutflowAmount,              \* i128 amounts somebody may schedule
    OUTFLOW_TIMELOCK_SECONDS,
    SNAP_TTL,                   \* lifetime of a snapshot (SNAP_TTL_EXTEND_TO)
    MaxSnapshots,               \* u64::MAX of the snapshot counter
    TimeMax                     \* u64::MAX of timestamps

ASSUME TreasuryAssumption ==
    /\ "none" \notin Address
    /\ OutflowAmount \subseteq Int
    /\ OUTFLOW_TIMELOCK_SECONDS \in Nat
    /\ SNAP_TTL \in Nat
    /\ MaxSnapshots \in Nat
    /\ TimeMax \in Nat

VARIABLES
    now,         \* env.ledger(): timestamp and sequence, one clock
    tr_admin,    \* KEY_ADMIN; "none" while the entry is absent
    outflows,    \* KEY_OUTFLOWS: id -> TimelockedOutflow
    snap_count,  \* KEY_SNAP_COUNTER and KEY_SNAP_LATEST, always set together
    snap_until,  \* temporary storage: id -> last moment the entry is alive
    out_runs     \* history: for each id, the times it was executed at

treasuryVars == <<tr_admin, outflows, snap_count, snap_until, out_runs>>

Outflow == [scheduled : BOOLEAN, requested_at : Int, executable_at : Int, executed : BOOLEAN]
NoOutflow == [scheduled |-> FALSE, requested_at |-> 0, executable_at |-> 0, executed |-> FALSE]

TreasuryTypeOK ==
    /\ now \in 0..TimeMax
    /\ tr_admin \in Address \cup {"none"}
    /\ outflows \in [OutflowId -> Outflow]
    /\ \A id \in OutflowId : outflows[id].executable_at \in 0..TimeMax
    /\ snap_count \in 0..MaxSnapshots
    /\ snap_until \in [1..MaxSnapshots -> -1..(TimeMax + SNAP_TTL)]

TreasuryInit ==
    /\ now = 0
    /\ tr_admin = "none"
    /\ outflows = [id \in OutflowId |-> NoOutflow]
    /\ snap_count = 0
    /\ snap_until = [n \in 1..MaxSnapshots |-> -1]
    /\ out_runs = [id \in OutflowId |-> {}]

InitTreasury(admin) ==
    /\ tr_admin = "none"
    /\ tr_admin' = admin
    /\ snap_count' = 0
    /\ outflows' = [id \in OutflowId |-> NoOutflow]
    /\ UNCHANGED <<snap_until, out_runs>>

\* Wrong on purpose: an id that was used before is scheduled again.
ScheduleOutflow_Again(caller, id, amount) ==
    /\ AssertClosed
    /\ caller = tr_admin
    /\ amount > 0
    /\ now + OUTFLOW_TIMELOCK_SECONDS <= TimeMax
    /\ outflows' = [outflows EXCEPT ![id] =
                       [scheduled     |-> TRUE,
                        requested_at  |-> now,
                        executable_at |-> now + OUTFLOW_TIMELOCK_SECONDS,
                        executed      |-> FALSE]]
    /\ UNCHANGED <<tr_admin, snap_count, snap_until, out_runs>>

ScheduleOutflow(caller, id, amount) ==
    /\ AssertClosed
    /\ caller = tr_admin
    /\ amount > 0
    /\ now + OUTFLOW_TIMELOCK_SECONDS <= TimeMax
    /\ ~outflows[id].scheduled
    /\ outflows' = [outflows EXCEPT ![id] =
                       [scheduled     |-> TRUE,
                        requested_at  |-> now,
                        executable_at |-> now + OUTFLOW_TIMELOCK_SECONDS,
                        executed      |-> FALSE]]
    /\ UNCHANGED <<tr_admin, snap_count, snap_until, out_runs>>

ExecuteOutflow(caller, id) ==
    /\ AssertClosed
    /\ caller = tr_admin
    /\ outflows[id].scheduled
    /\ ~outflows[id].executed
    /\ now >= outflows[id].executable_at
    /\ outflows' = [outflows EXCEPT ![id].executed = TRUE]
    /\ out_runs' = [out_runs EXCEPT ![id] = @ \cup {now}]
    /\ UNCHANGED <<tr_admin, snap_count, snap_until>>

\* Wrong on purpose: the entry is written under the id before the increment.
RecordSnapshot_OldId(caller) ==
    /\ AssertClosed
    /\ caller = tr_admin
    /\ snap_count < MaxSnapshots
    /\ snap_count' = snap_count + 1
    /\ snap_until' = [n \in 1..MaxSnapshots |->
                        IF n = snap_count THEN now + SNAP_TTL ELSE snap_until[n]]
    /\ UNCHANGED <<tr_admin, outflows, out_runs>>

\* record_snapshot of a balance that is not negative.
RecordSnapshot(caller) ==
    /\ AssertClosed
    /\ caller = tr_admin
    /\ snap_count < MaxSnapshots
    /\ snap_count' = snap_count + 1
    /\ snap_until' = [snap_until EXCEPT ![snap_count + 1] = now + SNAP_TTL]
    /\ UNCHANGED <<tr_admin, outflows, out_runs>>

\* get_snapshot and audit_trail: what temporary storage still holds.
Alive(n) == snap_until[n] >= now
audit_trail(from) ==
    LET start == IF from < 1 THEN 1 ELSE IF from > snap_count THEN snap_count ELSE from
    IN  IF snap_count = 0 THEN {} ELSE {n \in start..snap_count : Alive(n)}

TreasuryNext ==
    \/ \E a \in Address : InitTreasury(a)
    \/ \E a \in Address, id \in OutflowId, x \in OutflowAmount : ScheduleOutflow(a, id, x)
    \/ \E a \in Address, id \in OutflowId : ExecuteOutflow(a, id)
    \/ \E a \in Address : RecordSnapshot(a)

-----------------------------------------------------------------------------
(* Properties *)

\* An outflow leaves the lock at most once, and never before the full delay
\* after it was asked for: an id cannot be recycled to pay twice or to borrow
\* the age of an earlier request.
OutflowOnceAfterDelay ==
    \A id \in OutflowId :
        /\ Cardinality(out_runs[id]) <= 1
        /\ \A t \in out_runs[id] :
              /\ outflows[id].executed
              /\ t >= outflows[id].requested_at + OUTFLOW_TIMELOCK_SECONDS

\* Entries expire, so the trail shrinks; but it loses its oldest end only:
\* from any id on it is an unbroken run up to the newest snapshot.
AuditTrailHasNoHoles ==
    \A from \in 1..MaxSnapshots :
        \A n \in audit_trail(from) : (n..snap_count) \subseteq audit_trail(from)

=============================================================================
