--------------------------- MODULE CircuitBreaker ---------------------------
(***************************************************************************)
(* The emergency breaker of engine-core (circuit_breaker.rs).  A contract  *)
(* invocation is one atomic step: a panic rolls every write back, so the   *)
(* only steps are the invocations that return.  The storage entry CB_GUARD *)
(* is absent exactly when cb_guardians is the empty sequence.              *)
(***************************************************************************)
EXTENDS Vectors

CONSTANTS
    Address,        \* accounts that may sign an invocation
    GuardianLists   \* guardian vectors somebody may pass to init

ASSUME GuardianListsAssumption == GuardianLists \subseteq Seq(Address)

VARIABLES
    cb_state,       \* KEY_STATE, "Closed" while the entry is absent
    cb_guardians    \* KEY_GUARDIAN

breakerVars == <<cb_state, cb_guardians>>

BreakerTypeOK ==
    /\ cb_state \in {"Closed", "Open"}
    /\ cb_guardians \in Seq(Address)

BreakerInit ==
    /\ cb_state = "Closed"
    /\ cb_guardians = <<>>

\* assert_closed: the guard of every protected entry point.
AssertClosed == cb_state = "Closed"

InitBreaker(guardians) ==
    /\ cb_guardians = <<>>
    /\ guardians # <<>>
    /\ ~HasDuplicates(guardians)
    /\ cb_state' = "Closed"
    /\ cb_guardians' = guardians

Trip(guardian) ==
    /\ guardian \in Members(cb_guardians)
    /\ cb_state # "Open"
    /\ cb_state' = "Open"
    /\ UNCHANGED cb_guardians

Reset(guardian) ==
    /\ guardian \in Members(cb_guardians)
    /\ cb_state # "Closed"
    /\ cb_state' = "Closed"
    /\ UNCHANGED cb_guardians

BreakerNext ==
    \/ \E gs \in GuardianLists : InitBreaker(gs)
    \/ \E g \in Address : Trip(g)
    \/ \E g \in Address : Reset(g)

=============================================================================
