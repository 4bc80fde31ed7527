-------------------------- MODULE EmergencyRecovery -------------------------
(***************************************************************************)
(* The emergency exit of engine-core (emergency_recovery.rs): one pending  *)
(* request at a time, replaced by every new one, paid as soon as enough    *)
(* admins have signed for it.  The payment is part of the invocation that  *)
(* completes the quorum: if the transfer fails, nothing has happened.      *)
(***************************************************************************)
EXTENDS TokenHoldings

CONSTANTS
    AdminLists,     \* vectors somebody may pass to init
    RecThresholds,  \* thresholds somebody may pass to init
    Dest,           \* destinations
    RecAmount,      \* i128 amounts somebody may request
    MaxRequests     \* bound on requests

ASSUME RecoveryAssumption ==
    /\ AdminLists \subseteq Seq(Address \cup {ZERO_ADDRESS})
    /\ RecThresholds \subseteq Nat
    /\ RecAmount \subseteq Int
    /\ MaxRequests \in Nat

VARIABLES
    er_admins, er_threshold,
    er_approvals,  \* KEY_APPROVALS
    er_pending,    \* KEY_DEST and KEY_AMOUNT as <<dest, amount>>, or <<>>
    er_number,     \* history: requests made so far
    er_signed,     \* history: <<admin, request number>> for each signature
    er_paid        \* history: for each request, how often it was paid

recoveryConfig == <<er_admins, er_threshold>>
recoveryVars == <<recoveryConfig, er_approvals, er_pending, er_number, er_signed, er_paid>>

RecoveryTypeOK ==
    /\ er_admins \in Seq(Address)
    /\ er_threshold \in Nat
    /\ er_approvals \in Seq(Address)
    /\ er_pending = <<>> \/ er_pending \in Dest \X (1..EventMax)
    /\ er_number \in 0..MaxRequests
    /\ er_signed \subseteq Address \X (1..MaxRequests)
    /\ er_paid \in [1..MaxRequests -> Nat]

RecoveryInit ==
    /\ er_admins = <<>>
    /\ er_threshold = 0
    /\ er_approvals = <<>>
    /\ er_pending = <<>>
    /\ er_number = 0
    /\ er_signed = {}
    /\ er_paid = [n \in 1..MaxRequests |-> 0]

InitRecovery(admins, t) ==
    /\ er_admins = <<>>
    /\ t # 0 /\ t <= Len(admins)
    /\ ~HasDuplicates(admins)
    /\ ZERO_ADDRESS \notin Members(admins)
    /\ er_admins' = admins
    /\ er_threshold' = t
    /\ er_approvals' = <<>>
    /\ er_pending' = <<>>
    /\ UNCHANGED <<held, er_number, er_signed, er_paid>>

\* The common end of request and approve: pay when enough have signed
\* (execute_recovery, clear_pending), else wait for the next one.
Settle(approvals, pending, n) ==
    IF Len(approvals) >= er_threshold
    THEN /\ Transfer(pending[2])
         /\ er_paid' = [er_paid EXCEPT ![n] = @ + 1]
         /\ er_approvals' = <<>>
         /\ er_pending' = <<>>
    ELSE /\ er_approvals' = approvals
         /\ er_pending' = pending
         /\ UNCHANGED <<held, er_paid>>

\* Wrong on purpose: signatures for the request that is replaced are kept.
RequestRecovery_KeepsApprovals(a, dest, amount) ==
    /\ AssertClosed
    /\ a \in Members(er_admins)
    /\ a \notin Members(er_approvals)
    /\ dest # ZERO_ADDRESS
    /\ amount > 0 /\ amount <= EventMax
    /\ er_number < MaxRequests
    /\ er_number' = er_number + 1
    /\ er_signed' = er_signed \cup {<<a, er_number + 1>>}
    /\ Settle(Append(er_approvals, a), <<dest, amount>>, er_number + 1)
    /\ UNCHANGED recoveryConfig

RequestRecovery(a, dest, amount) ==
    /\ AssertClosed
    /\ a \in Members(er_admins)
    /\ dest # ZERO_ADDRESS
    /\ amount > 0 /\ amount <= EventMax
    /\ er_number < MaxRequests
    /\ er_number' = er_number + 1
    /\ er_signed' = er_signed \cup {<<a, er_number + 1>>}
    /\ Settle(<<a>>, <<dest, amount>>, er_number + 1)
    /\ UNCHANGED recoveryConfig

ApproveRecovery(a) ==
    /\ AssertClosed
    /\ a \in Members(er_admins)
    /\ er_pending # <<>>
    /\ a \notin Members(er_approvals)
    /\ er_signed' = er_signed \cup {<<a, er_number>>}
    /\ Settle(Append(er_approvals, a), er_pending, er_number)
    /\ UNCHANGED <<recoveryConfig, er_number>>

RecoveryNext ==
    \/ \E as \in AdminLists, t \in RecThresholds : InitRecovery(as, t)
    \/ \E a \in Address, d \in Dest, x \in RecAmount : RequestRecovery(a, d, x)
    \/ \E a \in Address : ApproveRecovery(a)

-----------------------------------------------------------------------------
(* Properties *)

\* A request is paid at most once, and only if a quorum of different admins
\* signed for that very request: signatures given to a request that was
\* replaced never count for its successor, nor for the next one after payment.
PaidByOwnQuorum ==
    \A n \in 1..MaxRequests :
        /\ er_paid[n] <= 1
        /\ er_paid[n] = 1 =>
              Cardinality({a \in Members(er_admins) : <<a, n>> \in er_signed}) >= er_threshold

\* A pending request is always short of its quorum: there is no state in which
\* everybody has signed and nobody is left to trigger the payment, also after
\* payments that failed for want of funds.
PendingWaitsForSomebody ==
    er_pending # <<>> =>
        /\ Len(er_approvals) < er_threshold
        /\ Members(er_admins) \ Members(er_approvals) # {}

\* Every request is paid for by its own signatures, and short of them it can
\* still get them: the two ways in which approvals and requests could come
\* apart, too many and too few.
ApprovalsFitRequests == PaidByOwnQuorum /\ PendingWaitsForSomebody

=============================================================================
