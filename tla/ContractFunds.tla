---------------------------- MODULE ContractFunds ---------------------------
(***************************************************************************)
(* Everything in engine-core that lets value go, in one contract: the      *)
(* treasury's outflows and snapshots, emergency recovery and protocol fees *)
(* share the breaker, and the last two the contract's token balance.  One  *)
(* invocation is one step; the clock and deposits are the environment.     *)
(***************************************************************************)
EXTENDS Treasury, EmergencyRecovery, ProtocolFee

vars == <<breakerVars, now, treasuryVars, held, recoveryVars, feeVars>>

TypeOK ==
    /\ BreakerTypeOK
    /\ HoldingsTypeOK
    /\ TreasuryTypeOK
    /\ RecoveryTypeOK
    /\ FeeTypeOK

Init ==
    /\ BreakerInit
    /\ TreasuryInit
    /\ RecoveryInit
    /\ FeeInit
    /\ held = 0

TreasuryStep == TreasuryNext /\ UNCHANGED <<breakerVars, now, held, recoveryVars, feeVars>>
RecoveryStep == RecoveryNext /\ UNCHANGED <<breakerVars, now, treasuryVars, feeVars>>
FeeStep == FeeNext /\ UNCHANGED <<breakerVars, now, treasuryVars, recoveryVars>>
BreakerStep == BreakerNext /\ UNCHANGED <<now, treasuryVars, held, recoveryVars, feeVars>>

TimePasses ==
    /\ now < TimeMax
    /\ now' = now + 1
    /\ UNCHANGED <<breakerVars, treasuryVars, held, recoveryVars, feeVars>>

DepositStep == Deposit /\ UNCHANGED <<breakerVars, now, treasuryVars, recoveryVars, feeVars>>

Next ==
    \/ TreasuryStep
    \/ RecoveryStep
    \/ FeeStep
    \/ BreakerStep
    \/ TimePasses
    \/ DepositStep

Spec == Init /\ [][Next]_vars

=============================================================================
