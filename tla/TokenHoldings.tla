---------------------------- MODULE TokenHoldings ---------------------------
(***************************************************************************)
(* The token balance of the contract, which emergency recovery and         *)
(* protocol fees both pay from: the token contract as engine-core uses it. *)
(* A transfer of more than the contract holds panics, and the invocation   *)
(* it is part of leaves no trace.                                          *)
(***************************************************************************)
EXTENDS CircuitBreaker, Integers

CONSTANTS
    ZERO_ADDRESS,   \* the address both modules refuse
    EventMax,       \* u64::MAX, the largest amount an event can carry
    MaxHeld         \* bound on the balance

ASSUME HoldingsAssumption ==
    /\ EventMax \in Nat
    /\ MaxHeld \in Nat

VARIABLE held

HoldingsTypeOK == held \in 0..MaxHeld

\* token::Client::transfer out of the contract.
Transfer(amount) ==
    /\ held >= amount
    /\ held' = held - amount

\* Somebody pays the contract.
Deposit ==
    /\ held < MaxHeld
    /\ held' = held + 1

=============================================================================
