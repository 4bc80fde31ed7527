----------------------------- MODULE ProtocolFee ----------------------------
(***************************************************************************)
(* Protocol fees of engine-core (protocol_fee.rs): the configuration, the  *)
(* checked arithmetic and the transfer of a fee out of the contract.       *)
(***************************************************************************)
EXTENDS TokenHoldings

CONSTANTS
    MAX_BPS,
    BpsValues,      \* u32 rates somebody may pass
    Recipient,      \* addresses somebody may pass as recipient
    FeeAmount,      \* i128 amounts fees are taken of
    I128Max

ASSUME FeeAssumption ==
    /\ MAX_BPS \in Nat \ {0}
    /\ BpsValues \subseteq Nat
    /\ FeeAmount \subseteq Int
    /\ I128Max \in Nat

VARIABLES
    admin,          \* KEY_ADMIN of control_plane, "none" while absent
    fee_bps,        \* KEY_FEE_BPS; 0 while the entry is absent
    fee_recipient   \* KEY_FEE_RECIPIENT; "none" while the entry is absent

feeVars == <<admin, fee_bps, fee_recipient>>

FeeTypeOK ==
    /\ admin \in Address \cup {"none"}
    /\ fee_bps \in 0..MAX_BPS
    /\ fee_recipient \in Recipient \cup {"none"}

FeeInit ==
    /\ admin = "none"
    /\ fee_bps = 0
    /\ fee_recipient = "none"

ValidBps(bps) == bps <= MAX_BPS

\* calculate_fee: on which amounts it returns, and the fee it returns.
FeeDefined(amount) == amount >= 0 /\ amount * fee_bps <= I128Max

\* Wrong on purpose: the fee is rounded up.
Fee_RoundedUp(amount) == (amount * fee_bps + MAX_BPS - 1) \div MAX_BPS

Fee(amount) == (amount * fee_bps) \div MAX_BPS

\* init may be called again; it asks nobody.
InitFee(bps, r) ==
    /\ ValidBps(bps)
    /\ r # ZERO_ADDRESS
    /\ fee_bps' = bps
    /\ fee_recipient' = r
    /\ UNCHANGED <<held, admin>>

SetFeeBps(caller, bps) ==
    /\ caller = admin
    /\ ValidBps(bps)
    /\ fee_bps' = bps
    /\ UNCHANGED <<held, admin, fee_recipient>>

SetFeeRecipient(caller, r) ==
    /\ caller = admin
    /\ r # ZERO_ADDRESS
    /\ fee_recipient' = r
    /\ UNCHANGED <<held, admin, fee_bps>>

\* deduct_fee: a fee of zero needs neither recipient nor funds.
DeductFee(amount) ==
    /\ AssertClosed
    /\ FeeDefined(amount)
    /\ Fee(amount) > 0 => fee_recipient # "none" /\ Fee(amount) <= EventMax
    /\ Transfer(Fee(amount))
    /\ UNCHANGED feeVars

\* control_plane::init, as far as fees are concerned: the admin is set once.
InitAdmin(a) ==
    /\ admin = "none"
    /\ admin' = a
    /\ UNCHANGED <<held, fee_bps, fee_recipient>>

FeeNext ==
    \/ \E a \in Address : InitAdmin(a)
    \/ \E bps \in BpsValues, r \in Recipient : InitFee(bps, r)
    \/ \E a \in Address, bps \in BpsValues : SetFeeBps(a, bps)
    \/ \E a \in Address, r \in Recipient : SetFeeRecipient(a, r)
    \/ \E x \in FeeAmount : DeductFee(x)

-----------------------------------------------------------------------------
(* Properties *)

\* Whatever rates were set in whatever order, a fee is never more than the
\* amount nor more than the exact share of it, and whoever splits an amount
\* in two never pays more than for the whole.
FeeIsFair ==
    \A x, y \in FeeAmount :
        /\ FeeDefined(x) =>
              /\ Fee(x) \in 0..x
              /\ Fee(x) * MAX_BPS <= x * fee_bps
        /\ FeeDefined(x) /\ FeeDefined(y) /\ FeeDefined(x + y) => Fee(x) + Fee(y) <= Fee(x + y)

=============================================================================
