----------------------------- MODULE Governance -----------------------------
(***************************************************************************)
(* Multi-sig governance of engine-core (governance.rs) and the upgrades it *)
(* governs (upgrade.rs), together with the breaker both consult.  Each     *)
(* public function is one action; an invocation that panics is no step.    *)
(* The reentrancy lock is taken and dropped inside one invocation, so it   *)
(* is free in every state of this module.                                  *)
(***************************************************************************)
EXTENDS CircuitBreaker, Integers

CONSTANTS
    ProposalId,        \* u64 ids proposers may choose
    Hash, ZeroHash,    \* action hashes; ZeroHash is the all-zero one
    InitialWasm,       \* the code the contract was deployed with
    SignerLists,       \* signer vectors somebody may pass to init
    Thresholds,        \* u32 thresholds somebody may pass to init
    MinStakes,         \* i128 minimum stakes somebody may pass to init
    Balances,          \* balances the stake token may report
    MAX_THRESHOLD,
    TIMELOCK_LEDGERS,
    U32Max             \* largest ledger sequence number

ASSUME GovernanceAssumption ==
    /\ IsFiniteSet(Address)
    /\ SignerLists \subseteq Seq(Address)
    /\ Thresholds \subseteq Nat
    /\ MinStakes \subseteq Int
    /\ Balances \subseteq Int
    /\ MAX_THRESHOLD \in Nat
    /\ TIMELOCK_LEDGERS \in Nat \ {0}
    /\ U32Max \in Nat
    /\ ZeroHash \in Hash

VARIABLES
    ledger,      \* env.ledger().sequence()
    signers,     \* KEY_SIGNERS; empty while the entry is absent
    threshold,   \* KEY_THRESH; 0 while the entry is absent
    min_stake,   \* KEY_MIN_STAKE; 0 while the entry is absent
    balance,     \* what the external stake token reports per account
    props,       \* KEY_PROPOSALS: id -> (Proposal, unlock_ledger)
    wasm         \* the contract's current code

configVars == <<signers, threshold, min_stake>>
govVars == <<ledger, configVars, balance, props, wasm>>
vars == <<breakerVars, govVars>>

ProposalState == {"Absent", "Pending", "Approved", "Executed"}

\* A map entry; "Absent" stands for an id the map does not contain.
Proposal == [state       : ProposalState,
             action_hash : Hash,
             proposer    : Address \cup {"none"},
             approved_by : Seq(Address),
             unlock      : 0..U32Max]

NoProposal == [state       |-> "Absent",
               action_hash |-> ZeroHash,
               proposer    |-> "none",
               approved_by |-> <<>>,
               unlock      |-> 0]

TypeOK ==
    /\ BreakerTypeOK
    /\ ledger \in 0..U32Max
    /\ signers \in Seq(Address)
    /\ threshold \in Nat
    /\ min_stake \in Int
    /\ balance \in [Address -> Int]
    /\ props \in [ProposalId -> Proposal]
    /\ wasm \in Hash \cup {InitialWasm}

Init ==
    /\ BreakerInit
    /\ ledger = 0
    /\ signers = <<>>
    /\ threshold = 0
    /\ min_stake = 0
    /\ balance \in [Address -> Balances]
    /\ props = [id \in ProposalId |-> NoProposal]
    /\ wasm = InitialWasm

-----------------------------------------------------------------------------
(* Helpers *)

\* signer_index: position of a signer in the configured vector.
SignerIndex(a) == CHOOSE i \in DOMAIN signers : signers[i] = a

\* require_stake: a zero minimum disables the gate.
StakeSufficient(a) == min_stake # 0 => balance[a] >= min_stake

\* Wrong on purpose: approvals in any order.
InSignerOrder_Any(a, approved) == TRUE

\* The signer-order rule of approve.
InSignerOrder(a, approved) ==
    approved # <<>> => SignerIndex(a) > SignerIndex(approved[Len(approved)])

-----------------------------------------------------------------------------
(* Entry points *)

\* init and init_with_stake (init_internal).  It does not ask the breaker.
InitGovernance(vec, t, stake) ==
    /\ signers = <<>>
    /\ t # 0 /\ t <= Len(vec) /\ t <= MAX_THRESHOLD
    /\ stake >= 0
    /\ ~HasDuplicates(vec)
    /\ signers' = vec
    /\ threshold' = t
    /\ min_stake' = stake
    /\ props' = [id \in ProposalId |-> NoProposal]
    /\ UNCHANGED <<breakerVars, ledger, balance, wasm>>

\* propose.  State and approvals of the submitted value are overwritten.
Propose(a, id, h) ==
    /\ AssertClosed
    /\ a \in Members(signers)
    /\ props[id].state = "Absent"
    /\ ledger + TIMELOCK_LEDGERS <= U32Max
    /\ props' = [props EXCEPT ![id] = [state       |-> "Pending",
                                       action_hash |-> h,
                                       proposer    |-> a,
                                       approved_by |-> <<>>,
                                       unlock      |-> ledger + TIMELOCK_LEDGERS]]
    /\ UNCHANGED <<breakerVars, ledger, configVars, balance, wasm>>

\* Everything approve requires before it records the approval.
CanApprove(a, id) ==
    /\ AssertClosed
    /\ a \in Members(signers)
    /\ StakeSufficient(a)
    /\ props[id].state = "Pending"
    /\ a \notin Members(props[id].approved_by)
    /\ InSignerOrder(a, props[id].approved_by)
    /\ threshold # 0

\* Wrong on purpose: one approval more than the threshold is waited for.
ApproveBelowQuorum_OneMore(a, id) ==
    /\ CanApprove(a, id)
    /\ Len(props[id].approved_by) + 1 <= threshold
    /\ props' = [props EXCEPT ![id].approved_by = Append(@, a)]
    /\ UNCHANGED <<breakerVars, ledger, configVars, balance, wasm>>

ApproveBelowQuorum(a, id) ==
    /\ CanApprove(a, id)
    /\ Len(props[id].approved_by) + 1 < threshold
    /\ props' = [props EXCEPT ![id].approved_by = Append(@, a)]
    /\ UNCHANGED <<breakerVars, ledger, configVars, balance, wasm>>

\* The approval that completes the quorum restarts the timelock.
ApproveReachesQuorum(a, id) ==
    /\ CanApprove(a, id)
    /\ Len(props[id].approved_by) + 1 >= threshold
    /\ ledger + TIMELOCK_LEDGERS <= U32Max
    /\ props' = [props EXCEPT ![id].approved_by = Append(@, a),
                              ![id].state = "Approved",
                              ![id].unlock = ledger + TIMELOCK_LEDGERS]
    /\ UNCHANGED <<breakerVars, ledger, configVars, balance, wasm>>

\* Wrong on purpose: no timelock; the quorum off by one; no check of Executed.
MarkExecuted_NoTimelock(id) ==
    /\ AssertClosed
    /\ props[id].state = "Approved"
    /\ Len(props[id].approved_by) >= threshold
    /\ props' = [props EXCEPT ![id].state = "Executed"]

MarkExecuted_MoreThanQuorum(id) ==
    /\ AssertClosed
    /\ props[id].state = "Approved"
    /\ Len(props[id].approved_by) > threshold
    /\ ledger >= props[id].unlock
    /\ props' = [props EXCEPT ![id].state = "Executed"]

MarkExecuted_Again(id) ==
    /\ AssertClosed
    /\ props[id].state \in {"Approved", "Executed"}
    /\ Len(props[id].approved_by) >= threshold
    /\ ledger >= props[id].unlock
    /\ props' = [props EXCEPT ![id].state = "Executed"]

\* The body of execute, which upgrade runs as well.
MarkExecuted(id) ==
    /\ AssertClosed
    /\ props[id].state = "Approved"
    /\ Len(props[id].approved_by) >= threshold
    /\ ledger >= props[id].unlock
    /\ props' = [props EXCEPT ![id].state = "Executed"]

Execute(id) ==
    /\ MarkExecuted(id)
    /\ UNCHANGED <<breakerVars, ledger, configVars, balance, wasm>>

\* upgrade.rs: the proposal must have been raised for exactly this code.
Upgrade(id, new_wasm_hash) ==
    /\ new_wasm_hash # ZeroHash
    /\ props[id].action_hash = new_wasm_hash
    /\ MarkExecuted(id)
    /\ wasm' = new_wasm_hash
    /\ UNCHANGED <<breakerVars, ledger, configVars, balance>>

-----------------------------------------------------------------------------
(* Environment *)

CloseLedger ==
    /\ ledger < U32Max
    /\ ledger' = ledger + 1
    /\ UNCHANGED <<breakerVars, configVars, balance, props, wasm>>

\* The stake token is a contract of its own: balances move at any time.
StakeMoves(a, b) ==
    /\ balance[a] # b
    /\ balance' = [balance EXCEPT ![a] = b]
    /\ UNCHANGED <<breakerVars, ledger, configVars, props, wasm>>

Breaker == BreakerNext /\ UNCHANGED govVars

Next ==
    \/ \E vec \in SignerLists, t \in Thresholds, m \in MinStakes :
          InitGovernance(vec, t, m)
    \/ \E a \in Address, id \in ProposalId, h \in Hash : Propose(a, id, h)
    \/ \E a \in Address, id \in ProposalId : ApproveBelowQuorum(a, id)
    \/ \E a \in Address, id \in ProposalId : ApproveReachesQuorum(a, id)
    \/ \E id \in ProposalId : Execute(id)
    \/ \E id \in ProposalId, h \in Hash : Upgrade(id, h)
    \/ CloseLedger
    \/ \E a \in Address, b \in Balances : StakeMoves(a, b)
    \/ Breaker

Spec == Init /\ [][Next]_vars

-----------------------------------------------------------------------------
(* Fairness.  Ledgers close for ever, and execute needs no signature, so   *)
(* anybody who wants a proposal carried out keeps submitting it.           *)

FairSpec ==
    /\ Spec
    /\ WF_vars(CloseLedger)
    /\ \A id \in ProposalId : WF_vars(Execute(id))

-----------------------------------------------------------------------------
(* Properties *)

\* The approvals of a proposal, as a set, in configured signer order: each
\* entry sits strictly later in the signer vector than the entry before it.
OrderedBySigner(approved) ==
    \A i, j \in DOMAIN approved :
        i < j => SignerIndex(approved[i]) < SignerIndex(approved[j])

\* A proposal's phase and its approval list always agree: a Pending one is
\* short of the quorum, an Approved or Executed one has exactly as many
\* approvals as the threshold asks for, all of configured signers and no
\* signer twice (approve pushes and compares a vector length; what counts is
\* the number of different people behind it).
QuorumInv ==
    \A id \in ProposalId :
        LET p == props[id] IN
        /\ p.state = "Absent" => p.approved_by = <<>>
        /\ p.state = "Pending" => Len(p.approved_by) < threshold
        /\ p.state \in {"Approved", "Executed"} =>
              /\ threshold > 0
              /\ Cardinality(Members(p.approved_by)) = threshold
        /\ Members(p.approved_by) \subseteq Members(signers)

\* The inductive strengthening of QuorumInv: what a vector length says about
\* the number of different approvers, and that no proposal precedes init.
EntryInv(p) ==
    /\ IsFiniteSet(Members(p.approved_by))
    /\ Cardinality(Members(p.approved_by)) = Len(p.approved_by)
    /\ Members(p.approved_by) \subseteq Members(signers)
    /\ p.state = "Absent" => p = NoProposal
    /\ p.state = "Pending" => Len(p.approved_by) < threshold
    /\ p.state \in {"Approved", "Executed"} => Len(p.approved_by) = threshold
    /\ p.state # "Absent" => threshold > 0

ApprovalInv ==
    /\ signers = <<>> <=> threshold = 0
    /\ \A id \in ProposalId : EntryInv(props[id])

\* The doc comment of approve: the same approval set always yields the same
\* audit trail.  Two proposals backed by the same people, whatever the order
\* in which those people tried, carry the same approval vector.
SameApproversSameTrail ==
    \A id1, id2 \in ProposalId :
        LET p == props[id1].approved_by
            q == props[id2].approved_by
        IN  Members(p) = Members(q) => p = q

\* Code that runs was voted for: whenever the contract is not on its first
\* code, an Executed proposal was raised for exactly that hash, and its
\* timelock has run out.
WasmWasApproved ==
    wasm # InitialWasm =>
        \E id \in ProposalId :
            /\ props[id].state = "Executed"
            /\ props[id].action_hash = wasm
            /\ Cardinality(Members(props[id].approved_by)) >= threshold
            /\ ledger >= props[id].unlock

\* The record can be audited: what the contract has stored explains the code it
\* runs, tells the same story of the same approvers, and stays within its words.
RecordIsAuditable == TypeOK /\ SameApproversSameTrail /\ WasmWasApproved

\* One quorum carries out one upgrade: every change of code consumes a
\* proposal that was Approved, and consumes no other.
UpgradeConsumesProposal ==
    [][wasm' # wasm =>
          \E id \in ProposalId :
              /\ props[id].state = "Approved"
              /\ props' = [props EXCEPT ![id].state = "Executed"]
              /\ props[id].action_hash = wasm']_vars

\* An open breaker halts governance: no proposal is raised, approved or
\* executed and the code stays as it is, whatever anybody submits.
OpenBreakerHalts ==
    [][cb_state = "Open" => UNCHANGED <<props, wasm>>]_vars

\* Quorum by different voters, delay counted from the vote that completed the
\* quorum, at most one execution, nothing while halted: the contract
\* implements Multisig.  The delay is kept as an absolute ledger number, so
\* "since" is read back from it.
Abs == INSTANCE Multisig WITH
    Voter  <- Address,
    Item   <- ProposalId,
    Delay  <- TIMELOCK_LEDGERS,
    now    <- ledger,
    halted <- (cb_state = "Open"),
    quorum <- threshold,
    phase  <- [id \in ProposalId |-> props[id].state],
    votes  <- [id \in ProposalId |-> Members(props[id].approved_by)],
    since  <- [id \in ProposalId |->
                 IF props[id].state \in {"Approved", "Executed"}
                 THEN props[id].unlock - TIMELOCK_LEDGERS
                 ELSE 0]

ImplementsMultisig == Abs!Spec

\* If the guardians leave the breaker closed from some point on, everything
\* that reached its quorum is executed: no approved proposal is stranded by
\* the timelock arithmetic or by a later proposal.
ApprovedIsExecuted ==
    <>[](cb_state = "Closed") =>
        \A id \in ProposalId :
            props[id].state = "Approved" ~> props[id].state = "Executed"

\* PROPOSAL_STATE_FSM.md says a Pending proposal lasts until approve() has
\* been called enough times: signers that may still approve must be able to
\* complete the quorum.
PendingCanStillPass ==
    \A id \in ProposalId :
        props[id].state = "Pending" =>
            Len(props[id].approved_by)
              + Cardinality({a \in Members(signers) \ Members(props[id].approved_by) :
                                InSignerOrder(a, props[id].approved_by)})
            >= threshold

=============================================================================
