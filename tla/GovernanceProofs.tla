-------------------------- MODULE GovernanceProofs --------------------------
(***************************************************************************)
(* Theorems about Governance for every choice of its constants: any signer *)
(* vectors, thresholds, stakes, timelock and number of proposals.          *)
(***************************************************************************)
EXTENDS Governance, CommonLemmas

-----------------------------------------------------------------------------
(* Type correctness *)

\* Every action keeps the variables in their types; in particular the
\* timelock arithmetic of propose and approve never leaves u32.
LEMMA TypeStep == TypeOK /\ [Next]_vars => TypeOK'
<1> SUFFICES ASSUME TypeOK, [Next]_vars PROVE TypeOK'
  OBVIOUS
<1> USE GovernanceAssumption, GuardianListsAssumption
<1>1. ASSUME NEW vec \in SignerLists, NEW t \in Thresholds, NEW m \in MinStakes,
             InitGovernance(vec, t, m)
      PROVE  TypeOK'
  <2>1. NoProposal \in Proposal
    BY DEF NoProposal, Proposal, ProposalState, GovernanceAssumption
  <2>2. props' \in [ProposalId -> Proposal]
    BY <1>1, <2>1 DEF InitGovernance
  <2>3. vec \in Seq(Address) /\ t \in Nat /\ m \in Int
    BY <1>1 DEF InitGovernance, GovernanceAssumption
  <2> QED
    BY <1>1, <2>2, <2>3 DEF InitGovernance, TypeOK, BreakerTypeOK, breakerVars
<1>2. ASSUME NEW a \in Address, NEW id \in ProposalId, NEW h \in Hash,
             Propose(a, id, h)
      PROVE  TypeOK'
  <2>1. ledger + TIMELOCK_LEDGERS \in 0..U32Max
    BY <1>2 DEF Propose, TypeOK
  <2>2. [state |-> "Pending", action_hash |-> h, proposer |-> a,
         approved_by |-> <<>>, unlock |-> ledger + TIMELOCK_LEDGERS] \in Proposal
    BY <2>1 DEF Proposal, ProposalState
  <2> QED
    BY <1>2, <2>2 DEF Propose, TypeOK, BreakerTypeOK, breakerVars, configVars
<1>3. ASSUME NEW a \in Address, NEW id \in ProposalId, ApproveBelowQuorum(a, id)
      PROVE  TypeOK'
  <2>1. Append(props[id].approved_by, a) \in Seq(Address)
    BY DEF TypeOK, Proposal
  <2>2. [props[id] EXCEPT !.approved_by = Append(props[id].approved_by, a)] \in Proposal
    BY <2>1 DEF TypeOK, Proposal
  <2>3. props' = [props EXCEPT ![id] = [props[id] EXCEPT !.approved_by = Append(props[id].approved_by, a)]]
    BY <1>3 DEF ApproveBelowQuorum, TypeOK
  <2> QED
    BY <1>3, <2>2, <2>3
    DEF ApproveBelowQuorum, TypeOK, BreakerTypeOK, breakerVars, configVars
<1>4. ASSUME NEW a \in Address, NEW id \in ProposalId, ApproveReachesQuorum(a, id)
      PROVE  TypeOK'
  <2>1. Append(props[id].approved_by, a) \in Seq(Address)
    BY DEF TypeOK, Proposal
  <2>2. ledger + TIMELOCK_LEDGERS \in 0..U32Max
    BY <1>4 DEF ApproveReachesQuorum, TypeOK
  <2>3. [props[id] EXCEPT !.approved_by = Append(props[id].approved_by, a),
                          !.state = "Approved",
                          !.unlock = ledger + TIMELOCK_LEDGERS] \in Proposal
    BY <2>1, <2>2 DEF TypeOK, Proposal, ProposalState
  <2>4. props' = [props EXCEPT ![id] =
                     [props[id] EXCEPT !.approved_by = Append(props[id].approved_by, a),
                                       !.state = "Approved",
                                       !.unlock = ledger + TIMELOCK_LEDGERS]]
    BY <1>4 DEF ApproveReachesQuorum, TypeOK, Proposal
  <2> QED
    BY <1>4, <2>3, <2>4
    DEF ApproveReachesQuorum, TypeOK, BreakerTypeOK, breakerVars, configVars
<1>5. ASSUME NEW id \in ProposalId, MarkExecuted(id)
      PROVE  props' \in [ProposalId -> Proposal]
  <2>1. [props[id] EXCEPT !.state = "Executed"] \in Proposal
    BY DEF TypeOK, Proposal, ProposalState
  <2>2. props' = [props EXCEPT ![id] = [props[id] EXCEPT !.state = "Executed"]]
    BY <1>5 DEF MarkExecuted, TypeOK
  <2> QED
    BY <2>1, <2>2 DEF TypeOK
<1>6. ASSUME NEW id \in ProposalId, Execute(id)
      PROVE  TypeOK'
  BY <1>5, <1>6 DEF Execute, TypeOK, BreakerTypeOK, breakerVars, configVars
<1>7. ASSUME NEW id \in ProposalId, NEW h \in Hash, Upgrade(id, h)
      PROVE  TypeOK'
  BY <1>5, <1>7 DEF Upgrade, TypeOK, BreakerTypeOK, breakerVars, configVars
<1>8. CASE CloseLedger
  BY <1>8 DEF CloseLedger, TypeOK, BreakerTypeOK, breakerVars, configVars
<1>9. ASSUME NEW a \in Address, NEW b \in Balances, StakeMoves(a, b)
      PROVE  TypeOK'
  BY <1>9 DEF StakeMoves, TypeOK, BreakerTypeOK, breakerVars, configVars
<1>10. CASE Breaker
  BY <1>10 DEF Breaker, BreakerNext, InitBreaker, Trip, Reset, TypeOK,
               BreakerTypeOK, govVars, configVars
<1>11. CASE UNCHANGED vars
  BY <1>11 DEF vars, breakerVars, govVars, configVars, TypeOK, BreakerTypeOK
<1> QED
  BY <1>1, <1>2, <1>3, <1>4, <1>6, <1>7, <1>8, <1>9, <1>10, <1>11 DEF Next

\* Type correctness of governance, for every value of the constants.
THEOREM TypeCorrect == Spec => []TypeOK
<1>1. ASSUME Init PROVE TypeOK
  <2>1. NoProposal \in Proposal
    BY GovernanceAssumption DEF NoProposal, Proposal, ProposalState
  <2>2. balance \in [Address -> Int]
    BY <1>1, GovernanceAssumption DEF Init
  <2> QED
    BY <1>1, <2>1, <2>2, GovernanceAssumption DEF Init, BreakerInit, TypeOK, BreakerTypeOK
<1> QED
  BY <1>1, TypeStep, PTL DEF Spec

-----------------------------------------------------------------------------
(* Quorums are made of different signers *)

\* Recording one approval of a signer that has not approved yet: the vector
\* and the set of approvers grow together.
LEMMA ApprovalCounts ==
    ASSUME TypeOK, ApprovalInv, NEW id \in ProposalId, NEW a \in Members(signers),
           a \notin Members(props[id].approved_by), a \in Address,
           NEW q, q = Append(props[id].approved_by, a)
    PROVE  /\ IsFiniteSet(Members(q))
           /\ Cardinality(Members(q)) = Len(q)
           /\ Members(q) \subseteq Members(signers)
           /\ Len(q) = Len(props[id].approved_by) + 1
           /\ Members(q) = Members(props[id].approved_by) \cup {a}
<1> DEFINE p == props[id].approved_by
<1>1. p \in Seq(Address)
  BY DEF TypeOK, Proposal
<1>2. Members(q) = Members(p) \cup {a}
  BY <1>1, MembersAppend
<1>3. /\ IsFiniteSet(Members(p))
      /\ Cardinality(Members(p)) = Len(p)
      /\ Members(p) \subseteq Members(signers)
  BY DEF ApprovalInv, EntryInv
<1>4. Len(q) = Len(p) + 1
  BY <1>1
<1>5. /\ IsFiniteSet(Members(p) \cup {a})
      /\ Cardinality(Members(p) \cup {a}) = Len(p) + 1
  BY <1>3, FS_AddElement
<1> QED
  BY <1>2, <1>3, <1>4, <1>5

\* A step that changes at most one proposal and no configuration.
LEMMA OneProposal ==
    ASSUME ApprovalInv, UNCHANGED <<threshold, signers>>, NEW id \in ProposalId,
           \A i \in ProposalId \ {id} : props'[i] = props[i],
           EntryInv(props[id])'
    PROVE  ApprovalInv'
<1>1. ASSUME NEW i \in ProposalId, i # id PROVE EntryInv(props[i])'
  BY <1>1 DEF ApprovalInv, EntryInv
<1> QED
  BY <1>1 DEF ApprovalInv

\* A step that touches neither proposals, threshold nor signers.
LEMMA ApprovalFrame ==
    ASSUME ApprovalInv, UNCHANGED <<props, threshold, signers>>
    PROVE  ApprovalInv'
<1>1. ASSUME NEW i \in ProposalId PROVE EntryInv(props[i])'
  <2>1. EntryInv(props[i])
    BY DEF ApprovalInv
  <2>2. props'[i] = props[i]
    OBVIOUS
  <2> QED
    BY <2>1, <2>2 DEF EntryInv
<1> QED
  BY <1>1 DEF ApprovalInv

\* The entry propose writes.
LEMMA EmptyApprovals ==
    /\ Len(<<>>) = 0
    /\ Members(<<>>) = {}
    /\ IsFiniteSet(Members(<<>>))
    /\ Cardinality(Members(<<>>)) = 0
BY MembersEmpty, FS_EmptySet

\* Every action keeps the strengthened invariant.
LEMMA ApprovalStep == TypeOK /\ ApprovalInv /\ [Next]_vars => ApprovalInv'
<1> SUFFICES ASSUME TypeOK, ApprovalInv, [Next]_vars PROVE ApprovalInv'
  OBVIOUS
<1> USE GovernanceAssumption
<1>1. ASSUME NEW vec \in SignerLists, NEW t \in Thresholds, NEW m \in MinStakes,
             InitGovernance(vec, t, m)
      PROVE  ApprovalInv'
  <2>1. signers' # <<>> /\ threshold' > 0
    BY <1>1 DEF InitGovernance
  <2>2. \A id \in ProposalId : props'[id] = NoProposal
    BY <1>1 DEF InitGovernance
  <2>3. \A id \in ProposalId : EntryInv(props[id])'
    BY <2>1, <2>2, EmptyApprovals DEF EntryInv, NoProposal
  <2> QED
    BY <2>1, <2>3 DEF ApprovalInv
<1>2. ASSUME NEW a \in Address, NEW id \in ProposalId, NEW h \in Hash,
             Propose(a, id, h)
      PROVE  ApprovalInv'
  <2>1. /\ threshold > 0
        /\ UNCHANGED <<signers, threshold>>
    BY <1>2, MembersEmpty DEF Propose, configVars, TypeOK, ApprovalInv
  <2>2. /\ props'[id].state = "Pending"
        /\ props'[id].approved_by = <<>>
        /\ \A i \in ProposalId \ {id} : props'[i] = props[i]
    BY <1>2 DEF Propose, TypeOK
  <2>3. EntryInv(props[id])'
    BY <2>1, <2>2, EmptyApprovals DEF EntryInv
  <2> QED
    BY <2>1, <2>2, <2>3, OneProposal
<1>3. ASSUME NEW a \in Address, NEW id \in ProposalId,
             ApproveBelowQuorum(a, id) \/ ApproveReachesQuorum(a, id)
      PROVE  ApprovalInv'
  <2> DEFINE q == Append(props[id].approved_by, a)
  <2>1. /\ UNCHANGED <<signers, threshold>>
        /\ a \in Members(signers)
        /\ a \notin Members(props[id].approved_by)
        /\ props[id].state = "Pending"
        /\ Len(props[id].approved_by) \in Nat
        /\ threshold \in Nat
    BY <1>3 DEF ApproveBelowQuorum, ApproveReachesQuorum, CanApprove, configVars,
                TypeOK, Proposal
  <2>2. /\ IsFiniteSet(Members(q))
        /\ Cardinality(Members(q)) = Len(q)
        /\ Members(q) \subseteq Members(signers)
        /\ Len(q) = Len(props[id].approved_by) + 1
    BY <2>1, ApprovalCounts
  <2>3. /\ props'[id].approved_by = q
        /\ \A i \in ProposalId \ {id} : props'[i] = props[i]
    <3>1. CASE ApproveBelowQuorum(a, id)
      BY <3>1 DEF ApproveBelowQuorum, TypeOK, Proposal
    <3>2. CASE ApproveReachesQuorum(a, id)
      BY <3>2 DEF ApproveReachesQuorum, TypeOK, Proposal
    <3> QED
      BY <1>3, <3>1, <3>2
  <2>4. Len(props[id].approved_by) < threshold
    BY <2>1 DEF ApprovalInv, EntryInv
  <2>5. \/ props'[id].state = "Pending" /\ Len(q) < threshold
        \/ props'[id].state = "Approved" /\ Len(q) = threshold
    BY <1>3, <2>1, <2>2, <2>4
    DEF ApproveBelowQuorum, ApproveReachesQuorum, TypeOK, Proposal
  <2>6. EntryInv(props[id])'
    <3> HIDE DEF q
    <3>1. Members(signers') = Members(signers)
      BY <2>1
    <3> QED
      BY <2>1, <2>2, <2>3, <2>4, <2>5, <3>1 DEF EntryInv
  <2> QED
    BY <2>1, <2>3, <2>6, OneProposal
<1>4. ASSUME NEW id \in ProposalId, MarkExecuted(id), UNCHANGED <<signers, threshold>>
      PROVE  ApprovalInv'
  <2>1. /\ props[id].state = "Approved"
        /\ props'[id].state = "Executed"
        /\ props'[id].approved_by = props[id].approved_by
        /\ \A i \in ProposalId \ {id} : props'[i] = props[i]
    BY <1>4 DEF MarkExecuted, TypeOK, Proposal
  <2>2. EntryInv(props[id])'
    BY <1>4, <2>1 DEF ApprovalInv, EntryInv
  <2> QED
    BY <1>4, <2>1, <2>2, OneProposal
<1>5. ASSUME NEW id \in ProposalId, Execute(id)
      PROVE  ApprovalInv'
  BY <1>4, <1>5 DEF Execute, configVars
<1>6. ASSUME NEW id \in ProposalId, NEW h \in Hash, Upgrade(id, h)
      PROVE  ApprovalInv'
  BY <1>4, <1>6 DEF Upgrade, configVars
<1>7. CASE CloseLedger
  BY <1>7, ApprovalFrame DEF CloseLedger, configVars
<1>8. ASSUME NEW a \in Address, NEW b \in Balances, StakeMoves(a, b)
      PROVE  ApprovalInv'
  BY <1>8, ApprovalFrame DEF StakeMoves, configVars
<1>9. CASE Breaker
  BY <1>9, ApprovalFrame DEF Breaker, govVars, configVars
<1>10. CASE UNCHANGED vars
  BY <1>10, ApprovalFrame DEF vars, govVars, configVars
<1> QED
  BY <1>1, <1>2, <1>3, <1>5, <1>6, <1>7, <1>8, <1>9, <1>10 DEF Next

\* The strengthened invariant holds in every reachable state.
THEOREM ApprovalsCorrect == Spec => []ApprovalInv
<1>1. ASSUME Init PROVE ApprovalInv
  <2>1. \A id \in ProposalId : props[id] = NoProposal
    BY <1>1 DEF Init
  <2> QED
    BY <1>1, <2>1, EmptyApprovals DEF Init, ApprovalInv, EntryInv, NoProposal
<1> QED
  BY <1>1, ApprovalStep, TypeCorrect, PTL DEF Spec

\* What passed was backed by exactly threshold different configured signers,
\* and what is pending was not, for any signer set and any threshold.
THEOREM QuorumCorrect == Spec => []QuorumInv
<1>1. TypeOK /\ ApprovalInv => QuorumInv
  BY DEF ApprovalInv, EntryInv, QuorumInv, TypeOK, NoProposal
<1> QED
  BY <1>1, ApprovalsCorrect, TypeCorrect, PTL

-----------------------------------------------------------------------------
(* The breaker halts governance *)

\* While the breaker is open no proposal and no code changes: every action
\* that writes them asks assert_closed, except init, which only ever runs
\* over an empty proposal map.
THEOREM BreakerHaltsGovernance == Spec => OpenBreakerHalts
<1>1. ASSUME TypeOK, ApprovalInv, [Next]_vars, cb_state = "Open"
      PROVE  UNCHANGED <<props, wasm>>
  <2>1. ASSUME NEW vec \in SignerLists, NEW t \in Thresholds, NEW m \in MinStakes,
               InitGovernance(vec, t, m)
        PROVE  UNCHANGED <<props, wasm>>
    <3>1. threshold = 0
      BY <1>1, <2>1 DEF InitGovernance, ApprovalInv
    <3>2. \A id \in ProposalId : props[id] = NoProposal
      BY <1>1, <3>1 DEF ApprovalInv, TypeOK, EntryInv
    <3> QED
      BY <1>1, <2>1, <3>2 DEF InitGovernance, TypeOK
  <2>2. ~AssertClosed
    BY <1>1 DEF AssertClosed
  <2> QED
    BY <1>1, <2>1, <2>2
    DEF Next, Propose, ApproveBelowQuorum, ApproveReachesQuorum, CanApprove,
        MarkExecuted, Execute, Upgrade, CloseLedger, StakeMoves, Breaker, govVars, vars
<1> QED
  BY <1>1, ApprovalsCorrect, TypeCorrect, PTL DEF Spec, OpenBreakerHalts

-----------------------------------------------------------------------------
(* The record can be audited *)

TrailsOrdered == \A id \in ProposalId : OrderedBySigner(props[id].approved_by)

\* Every action keeps approvals in the order of the signer vector: approve
\* compares with the last approval only, and all others lie below that one.
LEMMA OrderStep == TypeOK /\ ApprovalInv /\ TrailsOrdered /\ [Next]_vars => TrailsOrdered'
<1> SUFFICES ASSUME TypeOK, ApprovalInv, TrailsOrdered, [Next]_vars PROVE TrailsOrdered'
  OBVIOUS
<1>1. ASSUME NEW vec \in SignerLists, NEW t \in Thresholds, NEW m \in MinStakes,
             InitGovernance(vec, t, m)
      PROVE  TrailsOrdered'
  BY <1>1 DEF InitGovernance, TrailsOrdered, OrderedBySigner, NoProposal
<1>2. ASSUME UNCHANGED signers,
             \A id \in ProposalId : OrderedBySigner(props'[id].approved_by)
      PROVE  TrailsOrdered'
  BY <1>2 DEF TrailsOrdered, OrderedBySigner, SignerIndex
<1>3. ASSUME NEW a \in Address, NEW id \in ProposalId,
             ApproveBelowQuorum(a, id) \/ ApproveReachesQuorum(a, id)
      PROVE  TrailsOrdered'
  <2> DEFINE p == props[id].approved_by
             q == Append(p, a)
  <2>1. /\ UNCHANGED signers
        /\ a \in Members(signers)
        /\ InSignerOrder(a, p)
        /\ props'[id].approved_by = q
        /\ \A i \in ProposalId \ {id} : props'[i] = props[i]
    BY <1>3 DEF ApproveBelowQuorum, ApproveReachesQuorum, CanApprove, configVars, TypeOK, Proposal
  <2>2. p \in Seq(Address) /\ Members(p) \subseteq Members(signers) /\ OrderedBySigner(p)
    BY DEF TypeOK, Proposal, ApprovalInv, EntryInv, TrailsOrdered
  <2>3. /\ Len(p) \in Nat /\ DOMAIN p = 1..Len(p) /\ DOMAIN q = 1..(Len(p) + 1)
        /\ q[Len(p) + 1] = a
        /\ \A i \in 1..Len(p) : q[i] = p[i]
    BY <2>2
  <2>4. \A b \in Members(signers) : SignerIndex(b) \in Nat
    BY DEF TypeOK, SignerIndex, Members
  <2>5. \A i \in 1..Len(p) : SignerIndex(p[i]) < SignerIndex(a)
    <3> SUFFICES ASSUME NEW i \in 1..Len(p) PROVE SignerIndex(p[i]) < SignerIndex(a)
      OBVIOUS
    <3>0. p # <<>> /\ Len(p) \in DOMAIN p /\ i \in DOMAIN p
      BY <2>2, <2>3
    <3>1. p # <<>> /\ p[i] \in Members(signers) /\ p[Len(p)] \in Members(signers)
      BY <2>2, <3>0 DEF Members
    <3>2. SignerIndex(p[Len(p)]) < SignerIndex(a)
      BY <2>1, <2>4, <3>1 DEF InSignerOrder
    <3>3. i = Len(p) \/ SignerIndex(p[i]) < SignerIndex(p[Len(p)])
      BY <2>2, <2>3 DEF OrderedBySigner
    <3> QED
      BY <2>1, <2>4, <3>1, <3>2, <3>3
  <2>6. OrderedBySigner(q)
    <3> SUFFICES ASSUME NEW i \in 1..(Len(p) + 1), NEW j \in 1..(Len(p) + 1), i < j
                 PROVE  SignerIndex(q[i]) < SignerIndex(q[j])
      BY <2>3 DEF OrderedBySigner
    <3>1. i \in 1..Len(p)
      BY <2>3
    <3>2. CASE j \in 1..Len(p)
      BY <2>2, <2>3, <3>1, <3>2 DEF OrderedBySigner
    <3>3. CASE j = Len(p) + 1
      BY <2>3, <2>5, <3>1, <3>3
    <3> QED
      BY <2>3, <3>2, <3>3
  <2> QED
    BY <1>2, <2>1, <2>6 DEF TrailsOrdered
<1>4. ASSUME NEW id \in ProposalId, MarkExecuted(id), UNCHANGED signers
      PROVE  TrailsOrdered'
  <2>1. \A i \in ProposalId : props'[i].approved_by = props[i].approved_by
    BY <1>4 DEF MarkExecuted, TypeOK, Proposal
  <2> QED
    BY <1>2, <1>4, <2>1 DEF TrailsOrdered
<1>5. ASSUME NEW a \in Address, NEW id \in ProposalId, NEW h \in Hash, Propose(a, id, h)
      PROVE  TrailsOrdered'
  <2>1. \A i \in ProposalId : \/ props'[i].approved_by = <<>>
                              \/ props'[i] = props[i]
    BY <1>5 DEF Propose, TypeOK
  <2>2. \A i \in ProposalId : OrderedBySigner(props'[i].approved_by)
    BY <2>1 DEF TrailsOrdered, OrderedBySigner
  <2> QED
    BY <1>2, <1>5, <2>2 DEF Propose, configVars
<1>6. ASSUME UNCHANGED <<props, signers>> PROVE TrailsOrdered'
  BY <1>2, <1>6 DEF TrailsOrdered
<1> QED
  BY <1>1, <1>3, <1>4, <1>5, <1>6
  DEF Next, Execute, Upgrade, CloseLedger, StakeMoves, Breaker, govVars, configVars, vars

\* Where an approver stands in an ordered trail is how many of the approvers
\* come no later in the signer vector, which no longer mentions the trail.
LEMMA PlaceInTrail ==
    ASSUME NEW p \in Seq(Address), OrderedBySigner(p), signers \in Seq(Address),
           Members(p) \subseteq Members(signers), NEW i \in DOMAIN p
    PROVE  Cardinality({b \in Members(p) : SignerIndex(b) <= SignerIndex(p[i])}) = i
<1> DEFINE t == [k \in 1..i |-> p[k]]
           S == {b \in Members(p) : SignerIndex(b) <= SignerIndex(p[i])}
<1>1. /\ Len(p) \in Nat /\ DOMAIN p = 1..Len(p) /\ i \in 1..Len(p)
      /\ \A k \in 1..Len(p) : p[k] \in Address
  OBVIOUS
<1>2. \A k \in 1..Len(p) : SignerIndex(p[k]) \in Nat
  <2>1. \A b \in Members(signers) : SignerIndex(b) \in Nat
    BY DEF SignerIndex, Members
  <2>2. \A k \in 1..Len(p) : p[k] \in Members(p)
    BY <1>1 DEF Members
  <2> QED
    BY <2>1, <2>2
<1>3. \A j, k \in 1..Len(p) : j < k => SignerIndex(p[j]) < SignerIndex(p[k])
  BY <1>1 DEF OrderedBySigner
<1>4. t \in Seq(Address) /\ Len(t) = i /\ DOMAIN t = 1..i
  <2>1. i \in Nat /\ t \in [1..i -> Address]
    BY <1>1
  <2> QED
    BY <2>1
<1>5. ~HasDuplicates(t)
  <2> SUFFICES ASSUME NEW j \in 1..i, NEW k \in 1..i, j < k PROVE p[j] # p[k]
    BY <1>4 DEF HasDuplicates
  <2>1. j \in 1..Len(p) /\ k \in 1..Len(p)
    BY <1>1
  <2> QED
    BY <1>2, <1>3, <2>1
<1>6. Members(t) = S
  <2>1. ASSUME NEW k \in 1..i PROVE p[k] \in S
    <3>1. k \in 1..Len(p) /\ (k = i \/ k < i)
      BY <1>1
    <3> QED
      BY <1>1, <1>2, <1>3, <3>1 DEF Members
  <2>2. ASSUME NEW b \in S PROVE \E k \in 1..i : b = p[k]
    <3>1. PICK k \in 1..Len(p) : b = p[k]
      BY <1>1 DEF Members
    <3>2. ~(i < k)
      BY <1>1, <1>2, <1>3, <3>1
    <3> QED
      BY <1>1, <3>1, <3>2
  <2> QED
    BY <1>4, <2>1, <2>2 DEF Members
<1> QED
  BY <1>4, <1>5, <1>6, VectorCounts

\* Ordered trails of the same approvers are the same trail.
LEMMA SameTrail ==
    ASSUME TypeOK, ApprovalInv, TrailsOrdered PROVE SameApproversSameTrail
<1> SUFFICES ASSUME NEW id1 \in ProposalId, NEW id2 \in ProposalId,
                    Members(props[id1].approved_by) = Members(props[id2].approved_by)
             PROVE  props[id1].approved_by = props[id2].approved_by
  BY DEF SameApproversSameTrail
<1> DEFINE p == props[id1].approved_by
           q == props[id2].approved_by
<1>1. /\ p \in Seq(Address) /\ q \in Seq(Address) /\ signers \in Seq(Address)
      /\ Members(p) \subseteq Members(signers)
      /\ Members(q) \subseteq Members(signers)
      /\ OrderedBySigner(p) /\ OrderedBySigner(q)
      /\ Len(p) = Len(q)
  BY DEF TypeOK, Proposal, ApprovalInv, EntryInv, TrailsOrdered
<1>2. DOMAIN p = 1..Len(p) /\ DOMAIN q = 1..Len(p) /\ Len(p) \in Nat
  BY <1>1
<1>3. ASSUME NEW i \in 1..Len(p) PROVE p[i] = q[i]
  <2>1. PICK j \in DOMAIN q : p[i] = q[j]
    BY <1>2 DEF Members
  <2>2. Cardinality({b \in Members(p) : SignerIndex(b) <= SignerIndex(p[i])}) = i
    BY <1>1, <1>2, PlaceInTrail
  <2>3. Cardinality({b \in Members(q) : SignerIndex(b) <= SignerIndex(q[j])}) = j
    BY <1>1, PlaceInTrail
  <2> QED
    BY <2>1, <2>2, <2>3
<1>4. \A u, v \in Seq(Address) :
         Len(u) = Len(v) /\ (\A i \in 1..Len(u) : u[i] = v[i]) => u = v
  OBVIOUS
<1> QED
  BY <1>1, <1>3, <1>4

\* Every action leaves the code a quorum's work: only upgrade writes it, and
\* nothing takes an Executed proposal out of the map again.
LEMMA WasmStep ==
    TypeOK /\ ApprovalInv /\ WasmWasApproved /\ [Next]_vars => WasmWasApproved'
<1> SUFFICES ASSUME TypeOK, ApprovalInv, WasmWasApproved, [Next]_vars, wasm' # InitialWasm
             PROVE  \E id \in ProposalId :
                       /\ props'[id].state = "Executed"
                       /\ props'[id].action_hash = wasm'
                       /\ Cardinality(Members(props'[id].approved_by)) >= threshold'
                       /\ ledger' >= props'[id].unlock
  BY DEF WasmWasApproved
<1> USE GovernanceAssumption
<1>1. ASSUME NEW id \in ProposalId, MarkExecuted(id), UNCHANGED <<threshold, ledger>>
      PROVE  /\ props'[id].state = "Executed"
             /\ props'[id].action_hash = props[id].action_hash
             /\ Cardinality(Members(props'[id].approved_by)) >= threshold'
             /\ ledger' >= props'[id].unlock
             /\ \A i \in ProposalId \ {id} : props'[i] = props[i]
  <2>1. /\ props'[id] = [props[id] EXCEPT !.state = "Executed"]
        /\ \A i \in ProposalId \ {id} : props'[i] = props[i]
    BY <1>1 DEF MarkExecuted, TypeOK
  <2>2. Cardinality(Members(props[id].approved_by)) = Len(props[id].approved_by)
    BY DEF ApprovalInv, EntryInv
  <2> QED
    BY <1>1, <2>1, <2>2 DEF MarkExecuted, TypeOK, Proposal
<1>2. CASE wasm' # wasm
  <2>1. PICK id \in ProposalId, h \in Hash : Upgrade(id, h)
    BY <1>2 DEF Next, InitGovernance, Propose, ApproveBelowQuorum, ApproveReachesQuorum,
                Execute, CloseLedger, StakeMoves, Breaker, govVars, vars
  <2> QED
    BY <1>1, <2>1 DEF Upgrade, configVars
<1>3. CASE wasm' = wasm
  <2>1. PICK id \in ProposalId :
           /\ props[id].state = "Executed"
           /\ props[id].action_hash = wasm
           /\ Cardinality(Members(props[id].approved_by)) >= threshold
           /\ ledger >= props[id].unlock
    BY <1>3 DEF WasmWasApproved
  <2>2. threshold > 0
    BY <2>1 DEF ApprovalInv, EntryInv, TypeOK
  <2>3. ~\E vec \in SignerLists, t \in Thresholds, m \in MinStakes : InitGovernance(vec, t, m)
    BY <2>2 DEF InitGovernance, ApprovalInv
  <2>4. threshold' = threshold /\ (ledger' = ledger \/ ledger' = ledger + 1)
    BY <2>3 DEF Next, Propose, ApproveBelowQuorum, ApproveReachesQuorum, Execute, Upgrade,
                CloseLedger, StakeMoves, Breaker, govVars, configVars, vars
  <2>5. props'[id] = props[id]
    <3>1. ASSUME NEW i \in ProposalId, MarkExecuted(i) PROVE props'[id] = props[id]
      BY <2>1, <3>1 DEF MarkExecuted, TypeOK
    <3> QED
      BY <2>1, <2>3, <3>1
      DEF Next, Propose, ApproveBelowQuorum, ApproveReachesQuorum, CanApprove, Execute, Upgrade,
          CloseLedger, StakeMoves, Breaker, govVars, vars, TypeOK
  <2> QED
    BY <1>3, <2>1, <2>4, <2>5 DEF TypeOK, Proposal
<1> QED
  BY <1>2, <1>3

\* The stored record explains the code that runs, and the same approvers
\* always leave the same trail, for any signer vector and any threshold.
THEOREM RecordCorrect == Spec => []RecordIsAuditable
<1>1. ASSUME Init PROVE TrailsOrdered /\ WasmWasApproved
  BY <1>1 DEF Init, TrailsOrdered, WasmWasApproved, OrderedBySigner, NoProposal
<1>2. TypeOK /\ ApprovalInv /\ TrailsOrdered /\ WasmWasApproved => RecordIsAuditable
  BY SameTrail DEF RecordIsAuditable
<1> QED
  BY <1>1, <1>2, OrderStep, WasmStep, TypeCorrect, ApprovalsCorrect, PTL DEF Spec

\* Only upgrade changes the code, and it spends exactly one Approved proposal
\* that was raised for the new code.
THEOREM UpgradesArePaidFor == Spec => UpgradeConsumesProposal
<1>1. ASSUME [Next]_vars, wasm' # wasm
      PROVE  \E id \in ProposalId :
                /\ props[id].state = "Approved"
                /\ props' = [props EXCEPT ![id].state = "Executed"]
                /\ props[id].action_hash = wasm'
  <2>1. PICK id \in ProposalId, h \in Hash : Upgrade(id, h)
    BY <1>1 DEF Next, InitGovernance, Propose, ApproveBelowQuorum, ApproveReachesQuorum,
                Execute, CloseLedger, StakeMoves, Breaker, govVars, vars
  <2> QED
    BY <2>1 DEF Upgrade, MarkExecuted
<1> QED
  BY <1>1, PTL DEF Spec, UpgradeConsumesProposal

-----------------------------------------------------------------------------
(* The contract implements Multisig *)

\* Multisig's own reading of Cardinality is the one used here.
LEMMA SameCardinality == \A S : Abs!Cardinality(S) = Cardinality(S)
BY DEF Abs!Cardinality, Cardinality

\* A signer vector without repetitions is no longer than there are addresses.
LEMMA VectorFits ==
    ASSUME NEW s \in Seq(Address), ~HasDuplicates(s)
    PROVE  Len(s) \in Nat /\ Len(s) <= Cardinality(Address)
<1>1. Len(s) \in Nat /\ DOMAIN s = 1..Len(s)
  OBVIOUS
<1>2. s \in Injection(1..Len(s), Address)
  <2>1. \A i, j \in 1..Len(s) : s[i] = s[j] => i = j
    BY <1>1 DEF HasDuplicates
  <2> QED
    BY <1>1, <2>1 DEF Injection, IsInjective
<1>3. Cardinality(1..Len(s)) <= Cardinality(Address)
  BY <1>2, FS_Injection, GovernanceAssumption
<1>4. Cardinality(1..Len(s)) = Len(s)
  BY <1>1, FS_Interval
<1> QED
  BY <1>1, <1>3, <1>4

\* Abstract views of the proposal map, after a step that changes one entry.
LEMMA ViewOfOneProposal ==
    ASSUME NEW id \in ProposalId,
           \A i \in ProposalId \ {id} : props'[i] = props[i]
    PROVE  /\ [i \in ProposalId |-> props'[i].state]
                = [[i \in ProposalId |-> props[i].state]
                      EXCEPT ![id] = props'[id].state]
           /\ [i \in ProposalId |-> Members(props'[i].approved_by)]
                = [[i \in ProposalId |-> Members(props[i].approved_by)]
                      EXCEPT ![id] = Members(props'[id].approved_by)]
<1>1. [i \in ProposalId |-> props'[i].state]
         = [[i \in ProposalId |-> props[i].state] EXCEPT ![id] = props'[id].state]
  OBVIOUS
<1>2. ASSUME NEW i \in ProposalId, i # id
      PROVE  Members(props'[i].approved_by) = Members(props[i].approved_by)
  BY <1>2
<1>3. [i \in ProposalId |-> Members(props'[i].approved_by)]
         = [[i \in ProposalId |-> Members(props[i].approved_by)]
               EXCEPT ![id] = Members(props'[id].approved_by)]
  BY <1>2, Zenon
<1> QED
  BY <1>1, <1>3

\* Every step of the contract is a step of Multisig or leaves it alone.
LEMMA RefinementStep ==
    TypeOK /\ TypeOK' /\ ApprovalInv /\ ApprovalInv' /\ [Next]_vars => [Abs!Next]_Abs!msVars
<1> SUFFICES ASSUME TypeOK, TypeOK', ApprovalInv, ApprovalInv', [Next]_vars
             PROVE  [Abs!Next]_Abs!msVars
  OBVIOUS
<1> USE GovernanceAssumption
<1> DEFINE phase == [i \in ProposalId |-> props[i].state]
           votes == [i \in ProposalId |-> Members(props[i].approved_by)]
           Since(p) == IF p.state \in {"Approved", "Executed"}
                       THEN p.unlock - TIMELOCK_LEDGERS ELSE 0
           since == [i \in ProposalId |-> Since(props[i])]
           halted == cb_state = "Open"
\* Steps that leave proposals and threshold alone.
<1>1. ASSUME UNCHANGED <<props, threshold, cb_state>>
      PROVE  UNCHANGED <<threshold, halted, phase, votes, since>>
  BY <1>1
<1>2. ASSUME NEW vec \in SignerLists, NEW t \in Thresholds, NEW m \in MinStakes,
             InitGovernance(vec, t, m)
      PROVE  Abs!Setup
  <2>1. threshold = 0 /\ threshold' = t /\ t # 0 /\ t <= Len(vec)
    BY <1>2 DEF InitGovernance, ApprovalInv
  <2>2. t \in 1..Cardinality(Address)
    <3>1. Len(vec) \in Nat /\ Len(vec) <= Cardinality(Address)
      BY <1>2, VectorFits DEF InitGovernance
    <3>2. Cardinality(Address) \in Nat
      BY FS_CardinalityType
    <3> QED
      BY <2>1, <3>1, <3>2
  <2>3. UNCHANGED <<props, cb_state, ledger>>
    <3>1. ASSUME NEW id \in ProposalId PROVE props[id] = NoProposal
      <4>1. EntryInv(props[id])
        BY DEF ApprovalInv
      <4> QED
        BY <2>1, <4>1 DEF EntryInv
    <3>2. props = [id \in ProposalId |-> NoProposal]
      BY <3>1 DEF TypeOK
    <3> QED
      BY <1>2, <3>2 DEF InitGovernance, breakerVars
  <2> QED
    BY <2>1, <2>2, <2>3, SameCardinality DEF Abs!Setup
<1>3. ASSUME NEW a \in Address, NEW id \in ProposalId, NEW h \in Hash,
             Propose(a, id, h)
      PROVE  Abs!Submit(id)
  <2> DEFINE v == [state |-> "Pending", action_hash |-> h, proposer |-> a,
                   approved_by |-> <<>>, unlock |-> ledger + TIMELOCK_LEDGERS]
  <2>1. /\ props' = [props EXCEPT ![id] = v]
        /\ props[id].state = "Absent"
        /\ cb_state = "Closed"
        /\ UNCHANGED <<cb_state, ledger, threshold>>
    BY <1>3 DEF Propose, AssertClosed, breakerVars, configVars
  <2>2. props[id] = NoProposal
    BY <2>1 DEF ApprovalInv, EntryInv
  <2>3. /\ props'[id].state = "Pending" /\ props'[id].approved_by = <<>>
        /\ \A i \in ProposalId \ {id} : props'[i] = props[i]
    BY <2>1 DEF TypeOK
  <2>4. phase' = [phase EXCEPT ![id] = "Pending"]
    BY <2>3, ViewOfOneProposal
  <2>5. votes' = votes
    <3>1. \A i \in ProposalId : props'[i].approved_by = props[i].approved_by
      BY <2>2, <2>3 DEF NoProposal
    <3> QED
      BY <3>1, Zenon
  <2>6. since' = since
    BY <2>1, <2>3
  <2> QED
    BY <2>1, <2>4, <2>5, <2>6 DEF Abs!Submit
<1>4. ASSUME NEW a \in Address, NEW id \in ProposalId,
             ApproveBelowQuorum(a, id) \/ ApproveReachesQuorum(a, id)
      PROVE  Abs!Vote(id, a)
  <2> DEFINE q == Append(props[id].approved_by, a)
  <2>1. /\ props[id].state = "Pending"
        /\ cb_state = "Closed"
        /\ a \in Members(signers)
        /\ a \notin Members(props[id].approved_by)
        /\ UNCHANGED <<cb_state, ledger, threshold>>
    BY <1>4 DEF ApproveBelowQuorum, ApproveReachesQuorum, CanApprove, AssertClosed,
                breakerVars, configVars
  <2>2. /\ Cardinality(Members(q)) = Len(q)
        /\ Len(q) = Len(props[id].approved_by) + 1
        /\ Members(q) = Members(props[id].approved_by) \cup {a}
    BY <2>1, ApprovalCounts
  <2>3. /\ props'[id].approved_by = q
        /\ \A i \in ProposalId \ {id} : props'[i] = props[i]
    <3>1. id \in DOMAIN props /\ DOMAIN props = ProposalId
      BY DEF TypeOK
    <3>2. props[id] \in Proposal
      BY DEF TypeOK
    <3>3. CASE ApproveBelowQuorum(a, id)
      BY <3>1, <3>2, <3>3 DEF ApproveBelowQuorum, Proposal
    <3>4. CASE ApproveReachesQuorum(a, id)
      BY <3>1, <3>2, <3>4 DEF ApproveReachesQuorum, Proposal
    <3> QED
      BY <1>4, <3>3, <3>4
  <2>4. votes' = [votes EXCEPT ![id] = Members(q)]
    BY <2>3, ViewOfOneProposal
  <2>5. votes' = [votes EXCEPT ![id] = @ \cup {a}]
    BY <2>2, <2>4
  <2>6. CASE ApproveBelowQuorum(a, id)
    <3>1. props'[id].state = "Pending" /\ ~(Cardinality(votes[id] \cup {a}) >= threshold)
      BY <2>1, <2>2, <2>6 DEF ApproveBelowQuorum, TypeOK, Proposal
    <3>2. phase' = phase
      BY <2>1, <2>3, <3>1
    <3>3. since' = since
      BY <2>1, <2>3, <3>1
    <3> QED
      BY <2>1, <2>5, <3>1, <3>2, <3>3, SameCardinality DEF Abs!Vote
  <2>7. CASE ApproveReachesQuorum(a, id)
    <3>1. /\ props'[id].state = "Approved"
          /\ props'[id].unlock = ledger + TIMELOCK_LEDGERS
          /\ Cardinality(votes[id] \cup {a}) >= threshold
      BY <2>1, <2>2, <2>7 DEF ApproveReachesQuorum, TypeOK, Proposal
    <3>2. phase' = [phase EXCEPT ![id] = "Approved"]
      BY <2>3, <3>1, ViewOfOneProposal
    <3>3. Since(props'[id]) = ledger
      BY <3>1 DEF TypeOK
    <3>4. since' = [since EXCEPT ![id] = ledger]
      BY <2>3, <3>3
    <3> QED
      BY <2>1, <2>5, <3>1, <3>2, <3>4, SameCardinality DEF Abs!Vote
  <2> QED
    BY <1>4, <2>6, <2>7
<1>5. ASSUME NEW id \in ProposalId, MarkExecuted(id),
             UNCHANGED <<threshold, cb_state, ledger>>
      PROVE  Abs!Execute(id)
  <2>1. /\ props[id].state = "Approved"
        /\ cb_state = "Closed"
        /\ Len(props[id].approved_by) >= threshold
        /\ ledger >= props[id].unlock
    BY <1>5 DEF MarkExecuted, AssertClosed
  <2>2. /\ props'[id].state = "Executed"
        /\ props'[id].approved_by = props[id].approved_by
        /\ props'[id].unlock = props[id].unlock
        /\ \A i \in ProposalId \ {id} : props'[i] = props[i]
    BY <1>5 DEF MarkExecuted, TypeOK, Proposal
  <2>3. phase' = [phase EXCEPT ![id] = "Executed"]
    BY <2>2, ViewOfOneProposal
  <2>4. votes' = votes
    <3>1. \A i \in ProposalId : props'[i].approved_by = props[i].approved_by
      BY <2>2
    <3> QED
      BY <3>1, Zenon
  <2>5. since' = since
    BY <2>1, <2>2
  <2>6. Cardinality(votes[id]) >= threshold
    BY <2>1 DEF ApprovalInv, EntryInv
  <2>7. ledger >= since[id] + TIMELOCK_LEDGERS
    BY <2>1 DEF TypeOK, Proposal
  <2> QED
    BY <1>5, <2>1, <2>3, <2>4, <2>5, <2>6, <2>7, SameCardinality DEF Abs!Execute
<1>6. CASE CloseLedger
  BY <1>1, <1>6 DEF CloseLedger, breakerVars, configVars, Abs!Next, Abs!Tick
<1>7. CASE Breaker
  <2>1. UNCHANGED <<props, threshold, ledger>>
    BY <1>7 DEF Breaker, govVars, configVars
  <2>2. cb_state \in {"Closed", "Open"} /\ cb_state' \in {"Closed", "Open"}
    BY DEF TypeOK, BreakerTypeOK
  <2>3. CASE cb_state' = cb_state
    BY <1>1, <2>1, <2>3 DEF Abs!msVars
  <2>4. CASE cb_state' # cb_state
    <3>1. halted' = ~halted
      BY <2>2, <2>4
    <3>2. UNCHANGED <<phase, votes, since>>
      BY <2>1
    <3> QED
      BY <2>1, <3>1, <3>2 DEF Abs!Halt, Abs!Next
  <2> QED
    BY <2>3, <2>4
<1>8. ASSUME UNCHANGED <<props, threshold, cb_state, ledger>>
      PROVE  UNCHANGED Abs!msVars
  BY <1>1, <1>8 DEF Abs!msVars
<1>9. ASSUME NEW id \in ProposalId, NEW h \in Hash, Execute(id) \/ Upgrade(id, h)
      PROVE  Abs!Execute(id)
  BY <1>5, <1>9 DEF Execute, Upgrade, breakerVars, configVars
<1>10. ASSUME NEW a \in Address, NEW b \in Balances, StakeMoves(a, b)
       PROVE  UNCHANGED Abs!msVars
  BY <1>8, <1>10 DEF StakeMoves, breakerVars, configVars
<1>11. CASE UNCHANGED vars
  BY <1>8, <1>11 DEF vars, breakerVars, govVars, configVars
<1> QED
  BY <1>2, <1>3, <1>4, <1>6, <1>7, <1>9, <1>10, <1>11 DEF Next, Abs!Next

\* The initial storage is an initial state of Multisig.
LEMMA RefinementInit == Init => Abs!Init
<1> SUFFICES ASSUME Init PROVE Abs!Init
  OBVIOUS
<1>1. \A id \in ProposalId : props[id] = NoProposal
  BY DEF Init
<1>2. [id \in ProposalId |-> Members(props[id].approved_by)]
         = [id \in ProposalId |-> {}]
  BY <1>1, MembersEmpty DEF NoProposal
<1> QED
  BY <1>1, <1>2 DEF Init, BreakerInit, Abs!Init, NoProposal

\* Governance implements Multisig: at most one execution of a proposal, only
\* with a quorum of different signers, only TIMELOCK_LEDGERS after the vote
\* that completed it, and nothing while the breaker is open.
THEOREM GovernanceImplementsMultisig == Spec => ImplementsMultisig
BY RefinementInit, RefinementStep, TypeCorrect, ApprovalsCorrect, PTL
DEF Spec, ImplementsMultisig, Abs!Spec

=============================================================================
