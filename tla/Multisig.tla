------------------------------ MODULE Multisig ------------------------------
(***************************************************************************)
(* What engine-core's governance promises, with nothing about storage,     *)
(* vectors or signer indices: an item is executed at most once, only after *)
(* a quorum of different voters has backed it, only Delay time units after *)
(* the vote that completed the quorum, and never while the system is       *)
(* halted.  Governance.tla is shown to implement it.                       *)
(***************************************************************************)
EXTENDS Naturals, FiniteSets

CONSTANTS Voter, Item, Delay

VARIABLES
    now,      \* clock
    halted,   \* emergency stop
    quorum,   \* voters needed; 0 until the voter set is installed
    phase,    \* phase[i] \in {"Absent", "Pending", "Approved", "Executed"}
    votes,    \* votes[i]: the set of voters that backed i
    since     \* since[i]: when the quorum of i was completed

msVars == <<now, halted, quorum, phase, votes, since>>

Init ==
    /\ now = 0
    /\ halted = FALSE
    /\ quorum = 0
    /\ phase = [i \in Item |-> "Absent"]
    /\ votes = [i \in Item |-> {}]
    /\ since = [i \in Item |-> 0]

Setup ==
    /\ quorum = 0
    /\ quorum' \in 1..Cardinality(Voter)
    /\ UNCHANGED <<now, halted, phase, votes, since>>

Tick ==
    /\ now' = now + 1
    /\ UNCHANGED <<halted, quorum, phase, votes, since>>

Halt ==
    /\ halted' = ~halted
    /\ UNCHANGED <<now, quorum, phase, votes, since>>

Submit(i) ==
    /\ ~halted
    /\ phase[i] = "Absent"
    /\ phase' = [phase EXCEPT ![i] = "Pending"]
    /\ UNCHANGED <<now, halted, quorum, votes, since>>

Vote(i, v) ==
    /\ ~halted
    /\ phase[i] = "Pending"
    /\ v \notin votes[i]
    /\ votes' = [votes EXCEPT ![i] = @ \cup {v}]
    /\ IF Cardinality(votes[i] \cup {v}) >= quorum
       THEN /\ phase' = [phase EXCEPT ![i] = "Approved"]
            /\ since' = [since EXCEPT ![i] = now]
       ELSE UNCHANGED <<phase, since>>
    /\ UNCHANGED <<now, halted, quorum>>

Execute(i) ==
    /\ ~halted
    /\ phase[i] = "Approved"
    /\ Cardinality(votes[i]) >= quorum
    /\ now >= since[i] + Delay
    /\ phase' = [phase EXCEPT ![i] = "Executed"]
    /\ UNCHANGED <<now, halted, quorum, votes, since>>

Next ==
    \/ Setup
    \/ Tick
    \/ Halt
    \/ \E i \in Item : Submit(i) \/ Execute(i)
    \/ \E i \in Item, v \in Voter : Vote(i, v)

Spec == Init /\ [][Next]_msVars

=============================================================================
