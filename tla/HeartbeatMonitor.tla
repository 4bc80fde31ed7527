--------------------------- MODULE HeartbeatMonitor --------------------------
(***************************************************************************)
(* The heartbeat of engine-bridge (heartbeat-monitor.ts) on the RPC client *)
(* it shares with the other users of the bridge, and the alerts it sends   *)
(* (alert-channel.ts) through a console and a webhook channel (main.ts).   *)
(***************************************************************************)
EXTENDS RpcClient

CONSTANTS
    Pulse,          \* bound: the calls of Call that pulses make
    MaxPosts        \* bound: webhook requests under way that are counted

ASSUME HeartbeatAssumption ==
    /\ Pulse \subseteq Call
    /\ MaxPosts \in Nat \ {0}

VARIABLES
    timer,      \* whether the interval is set
    status,     \* of the last report
    posts       \* webhook requests that wait for an answer

hbVars == <<timer, status, posts>>
vars == <<rpcVars, hbVars>>

Init ==
    /\ RpcInit
    /\ timer = FALSE
    /\ status = "none"
    /\ posts = 0

-----------------------------------------------------------------------------

\* Wrong on purpose: no pulse follows a failed one.
PulseStarts_NotAfterFailure(p) ==
    /\ call[p].status = "none"
    /\ status # "DEGRADED"
    /\ Starts(p, FALSE)

\* pulse() up to its await.  Nothing stops two pulses from overlapping.
PulseStarts(p) ==
    /\ call[p].status = "none"
    /\ Starts(p, FALSE)

start(p) ==
    /\ ~timer
    /\ timer' = TRUE
    /\ PulseStarts(p)
    /\ UNCHANGED <<status, posts>>

stop ==
    /\ timer
    /\ timer' = FALSE
    /\ UNCHANGED <<rpcVars, status, posts>>

Fires(p) ==
    /\ timer
    /\ PulseStarts(p)
    /\ UNCHANGED hbVars

Judged(how) == IF how = "ok" THEN "HEALTHY" ELSE "DEGRADED"
OneMore == IF posts < MaxPosts THEN posts + 1 ELSE posts

\* Wrong on purpose: only a change of the status is reported.
Report_OnlyChanges(p) ==
    /\ call[p].status \in {"ok", "error"}
    /\ status' = Judged(call[p].status)
    /\ posts' = IF status' = "DEGRADED" /\ status # "DEGRADED" THEN OneMore ELSE posts
    /\ Ends(p, "none")
    /\ UNCHANGED <<cursor, rest, up, passed, timer>>

\* pulse() after its await: a failed call is DEGRADED and goes to all channels
\* at once, in the same stretch and not awaited; the console is done with it,
\* the webhook has a request under way.
Report(p) ==
    /\ call[p].status \in {"ok", "error"}
    /\ status' = Judged(call[p].status)
    /\ posts' = IF status' = "DEGRADED" THEN OneMore ELSE posts
    /\ Ends(p, "none")
    /\ UNCHANGED <<cursor, rest, up, passed, timer>>

\* The webhook answers, or fails, or the abort timer ends the request: send
\* resolves to true or false, and nobody does more with it than to log it.
PostEnds ==
    /\ posts > 0
    /\ posts' = posts - 1
    /\ UNCHANGED <<rpcVars, timer, status>>

-----------------------------------------------------------------------------

User == Call \ Pulse

Next ==
    \/ \E p \in Pulse : start(p) \/ Fires(p) \/ Report(p)
    \/ stop
    \/ PostEnds
    \/ /\ \/ \E c \in User, isBad \in BOOLEAN : Starts(c, isBad)
          \/ \E c \in Call : Answered(c) \/ Refused(c)
          \/ Tick
          \/ \E e \in Endpoint : NodeChanges(e)
       /\ UNCHANGED hbVars

Spec == Init /\ [][Next]_vars

\* Requests are settled, time passes, the interval fires, and the continuation
\* of a pulse and the abort timer of a post run.
FairSpec ==
    /\ Spec
    /\ \A c \in Call : WF_vars((Answered(c) \/ Refused(c)) /\ UNCHANGED hbVars)
    /\ WF_vars(Tick /\ UNCHANGED hbVars)
    /\ WF_vars(\E p \in Pulse : Fires(p))
    /\ \A p \in Pulse : WF_vars(Report(p))
    /\ WF_vars(PostEnds)

-----------------------------------------------------------------------------
(* Properties *)

Recovered == timer /\ (\A e \in Endpoint : up[e]) /\ \A c \in Call : ~call[c].bad
Outage == timer /\ \A e \in Endpoint : ~up[e]

\* Once all nodes stay up, nobody sends requests that every node refuses, and
\* the monitor runs, the reports become HEALTHY and stay so: quarantine ends,
\* and no failure during the outage has ended the pulses.
RecoveryIsNoticed == <>[]Recovered => <>[](status = "HEALTHY")

\* While all nodes stay down a monitor that runs goes on posting alerts, not
\* only one for the change, and however slow the webhook is.
OutageIsReported == <>[]Outage => []<>(posts > 0)

=============================================================================
