--------------------------- MODULE EventPropagator --------------------------
(***************************************************************************)
(* The event pipeline of engine-bridge (event-propagator.ts over           *)
(* event-queue.ts, started by main.ts): poll loops that fetch pages from   *)
(* the RPC and enqueue them, process loops that hand rows to the handlers, *)
(* recovery, stop and start, crashes and restarts.                         *)
(*                                                                         *)
(* JavaScript runs one callback at a time: an action is one synchronous    *)
(* stretch between two awaits.  stop() clears only the timer handle stored *)
(* last, so a loop that is awaiting, or whose handle was overwritten,      *)
(* survives it; loops are therefore numbered, and start() adds one.        *)
(***************************************************************************)
EXTENDS EventQueue

CONSTANTS
    PageLimit,      \* events per RPC response
    MaxLoops,       \* bound on poll (and process) loops alive at once
    MaxRestarts,    \* bound on process restarts
    RecoveryMode,   \* "none": as main.ts; "awaited": as the design document
    AllowStop,      \* stop() and start() of the running service are called
    AllowCleanup    \* the operator's clean-up job runs

ASSUME EventPropagatorAssumption ==
    /\ PageLimit \in Nat \ {0}
    /\ MaxLoops \in Nat \ {0}
    /\ MaxRestarts \in Nat
    /\ RecoveryMode \in {"none", "awaited"}
    /\ AllowStop \in BOOLEAN
    /\ AllowCleanup \in BOOLEAN

Loop == 1..MaxLoops

VARIABLES
    emitted,        \* events the contract has published
    rows,           \* the database
    saved,          \* the cursor last read off: EVENT_CURSOR of the next start
    restarts,       \* process restarts so far
    proc,           \* "up", "recovering" or "down"
    running,
    cursor,         \* 0 while undefined
    poller,         \* state of each poll loop
    asked,          \* cursor each pending request was sent with
    pollTimer,      \* loop whose timer this.pollTimer holds, 0 for none
    worker,         \* state of each process loop
    hand,           \* event each process loop has given to the handlers
    processTimer,
    recovering,     \* rows recoverPendingEvents still has to do
    inRecovery,     \* the one it has given to the handlers, 0 for none
    calls           \* history: how often the handlers were given each event
                    \*   since its row was last inserted

dbVars == <<rows, saved, restarts>>
pollVars == <<poller, asked, pollTimer>>
workVars == <<worker, hand, processTimer>>
recVars == <<recovering, inRecovery>>
vars == <<emitted, dbVars, proc, running, cursor, pollVars, workVars, recVars, calls>>

TypeOK ==
    /\ emitted \in 0..NEvents
    /\ rows \in [Event -> Row]
    /\ saved \in 0..NEvents
    /\ restarts \in 0..MaxRestarts
    /\ proc \in {"up", "recovering", "down"}
    /\ running \in BOOLEAN
    /\ cursor \in 0..NEvents
    /\ poller \in [Loop -> {"free", "timer", "calling"}]
    /\ asked \in [Loop -> 0..NEvents]
    /\ pollTimer \in 0..MaxLoops
    /\ worker \in [Loop -> {"free", "timer", "handling"}]
    /\ hand \in [Loop -> 0..NEvents]
    /\ processTimer \in 0..MaxLoops
    /\ recovering \in SUBSET Event
    /\ inRecovery \in 0..NEvents
    /\ calls \in [Event -> Nat]

NoLoops == [l \in Loop |-> "free"]
Nothing == [l \in Loop |-> 0]

Init ==
    /\ emitted = 0
    /\ rows = [e \in Event |-> NoRow]
    /\ saved = 0
    /\ restarts = 0
    /\ proc = "up"
    /\ running = FALSE
    /\ cursor = 0
    /\ poller = NoLoops /\ asked = Nothing /\ pollTimer = 0
    /\ worker = NoLoops /\ hand = Nothing /\ processTimer = 0
    /\ recovering = {}
    /\ inRecovery = 0
    /\ calls = [e \in Event |-> 0]

-----------------------------------------------------------------------------
(* The process loop.  handleQueuedEvents takes rows until there is none,   *)
(* whether or not the service still runs; then its finally reschedules.    *)

\* Continue loop w over table t: take the next row, or end the round.
TakeNext(w, t) ==
    \/ \E e \in Dequeuable(t) :
          /\ rows' = Taken(t, e)
          /\ worker' = [worker EXCEPT ![w] = "handling"]
          /\ hand' = [hand EXCEPT ![w] = e]
          /\ calls' = [calls EXCEPT ![e] = @ + 1]
          /\ UNCHANGED processTimer
    \/ /\ Dequeuable(t) = {}
       /\ rows' = t
       /\ worker' = [worker EXCEPT ![w] = IF running' THEN "timer" ELSE "free"]
       /\ hand' = [hand EXCEPT ![w] = 0]
       /\ processTimer' = IF running' THEN w ELSE processTimer
       /\ UNCHANGED calls

\* The process timer of loop w fires.
ProcessQueue(w) ==
    /\ worker[w] = "timer"
    /\ UNCHANGED running
    /\ TakeNext(w, rows)
    /\ UNCHANGED <<emitted, saved, restarts, proc, cursor, pollVars, recVars>>

\* All handlers of a row have settled: mark it, go on with the next row.
HandlersSettle(w, ok) ==
    /\ worker[w] = "handling"
    /\ UNCHANGED running
    /\ TakeNext(w, IF ok THEN MarkedProcessed(rows, hand[w])
                         ELSE MarkedFailed(rows, hand[w]))
    /\ UNCHANGED <<emitted, saved, restarts, proc, cursor, pollVars, recVars>>

-----------------------------------------------------------------------------
(* The poll loop *)

\* The poll timer of loop l fires: the request carries the cursor of now.
\* poll() does not look at running.
Poll(l) ==
    /\ poller[l] = "timer"
    /\ poller' = [poller EXCEPT ![l] = "calling"]
    /\ asked' = [asked EXCEPT ![l] = cursor]
    /\ UNCHANGED <<emitted, dbVars, proc, running, cursor, pollTimer, workVars, recVars, calls>>

\* RpcClient repeats the request on the next endpoint, with the cursor of now.
RetryRequest(l) ==
    /\ poller[l] = "calling"
    /\ asked[l] # cursor
    /\ asked' = [asked EXCEPT ![l] = cursor]
    /\ UNCHANGED <<emitted, dbVars, proc, running, cursor, poller, pollTimer, workVars,
                   recVars, calls>>

\* Enqueuing stops at the first event that already has a row (primary key).
Inserted(l, upto) ==
    {e \in (asked[l] + 1)..upto : \A f \in (asked[l] + 1)..e : ~Exists(rows, f)}

\* Wrong on purpose: the cursor counts a full page.
CursorAfter_FullPage(l, new) == asked[l] + PageLimit

\* The cursor follows what was enqueued.
CursorAfter(l, new) == IF new = {} THEN cursor ELSE asked[l] + Cardinality(new)

\* The response carries the events after the cursor that was asked for, up to
\* some event upto; an endpoint may lag, and a failing call or a full disk
\* counts as a shorter response.
PageArrives(l, upto) ==
    LET new == Inserted(l, upto) IN
    /\ poller[l] = "calling"
    /\ asked[l] <= upto /\ upto <= asked[l] + PageLimit /\ upto <= emitted
    /\ rows' = IF new = {} THEN rows ELSE Enqueued(rows, new)
    /\ cursor' = CursorAfter(l, new)
    /\ poller' = [poller EXCEPT ![l] = IF running THEN "timer" ELSE "free"]
    /\ pollTimer' = IF running THEN l ELSE pollTimer
    /\ asked' = [asked EXCEPT ![l] = 0]
    /\ calls' = [e \in Event |-> IF e \in new THEN 0 ELSE calls[e]]
    /\ UNCHANGED <<emitted, saved, restarts, proc, running, workVars, recVars>>

-----------------------------------------------------------------------------
(* start, stop, recovery *)

\* Loops are alike: a new one takes the lowest number that is free.
NextFree(loops, l) ==
    loops[l] = "free" /\ \A k \in Loop : k < l => loops[k] # "free"

\* start(): a poll loop sends its request, a process loop takes its first row.
Start ==
    /\ proc = "up"
    /\ ~running
    /\ running' = TRUE
    /\ \E l \in Loop :
          /\ NextFree(poller, l)
          /\ poller' = [poller EXCEPT ![l] = "calling"]
          /\ asked' = [asked EXCEPT ![l] = cursor]
    /\ \E w \in Loop : NextFree(worker, w) /\ TakeNext(w, rows)
    /\ UNCHANGED <<emitted, saved, restarts, proc, cursor, pollTimer, recVars>>

\* clearTimeout of the handle stored last, if that timer is still pending.
Cleared(loops, timer) ==
    [l \in Loop |-> IF l = timer /\ loops[l] = "timer" THEN "free" ELSE loops[l]]

Stop ==
    /\ AllowStop
    /\ proc = "up"
    /\ running
    /\ running' = FALSE
    /\ poller' = Cleared(poller, pollTimer)
    /\ worker' = Cleared(worker, processTimer)
    /\ UNCHANGED <<emitted, dbVars, proc, cursor, asked, pollTimer, hand, processTimer,
                   recVars, calls>>

\* recoverPendingEvents hands over the rows one after the other, oldest first.
RecoverNext(t, left) ==
    \/ \E e \in First(t, left) :
          /\ inRecovery' = e
          /\ recovering' = left \ {e}
          /\ calls' = [calls EXCEPT ![e] = @ + 1]
          /\ proc' = "recovering"
    \/ /\ left = {}
       /\ inRecovery' = 0
       /\ recovering' = {}
       /\ proc' = "up"
       /\ UNCHANGED calls

\* The handlers of a recovered row have settled.  The row is marked, but its
\* attempts are not counted.
RecoverySettles(ok) ==
    /\ proc = "recovering"
    /\ LET t == IF ok THEN MarkedProcessed(rows, inRecovery)
                      ELSE MarkedFailed(rows, inRecovery)
       IN  rows' = t /\ RecoverNext(t, recovering)
    /\ UNCHANGED <<emitted, saved, restarts, running, cursor, pollVars, workVars>>

-----------------------------------------------------------------------------
(* The process dies and is started again *)

Vanish ==
    /\ proc' = "down"
    /\ running' = FALSE
    /\ cursor' = 0
    /\ poller' = NoLoops /\ asked' = Nothing /\ pollTimer' = 0
    /\ worker' = NoLoops /\ hand' = Nothing /\ processTimer' = 0
    /\ recovering' = {}
    /\ inRecovery' = 0

\* A crash, or the shutdown handler of main.ts, which stops the loops and cuts
\* off handlers that have not settled; the database stays.
Crash ==
    /\ proc # "down"
    /\ restarts < MaxRestarts
    /\ Vanish
    /\ UNCHANGED <<emitted, dbVars, calls>>

\* Wrong on purpose: the cursor handed to the constructor is not used.
Boot_NoCursor ==
    /\ proc = "down"
    /\ restarts' = restarts + 1
    /\ cursor' = 0
    /\ running' = FALSE
    /\ LET t == Recovered(rows)
       IN  rows' = t /\ RecoverNext(t, Pending(t))
    /\ UNCHANGED <<emitted, saved, pollVars, workVars>>

\* main() up to start(): recoverPendingEvents is awaited first where the
\* design document has its way, and left out in main.ts as it is.
Boot ==
    /\ proc = "down"
    /\ restarts' = restarts + 1
    /\ cursor' = saved
    /\ running' = FALSE
    /\ IF RecoveryMode = "awaited"
       THEN LET t == Recovered(rows)
            IN  rows' = t /\ RecoverNext(t, Pending(t))
       ELSE /\ proc' = "up"
            /\ UNCHANGED <<rows, recVars, calls>>
    /\ UNCHANGED <<emitted, saved, pollVars, workVars>>

-----------------------------------------------------------------------------
(* Environment *)

\* Whoever runs the service reads getCursor() and puts it into EVENT_CURSOR,
\* now and then or never: no code does.
SaveCursor ==
    /\ proc # "down"
    /\ saved' = cursor
    /\ UNCHANGED <<emitted, rows, restarts, proc, running, cursor, pollVars, workVars,
                   recVars, calls>>

Emit ==
    /\ emitted < NEvents
    /\ emitted' = emitted + 1
    /\ UNCHANGED <<dbVars, proc, running, cursor, pollVars, workVars, recVars, calls>>

BackoffEnds(e) ==
    /\ rows[e].backoff
    /\ rows' = [rows EXCEPT ![e].backoff = FALSE]
    /\ UNCHANGED <<emitted, saved, restarts, proc, running, cursor, pollVars, workVars,
                   recVars, calls>>

Cleanup(e) ==
    /\ AllowCleanup
    /\ rows[e].status = "processed"
    /\ rows' = Cleaned(rows, e)
    /\ UNCHANGED <<emitted, saved, restarts, proc, running, cursor, pollVars, workVars,
                   recVars, calls>>

Next ==
    \/ \E w \in Loop : ProcessQueue(w)
    \/ \E w \in Loop, ok \in BOOLEAN : HandlersSettle(w, ok)
    \/ \E l \in Loop : Poll(l)
    \/ \E l \in Loop : RetryRequest(l)
    \/ \E l \in Loop, upto \in 0..NEvents : PageArrives(l, upto)
    \/ Start
    \/ Stop
    \/ \E ok \in BOOLEAN : RecoverySettles(ok)
    \/ Crash
    \/ Boot
    \/ SaveCursor
    \/ Emit
    \/ \E e \in Event : BackoffEnds(e)
    \/ \E e \in Event : Cleanup(e)

Spec == Init /\ [][Next]_vars

-----------------------------------------------------------------------------
(* Fairness.  Timers fire; handlers settle, one way or the other; a dead   *)
(* process is restarted and main calls start().  An RPC that is asked again *)
(* and again sometimes answers with all it should.                         *)

FullPage(l) ==
    LET upto == IF asked[l] + PageLimit <= emitted THEN asked[l] + PageLimit ELSE emitted
    IN  PageArrives(l, upto)

FairSpec ==
    /\ Spec
    /\ WF_vars(Start)
    /\ WF_vars(Boot)
    /\ WF_vars(\E ok \in BOOLEAN : RecoverySettles(ok))
    /\ \A l \in Loop :
          /\ WF_vars(ProcessQueue(l))
          /\ WF_vars(\E ok \in BOOLEAN : HandlersSettle(l, ok))
          /\ WF_vars(Poll(l))
          /\ SF_vars(FullPage(l))
    /\ \A e \in Event : WF_vars(BackoffEnds(e))

-----------------------------------------------------------------------------
(* Properties *)

\* No event is lost between RPC and database: whatever lies behind the live
\* or the saved cursor has a row, or had one and was handled, with any number
\* of poll loops holding responses to requests of any age, and wherever the
\* cursor stands after a restart.
CursorNeverSkips ==
    \A e \in Event : e <= cursor \/ e <= saved => Exists(rows, e) \/ calls[e] > 0

\* An event is with the handlers at most once at a time, and while it is, its
\* row says so or recovery holds it.
HandledByOne ==
    /\ \A v, w \in Loop : worker[v] = "handling" /\ worker[w] = "handling"
                             /\ hand[v] = hand[w] => v = w
    /\ \A w \in Loop : worker[w] = "handling" =>
          /\ rows[hand[w]].status = "processing"
          /\ hand[w] # inRecovery
          /\ hand[w] \notin recovering

\* The handlers see a row maxRetries times and once more for each restart,
\* where recovery does not count attempts.
CallsBounded == \A e \in Event : calls[e] <= maxRetries + restarts

\* Loops that overlap neither share an event nor, by taking turns with it, or
\* with a crash between the attempt and its mark, call the handlers more often
\* than the limit on attempts and the number of restarts allow.
HandledWithinLimits == TypeOK /\ HandledByOne /\ CallsBounded

Settled(e) ==
    \/ rows[e].status = "processed"
    \/ rows[e].status = "failed" /\ ~RetriesLeft(rows, e)

\* A row that was handled, or given up, is never given to the handlers again:
\* not by another loop, a second fetch of its page, a restart or a recovery.
SettledForGood ==
    [][\A e \in Event :
          Settled(e) => /\ Settled(e)' \/ ~Exists(rows', e)
                        /\ calls'[e] = calls[e]]_vars

\* The saved cursor, the live one and the requests under way are past e.
Passed(e) ==
    /\ e <= saved
    /\ proc = "down" \/ e <= cursor
    /\ \A l \in Loop : poller[l] = "calling" => e <= asked[l]

\* A row the operator cleaned up does not come back to be handled a second
\* time, once the cursor was saved behind it and no older request is under
\* way: not by a restart, a late response or a cursor that another loop moves
\* back.  Without a saved cursor nothing of the kind holds (README).
CleanedStaysCleaned ==
    [][\A e \in Event :
          Passed(e) => /\ Passed(e)'
                       /\ ~Exists(rows, e) => ~Exists(rows', e) /\ calls'[e] = calls[e]]_vars

\* Events reach the handlers for the first time in the order they were
\* enqueued in, whatever is being retried, recovered or fetched again.
FirstDeliveryInOrder ==
    [][\A e, f \in Event :
          /\ calls[e] = 0 /\ calls'[e] = 1
          /\ Exists(rows, f) /\ rows[f].page < rows[e].page
          => calls[f] > 0]_vars

\* The cursor points before an event that has a row: enqueuing stops there.
Behind == \E e \in Event : Exists(rows, e) /\ cursor < e

\* Every event the contract publishes gets a row, which lasts at least until
\* the handlers have seen it, unless the cursor stays behind the table for
\* ever.
EveryEventQueued ==
    []<>~Behind => \A e \in Event : emitted >= e ~> Exists(rows, e) \/ calls[e] > 0

\* event-propagator.ts:6, as it stands: "Persistent event queue prevents data
\* loss ... Automatic cursor persistence enables replay-from-last-known on
\* restart".
NoEventIsLost == \A e \in Event : emitted >= e ~> Exists(rows, e) \/ calls[e] > 0

\* Every event that got a row is handled, or given up after its retries.
EveryEventSettles == \A e \in Event : Exists(rows, e) ~> Settled(e)

=============================================================================
