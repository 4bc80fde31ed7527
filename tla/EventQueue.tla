----------------------------- MODULE EventQueue -----------------------------
(***************************************************************************)
(* The SQLite table of engine-bridge's EventQueue (event-queue.ts): what   *)
(* each synchronous database operation makes of the table's rows.  Events  *)
(* are numbered in the order of the contract's event stream.  Times are    *)
(* kept as far as queries compare them: enqueueTime by the poll response   *)
(* an event came with (rows of one response may share a millisecond), and  *)
(* nextAttempt by whether it still lies in the future.                     *)
(***************************************************************************)
EXTENDS Naturals, FiniteSets

CONSTANTS NEvents, maxRetries

ASSUME EventQueueAssumption == NEvents \in Nat \ {0} /\ maxRetries \in Nat \ {0}

Event == 1..NEvents

Status == {"absent", "pending", "processing", "processed", "failed"}

Row == [status   : Status,
        attempts : Nat,
        page     : Nat,          \* rank of enqueueTime
        backoff  : BOOLEAN]      \* nextAttempt > now

NoRow == [status |-> "absent", attempts |-> 0, page |-> 0, backoff |-> FALSE]

Exists(rows, e) == rows[e].status # "absent"

\* enqueue of the events in new, all from one response; none exists yet.
Enqueued(rows, new) ==
    LET now == 1 + (CHOOSE n \in {rows[e].page : e \in Event} :
                       \A e \in Event : rows[e].page <= n)
    IN  [e \in Event |->
            IF e \in new
            THEN [status |-> "pending", attempts |-> 0, page |-> now, backoff |-> FALSE]
            ELSE rows[e]]

RetriesLeft(rows, e) == rows[e].attempts < maxRetries

\* Wrong on purpose: rows another loop is working on are taken as well.
Eligible_Processing(rows) ==
    {e \in Event :
        /\ \/ rows[e].status \in {"pending", "processing"}
           \/ rows[e].status = "failed" /\ RetriesLeft(rows, e)
        /\ ~rows[e].backoff}

\* The WHERE clause of dequeue, and the rows its ORDER BY may put first.
Eligible(rows) ==
    {e \in Event :
        /\ \/ rows[e].status = "pending"
           \/ rows[e].status = "failed" /\ RetriesLeft(rows, e)
        /\ ~rows[e].backoff}

\* Wrong on purpose: no ORDER BY.
First_Unordered(rows, s) == s
First(rows, s) == {e \in s : \A f \in s : rows[e].page <= rows[f].page}
Dequeuable(rows) == First(rows, Eligible(rows))

\* The UPDATE of dequeue.
Taken(rows, e) ==
    [rows EXCEPT ![e].status = "processing", ![e].attempts = @ + 1]

MarkedProcessed(rows, e) ==
    IF Exists(rows, e) THEN [rows EXCEPT ![e].status = "processed"] ELSE rows

\* Back-off applies only while retries are left.
MarkedFailed(rows, e) ==
    IF Exists(rows, e)
    THEN [rows EXCEPT ![e].status = "failed", ![e].backoff = RetriesLeft(rows, e)]
    ELSE rows

\* Wrong on purpose: rows a crash left in processing are not recovered.
Recovered_FailedOnly(rows) ==
    [e \in Event |->
        IF rows[e].status = "failed" /\ RetriesLeft(rows, e)
        THEN [rows[e] EXCEPT !.status = "pending"]
        ELSE rows[e]]

\* Wrong on purpose: rows without retries left are recovered, too.
Recovered_AllFailed(rows) ==
    [e \in Event |->
        IF rows[e].status \in {"processing", "failed"}
        THEN [rows[e] EXCEPT !.status = "pending"]
        ELSE rows[e]]

\* The UPDATE and the SELECT of recoverPending.
Recovered(rows) ==
    [e \in Event |->
        IF rows[e].status = "processing" \/ (rows[e].status = "failed" /\ RetriesLeft(rows, e))
        THEN [rows[e] EXCEPT !.status = "pending"]
        ELSE rows[e]]
Pending(rows) == {e \in Event : rows[e].status = "pending"}

\* cleanup of one processed row that is old enough.
Cleaned(rows, e) == [rows EXCEPT ![e] = NoRow]

=============================================================================
