------------------------ MODULE EventPropagatorProofs ------------------------
(***************************************************************************)
(* Theorems about the event pipeline for any number of events, loops,      *)
(* restarts and retries.  The heart is EventStep: what one step of the     *)
(* whole pipeline may do to one event.  With it, what is said of handlers, *)
(* cursors and retries is read off case by case.                           *)
(***************************************************************************)
EXTENDS EventPropagator, CommonLemmas

-----------------------------------------------------------------------------
(* The table *)

Table(t) == t \in [Event -> Row]

\* dequeue's UPDATE changes one row.
LEMMA TakenTable ==
    ASSUME NEW t, Table(t), NEW e \in Event
    PROVE  /\ Table(Taken(t, e))
           /\ \A f \in Event \ {e} : Taken(t, e)[f] = t[f]
           /\ Taken(t, e)[e].status = "processing"
           /\ Taken(t, e)[e].attempts = t[e].attempts + 1
           /\ Taken(t, e)[e].page = t[e].page
<1>1. t \in [Event -> Row]
    BY DEF Table
<1> DEFINE r == [t[e] EXCEPT !.status = "processing", !.attempts = t[e].attempts + 1]
<1>2. Taken(t, e) = [t EXCEPT ![e] = r]
    BY <1>1 DEF Taken
<1>3. /\ r \in Row /\ r.status = "processing" /\ r.attempts = t[e].attempts + 1
      /\ r.page = t[e].page
    <2> DEFINE n == t[e].attempts + 1
    <2>1. t[e] \in Row /\ n \in Nat
        BY <1>1 DEF Row
    <2>2. \A m \in Nat : LET q == [t[e] EXCEPT !.status = "processing", !.attempts = m] IN
              /\ q \in Row /\ q.status = "processing" /\ q.attempts = m
              /\ q.page = t[e].page
        BY <2>1 DEF Row, Status
    <2> HIDE DEF n
    <2>3. QED
        BY <2>1, <2>2 DEF n
<1>4. Taken(t, e) \in [Event -> Row]
    BY <1>1, <1>2, <1>3
<1>5. Table(Taken(t, e))
    BY <1>4 DEF Table
<1>6. /\ \A f \in Event \ {e} : Taken(t, e)[f] = t[f]
      /\ Taken(t, e)[e] = r
    BY <1>1, <1>2
<1>7. QED
    BY <1>3, <1>5, <1>6

\* What the handlers' outcome makes of a row.
Marked(t, e, ok) == IF ok THEN MarkedProcessed(t, e) ELSE MarkedFailed(t, e)

LEMMA MarkedTable ==
    ASSUME NEW t, Table(t), NEW e \in Event, NEW ok \in BOOLEAN, Exists(t, e)
    PROVE  /\ Table(Marked(t, e, ok))
           /\ \A f \in Event \ {e} : Marked(t, e, ok)[f] = t[f]
           /\ Marked(t, e, ok)[e].status \in {"processed", "failed"}
           /\ Marked(t, e, ok)[e].attempts = t[e].attempts
           /\ Marked(t, e, ok)[e].page = t[e].page
           /\ e \notin Eligible(Marked(t, e, ok))
<1>1. t \in [Event -> Row]
    BY DEF Table
<1>2. CASE ok
    <2> DEFINE r == [t[e] EXCEPT !.status = "processed"]
    <2>1. Marked(t, e, ok) = [t EXCEPT ![e] = r]
        BY <1>1, <1>2 DEF Marked, MarkedProcessed
    <2>2. /\ r \in Row /\ r.status = "processed" /\ r.attempts = t[e].attempts
          /\ r.page = t[e].page
        BY <1>1 DEF Row, Status
    <2>3. Marked(t, e, ok) \in [Event -> Row]
        BY <1>1, <2>1, <2>2
    <2>4. Table(Marked(t, e, ok))
        BY <2>3 DEF Table
    <2>5. /\ \A f \in Event \ {e} : Marked(t, e, ok)[f] = t[f]
          /\ Marked(t, e, ok)[e] = r
        BY <1>1, <2>1
    <2>6. e \notin Eligible(Marked(t, e, ok))
        BY <2>2, <2>5 DEF Eligible
    <2>7. QED
        BY <2>2, <2>4, <2>5, <2>6
<1>3. CASE ~ok
    <2> DEFINE r == [t[e] EXCEPT !.status = "failed", !.backoff = RetriesLeft(t, e)]
    <2>1. Marked(t, e, ok) = [t EXCEPT ![e] = r]
        BY <1>1, <1>3 DEF Marked, MarkedFailed
    <2>2. RetriesLeft(t, e) \in BOOLEAN
        BY DEF RetriesLeft
    <2>3. /\ r \in Row /\ r.status = "failed" /\ r.attempts = t[e].attempts
          /\ r.backoff = RetriesLeft(t, e) /\ r.page = t[e].page
        BY <1>1, <2>2 DEF Row, Status
    <2>4. Marked(t, e, ok) \in [Event -> Row]
        BY <1>1, <2>1, <2>3
    <2>5. Table(Marked(t, e, ok))
        BY <2>4 DEF Table
    <2>6. /\ \A f \in Event \ {e} : Marked(t, e, ok)[f] = t[f]
          /\ Marked(t, e, ok)[e] = r
        BY <1>1, <2>1
    <2>7. e \notin Eligible(Marked(t, e, ok))
        <3>1. RetriesLeft(Marked(t, e, ok), e) <=> RetriesLeft(t, e)
            BY <2>3, <2>6 DEF RetriesLeft
        <3>2. Marked(t, e, ok)[e].status = "failed"
            BY <2>3, <2>6
        <3>3. Marked(t, e, ok)[e].backoff = RetriesLeft(t, e)
            BY <2>3, <2>6
        <3>4. QED
            BY <2>2, <3>1, <3>2, <3>3, Zenon DEF Eligible
    <2>8. QED
        BY <2>3, <2>5, <2>6, <2>7
<1>4. QED
    BY <1>2, <1>3

\* recoverPending's UPDATE.
LEMMA RecoveredTable ==
    ASSUME NEW t, Table(t)
    PROVE  /\ Table(Recovered(t))
           /\ \A e \in Event :
                 /\ Recovered(t)[e].attempts = t[e].attempts
                 /\ Recovered(t)[e].page = t[e].page
                 /\ Recovered(t)[e].backoff = t[e].backoff
                 /\ \/ Recovered(t)[e] = t[e]
                    \/ /\ t[e].status = "processing"
                          \/ (t[e].status = "failed" /\ RetriesLeft(t, e))
                       /\ Recovered(t)[e].status = "pending"
<1>1. t \in [Event -> Row]
    BY DEF Table
<1>2. ASSUME NEW e \in Event
      PROVE  /\ [t[e] EXCEPT !.status = "pending"] \in Row
             /\ [t[e] EXCEPT !.status = "pending"].attempts = t[e].attempts
             /\ [t[e] EXCEPT !.status = "pending"].page = t[e].page
             /\ [t[e] EXCEPT !.status = "pending"].backoff = t[e].backoff
             /\ [t[e] EXCEPT !.status = "pending"].status = "pending"
    BY <1>1 DEF Row, Status
<1>3. Recovered(t) \in [Event -> Row]
    BY <1>1, <1>2 DEF Recovered
<1>4. ASSUME NEW e \in Event
      PROVE  /\ Recovered(t)[e].attempts = t[e].attempts
             /\ Recovered(t)[e].page = t[e].page
             /\ Recovered(t)[e].backoff = t[e].backoff
             /\ \/ Recovered(t)[e] = t[e]
                \/ /\ t[e].status = "processing"
                      \/ (t[e].status = "failed" /\ RetriesLeft(t, e))
                   /\ Recovered(t)[e].status = "pending"
    BY <1>1, <1>2 DEF Recovered
<1>5. QED
    BY <1>3, <1>4 DEF Table

\* Some row was enqueued last.
LEMMA HighestPage ==
    ASSUME NEW t \in [Event -> Row]
    PROVE  \E n \in {t[e].page : e \in Event} : \A e \in Event : t[e].page <= n
<1> DEFINE pages == {t[e].page : e \in Event}
<1>1. pages \in SUBSET Nat
    BY DEF Row
<1>2. IsFiniteSet(Event)
    <2>1. 1 \in Int /\ NEvents \in Int
        BY EventQueueAssumption DEF EventQueueAssumption
    <2>2. QED
        BY <2>1, FS_Interval DEF Event
<1>3. IsFiniteSet(pages)
    <2> DEFINE page == [e \in Event |-> t[e].page]
    <2>1. page \in Surjection(Event, pages)
        BY DEF Surjection
    <2> HIDE DEF page, pages
    <2>2. QED
        BY <1>2, <2>1, FS_Surjection
<1>4. pages # {}
    <2>1. 1 \in Event
        BY EventQueueAssumption DEF EventQueueAssumption, Event
    <2>2. QED
        BY <2>1
<1>5. \E n \in pages : \A m \in pages : m <= n
    <2> HIDE DEF pages
    <2>1. QED
        BY <1>1, <1>3, <1>4, GreatestNumber
<1>6. QED
    BY <1>5

\* enqueue adds rows and leaves the others alone.
LEMMA EnqueuedTable ==
    ASSUME NEW t, Table(t), NEW new
    PROVE  /\ Table(Enqueued(t, new))
           /\ \A e \in Event \ new : Enqueued(t, new)[e] = t[e]
           /\ \A e \in Event \cap new :
                 /\ Enqueued(t, new)[e].status = "pending"
                 /\ Enqueued(t, new)[e].attempts = 0
                 /\ ~Enqueued(t, new)[e].backoff
<1>1. t \in [Event -> Row]
    BY DEF Table
<1>2. PICK n \in Nat :
          Enqueued(t, new) =
              [e \in Event |->
                  IF e \in new
                  THEN [status |-> "pending", attempts |-> 0, page |-> n, backoff |-> FALSE]
                  ELSE t[e]]
    <2> DEFINE pages == {t[e].page : e \in Event}
               top == CHOOSE n \in pages : \A e \in Event : t[e].page <= n
    <2>1. \E n \in pages : \A e \in Event : t[e].page <= n
        BY <1>1, HighestPage
    <2>2. top \in pages
        BY <2>1
    <2>3. pages \subseteq Nat
        BY <1>1 DEF Row
    <2>4. 1 + top \in Nat
        <3> HIDE DEF top, pages
        <3>1. QED
            BY <2>2, <2>3
    <2>5. QED
        BY <2>4 DEF Enqueued
<1>3. [status |-> "pending", attempts |-> 0, page |-> n, backoff |-> FALSE] \in Row
    BY <1>2 DEF Row, Status
<1>5. Enqueued(t, new) \in [Event -> Row]
    BY <1>1, <1>2, <1>3
<1>6. Table(Enqueued(t, new))
    BY <1>5 DEF Table
<1>7. QED
    BY <1>2, <1>6

\* The clean-up job removes one row; a back-off that ends changes no status.
LEMMA CleanedTable ==
    ASSUME NEW t, Table(t), NEW e \in Event
    PROVE  /\ Table(Cleaned(t, e))
           /\ \A f \in Event \ {e} : Cleaned(t, e)[f] = t[f]
           /\ Cleaned(t, e)[e] = NoRow
<1>1. t \in [Event -> Row]
    BY DEF Table
<1>2. NoRow \in Row
    BY <1>1 DEF NoRow, Row, Status
<1>3. Cleaned(t, e) \in [Event -> Row]
    BY <1>1, <1>2 DEF Cleaned
<1>4. Table(Cleaned(t, e))
    BY <1>3 DEF Table
<1>5. QED
    BY <1>1, <1>4 DEF Cleaned

Rested(t, e) == [t EXCEPT ![e].backoff = FALSE]

LEMMA RestedTable ==
    ASSUME NEW t, Table(t), NEW e \in Event
    PROVE  /\ Table(Rested(t, e))
           /\ \A f \in Event : /\ Rested(t, e)[f].status = t[f].status
                               /\ Rested(t, e)[f].attempts = t[f].attempts
                               /\ Rested(t, e)[f].page = t[f].page
                               /\ Rested(t, e)[f].backoff => t[f].backoff
<1>1. t \in [Event -> Row]
    BY DEF Table
<1> DEFINE r == [t[e] EXCEPT !.backoff = FALSE]
<1>2. Rested(t, e) = [t EXCEPT ![e] = r]
    BY <1>1 DEF Rested
<1>3. /\ r \in Row /\ r.status = t[e].status /\ r.attempts = t[e].attempts
      /\ r.page = t[e].page /\ ~r.backoff
    BY <1>1 DEF Row
<1>4. Rested(t, e) \in [Event -> Row]
    BY <1>1, <1>2, <1>3
<1>5. Table(Rested(t, e))
    BY <1>4 DEF Table
<1>6. \A f \in Event : Rested(t, e)[f] = IF f = e THEN r ELSE t[f]
    BY <1>1, <1>2
<1>7. QED
    BY <1>3, <1>5, <1>6

-----------------------------------------------------------------------------
(* Pages *)

\* What the loop of fetchAndEnqueue inserts is a stretch of the stream that
\* begins behind the cursor the request was sent with, and the new cursor is
\* its end.
LEMMA InsertedStretch ==
    ASSUME NEW l \in Loop, NEW upto \in 0..NEvents,
           asked \in [Loop -> 0..NEvents], cursor \in 0..NEvents, asked[l] <= upto
    PROVE  \E k \in asked[l]..upto :
              /\ Inserted(l, upto) = (asked[l] + 1)..k
              /\ \A e \in Inserted(l, upto) : ~Exists(rows, e)
              /\ CursorAfter(l, Inserted(l, upto)) = IF k = asked[l] THEN cursor ELSE k
<1> DEFINE a == asked[l]
           new == Inserted(l, upto)
           T == {j \in 1..(upto - a) : a + j \in new}
<1> USE EventQueueAssumption
<1>1. a \in Nat /\ upto \in Nat /\ a <= upto
    OBVIOUS
<1>2. new = {e \in (a + 1)..upto : \A f \in (a + 1)..e : ~Exists(rows, f)}
    BY DEF Inserted
<1>3. \E k \in a..upto : new = (a + 1)..k
    <2>1. CASE T = {}
        <3>1. ASSUME NEW e \in new PROVE FALSE
            <4>1. e - a \in 1..(upto - a) /\ a + (e - a) = e
                BY <1>1, <1>2, <3>1
            <4>2. QED
                BY <2>1, <3>1, <4>1
        <3>2. new = (a + 1)..a
            <4>1. new = {}
                BY <3>1
            <4>2. (a + 1)..a = {}
                BY <1>1
            <4>3. QED
                BY <4>1, <4>2
        <3>3. QED
            BY <1>1, <3>2
    <2>2. CASE T # {}
        <3>1. upto - a \in Nat
            BY <1>1
        <3>2. PICK m \in T : \A j \in T : j <= m
            <4> HIDE DEF a, new
            <4>1. T \in SUBSET (1..(upto - a))
                OBVIOUS
            <4> HIDE DEF T
            <4>2. QED
                BY <2>2, <3>1, <4>1, LastPosition
        <3>3. m \in 1..(upto - a) /\ a + m \in new
            BY <3>2
        <3>4. ASSUME NEW e \in new PROVE e \in (a + 1)..(a + m)
            <4>1. e - a \in 1..(upto - a) /\ a + (e - a) = e
                BY <1>1, <1>2, <3>4
            <4>2. e - a \in T
                BY <3>4, <4>1
            <4>3. QED
                BY <1>1, <3>2, <3>3, <4>1, <4>2
        <3>5. ASSUME NEW e \in (a + 1)..(a + m) PROVE e \in new
            BY <1>1, <1>2, <3>3, <3>5
        <3>6. a + m \in a..upto
            BY <1>1, <3>3
        <3>7. QED
            BY <3>4, <3>5, <3>6
    <2>3. QED
        BY <2>1, <2>2
<1>4. PICK k \in a..upto : new = (a + 1)..k
    BY <1>3
<1>5. Cardinality((a + 1)..k) = k - a
    BY <1>1, FS_Interval
<1>6. (new = {}) <=> (k = a)
    <2>1. k \in Int /\ a <= k
        BY <1>1
    <2>2. k = a => (a + 1)..k = {}
        BY <1>1
    <2>3. k # a => a + 1 \in (a + 1)..k
        BY <1>1, <2>1
    <2> HIDE DEF a, new
    <2>4. QED
        BY <1>4, <2>2, <2>3
<1>7. CursorAfter(l, new) = IF k = a THEN cursor ELSE k
    <2>1. CursorAfter(l, new) = IF new = {} THEN cursor ELSE a + Cardinality(new)
        BY DEF CursorAfter
    <2>2. a + (k - a) = k
        BY <1>1
    <2> HIDE DEF a, new
    <2>3. QED
        BY <1>4, <1>5, <1>6, <2>1, <2>2
<1>8. \A e \in new : ~Exists(rows, e)
    BY <1>1, <1>2
<1>9. QED
    BY <1>4, <1>7, <1>8

-----------------------------------------------------------------------------
(* The invariant *)

PipelineType ==
    /\ emitted \in 0..NEvents
    /\ Table(rows)
    /\ saved \in 0..NEvents /\ cursor \in 0..NEvents
    /\ restarts \in Nat
    /\ proc \in {"up", "recovering", "down"}
    /\ running \in BOOLEAN
    /\ poller \in [Loop -> {"free", "timer", "calling"}]
    /\ asked \in [Loop -> 0..NEvents]
    /\ worker \in [Loop -> {"free", "timer", "handling"}]
    /\ hand \in [Loop -> 0..NEvents]
    /\ recovering \in SUBSET Event
    /\ inRecovery \in 0..NEvents
    /\ calls \in [Event -> Nat]

\* What a process loop has given to the handlers is in processing, and no
\* other loop has it.  dequeue never selects a row in processing.
HandInv ==
    /\ \A w \in Loop : worker[w] = "handling" =>
          hand[w] \in Event /\ rows[hand[w]].status = "processing"
    /\ \A v, w \in Loop :
          worker[v] = "handling" /\ worker[w] = "handling" /\ hand[v] = hand[w] => v = w

\* Loops run only in a process that is up; recovery has only rows that it put
\* back to pending, and ends before the first loop starts.
PhaseInv ==
    /\ proc # "up" =>
          ~running /\ \A l \in Loop : poller[l] = "free" /\ worker[l] = "free"
    /\ proc # "recovering" => recovering = {} /\ inRecovery = 0
    /\ proc = "recovering" =>
          /\ RecoveryMode = "awaited"
          /\ inRecovery \in Event /\ inRecovery \notin recovering
          /\ calls[inRecovery] > 0
          /\ \A e \in recovering \cup {inRecovery} : rows[e].status = "pending"

\* A row that has left "pending" was with the handlers.
SeenInv ==
    \A e \in Event : rows[e].status \notin {"absent", "pending"} => calls[e] > 0

\* Whatever lies up to n has a row, or had one and was handled.
Known(t, c, n) == \A e \in Event : e <= n => Exists(t, e) \/ c[e] > 0

\* Not only the cursors, also the requests that are under way start behind
\* events that are known.
KnownInv ==
    /\ Known(rows, calls, cursor)
    /\ Known(rows, calls, saved)
    /\ \A l \in Loop : poller[l] = "calling" => Known(rows, calls, asked[l])

IInv == PipelineType /\ HandInv /\ PhaseInv /\ SeenInv /\ KnownInv

\* How TakeNext, over a table t, changes what is known of one event.
TakenOrNot(t, e) ==
    \/ rows'[e] = t[e] /\ calls'[e] = calls[e]
    \/ /\ e \in Dequeuable(t)
       /\ rows'[e].status = "processing"
       /\ rows'[e].attempts = t[e].attempts + 1
       /\ rows'[e].page = t[e].page
       /\ calls'[e] = calls[e] + 1

\* A loop that goes on takes one eligible row, or none.  Loops that hold other
\* rows are not disturbed.
LEMMA TakeNextStep ==
    ASSUME PipelineType, NEW w \in Loop, NEW t, Table(t), TakeNext(w, t),
           \A v \in Loop \ {w} : worker[v] = "handling" =>
               hand[v] \in Event /\ t[hand[v]].status = "processing",
           \A u, v \in Loop \ {w} :
               worker[u] = "handling" /\ worker[v] = "handling" /\ hand[u] = hand[v] => u = v
    PROVE  /\ Table(rows')
           /\ worker' \in [Loop -> {"free", "timer", "handling"}]
           /\ hand' \in [Loop -> 0..NEvents]
           /\ calls' \in [Event -> Nat]
           /\ \A e \in Event : TakenOrNot(t, e)
           /\ HandInv'
<1> USE EventQueueAssumption DEF PipelineType
<1>1. ASSUME NEW e \in Dequeuable(t),
             rows' = Taken(t, e),
             worker' = [worker EXCEPT ![w] = "handling"],
             hand' = [hand EXCEPT ![w] = e],
             calls' = [calls EXCEPT ![e] = @ + 1]
      PROVE  /\ Table(rows')
             /\ worker' \in [Loop -> {"free", "timer", "handling"}]
             /\ hand' \in [Loop -> 0..NEvents]
             /\ calls' \in [Event -> Nat]
             /\ \A f \in Event : TakenOrNot(t, f)
             /\ HandInv'
    <2>1. e \in Eligible(t) /\ e \in Event /\ t[e].status # "processing"
        BY DEF Dequeuable, First, Eligible
    <2>2. /\ Table(rows')
          /\ \A f \in Event \ {e} : rows'[f] = t[f]
          /\ rows'[e].status = "processing"
          /\ rows'[e].attempts = t[e].attempts + 1
          /\ rows'[e].page = t[e].page
        BY <1>1, <2>1, TakenTable
    <2>3. /\ worker' \in [Loop -> {"free", "timer", "handling"}]
          /\ hand' \in [Loop -> 0..NEvents]
          /\ calls' \in [Event -> Nat]
        BY <1>1, <2>1 DEF Event
    <2>4. \A f \in Event : TakenOrNot(t, f)
        BY <1>1, <2>1, <2>2 DEF TakenOrNot
    <2>5. HandInv'
        BY <1>1, <2>1, <2>2 DEF HandInv
    <2>6. QED
        BY <2>2, <2>3, <2>4, <2>5
<1>2. ASSUME rows' = t,
             worker' = [worker EXCEPT ![w] = IF running' THEN "timer" ELSE "free"],
             hand' = [hand EXCEPT ![w] = 0],
             UNCHANGED calls
      PROVE  /\ Table(rows')
             /\ worker' \in [Loop -> {"free", "timer", "handling"}]
             /\ hand' \in [Loop -> 0..NEvents]
             /\ calls' \in [Event -> Nat]
             /\ \A f \in Event : TakenOrNot(t, f)
             /\ HandInv'
    <2>1. HandInv'
        BY <1>2 DEF HandInv
    <2>2. QED
        BY <1>2, <2>1 DEF TakenOrNot
<1>3. QED
    BY <1>1, <1>2 DEF TakeNext

\* recoverPendingEvents goes on with one of the rows that are left, or ends.
LEMMA RecoverNextStep ==
    ASSUME PipelineType, NEW t, NEW left \in SUBSET Event, RecoverNext(t, left),
           RecoveryMode = "awaited", rows' = t, \A e \in left : t[e].status = "pending",
           ~running', \A l \in Loop : poller'[l] = "free" /\ worker'[l] = "free"
    PROVE  /\ proc' \in {"up", "recovering"}
           /\ recovering' \in SUBSET Event
           /\ inRecovery' \in 0..NEvents
           /\ calls' \in [Event -> Nat]
           /\ \A e \in Event :
                 \/ calls'[e] = calls[e]
                 \/ /\ e \in left \ recovering' /\ calls'[e] = calls[e] + 1
                    /\ \A f \in left : t[e].page <= t[f].page
           /\ PhaseInv'
<1> USE EventQueueAssumption DEF PipelineType
<1>1. ASSUME NEW e \in First(t, left),
             inRecovery' = e, recovering' = left \ {e},
             calls' = [calls EXCEPT ![e] = @ + 1], proc' = "recovering"
      PROVE  /\ recovering' \in SUBSET Event
             /\ inRecovery' \in 0..NEvents
             /\ calls' \in [Event -> Nat]
             /\ \A f \in Event :
                   \/ calls'[f] = calls[f]
                   \/ /\ f \in left \ recovering' /\ calls'[f] = calls[f] + 1
                      /\ \A g \in left : t[f].page <= t[g].page
             /\ PhaseInv'
    <2>1. e \in left /\ e \in Event /\ \A g \in left : t[e].page <= t[g].page
        BY DEF First
    <2>2. calls' \in [Event -> Nat] /\ calls'[e] = calls[e] + 1 /\ calls[e] \in Nat
        BY <1>1, <2>1
    <2>3. calls'[e] > 0
        BY <2>2
    <2>4. PhaseInv'
        BY <1>1, <2>1, <2>3 DEF PhaseInv
    <2>5. QED
        BY <1>1, <2>1, <2>2, <2>4 DEF Event
<1>2. ASSUME inRecovery' = 0, recovering' = {}, proc' = "up", UNCHANGED calls
      PROVE  /\ recovering' \in SUBSET Event
             /\ inRecovery' \in 0..NEvents
             /\ PhaseInv'
    BY <1>2 DEF PhaseInv
<1>3. QED
    BY <1>1, <1>2 DEF RecoverNext

-----------------------------------------------------------------------------
(* What one step does to one event *)

Stays(e) ==
    /\ rows'[e].status = rows[e].status
    /\ rows'[e].attempts = rows[e].attempts
    /\ rows'[e].page = rows[e].page
    /\ rows'[e].backoff => rows[e].backoff
    /\ calls'[e] = calls[e]

Dequeued(e) ==
    /\ proc = "up"
    /\ rows[e].status = "pending" \/ (rows[e].status = "failed" /\ RetriesLeft(rows, e))
    /\ \A f \in Event : rows[f].status = "pending" /\ ~rows[f].backoff =>
          rows[e].page <= rows[f].page
    /\ rows'[e].status = "processing"
    /\ rows'[e].attempts = rows[e].attempts + 1
    /\ rows'[e].page = rows[e].page
    /\ calls'[e] = calls[e] + 1

Finishes(e) ==
    /\ \/ rows[e].status = "processing"
       \/ proc = "recovering" /\ e = inRecovery
    /\ rows'[e].status \in {"processed", "failed"}
    /\ rows'[e].attempts = rows[e].attempts
    /\ rows'[e].page = rows[e].page
    /\ calls'[e] = calls[e]

Recovers(e) ==
    /\ proc # "up" /\ RecoveryMode = "awaited"
    /\ \/ rows[e].status \in {"pending", "processing"}
       \/ rows[e].status = "failed" /\ RetriesLeft(rows, e)
    /\ rows'[e].status = "pending"
    /\ rows'[e].attempts = rows[e].attempts
    /\ rows'[e].backoff => rows[e].backoff
    /\ \/ calls'[e] = calls[e] /\ proc = "down"
       \/ /\ calls'[e] = calls[e] + 1
          /\ e \notin recovering'
          /\ e \in recovering \/ restarts' = restarts + 1
          /\ \A f \in Event :
                rows[f].status = "pending" /\ (proc = "recovering" => f \in recovering)
                => rows[e].page <= rows[f].page

CleanedUp(e) ==
    /\ AllowCleanup
    /\ rows[e].status = "processed"
    /\ rows'[e].status = "absent"
    /\ rows'[e].attempts = 0
    /\ calls'[e] = calls[e]

Changes(e) == Stays(e) \/ Dequeued(e) \/ Finishes(e) \/ Recovers(e) \/ CleanedUp(e)

\* Only a page that arrives brings rows.
Arrives(e) ==
    /\ ~Exists(rows, e)
    /\ \E l \in Loop : poller[l] = "calling" /\ asked[l] < e
    /\ e <= cursor'
    /\ rows'[e].status = "pending"
    /\ rows'[e].attempts = 0
    /\ ~rows'[e].backoff
    /\ calls'[e] = 0

Moves(e) == Changes(e) \/ Arrives(e)

\* Whatever moves, rows that have left "pending" were with the handlers.
LEMMA SeenStep ==
    ASSUME PipelineType, PhaseInv, SeenInv, \A e \in Event : Moves(e)
    PROVE  SeenInv'
<1> SUFFICES ASSUME NEW e \in Event, rows'[e].status \notin {"absent", "pending"}
             PROVE  calls'[e] > 0
    BY DEF SeenInv
<1>1. calls[e] \in Nat
    BY DEF PipelineType
<1>2. CASE Stays(e)
    BY <1>2 DEF Stays, SeenInv
<1>3. CASE Dequeued(e)
    BY <1>1, <1>3 DEF Dequeued
<1>4. CASE Finishes(e)
    BY <1>4 DEF Finishes, SeenInv, PhaseInv
<1>5. CASE Arrives(e) \/ Recovers(e) \/ CleanedUp(e)
    BY <1>5 DEF Arrives, Recovers, CleanedUp
<1>6. QED
    BY <1>2, <1>3, <1>4, <1>5 DEF Moves, Changes

\* ... and what was known stays known.
LEMMA KnownStep ==
    ASSUME PipelineType, PhaseInv, SeenInv, \A e \in Event : Moves(e),
           NEW n, Known(rows, calls, n)
    PROVE  Known(rows', calls', n)
<1> SUFFICES ASSUME NEW e \in Event, e <= n PROVE Exists(rows', e) \/ calls'[e] > 0
    BY DEF Known
<1>1. calls[e] \in Nat /\ (Exists(rows, e) \/ calls[e] > 0)
    BY DEF PipelineType, Known
<1>2. CASE Stays(e)
    BY <1>1, <1>2 DEF Stays, Exists
<1>3. CASE Arrives(e) \/ Dequeued(e) \/ Finishes(e) \/ Recovers(e)
    BY <1>3 DEF Arrives, Dequeued, Finishes, Recovers, Exists
<1>4. CASE CleanedUp(e)
    BY <1>4 DEF CleanedUp, SeenInv
<1>5. QED
    BY <1>2, <1>3, <1>4 DEF Moves, Changes

LEMMA PipelineInit == Init => IInv
<1> SUFFICES ASSUME Init PROVE IInv
    OBVIOUS
<1> USE EventQueueAssumption DEF EventQueueAssumption, Init
<1>1. Table(rows)
    <2>1. NoRow \in Row
        BY DEF NoRow, Row, Status
    <2>2. rows \in [Event -> Row]
        BY <2>1
    <2>3. QED
        BY <2>2 DEF Table
<1>2. PipelineType
    <2>1. 0 \in 0..NEvents
        OBVIOUS
    <2>2. calls \in [Event -> Nat] /\ recovering \in SUBSET Event /\ restarts \in Nat
        OBVIOUS
    <2>3. /\ poller \in [Loop -> {"free", "timer", "calling"}]
          /\ worker \in [Loop -> {"free", "timer", "handling"}]
        BY DEF NoLoops
    <2>4. asked \in [Loop -> 0..NEvents] /\ hand \in [Loop -> 0..NEvents]
        BY <2>1 DEF Nothing
    <2>5. QED
        BY <1>1, <2>1, <2>2, <2>3, <2>4 DEF PipelineType
<1>3. HandInv /\ PhaseInv
    BY DEF HandInv, PhaseInv, NoLoops
<1>4. SeenInv
    BY DEF SeenInv, NoRow
<1>5. KnownInv
    <2>1. Known(rows, calls, 0)
        BY DEF Known, Event
    <2>2. \A l \in Loop : poller[l] # "calling"
        BY DEF NoLoops
    <2>3. QED
        BY <2>1, <2>2 DEF KnownInv
<1>6. QED
    BY <1>2, <1>3, <1>4, <1>5 DEF IInv

\* The process loops: a timer fires, or the handlers of a row have settled.
LEMMA ProcessStep ==
    ASSUME IInv, NEW w \in Loop, ProcessQueue(w)
    PROVE  IInv' /\ \A e \in Event : Changes(e)
<1> USE DEF IInv
<1>1. /\ Table(rows')
      /\ worker' \in [Loop -> {"free", "timer", "handling"}]
      /\ hand' \in [Loop -> 0..NEvents]
      /\ calls' \in [Event -> Nat]
      /\ \A e \in Event : TakenOrNot(rows, e)
      /\ HandInv'
    <2>1. Table(rows) /\ TakeNext(w, rows)
        BY DEF PipelineType, ProcessQueue
    <2>2. \A v \in Loop \ {w} : worker[v] = "handling" =>
              hand[v] \in Event /\ rows[hand[v]].status = "processing"
        BY DEF HandInv
    <2>3. \A u, v \in Loop \ {w} :
              worker[u] = "handling" /\ worker[v] = "handling" /\ hand[u] = hand[v] => u = v
        BY DEF HandInv
    <2>4. QED
        BY <2>1, <2>2, <2>3, TakeNextStep
<1>3. proc = "up"
    BY DEF ProcessQueue, PhaseInv
<1>2. \A e \in Event : Changes(e)
    BY <1>1, <1>3 DEF TakenOrNot, Dequeuable, First, Eligible, Changes, Stays, Dequeued
<1>4. PipelineType'
    BY <1>1 DEF PipelineType, ProcessQueue, pollVars, recVars
<1>5. PhaseInv'
    BY <1>3 DEF PhaseInv, ProcessQueue, recVars
<1>6. SeenInv'
    BY <1>2, SeenStep DEF Moves
<1>7. KnownInv'
    BY <1>2, KnownStep DEF Moves, KnownInv, ProcessQueue, pollVars
<1>8. QED
    BY <1>1, <1>2, <1>4, <1>5, <1>6, <1>7

LEMMA HandlersStep ==
    ASSUME IInv, NEW w \in Loop, NEW ok \in BOOLEAN, HandlersSettle(w, ok)
    PROVE  IInv' /\ \A e \in Event : Changes(e)
<1> USE DEF IInv
<1> DEFINE h == hand[w]
           t == Marked(rows, h, ok)
<1>1. h \in Event /\ rows[h].status = "processing" /\ Exists(rows, h)
    BY DEF HandlersSettle, HandInv, Exists
<1>2. /\ Table(t)
      /\ \A f \in Event \ {h} : t[f] = rows[f]
      /\ t[h].status \in {"processed", "failed"}
      /\ t[h].attempts = rows[h].attempts /\ t[h].page = rows[h].page
      /\ h \notin Eligible(t)
    <2>1. Table(rows)
        BY DEF PipelineType
    <2> HIDE DEF h
    <2>2. QED
        BY <1>1, <2>1, MarkedTable
<1>3. TakeNext(w, t)
    BY DEF HandlersSettle, Marked
<1> HIDE DEF t
<1>4. /\ Table(rows')
      /\ worker' \in [Loop -> {"free", "timer", "handling"}]
      /\ hand' \in [Loop -> 0..NEvents]
      /\ calls' \in [Event -> Nat]
      /\ \A e \in Event : TakenOrNot(t, e)
      /\ HandInv'
    <2>1. \A v \in Loop \ {w} : worker[v] = "handling" =>
              hand[v] \in Event /\ t[hand[v]].status = "processing"
        BY <1>2 DEF HandInv, HandlersSettle
    <2>2. \A u, v \in Loop \ {w} :
              worker[u] = "handling" /\ worker[v] = "handling" /\ hand[u] = hand[v] => u = v
        BY DEF HandInv
    <2>3. QED
        BY <1>2, <1>3, <2>1, <2>2, TakeNextStep
<1>6. proc = "up"
    BY DEF HandlersSettle, PhaseInv
<1>5. ASSUME NEW e \in Event PROVE Changes(e)
    <2>1. CASE e = h
        BY <1>1, <1>2, <1>4, <2>1 DEF TakenOrNot, Dequeuable, First, Changes, Finishes
    <2>2. CASE e # h
        <3>1. CASE rows'[e] = t[e] /\ calls'[e] = calls[e]
            BY <1>2, <2>2, <3>1 DEF Changes, Stays
        <3>2. CASE /\ e \in Dequeuable(t)
                   /\ rows'[e].status = "processing"
                   /\ rows'[e].attempts = t[e].attempts + 1
                   /\ rows'[e].page = t[e].page
                   /\ calls'[e] = calls[e] + 1
            <4>1. \A f \in Event : rows[f].status = "pending" /\ ~rows[f].backoff =>
                      f \in Eligible(t) /\ t[f] = rows[f]
                BY <1>1, <1>2 DEF Eligible
            <4>2. e \in Eligible(t) /\ \A f \in Eligible(t) : t[e].page <= t[f].page
                BY <3>2 DEF Dequeuable, First
            <4>3. \A f \in Event : rows[f].status = "pending" /\ ~rows[f].backoff =>
                      rows[e].page <= rows[f].page
                BY <1>2, <2>2, <4>1, <4>2
            <4>4. Dequeued(e)
                BY <1>2, <1>6, <2>2, <3>2, <4>2, <4>3 DEF Dequeued, Eligible, RetriesLeft
            <4>5. QED
                BY <4>4 DEF Changes
        <3>3. QED
            BY <1>4, <3>1, <3>2 DEF TakenOrNot
    <2>3. QED
        BY <2>1, <2>2
<1>7. PipelineType'
    BY <1>4 DEF PipelineType, HandlersSettle, pollVars, recVars
<1>8. PhaseInv'
    BY <1>6 DEF PhaseInv, HandlersSettle, recVars
<1>9. SeenInv'
    BY <1>5, SeenStep DEF Moves
<1>10. KnownInv'
    BY <1>5, KnownStep DEF Moves, KnownInv, HandlersSettle, pollVars
<1>11. QED
    BY <1>4, <1>5, <1>7, <1>8, <1>9, <1>10

\* The poll loops.  A response may be to a request of any age; what it brings
\* begins behind the cursor of that request.
LEMMA PageStep ==
    ASSUME IInv, NEW l \in Loop, NEW upto \in 0..NEvents, PageArrives(l, upto)
    PROVE  IInv' /\ \A e \in Event : Moves(e)
<1> USE EventQueueAssumption DEF IInv
<1> DEFINE new == Inserted(l, upto)
<1>1. PICK k \in asked[l]..upto :
          /\ new = (asked[l] + 1)..k
          /\ \A e \in new : ~Exists(rows, e)
          /\ CursorAfter(l, new) = IF k = asked[l] THEN cursor ELSE k
    BY InsertedStretch DEF PageArrives, PipelineType
<1>2. /\ poller[l] = "calling"
      /\ asked[l] \in 0..NEvents /\ k \in 0..NEvents /\ asked[l] <= k
      /\ cursor' = IF k = asked[l] THEN cursor ELSE k
    <2>1. asked[l] \in 0..NEvents
        BY DEF PipelineType
    <2>2. k \in 0..NEvents /\ asked[l] <= k
        BY <1>1, <2>1 DEF EventQueueAssumption
    <2>3. poller[l] = "calling" /\ cursor' = CursorAfter(l, new)
        BY DEF PageArrives
    <2> HIDE DEF new
    <2>4. QED
        BY <1>1, <2>1, <2>2, <2>3
<1>3. /\ Table(rows')
      /\ \A e \in Event \ new : rows'[e] = rows[e]
      /\ \A e \in Event \cap new :
            rows'[e].status = "pending" /\ rows'[e].attempts = 0 /\ ~rows'[e].backoff
    <2>1. CASE new = {}
        BY <2>1 DEF PageArrives, PipelineType
    <2>2. CASE new # {}
        <3>1. Table(rows) /\ rows' = Enqueued(rows, new)
            BY <2>2 DEF PageArrives, PipelineType
        <3> HIDE DEF new
        <3>2. QED
            BY <3>1, EnqueuedTable
    <2>3. QED
        BY <2>1, <2>2
<1>4. /\ UNCHANGED <<worker, hand, proc, running, recovering, inRecovery>>
      /\ proc = "up"
      /\ calls' \in [Event -> Nat]
      /\ \A e \in Event \ new : calls'[e] = calls[e]
      /\ \A e \in Event \cap new : calls'[e] = 0
    <2>1. UNCHANGED <<worker, hand, proc, running, recovering, inRecovery>>
        BY DEF PageArrives, workVars, recVars
    <2>2. proc = "up"
        BY <1>2 DEF PhaseInv
    <2>3. calls' = [e \in Event |-> IF e \in new THEN 0 ELSE calls[e]]
        BY DEF PageArrives
    <2>4. \A e \in Event : calls[e] \in Nat
        BY DEF PipelineType
    <2> HIDE DEF new
    <2>5. QED
        BY <2>1, <2>2, <2>3, <2>4
<1>5. ASSUME NEW e \in Event PROVE Moves(e)
    <2>1. CASE e \in new
        <3>1. asked[l] < e /\ e <= cursor'
            BY <1>1, <1>2, <2>1
        <3>2. Arrives(e)
            BY <1>1, <1>2, <1>3, <1>4, <2>1, <3>1 DEF Arrives
        <3>3. QED
            BY <3>2 DEF Moves
    <2>2. CASE e \notin new
        BY <1>3, <1>4, <2>2 DEF Moves, Changes, Stays
    <2>3. QED
        BY <2>1, <2>2
<1>6. PipelineType'
    <2>1. cursor' \in 0..NEvents /\ saved' \in 0..NEvents
        BY <1>2 DEF PageArrives, PipelineType
    <2>2. /\ poller' \in [Loop -> {"free", "timer", "calling"}]
          /\ asked' \in [Loop -> 0..NEvents]
        <3>1. 0 \in 0..NEvents
            BY DEF EventQueueAssumption
        <3>2. QED
            BY <3>1 DEF PageArrives, PipelineType
    <2>3. QED
        BY <1>3, <1>4, <2>1, <2>2 DEF PageArrives, PipelineType
<1>7. HandInv'
    <2>1. \A w \in Loop : worker[w] = "handling" => hand[w] \in Event \ new
        BY <1>1 DEF HandInv, Exists
    <2>2. QED
        BY <1>3, <1>4, <2>1 DEF HandInv
<1>8. PhaseInv'
    BY <1>2, <1>4 DEF PhaseInv
<1>9. SeenInv'
    BY <1>5, SeenStep
<1>10. KnownInv'
    <2>1. \A n : Known(rows, calls, n) => Known(rows', calls', n)
        BY <1>5, KnownStep
    <2>2. Known(rows', calls', k)
        <3>1. Known(rows', calls', asked[l])
            BY <1>2, <2>1 DEF KnownInv
        <3>2. ASSUME NEW e \in Event, e <= k, ~(e <= asked[l]) PROVE Exists(rows', e)
            <4>1. e \in new
                BY <1>1, <1>2, <3>2 DEF Event
            <4>2. QED
                BY <1>3, <4>1 DEF Exists
        <3>3. QED
            BY <3>1, <3>2 DEF Known
    <2>3. Known(rows', calls', cursor')
        BY <1>2, <2>1, <2>2 DEF KnownInv
    <2>4. Known(rows', calls', saved')
        BY <2>1, <2>3 DEF KnownInv, PageArrives
    <2>5. \A m \in Loop : poller'[m] = "calling" => Known(rows', calls', asked'[m])
        <3>1. ASSUME NEW m \in Loop, poller'[m] = "calling"
              PROVE  poller[m] = "calling" /\ asked'[m] = asked[m]
            BY <3>1 DEF PageArrives, PipelineType
        <3>2. QED
            BY <2>1, <3>1 DEF KnownInv
    <2>6. QED
        BY <2>3, <2>4, <2>5 DEF KnownInv
<1>11. QED
    BY <1>5, <1>6, <1>7, <1>8, <1>9, <1>10

\* Requests leave with the cursor of the moment.
LEMMA RequestStep ==
    ASSUME IInv, NEW l \in Loop, Poll(l) \/ RetryRequest(l)
    PROVE  IInv' /\ \A e \in Event : Changes(e)
<1> USE DEF IInv, dbVars, workVars, recVars
<1>1. UNCHANGED <<rows, calls, saved, restarts, emitted, proc, running, cursor,
                  worker, hand, recovering, inRecovery>>
    BY DEF Poll, RetryRequest
<1>2. /\ poller[l] # "free"
      /\ poller' \in [Loop -> {"free", "timer", "calling"}]
      /\ asked' \in [Loop -> 0..NEvents]
      /\ asked'[l] = cursor
      /\ \A m \in Loop \ {l} : asked'[m] = asked[m] /\ poller'[m] = poller[m]
    BY DEF Poll, RetryRequest, PipelineType
<1>3. \A e \in Event : Changes(e)
    BY <1>1 DEF Changes, Stays
<1>4. PipelineType'
    BY <1>1, <1>2 DEF PipelineType
<1>5. HandInv' /\ SeenInv'
    BY <1>1 DEF HandInv, SeenInv
<1>6. PhaseInv'
    BY <1>1, <1>2 DEF PhaseInv
<1>7. KnownInv'
    BY <1>1, <1>2 DEF KnownInv
<1>8. QED
    BY <1>3, <1>4, <1>5, <1>6, <1>7

\* start() and stop().
LEMMA StartStep ==
    ASSUME IInv, Start
    PROVE  IInv' /\ \A e \in Event : Changes(e)
<1> USE DEF IInv
<1>1. PICK l \in Loop :
          /\ NextFree(poller, l)
          /\ poller' = [poller EXCEPT ![l] = "calling"]
          /\ asked' = [asked EXCEPT ![l] = cursor]
    BY DEF Start
<1>2. PICK w \in Loop : NextFree(worker, w) /\ TakeNext(w, rows)
    BY DEF Start
<1>3. /\ Table(rows')
      /\ worker' \in [Loop -> {"free", "timer", "handling"}]
      /\ hand' \in [Loop -> 0..NEvents]
      /\ calls' \in [Event -> Nat]
      /\ \A e \in Event : TakenOrNot(rows, e)
      /\ HandInv'
    <2>1. Table(rows)
        BY DEF PipelineType
    <2>2. \A v \in Loop \ {w} : worker[v] = "handling" =>
              hand[v] \in Event /\ rows[hand[v]].status = "processing"
        BY DEF HandInv
    <2>3. \A u, v \in Loop \ {w} :
              worker[u] = "handling" /\ worker[v] = "handling" /\ hand[u] = hand[v] => u = v
        BY DEF HandInv
    <2>4. QED
        BY <1>2, <2>1, <2>2, <2>3, TakeNextStep
<1>4. \A e \in Event : Changes(e)
    BY <1>3 DEF Start, TakenOrNot, Dequeuable, First, Eligible, Changes, Stays, Dequeued
<1>5. PipelineType'
    BY <1>1, <1>3 DEF PipelineType, Start, recVars
<1>6. PhaseInv'
    BY DEF PhaseInv, Start, recVars
<1>7. SeenInv'
    BY <1>4, SeenStep DEF Moves
<1>8. KnownInv'
    <2>1. \A n : Known(rows, calls, n) => Known(rows', calls', n)
        BY <1>4, KnownStep DEF Moves
    <2>2. \A m \in Loop : poller'[m] = "calling" => Known(rows', calls', asked'[m])
        BY <1>1, <2>1 DEF KnownInv, PipelineType
    <2>3. QED
        BY <2>1, <2>2 DEF KnownInv, Start
<1>9. QED
    BY <1>3, <1>4, <1>5, <1>6, <1>7, <1>8

LEMMA StopStep ==
    ASSUME IInv, Stop
    PROVE  IInv' /\ \A e \in Event : Changes(e)
<1> USE DEF IInv, dbVars, recVars
<1>1. /\ UNCHANGED <<rows, calls, saved, restarts, emitted, proc, cursor, asked, hand,
                     recovering, inRecovery>>
      /\ proc = "up"
    BY DEF Stop
<1>2. /\ poller' \in [Loop -> {"free", "timer", "calling"}]
      /\ worker' \in [Loop -> {"free", "timer", "handling"}]
      /\ \A l \in Loop : /\ poller'[l] = "calling" => poller[l] = "calling"
                         /\ worker'[l] = "handling" => worker[l] = "handling"
    BY DEF Stop, Cleared, PipelineType
<1>3. \A e \in Event : Changes(e)
    BY <1>1 DEF Changes, Stays
<1>4. PipelineType'
    BY <1>1, <1>2 DEF PipelineType, Stop
<1>5. HandInv' /\ SeenInv' /\ PhaseInv'
    BY <1>1, <1>2 DEF HandInv, SeenInv, PhaseInv
<1>6. KnownInv'
    BY <1>1, <1>2 DEF KnownInv
<1>7. QED
    BY <1>3, <1>4, <1>5, <1>6

\* Recovery works on one row after the other, before any loop runs.
LEMMA RecoveryStep ==
    ASSUME IInv, NEW ok \in BOOLEAN, RecoverySettles(ok)
    PROVE  IInv' /\ \A e \in Event : Changes(e)
<1> USE DEF IInv
<1> DEFINE h == inRecovery
           t == Marked(rows, h, ok)
<1>1. /\ h \in Event /\ h \notin recovering
      /\ Exists(rows, h)
      /\ ~running /\ \A l \in Loop : poller[l] = "free" /\ worker[l] = "free"
      /\ RecoveryMode = "awaited"
    BY DEF RecoverySettles, PhaseInv, Exists
<1>2. /\ Table(t)
      /\ \A f \in Event \ {h} : t[f] = rows[f]
      /\ t[h].status \in {"processed", "failed"}
      /\ t[h].attempts = rows[h].attempts /\ t[h].page = rows[h].page
    <2>1. Table(rows)
        BY DEF PipelineType
    <2> HIDE DEF h
    <2>2. QED
        BY <1>1, <2>1, MarkedTable
<1>3. rows' = t /\ RecoverNext(t, recovering)
    BY DEF RecoverySettles, Marked
<1>4. UNCHANGED <<emitted, saved, restarts, running, cursor, poller, asked, worker, hand>>
    BY DEF RecoverySettles, pollVars, workVars
<1> HIDE DEF t
<1>5. \A e \in recovering : t[e].status = "pending" /\ rows[e].status = "pending"
    <2>1. \A e \in recovering : rows[e].status = "pending"
        BY DEF RecoverySettles, PhaseInv
    <2>2. \A e \in recovering : e \in Event \ {h}
        BY <1>1 DEF PipelineType
    <2>3. QED
        BY <1>2, <2>1, <2>2
<1>6. /\ proc' \in {"up", "recovering"}
      /\ recovering' \in SUBSET Event
      /\ inRecovery' \in 0..NEvents
      /\ calls' \in [Event -> Nat]
      /\ \A e \in Event :
            \/ calls'[e] = calls[e]
            \/ /\ e \in recovering \ recovering' /\ calls'[e] = calls[e] + 1
               /\ \A f \in recovering : t[e].page <= t[f].page
      /\ PhaseInv'
    <2>1. recovering \in SUBSET Event
        BY DEF PipelineType
    <2>2. ~running' /\ \A l \in Loop : poller'[l] = "free" /\ worker'[l] = "free"
        BY <1>1, <1>4
    <2>3. QED
        BY <1>1, <1>3, <1>5, <2>1, <2>2, RecoverNextStep
<1>7. ASSUME NEW e \in Event PROVE Changes(e)
    <2>1. CASE e = h
        BY <1>1, <1>2, <1>3, <1>6, <2>1 DEF Changes, Finishes, RecoverySettles
    <2>2. CASE e # h /\ calls'[e] = calls[e]
        BY <1>2, <1>3, <2>2 DEF Changes, Stays
    <2>3. CASE /\ e # h /\ e \in recovering \ recovering' /\ calls'[e] = calls[e] + 1
               /\ \A f \in recovering : t[e].page <= t[f].page
        <3>1. proc = "recovering" /\ rows[e].status = "pending" /\ rows'[e] = rows[e]
            BY <1>2, <1>3, <1>5, <2>3 DEF RecoverySettles
        <3>2. \A f \in recovering : f \in Event /\ f # h /\ rows[f].page = t[f].page
            BY <1>1, <1>2 DEF PipelineType
        <3>3. Recovers(e)
            BY <1>1, <2>3, <3>1, <3>2 DEF Recovers
        <3>4. QED
            BY <3>3 DEF Changes
    <2>4. QED
        BY <1>6, <2>1, <2>2, <2>3
<1>8. PipelineType'
    BY <1>2, <1>3, <1>4, <1>6 DEF PipelineType
<1>9. HandInv'
    BY <1>1, <1>4 DEF HandInv
<1>10. SeenInv'
    BY <1>7, SeenStep DEF Moves
<1>11. KnownInv'
    BY <1>4, <1>7, KnownStep DEF Moves, KnownInv
<1>12. QED
    BY <1>6, <1>7, <1>8, <1>9, <1>10, <1>11

\* A process that dies leaves the table as it is.
LEMMA DeathStep ==
    ASSUME IInv, Crash
    PROVE  IInv' /\ \A e \in Event : Changes(e)
<1> USE DEF IInv, dbVars
<1>1. /\ UNCHANGED <<rows, calls, saved, restarts, emitted>>
      /\ Vanish
    BY DEF Crash
<1>2. \A e \in Event : Changes(e)
    BY <1>1 DEF Changes, Stays
<1>3. PipelineType'
    <2>1. 0 \in 0..NEvents
        BY EventQueueAssumption DEF EventQueueAssumption
    <2>2. QED
        BY <1>1, <2>1 DEF PipelineType, Vanish, NoLoops, Nothing
<1>4. HandInv' /\ SeenInv' /\ PhaseInv'
    BY <1>1 DEF HandInv, SeenInv, PhaseInv, Vanish, NoLoops
<1>5. KnownInv'
    <2>1. Known(rows, calls, 0)
        BY DEF Known, Event
    <2>2. cursor' = 0 /\ \A l \in Loop : poller'[l] = "free"
        BY <1>1 DEF Vanish, NoLoops
    <2>3. QED
        BY <1>1, <2>1, <2>2 DEF KnownInv
<1>6. QED
    BY <1>2, <1>3, <1>4, <1>5

LEMMA BootStep ==
    ASSUME IInv, Boot
    PROVE  IInv' /\ \A e \in Event : Changes(e)
<1> USE DEF IInv
<1>1. /\ UNCHANGED <<emitted, saved, poller, asked, worker, hand>>
      /\ restarts' = restarts + 1 /\ cursor' = saved /\ running' = FALSE
      /\ \A l \in Loop : poller[l] = "free" /\ worker[l] = "free"
      /\ proc = "down" /\ recovering = {} /\ inRecovery = 0
    BY DEF Boot, PhaseInv, pollVars, workVars
<1>2. restarts' \in Nat /\ cursor' \in 0..NEvents /\ saved' \in 0..NEvents
    BY <1>1 DEF PipelineType
<1>3. CASE RecoveryMode = "awaited"
    <2> DEFINE t == Recovered(rows)
    <2>1. /\ Table(t)
          /\ \A e \in Event :
                /\ t[e].attempts = rows[e].attempts
                /\ t[e].page = rows[e].page
                /\ t[e].backoff = rows[e].backoff
                /\ \/ t[e] = rows[e]
                   \/ /\ rows[e].status = "processing"
                         \/ (rows[e].status = "failed" /\ RetriesLeft(rows, e))
                      /\ t[e].status = "pending"
        BY RecoveredTable DEF PipelineType
    <2>2. rows' = t /\ RecoverNext(t, Pending(t))
        BY <1>3 DEF Boot
    <2> HIDE DEF t
    <2>3. Pending(t) \in SUBSET Event /\ \A e \in Pending(t) : t[e].status = "pending"
        BY DEF Pending
    <2>4. /\ proc' \in {"up", "recovering"}
          /\ recovering' \in SUBSET Event
          /\ inRecovery' \in 0..NEvents
          /\ calls' \in [Event -> Nat]
          /\ \A e \in Event :
                \/ calls'[e] = calls[e]
                \/ /\ e \in Pending(t) \ recovering' /\ calls'[e] = calls[e] + 1
                   /\ \A f \in Pending(t) : t[e].page <= t[f].page
          /\ PhaseInv'
        BY <1>1, <1>3, <2>2, <2>3, RecoverNextStep
    <2>5. ASSUME NEW e \in Event PROVE Changes(e)
        <3>1. CASE t[e] = rows[e] /\ calls'[e] = calls[e]
            BY <2>1, <2>2, <3>1 DEF Changes, Stays
        <3>2. CASE t[e].status = "pending" /\ t[e] # rows[e] /\ calls'[e] = calls[e]
            BY <1>1, <1>3, <2>1, <2>2, <3>2 DEF Changes, Recovers
        <3>3. CASE /\ e \in Pending(t) \ recovering' /\ calls'[e] = calls[e] + 1
                   /\ \A f \in Pending(t) : t[e].page <= t[f].page
            <4>1. ASSUME NEW f \in Event, rows[f].status = "pending"
                  PROVE  rows[e].page <= rows[f].page
                <5>1. t[f].status = "pending"
                    BY <2>1, <4>1
                <5>2. f \in Pending(t)
                    BY <5>1 DEF Pending
                <5>3. t[e].page <= t[f].page /\ t[e].page = rows[e].page /\ t[f].page = rows[f].page
                    BY <2>1, <3>3, <5>2
                <5>4. QED
                    BY <5>3
            <4>2. Recovers(e)
                <5>1. t[e].status = "pending" /\ rows' = t
                    BY <2>2, <2>3, <3>3
                <5>2. \/ rows[e].status \in {"pending", "processing"}
                      \/ rows[e].status = "failed" /\ RetriesLeft(rows, e)
                    BY <2>1, <5>1
                <5>3. QED
                    BY <1>1, <1>3, <2>1, <3>3, <4>1, <5>1, <5>2 DEF Recovers
            <4>3. QED
                BY <4>2 DEF Changes
        <3>4. QED
            BY <2>1, <2>4, <3>1, <3>2, <3>3
    <2>6. PipelineType'
        BY <1>1, <1>2, <2>1, <2>2, <2>4 DEF PipelineType
    <2>7. HandInv'
        BY <1>1 DEF HandInv
    <2>8. SeenInv'
        BY <2>5, SeenStep DEF Moves
    <2>9. KnownInv'
        BY <1>1, <2>5, KnownStep DEF Moves, KnownInv
    <2>10. QED
        BY <2>4, <2>5, <2>6, <2>7, <2>8, <2>9
<1>4. CASE RecoveryMode # "awaited"
    <2>1. proc' = "up" /\ UNCHANGED <<rows, recovering, inRecovery, calls>>
        BY <1>4 DEF Boot, recVars
    <2>2. \A e \in Event : Changes(e)
        BY <2>1 DEF Changes, Stays
    <2>3. PipelineType'
        BY <1>1, <1>2, <2>1 DEF PipelineType
    <2>4. HandInv' /\ PhaseInv' /\ SeenInv'
        BY <1>1, <2>1 DEF HandInv, PhaseInv, SeenInv
    <2>5. KnownInv'
        BY <1>1, <2>1 DEF KnownInv
    <2>6. QED
        BY <2>2, <2>3, <2>4, <2>5
<1>5. QED
    BY <1>3, <1>4

\* The environment: publication, back-offs that end, the clean-up job.
LEMMA EnvironmentStep ==
    ASSUME IInv, SaveCursor \/ Emit \/ (\E e \in Event : BackoffEnds(e)) \/ (\E e \in Event : Cleanup(e))
    PROVE  IInv' /\ \A e \in Event : Changes(e)
<1> USE DEF IInv
<1>1. /\ UNCHANGED <<restarts, proc, running, cursor, poller, asked, worker, hand,
                     recovering, inRecovery, calls>>
      /\ saved' \in {saved, cursor}
    BY DEF SaveCursor, Emit, BackoffEnds, Cleanup, dbVars, pollVars, workVars, recVars
<1>2. emitted' \in 0..NEvents
    BY EventQueueAssumption DEF SaveCursor, Emit, BackoffEnds, Cleanup, PipelineType, EventQueueAssumption
<1>3. /\ Table(rows')
      /\ \A e \in Event :
            \/ /\ rows'[e].status = rows[e].status /\ rows'[e].attempts = rows[e].attempts
               /\ rows'[e].page = rows[e].page /\ (rows'[e].backoff => rows[e].backoff)
            \/ /\ AllowCleanup /\ rows[e].status = "processed"
               /\ rows'[e] = NoRow
    <2>1. CASE SaveCursor \/ Emit
        BY <2>1 DEF SaveCursor, Emit, dbVars, PipelineType
    <2>2. ASSUME NEW e \in Event, BackoffEnds(e)
          PROVE  /\ Table(rows')
                 /\ \A f \in Event : /\ rows'[f].status = rows[f].status
                                     /\ rows'[f].attempts = rows[f].attempts
                                     /\ rows'[f].page = rows[f].page
                                     /\ rows'[f].backoff => rows[f].backoff
        <3>1. Table(rows) /\ rows' = Rested(rows, e)
            BY <2>2 DEF BackoffEnds, Rested, PipelineType
        <3>2. /\ Table(Rested(rows, e))
              /\ \A f \in Event : /\ Rested(rows, e)[f].status = rows[f].status
                                  /\ Rested(rows, e)[f].attempts = rows[f].attempts
                                  /\ Rested(rows, e)[f].page = rows[f].page
                                  /\ Rested(rows, e)[f].backoff => rows[f].backoff
            BY <3>1, RestedTable
        <3>3. QED
            BY <3>1, <3>2
    <2>3. ASSUME NEW e \in Event, Cleanup(e)
          PROVE  /\ Table(rows')
                 /\ \A f \in Event \ {e} : rows'[f] = rows[f]
                 /\ AllowCleanup /\ rows[e].status = "processed" /\ rows'[e] = NoRow
        BY <2>3, CleanedTable DEF Cleanup, PipelineType
    <2>4. QED
        BY <2>1, <2>2, <2>3
<1>4. \A e \in Event : Changes(e)
    BY <1>1, <1>3 DEF Changes, Stays, CleanedUp, NoRow
<1>5. PipelineType'
    BY <1>1, <1>2, <1>3 DEF PipelineType
<1>6. \A e \in Event : rows[e].status \in {"processing", "pending"} =>
                          rows'[e].status = rows[e].status
    BY <1>3
<1>7. HandInv' /\ PhaseInv'
    BY <1>1, <1>6 DEF HandInv, PhaseInv, PipelineType
<1>8. SeenInv'
    BY <1>4, SeenStep DEF Moves
<1>9. KnownInv'
    BY <1>1, <1>4, KnownStep DEF Moves, KnownInv
<1>10. QED
    BY <1>4, <1>5, <1>7, <1>8, <1>9

\* One step of the pipeline: no row is added unless a page arrives.
EventChange ==
    \/ \A e \in Event : Changes(e)
    \/ /\ \E l \in Loop, upto \in 0..NEvents : PageArrives(l, upto)
       /\ \A e \in Event : Moves(e)

LEMMA EventStep == IInv /\ [Next]_vars => IInv' /\ EventChange
<1> SUFFICES ASSUME IInv, [Next]_vars PROVE IInv' /\ EventChange
    OBVIOUS
<1>1. CASE Next
    BY <1>1, ProcessStep, HandlersStep, PageStep, RequestStep, StartStep, StopStep,
       RecoveryStep, DeathStep, BootStep, EnvironmentStep
    DEF Next, EventChange
<1>2. CASE UNCHANGED vars
    <2>1. \A e \in Event : Changes(e)
        BY <1>2 DEF vars, dbVars, Changes, Stays
    <2>2. IInv'
        BY <1>2 DEF vars, dbVars, pollVars, workVars, recVars, IInv, PipelineType, HandInv,
                    PhaseInv, SeenInv, KnownInv
    <2>3. QED
        BY <2>1, <2>2 DEF EventChange
<1>3. QED
    BY <1>1, <1>2

LEMMA PipelineInvariant == Spec => []IInv
BY PipelineInit, EventStep, PTL DEF Spec

-----------------------------------------------------------------------------
(* Theorems without a hypothesis *)

\* No event falls between RPC and database: whatever lies behind the live or
\* the persisted cursor has a row or was handled, with any number of poll
\* loops, requests of any age, clean-ups and crashes.
THEOREM CursorIsBacked == Spec => []CursorNeverSkips
<1>1. IInv => CursorNeverSkips
    BY DEF IInv, KnownInv, Known, CursorNeverSkips
<1>2. QED
    BY PipelineInvariant, <1>1, PTL

\* Loops that survive stop(), restarts and recovery never give one event to
\* the handlers twice at a time.
THEOREM OneHandlerAtATime == Spec => []HandledByOne
<1>1. IInv => HandledByOne
    <2> SUFFICES ASSUME IInv PROVE HandledByOne
        OBVIOUS
    <2>1. ASSUME NEW w \in Loop, worker[w] = "handling"
          PROVE  rows[hand[w]].status = "processing" /\ hand[w] # inRecovery
                 /\ hand[w] \notin recovering
        <3>1. proc = "up"
            BY <2>1 DEF IInv, PhaseInv
        <3>2. inRecovery = 0 /\ recovering = {}
            BY <3>1 DEF IInv, PhaseInv
        <3>3. hand[w] \in Event
            BY <2>1 DEF IInv, HandInv
        <3>4. QED
            BY <2>1, <3>2, <3>3 DEF IInv, HandInv, Event
    <2>2. QED
        BY <2>1 DEF HandledByOne, IInv, HandInv
<1>2. QED
    BY PipelineInvariant, <1>1, PTL

\* What was handled or given up is never reopened, by whatever loop, response,
\* restart or recovery.
LEMMA SettledStep ==
    ASSUME IInv, EventChange, NEW e \in Event, Settled(e)
    PROVE  (Settled(e)' \/ ~Exists(rows', e)) /\ calls'[e] = calls[e]
<1> USE DEF Settled, IInv
<1>1. Moves(e)
    BY DEF EventChange, Moves
<1>2. CASE Stays(e)
    BY <1>2 DEF Stays, RetriesLeft
<1>3. CASE Dequeued(e)
    BY <1>3 DEF Dequeued
<1>4. CASE Finishes(e)
    BY <1>4 DEF Finishes, PhaseInv
<1>5. CASE Recovers(e)
    BY <1>5 DEF Recovers
<1>6. CASE CleanedUp(e)
    BY <1>6 DEF CleanedUp, Exists
<1>7. CASE Arrives(e)
    BY <1>7 DEF Arrives, Exists
<1>8. QED
    BY <1>1, <1>2, <1>3, <1>4, <1>5, <1>6, <1>7 DEF Moves, Changes

THEOREM SettledStays == Spec => SettledForGood
<1>1. IInv /\ EventChange =>
          \A e \in Event : Settled(e) => /\ Settled(e)' \/ ~Exists(rows', e)
                                         /\ calls'[e] = calls[e]
    BY SettledStep
<1>2. IInv /\ [Next]_vars =>
          [\A e \in Event : Settled(e) => /\ Settled(e)' \/ ~Exists(rows', e)
                                          /\ calls'[e] = calls[e]]_vars
    BY EventStep, <1>1
<1>3. QED
    BY PipelineInvariant, <1>2, PTL DEF Spec, SettledForGood

-----------------------------------------------------------------------------
(* Clean-up *)

\* Every place a request or a restart could begin from stays behind the event.
LEMMA PassedStep ==
    ASSUME IInv, [Next]_vars, NEW e \in Event, Passed(e)
    PROVE  Passed(e)'
<1> USE DEF Passed
<1>1. /\ saved \in 0..NEvents /\ cursor \in 0..NEvents /\ NEvents \in Nat /\ e \in Nat
      /\ poller \in [Loop -> {"free", "timer", "calling"}] /\ asked \in [Loop -> 0..NEvents]
    BY EventQueueAssumption DEF EventQueueAssumption, IInv, PipelineType, Event
<1>2. \A l \in Loop : poller[l] # "free" => proc = "up" /\ e <= cursor
    BY DEF IInv, PhaseInv
<1>3. ASSUME NEW l \in Loop, NEW upto \in 0..NEvents, PageArrives(l, upto) PROVE Passed(e)'
    <2>1. /\ poller[l] = "calling" /\ proc' = proc /\ saved' = saved /\ asked[l] <= upto
          /\ cursor' = CursorAfter(l, Inserted(l, upto))
        BY <1>3 DEF PageArrives
    <2>2. PICK k \in asked[l]..upto :
              CursorAfter(l, Inserted(l, upto)) = IF k = asked[l] THEN cursor ELSE k
        BY <1>1, <2>1, InsertedStretch
    <2>3. e <= asked[l] /\ e <= cursor
        BY <1>2, <2>1
    <2>4. e <= cursor'
        BY <1>1, <2>1, <2>2, <2>3
    <2>5. \A m \in Loop : poller'[m] = "calling" => poller[m] = "calling" /\ asked'[m] = asked[m]
        BY <1>1, <1>3 DEF PageArrives
    <2>6. QED
        BY <2>1, <2>4, <2>5
<1>4. ASSUME NEW l \in Loop, Poll(l) \/ RetryRequest(l) PROVE Passed(e)'
    <2>1. /\ UNCHANGED <<saved, proc, cursor>> /\ poller[l] # "free"
          /\ asked' = [asked EXCEPT ![l] = cursor]
          /\ \A m \in Loop \ {l} : poller'[m] = poller[m]
        BY <1>1, <1>4 DEF Poll, RetryRequest, dbVars
    <2>2. e <= cursor
        BY <1>2, <2>1
    <2>3. \A m \in Loop : poller'[m] = "calling" => e <= asked'[m]
        BY <1>1, <2>1, <2>2
    <2>4. QED
        BY <2>1, <2>2, <2>3
<1>5. CASE Start
    <2>1. PICK l \in Loop : /\ poller' = [poller EXCEPT ![l] = "calling"]
                            /\ asked' = [asked EXCEPT ![l] = cursor]
        BY <1>5 DEF Start
    <2>2. UNCHANGED <<saved, proc, cursor>> /\ proc = "up"
        BY <1>5 DEF Start
    <2>3. QED
        BY <1>1, <2>1, <2>2
<1>6. CASE Crash
    BY <1>1, <1>6 DEF Crash, Vanish, NoLoops, dbVars
<1>7. CASE Boot
    <2>1. UNCHANGED <<saved, poller, asked>> /\ cursor' = saved
        BY <1>7 DEF Boot, pollVars
    <2>2. QED
        BY <1>1, <2>1
<1>8. CASE SaveCursor
    <2>1. UNCHANGED <<proc, cursor, poller, asked>> /\ saved' = cursor /\ proc # "down"
        BY <1>8 DEF SaveCursor, pollVars
    <2>2. QED
        BY <1>1, <2>1
<1>9. CASE \/ Stop
           \/ \E ok \in BOOLEAN : RecoverySettles(ok)
           \/ \E w \in Loop : ProcessQueue(w)
           \/ \E w \in Loop, ok \in BOOLEAN : HandlersSettle(w, ok)
           \/ Emit
           \/ \E f \in Event : BackoffEnds(f)
           \/ \E f \in Event : Cleanup(f)
           \/ UNCHANGED vars
    <2>1. /\ UNCHANGED <<saved, cursor, asked>>
          /\ proc # "down"  \/ proc' = proc
          /\ proc' # "down" \/ proc' = proc
        BY <1>9 DEF Stop, RecoverySettles, RecoverNext, ProcessQueue, HandlersSettle, Emit,
                    BackoffEnds, Cleanup, vars, dbVars, pollVars
    <2>2. \A l \in Loop : poller'[l] = "calling" => poller[l] = "calling"
        BY <1>1, <1>9 DEF Stop, Cleared, RecoverySettles, ProcessQueue, HandlersSettle, Emit,
                    BackoffEnds, Cleanup, vars, pollVars
    <2>3. QED
        BY <1>1, <2>1, <2>2
<1>10. QED
    BY <1>3, <1>4, <1>5, <1>6, <1>7, <1>8, <1>9 DEF Next

\* No page that could still arrive brings an event that was passed.
LEMMA CleanedStep ==
    ASSUME IInv, EventChange, NEW e \in Event, Passed(e), ~Exists(rows, e)
    PROVE  ~Exists(rows', e) /\ calls'[e] = calls[e]
<1>1. Moves(e)
    BY DEF EventChange, Moves
<1>2. ~Arrives(e)
    <2>1. SUFFICES ASSUME NEW l \in Loop, poller[l] = "calling", asked[l] < e PROVE FALSE
        BY DEF Arrives
    <2>2. e <= asked[l]
        BY <2>1 DEF Passed
    <2>3. QED
        BY <2>1, <2>2 DEF IInv, PipelineType, Event
<1>3. ~Dequeued(e) /\ ~Recovers(e) /\ ~CleanedUp(e)
    BY DEF Dequeued, Recovers, CleanedUp, Exists
<1>4. ~Finishes(e)
    BY DEF Finishes, Exists, IInv, PhaseInv
<1>5. Stays(e)
    BY <1>1, <1>2, <1>3, <1>4 DEF Moves, Changes
<1>6. QED
    BY <1>5 DEF Stays, Exists

\* A row that was cleaned up does not come back once the saved cursor and all
\* requests under way are past it: with any number of loops, late responses,
\* crashes and cursors saved late.
THEOREM CleanedUpStays == Spec => CleanedStaysCleaned
<1>1. IInv /\ [Next]_vars =>
          [\A e \in Event : Passed(e) =>
              /\ Passed(e)'
              /\ ~Exists(rows, e) => ~Exists(rows', e) /\ calls'[e] = calls[e]]_vars
    BY EventStep, PassedStep, CleanedStep
<1>2. QED
    BY PipelineInvariant, <1>1, PTL DEF Spec, CleanedStaysCleaned

-----------------------------------------------------------------------------
(* Limits and order *)

\* A pending row that was not with the handlers is as enqueue made it.  The
\* others were put back by a recovery that is not over, which has them all.
FreshInv ==
    \A e \in Event : rows[e].status = "pending" =>
        /\ calls[e] = 0 => rows[e].attempts = 0 /\ ~rows[e].backoff
        /\ proc = "up" => calls[e] = 0
        /\ proc = "recovering" => e \in recovering \cup {inRecovery}
        /\ RecoveryMode # "awaited" => calls[e] = 0

\* Attempts stay within the limit, and calls exceed them by one for each
\* restart at most; what recovery still has to do is accounted for.
AttemptInv ==
    /\ restarts <= MaxRestarts
    /\ proc = "down" => restarts < MaxRestarts
    /\ \A e \in Event :
          /\ rows[e].attempts <= maxRetries
          /\ calls[e] <= maxRetries + restarts
          /\ Exists(rows, e) => calls[e] <= rows[e].attempts + restarts
          /\ e \in recovering => calls[e] + 1 <= rows[e].attempts + restarts

LEMMA LimitInit == Init => FreshInv /\ AttemptInv
<1> SUFFICES ASSUME Init PROVE FreshInv /\ AttemptInv
    OBVIOUS
<1> USE EventQueueAssumption, EventPropagatorAssumption
    DEF EventQueueAssumption, EventPropagatorAssumption, Init
<1>1. \A e \in Event : rows[e] = NoRow /\ calls[e] = 0
    OBVIOUS
<1>2. FreshInv
    BY <1>1 DEF FreshInv, NoRow
<1>3. AttemptInv
    BY <1>1 DEF AttemptInv, NoRow, Exists
<1>4. QED
    BY <1>2, <1>3

\* What a step does to the process and to what recovery has left.
GoesOn ==
    /\ proc' = proc /\ UNCHANGED <<restarts, recovering, inRecovery>>
Dies ==
    /\ proc' = "down" /\ proc # "down" /\ recovering' = {}
    /\ restarts' = restarts /\ restarts < MaxRestarts
Starts ==
    /\ proc = "down" /\ proc' = "up" /\ RecoveryMode # "awaited"
    /\ restarts' = restarts + 1 /\ recovering' = {}
StartsRecovery ==
    /\ proc = "down" /\ restarts' = restarts + 1
Recovery ==
    /\ proc = "recovering" /\ restarts' = restarts /\ recovering' \subseteq recovering
RecoveryLeft ==
    /\ RecoveryMode = "awaited" /\ proc' \in {"up", "recovering"}
    /\ StartsRecovery \/ Recovery
    /\ \A e \in Event : rows'[e].status = "pending" =>
          proc' = "recovering" /\ e \in recovering' \cup {inRecovery'}

LEMMA RecoverNextLeft ==
    ASSUME NEW t, NEW left, RecoverNext(t, left)
    PROVE  /\ proc' \in {"up", "recovering"}
           /\ recovering' \subseteq left
           /\ \A e \in left : proc' = "recovering" /\ e \in recovering' \cup {inRecovery'}
BY DEF RecoverNext, First

LEMMA PhaseStep ==
    ASSUME IInv, FreshInv, [Next]_vars
    PROVE  GoesOn \/ Dies \/ Starts \/ RecoveryLeft
<1>1. CASE Crash
    BY <1>1 DEF Crash, Vanish, dbVars, Dies
<1>2. CASE Boot /\ RecoveryMode # "awaited"
    BY <1>2 DEF Boot, recVars, Starts, IInv, PhaseInv
<1>3. CASE Boot /\ RecoveryMode = "awaited"
    <2>1. proc = "down" /\ restarts' = restarts + 1 /\ RecoverNext(rows', Pending(rows'))
        BY <1>3 DEF Boot
    <2>2. \A e \in Event : rows'[e].status = "pending" => e \in Pending(rows')
        BY DEF Pending
    <2>3. QED
        BY <1>3, <2>1, <2>2, RecoverNextLeft DEF RecoveryLeft, StartsRecovery
<1>4. ASSUME NEW ok \in BOOLEAN, RecoverySettles(ok) PROVE RecoveryLeft
    <2>1. /\ proc = "recovering" /\ restarts' = restarts
          /\ rows' = Marked(rows, inRecovery, ok) /\ RecoverNext(rows', recovering)
        BY <1>4 DEF RecoverySettles, Marked
    <2>2. inRecovery \in Event /\ Exists(rows, inRecovery) /\ RecoveryMode = "awaited"
        BY <2>1 DEF IInv, PhaseInv, Exists
    <2>3. /\ \A f \in Event \ {inRecovery} : rows'[f] = rows[f]
          /\ rows'[inRecovery].status \in {"processed", "failed"}
        BY <2>1, <2>2, MarkedTable DEF IInv, PipelineType
    <2>4. \A e \in Event : rows'[e].status = "pending" => e \in recovering
        BY <2>1, <2>3 DEF FreshInv
    <2>5. QED
        BY <2>1, <2>2, <2>4, RecoverNextLeft DEF RecoveryLeft, Recovery
<1>5. CASE \/ SaveCursor \/ Start \/ Stop \/ Emit
           \/ \E w \in Loop : ProcessQueue(w)
           \/ \E w \in Loop, ok \in BOOLEAN : HandlersSettle(w, ok)
           \/ \E l \in Loop : Poll(l)
           \/ \E l \in Loop : RetryRequest(l)
           \/ \E l \in Loop, upto \in 0..NEvents : PageArrives(l, upto)
           \/ \E e \in Event : BackoffEnds(e)
           \/ \E e \in Event : Cleanup(e)
           \/ UNCHANGED vars
    BY <1>5 DEF SaveCursor, Start, Stop, Emit, ProcessQueue, HandlersSettle, Poll, RetryRequest,
                PageArrives, BackoffEnds, Cleanup, vars, dbVars, recVars, GoesOn
<1>6. QED
    BY <1>1, <1>2, <1>3, <1>4, <1>5 DEF Next

LEMMA FreshStep ==
    ASSUME IInv, FreshInv, EventChange, [Next]_vars
    PROVE  FreshInv'
<1> SUFFICES ASSUME NEW e \in Event, rows'[e].status = "pending"
             PROVE  /\ calls'[e] = 0 => rows'[e].attempts = 0 /\ ~rows'[e].backoff
                    /\ proc' = "up" => calls'[e] = 0
                    /\ proc' = "recovering" => e \in recovering' \cup {inRecovery'}
                    /\ RecoveryMode # "awaited" => calls'[e] = 0
    BY DEF FreshInv
<1>1. Stays(e) \/ Arrives(e) \/ Recovers(e)
    <2>1. Moves(e)
        BY DEF EventChange, Moves
    <2>2. QED
        BY <2>1 DEF Moves, Changes, Dequeued, Finishes, CleanedUp
<1>2. calls[e] \in Nat
    BY DEF IInv, PipelineType
<1>3. calls'[e] = 0 => rows'[e].attempts = 0 /\ ~rows'[e].backoff
    <2>1. CASE Arrives(e)
        BY <2>1 DEF Arrives
    <2>2. CASE Stays(e)
        BY <2>2 DEF Stays, FreshInv
    <2>3. ASSUME Recovers(e), calls'[e] = 0
          PROVE  rows'[e].attempts = 0 /\ ~rows'[e].backoff
        <3>1. calls[e] = 0
            BY <1>2, <2>3 DEF Recovers
        <3>2. rows[e].status \in {"absent", "pending"}
            BY <3>1 DEF IInv, SeenInv
        <3>3. rows[e].status = "pending"
            BY <2>3, <3>2 DEF Recovers
        <3>4. QED
            BY <2>3, <3>1, <3>3 DEF Recovers, FreshInv
    <2>4. QED
        BY <1>1, <2>1, <2>2, <2>3
<1>4. Arrives(e) => calls'[e] = 0 /\ proc = "up"
    BY DEF Arrives, IInv, PhaseInv
<1>5. Stays(e) => rows[e].status = "pending" /\ calls'[e] = calls[e]
    BY DEF Stays
<1>6. Recovers(e) => RecoveryMode = "awaited" /\ proc # "up"
    BY DEF Recovers
<1>7. RecoveryMode # "awaited" => calls'[e] = 0
    BY <1>1, <1>4, <1>5, <1>6 DEF FreshInv
<1>8. CASE GoesOn
    <2>1. proc' = "up" => calls'[e] = 0
        BY <1>1, <1>4, <1>5, <1>6, <1>8 DEF GoesOn, FreshInv
    <2>2. proc' = "recovering" => e \in recovering' \cup {inRecovery'}
        <3>1. SUFFICES ASSUME proc = "recovering" PROVE rows[e].status = "pending"
            BY <1>8 DEF GoesOn, FreshInv
        <3>2. ~Recovers(e)
            <4>1. restarts' # restarts + 1
                BY <1>8 DEF GoesOn, IInv, PipelineType
            <4>2. QED
                BY <1>8, <3>1, <4>1 DEF Recovers, GoesOn
        <3>3. QED
            BY <1>1, <1>4, <1>5, <3>1, <3>2
    <2>3. QED
        BY <1>3, <1>7, <2>1, <2>2
<1>9. CASE Dies
    BY <1>3, <1>7, <1>9 DEF Dies
<1>10. CASE Starts
    BY <1>3, <1>7, <1>10 DEF Starts
<1>11. CASE RecoveryLeft
    BY <1>3, <1>7, <1>11 DEF RecoveryLeft
<1>12. QED
    BY <1>8, <1>9, <1>10, <1>11, PhaseStep

LEMMA AttemptStep ==
    ASSUME IInv, IInv', FreshInv, AttemptInv, EventChange, [Next]_vars
    PROVE  AttemptInv'
<1> USE DEF AttemptInv
<1>0. /\ restarts \in Nat /\ MaxRestarts \in Nat /\ maxRetries \in Nat \ {0}
      /\ \A e \in Event : calls[e] \in Nat /\ rows[e].attempts \in Nat
      /\ recovering \subseteq Event
    BY EventPropagatorAssumption, EventQueueAssumption
    DEF EventPropagatorAssumption, EventQueueAssumption, IInv, PipelineType, Table, Row
<1>a. \A e \in recovering' : rows'[e].status = "pending"
    BY DEF IInv, PhaseInv
<1>1. /\ restarts' \in Nat /\ restarts <= restarts' /\ restarts' <= MaxRestarts
      /\ proc' = "down" => restarts' < MaxRestarts
      /\ \A e \in recovering' : e \in recovering \/ restarts' = restarts + 1
      /\ proc = "up" => recovering' = {}
    <2>1. CASE GoesOn
        BY <1>0, <2>1 DEF GoesOn, IInv, PhaseInv
    <2>2. CASE Dies
        BY <1>0, <2>2 DEF Dies
    <2>3. CASE Starts
        BY <1>0, <2>3 DEF Starts
    <2>4. CASE RecoveryLeft /\ StartsRecovery
        BY <1>0, <2>4 DEF RecoveryLeft, StartsRecovery
    <2>5. CASE RecoveryLeft /\ Recovery
        BY <1>0, <2>5 DEF RecoveryLeft, Recovery
    <2>6. QED
        BY <2>1, <2>2, <2>3, <2>4, <2>5, PhaseStep DEF RecoveryLeft
<1>2. ASSUME NEW e \in Event
      PROVE  /\ rows'[e].attempts <= maxRetries
             /\ calls'[e] <= maxRetries + restarts'
             /\ Exists(rows', e) => calls'[e] <= rows'[e].attempts + restarts'
             /\ e \in recovering' => calls'[e] + 1 <= rows'[e].attempts + restarts'
    <2>0. /\ calls[e] \in Nat /\ rows[e].attempts \in Nat
          /\ rows[e].attempts <= maxRetries
          /\ calls[e] <= maxRetries + restarts
          /\ Exists(rows, e) => calls[e] <= rows[e].attempts + restarts
          /\ e \in recovering => calls[e] + 1 <= rows[e].attempts + restarts
        BY <1>0
    <2>1. CASE Stays(e)
        <3>1. calls'[e] = calls[e] /\ rows'[e].attempts = rows[e].attempts
              /\ (Exists(rows', e) <=> Exists(rows, e))
            BY <2>1 DEF Stays, Exists
        <3>2. e \in recovering' => e \in recovering \/ (restarts' = restarts + 1 /\ Exists(rows, e))
            BY <1>1, <3>1, <1>a DEF Exists
        <3>3. QED
            BY <1>0, <1>1, <2>0, <3>1, <3>2
    <2>2. CASE Dequeued(e)
        <3>1. proc = "up" /\ calls'[e] = calls[e] + 1 /\ rows'[e].attempts = rows[e].attempts + 1
              /\ Exists(rows, e)
            BY <2>2 DEF Dequeued, Exists
        <3>2. rows[e].attempts < maxRetries
            <4>1. CASE rows[e].status = "pending"
                <5>1. rows[e].attempts = 0
                    BY <3>1, <4>1 DEF FreshInv
                <5>2. QED
                    BY <1>0, <5>1
            <4>2. CASE RetriesLeft(rows, e)
                BY <4>2 DEF RetriesLeft
            <4>3. QED
                BY <2>2, <4>1, <4>2 DEF Dequeued
        <3>3. e \notin recovering'
            BY <1>1, <3>1
        <3>4. QED
            BY <1>0, <1>1, <2>0, <3>1, <3>2, <3>3
    <2>3. CASE Finishes(e)
        <3>1. calls'[e] = calls[e] /\ rows'[e].attempts = rows[e].attempts /\ Exists(rows, e)
            BY <2>3 DEF Finishes, Exists, IInv, PhaseInv
        <3>2. e \in recovering' => e \in recovering \/ restarts' = restarts + 1
            BY <1>1
        <3>3. QED
            BY <1>0, <1>1, <2>0, <3>1, <3>2
    <2>4. CASE Recovers(e)
        <3>1. rows'[e].attempts = rows[e].attempts /\ Exists(rows, e)
            BY <2>4 DEF Recovers, Exists
        <3>2. CASE calls'[e] = calls[e]
            <4>1. e \in recovering' => e \in recovering \/ restarts' = restarts + 1
                BY <1>1
            <4>2. QED
                BY <1>0, <1>1, <2>0, <3>1, <3>2, <4>1
        <3>3. CASE /\ calls'[e] = calls[e] + 1 /\ e \notin recovering'
                   /\ e \in recovering \/ restarts' = restarts + 1
            BY <1>0, <1>1, <2>0, <3>1, <3>3
        <3>4. QED
            BY <2>4, <3>2, <3>3 DEF Recovers
    <2>5. CASE CleanedUp(e)
        <3>1. /\ calls'[e] = calls[e] /\ rows'[e].attempts = 0 /\ ~Exists(rows', e)
              /\ Exists(rows, e) /\ rows'[e].status # "pending" /\ rows[e].status = "processed"
            BY <2>5 DEF CleanedUp, Exists
        <3>2. e \notin recovering'
            BY <3>1, <1>a
        <3>3. QED
            BY <1>0, <1>1, <2>0, <3>1, <3>2
    <2>6. CASE Arrives(e)
        <3>1. calls'[e] = 0 /\ rows'[e].attempts = 0 /\ proc = "up"
            BY <2>6 DEF Arrives, IInv, PhaseInv
        <3>2. e \notin recovering'
            BY <1>1, <3>1
        <3>3. QED
            BY <1>0, <1>1, <3>1, <3>2
    <2>7. QED
        <3>1. Moves(e)
            BY DEF EventChange, Moves
        <3>2. QED
            BY <2>1, <2>2, <2>3, <2>4, <2>5, <2>6, <3>1 DEF Moves, Changes
<1>3. QED
    BY <1>1, <1>2

LEMMA LimitInvariant == Spec => [](IInv /\ FreshInv /\ AttemptInv)
<1>1. IInv /\ FreshInv /\ AttemptInv /\ [Next]_vars => (IInv /\ FreshInv /\ AttemptInv)'
    BY EventStep, FreshStep, AttemptStep
<1>2. QED
    BY PipelineInit, LimitInit, <1>1, PTL DEF Spec

\* The timer handles name loops.
TimerInv == pollTimer \in 0..MaxLoops /\ processTimer \in 0..MaxLoops

LEMMA TimerInvariant == Spec => []TimerInv
<1>a. 0 \in 0..MaxLoops /\ \A l \in Loop : l \in 0..MaxLoops
    <2>1. MaxLoops \in Nat \ {0}
        BY EventPropagatorAssumption DEF EventPropagatorAssumption
    <2>2. QED
        BY <2>1 DEF Loop
<1>1. Init => TimerInv
    BY <1>a DEF Init, TimerInv
<1>2. TimerInv /\ [Next]_vars => TimerInv'
    <2> SUFFICES ASSUME TimerInv, [Next]_vars PROVE TimerInv'
        OBVIOUS
    <2> USE DEF TimerInv
    <2>2. ASSUME NEW w \in Loop, NEW t, TakeNext(w, t)
          PROVE  processTimer' \in 0..MaxLoops
        BY <1>a, <2>2 DEF TakeNext
    <2>3. CASE \E w \in Loop : ProcessQueue(w) \/ \E ok \in BOOLEAN : HandlersSettle(w, ok)
        BY <2>2, <2>3 DEF ProcessQueue, HandlersSettle, pollVars
    <2>4. ASSUME NEW l \in Loop, NEW upto \in 0..NEvents, PageArrives(l, upto) PROVE TimerInv'
        BY <1>a, <2>4 DEF PageArrives, workVars
    <2>5. CASE Start
        BY <2>2, <2>5 DEF Start
    <2>6. CASE Crash
        BY <1>a, <2>6 DEF Crash, Vanish
    <2>7. CASE \/ \E l \in Loop : Poll(l) \/ RetryRequest(l)
               \/ Stop \/ Boot \/ SaveCursor \/ Emit \/ UNCHANGED vars
               \/ \E ok \in BOOLEAN : RecoverySettles(ok)
               \/ \E e \in Event : BackoffEnds(e) \/ Cleanup(e)
        BY <2>7 DEF Poll, RetryRequest, Stop, Boot, SaveCursor, Emit, RecoverySettles, BackoffEnds, Cleanup,
                    pollVars, workVars, vars
    <2>8. QED
        BY <2>3, <2>4, <2>5, <2>6, <2>7 DEF Next
<1>3. QED
    BY <1>1, <1>2, PTL DEF Spec

\* Loops that overlap, restarts and recoveries share no event and call its
\* handlers at most maxRetries times and once more for each restart.
THEOREM LimitsHold == Spec => []HandledWithinLimits
<1>1. IInv /\ AttemptInv /\ TimerInv => TypeOK
    <2> SUFFICES ASSUME IInv, AttemptInv, TimerInv PROVE TypeOK
        OBVIOUS
    <2>1. restarts \in 0..MaxRestarts
        <3>1. restarts \in Nat /\ MaxRestarts \in Nat /\ restarts <= MaxRestarts
            BY EventPropagatorAssumption
            DEF EventPropagatorAssumption, AttemptInv, IInv, PipelineType
        <3>2. QED
            BY <3>1
    <2>2. QED
        BY <2>1 DEF TypeOK, IInv, PipelineType, Table, TimerInv
<1>2. AttemptInv => CallsBounded
    BY DEF AttemptInv, CallsBounded
<1>3. QED
    BY LimitInvariant, TimerInvariant, OneHandlerAtATime, <1>1, <1>2, PTL
    DEF HandledWithinLimits

\* A row nobody has handled yet never overtakes an older such row: dequeue and
\* recovery take the lowest rank among the rows that are ready, and a row
\* nobody has handled is ready.
THEOREM FirstInOrder == Spec => FirstDeliveryInOrder
<1>1. ASSUME IInv, FreshInv, EventChange,
             NEW e \in Event, NEW f \in Event,
             calls[e] = 0, calls'[e] = 1, Exists(rows, f), rows[f].page < rows[e].page
      PROVE  calls[f] > 0
    <2>0. calls[f] \in Nat /\ rows[e].page \in Nat /\ rows[f].page \in Nat
        BY <1>1 DEF IInv, PipelineType, Table, Row
    <2>1. Dequeued(e) \/ Recovers(e)
        <3>1. Moves(e)
            BY <1>1 DEF EventChange, Moves
        <3>2. QED
            BY <1>1, <3>1 DEF Moves, Changes, Stays, Finishes, CleanedUp, Arrives
    <2>2. SUFFICES ASSUME calls[f] = 0 PROVE FALSE
        BY <2>0
    <2>3. rows[f].status = "pending" /\ ~rows[f].backoff
        BY <1>1, <2>2 DEF IInv, SeenInv, FreshInv, Exists
    <2>4. CASE Dequeued(e)
        <3>1. rows[e].page <= rows[f].page
            BY <2>3, <2>4 DEF Dequeued
        <3>2. QED
            BY <1>1, <2>0, <3>1
    <2>5. CASE Recovers(e)
        <3>1. proc = "recovering" => f \in recovering
            BY <1>1, <2>2, <2>3 DEF FreshInv, IInv, PhaseInv
        <3>2. rows[e].page <= rows[f].page
            BY <1>1, <2>3, <2>5, <3>1 DEF Recovers
        <3>3. QED
            BY <1>1, <2>0, <3>2
    <2>6. QED
        BY <2>1, <2>4, <2>5
<1>2. IInv /\ FreshInv /\ [Next]_vars =>
          [\A e, f \in Event :
              /\ calls[e] = 0 /\ calls'[e] = 1
              /\ Exists(rows, f) /\ rows[f].page < rows[e].page
              => calls[f] > 0]_vars
    BY EventStep, <1>1
<1>3. QED
    BY LimitInvariant, <1>2, PTL DEF Spec, FirstDeliveryInOrder

=============================================================================
