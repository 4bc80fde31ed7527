-------------------------- MODULE ChainReadProofs ---------------------------
(***************************************************************************)
(* Theorems about how engine-bridge reads the chain.  The first parts are  *)
(* about RpcClient, and about the heartbeat on top of it, for any number   *)
(* of endpoints, of calls under way and of retries, and any length of the  *)
(* quarantine; the last is about ChainStateCache, whose fetches go through *)
(* that client, for any keys, bound of the table and fetches under way.    *)
(***************************************************************************)
EXTENDS HeartbeatMonitor, ChainStateCache, CommonLemmas

\* What RpcAssumption says of the sizes.
LEMMA Sizes == /\ N \in Nat \ {0}
               /\ MAX_RETRIES \in Nat \ {0}
               /\ Quarantine \in Nat \ {0}
BY RpcAssumption DEF RpcAssumption

-----------------------------------------------------------------------------
(* Type correctness *)

\* What a pick does to the cursor and to the counts.
LEMMA PickTypes ==
    ASSUME RpcTypeOK, NEW r \in [Endpoint -> 0..Quarantine], NEW e \in Endpoint,
           Picks(e, r)
    PROVE  cursor' \in Endpoint /\ passed' \in [Endpoint -> Nat]
<1>1. After(e) \in Endpoint
  BY Sizes DEF After, Endpoint
<1>2. passed' \in [Endpoint -> Nat]
  BY DEF Picks, RpcTypeOK
<1> QED
  BY <1>1, <1>2 DEF Picks

\* The cursor and the calls stay in range through a turn of call()'s loop.
LEMMA AttemptTypes ==
    ASSUME RpcTypeOK, NEW c \in Call, NEW n \in 0..(MAX_RETRIES - 1), NEW isBad \in BOOLEAN,
           NEW r \in [Endpoint -> 0..Quarantine], Attempts(c, n, isBad, r)
    PROVE  cursor' \in Endpoint /\ passed' \in [Endpoint -> Nat]
           /\ call' \in [Call -> CallState]
<1>1. ASSUME NEW e \in Endpoint, Picks(e, r),
             call' = [call EXCEPT ![c] = [status |-> "pending", at |-> e, attempt |-> n,
                                          bad |-> isBad, since |-> call[c].since]]
      PROVE  cursor' \in Endpoint /\ passed' \in [Endpoint -> Nat]
             /\ call' \in [Call -> CallState]
  <2>1. cursor' \in Endpoint /\ passed' \in [Endpoint -> Nat]
    BY <1>1, PickTypes
  <2>2. [status |-> "pending", at |-> e, attempt |-> n, bad |-> isBad,
         since |-> call[c].since] \in CallState
    BY DEF RpcTypeOK, CallState, Status
  <2>3. call' \in [Call -> CallState]
    BY <1>1, <2>2 DEF RpcTypeOK
  <2> QED
    BY <2>1, <2>3
<1>2. ASSUME Ends(c, "error"), UNCHANGED cursor,
             passed' = [f \in Endpoint |-> IF r[f] > 0 THEN 0 ELSE passed[f]]
      PROVE  cursor' \in Endpoint /\ passed' \in [Endpoint -> Nat]
             /\ call' \in [Call -> CallState]
  <2>1. Idle("error") \in CallState
    BY Sizes DEF Idle, CallState, Status, Endpoint
  <2> QED
    BY <1>2, <2>1 DEF Ends, RpcTypeOK
<1> QED
  BY <1>1, <1>2 DEF Attempts

\* A call that ends is in its type.
LEMMA EndTypes ==
    ASSUME RpcTypeOK, NEW c \in Call, NEW how \in Status, Ends(c, how)
    PROVE  call' \in [Call -> CallState]
<1>1. Idle(how) \in CallState
  BY Sizes DEF Idle, CallState, Status, Endpoint
<1> QED
  BY <1>1 DEF Ends, RpcTypeOK

\* Every step of a call and of the environment keeps the types.
LEMMA RpcTypeStep == RpcTypeOK /\ [RpcNext]_rpcVars => RpcTypeOK'
<1> SUFFICES ASSUME RpcTypeOK, [RpcNext]_rpcVars PROVE RpcTypeOK'
  OBVIOUS
<1>1. ASSUME NEW c \in Call, NEW isBad \in BOOLEAN, Starts(c, isBad) PROVE RpcTypeOK'
  <2>1. 0 \in 0..(MAX_RETRIES - 1) /\ rest \in [Endpoint -> 0..Quarantine]
    BY Sizes DEF RpcTypeOK
  <2> QED
    BY <1>1, <2>1, AttemptTypes DEF Starts, RpcTypeOK
<1>2. ASSUME NEW c \in Call, Answered(c) PROVE RpcTypeOK'
  <2>1. call' \in [Call -> CallState]
    BY <1>2, EndTypes DEF Answered, Status
  <2> QED
    BY <1>2, <2>1 DEF Answered, RpcTypeOK
<1>3. ASSUME NEW c \in Call, Refused(c) PROVE RpcTypeOK'
  <2>1. call[c] \in CallState /\ call[c].at \in Endpoint
    BY DEF RpcTypeOK, CallState
  <2>2. rest' \in [Endpoint -> 0..Quarantine] /\ UNCHANGED up
    <3>1. Quarantine \in 0..Quarantine
      BY Sizes
    <3>2. /\ rest' = [rest EXCEPT ![call[c].at] = Quarantine]
          /\ UNCHANGED up
      BY <1>3 DEF Refused
    <3> QED
      BY <2>1, <3>1, <3>2 DEF RpcTypeOK
  <2>3. CASE call[c].attempt + 1 < MAX_RETRIES
    <3>1. call[c].attempt + 1 \in 0..(MAX_RETRIES - 1) /\ call[c].bad \in BOOLEAN
      BY <2>1, <2>3, Sizes DEF CallState
    <3>2. Attempts(c, call[c].attempt + 1, call[c].bad, rest')
      BY <1>3, <2>3 DEF Refused
    <3>3. cursor' \in Endpoint /\ passed' \in [Endpoint -> Nat]
          /\ call' \in [Call -> CallState]
      BY <2>2, <3>1, <3>2, AttemptTypes
    <3> QED
      BY <2>2, <3>3 DEF RpcTypeOK
  <2>4. CASE ~(call[c].attempt + 1 < MAX_RETRIES)
    <3>1. Ends(c, "error") /\ passed' = [passed EXCEPT ![call[c].at] = 0]
          /\ UNCHANGED cursor
      BY <1>3, <2>4 DEF Refused
    <3>2. call' \in [Call -> CallState]
      BY <3>1, EndTypes DEF Status
    <3> QED
      BY <2>2, <3>1, <3>2 DEF RpcTypeOK
  <2> QED
    BY <2>3, <2>4
<1>4. ASSUME Tick PROVE RpcTypeOK'
  <2>1. rest' \in [Endpoint -> 0..Quarantine]
    BY <1>4, Sizes DEF Tick, RpcTypeOK
  <2>2. ASSUME NEW c \in Call, call[c].since < Quarantine
        PROVE  [call[c] EXCEPT !.since = @ + 1] \in CallState
    BY <2>2, Sizes DEF RpcTypeOK, CallState
  <2>3. call' \in [Call -> CallState]
    BY <1>4, <2>2 DEF Tick, RpcTypeOK
  <2> QED
    BY <1>4, <2>1, <2>3 DEF Tick, RpcTypeOK
<1>5. ASSUME NEW e \in Endpoint, NodeChanges(e) PROVE RpcTypeOK'
  BY <1>5 DEF NodeChanges, RpcTypeOK
<1>6. CASE UNCHANGED rpcVars
  BY <1>6 DEF rpcVars, RpcTypeOK
<1> QED
  BY <1>1, <1>2, <1>3, <1>4, <1>5, <1>6 DEF RpcNext

\* The client is type correct for any number of endpoints and calls.
THEOREM TypeCorrect == RpcSpec => []RpcTypeOK
<1>1. RpcInit => RpcTypeOK
  BY Sizes DEF RpcInit, RpcTypeOK, Endpoint, Idle, CallState, Status
<1> QED
  BY <1>1, RpcTypeStep, PTL DEF RpcSpec

-----------------------------------------------------------------------------
(* Round-robin *)

\* What EveryLiveEndpointGetsItsTurn rests on: the picks that have passed over
\* an endpoint and those still to come before the cursor reaches it are
\* together fewer than there are other endpoints.  The count of one in
\* quarantine is zero, so that it may come back wherever the cursor stands.
Turns ==
    \A e \in Endpoint :
       /\ passed[e] + Ahead(e) <= N - 1
       /\ rest[e] > 0 => passed[e] = 0

\* Going round the list from c to e takes less than N steps.
LEMMA Ring ==
    ASSUME NEW c \in Endpoint, NEW e \in Endpoint
    PROVE  (IF e >= c THEN e - c ELSE e + N - c) \in 0..(N - 1)
BY Sizes DEF Endpoint

\* So the way to an endpoint is at most once round the list, before a step and
\* after it, and different endpoints are at different distances.
LEMMA Distances ==
    ASSUME cursor \in Endpoint
    PROVE  /\ \A e \in Endpoint : Ahead(e) \in 0..(N - 1)
           /\ \A e, f \in Endpoint : e # f => Ahead(e) # Ahead(f)
BY Sizes DEF Ahead, Endpoint

LEMMA NextDistances ==
    ASSUME cursor' \in Endpoint, NEW e \in Endpoint
    PROVE  Ahead(e)' \in 0..(N - 1)
<1>1. Ahead(e)' = IF e >= cursor' THEN e - cursor' ELSE e + N - cursor'
  BY DEF Ahead
<1> HIDE DEF Endpoint
<1> QED
  BY <1>1, Ring

\* After e was picked the cursor is just behind it: e is furthest away, and
\* everything that lay beyond e has come nearer by the way to e and one.
LEMMA CursorMoves ==
    ASSUME cursor \in Endpoint, NEW e \in Endpoint, cursor' = After(e)
    PROVE  /\ Ahead(e)' = N - 1
           /\ \A f \in Endpoint :
                 Ahead(e) < Ahead(f) => Ahead(f)' = Ahead(f) - Ahead(e) - 1
BY Sizes DEF Ahead, After, Endpoint

\* A pick, the endpoints resting as r, none of them free that was not before.
LEMMA PickKeepsTurns ==
    ASSUME RpcTypeOK, Turns, NEW r \in [Endpoint -> 0..Quarantine],
           \A f \in Endpoint : r[f] = 0 => rest[f] = 0,
           rest' = r, NEW e \in Endpoint, Picks(e, r)
    PROVE  Turns'
<1>1. cursor \in Endpoint /\ cursor' \in Endpoint /\ passed \in [Endpoint -> Nat]
  BY PickTypes DEF RpcTypeOK
<1>2. /\ \A f \in Endpoint : Ahead(f) \in 0..(N - 1)
      /\ \A f \in Endpoint : f # e => Ahead(f) # Ahead(e)
      /\ \A f \in Endpoint : Ahead(f)' \in 0..(N - 1)
  BY <1>1, Distances, NextDistances
<1>3. /\ cursor' = After(e)
      /\ passed' = [f \in Endpoint |-> IF f = e \/ r[f] > 0 THEN 0 ELSE passed[f] + 1]
      /\ \A f \in Endpoint : r[f] = 0 => Ahead(e) <= Ahead(f)
  BY DEF Picks, Live
<1>4. /\ \A f \in Endpoint :
            Ahead(e) < Ahead(f) => Ahead(f)' = Ahead(f) - Ahead(e) - 1
  BY <1>1, <1>3, CursorMoves
<1>5. ASSUME NEW f \in Endpoint
      PROVE  passed'[f] + Ahead(f)' <= N - 1 /\ (rest'[f] > 0 => passed'[f] = 0)
  <2>1. CASE f = e \/ r[f] > 0
    <3>1. passed'[f] = 0
      BY <1>3, <2>1
    <3> QED
      BY <1>2, <3>1, Sizes
  <2>2. CASE f # e /\ r[f] = 0
    <3>1. passed'[f] = passed[f] + 1 /\ rest'[f] = 0
      BY <1>3, <2>2
    <3>2. Ahead(e) < Ahead(f)
      BY <1>2, <1>3, <2>2
    <3>3. Ahead(f)' = Ahead(f) - Ahead(e) - 1
      BY <1>4, <3>2
    <3>4. passed[f] + Ahead(f) <= N - 1 /\ passed[f] \in Nat
      BY <1>1 DEF Turns
    <3>5. Ahead(e) \in Nat /\ Ahead(f) \in Nat
      BY <1>2
    <3> HIDE DEF Ahead
    <3> QED
      BY <3>1, <3>3, <3>4, <3>5, Sizes
  <2>3. r[f] \in Nat
    BY Sizes
  <2> QED
    BY <2>1, <2>2, <2>3
<1> QED
  BY <1>5 DEF Turns

\* "All endpoints unavailable": the cursor stays, who rests counts from zero.
LEMMA NobodyKeepsTurns ==
    ASSUME RpcTypeOK, Turns, NEW r \in [Endpoint -> 0..Quarantine],
           \A f \in Endpoint : r[f] = 0 => rest[f] = 0,
           rest' = r, UNCHANGED cursor,
           passed' = [f \in Endpoint |-> IF r[f] > 0 THEN 0 ELSE passed[f]]
    PROVE  Turns'
<1>1. \A f \in Endpoint : Ahead(f)' = Ahead(f) /\ Ahead(f) \in 0..(N - 1)
  BY Distances DEF Ahead, RpcTypeOK
<1> QED
  BY <1>1, Sizes DEF Turns, RpcTypeOK

\* A turn of call()'s loop is one or the other.
LEMMA AttemptKeepsTurns ==
    ASSUME RpcTypeOK, Turns, NEW r \in [Endpoint -> 0..Quarantine],
           \A f \in Endpoint : r[f] = 0 => rest[f] = 0,
           rest' = r, NEW c, NEW n, NEW isBad, Attempts(c, n, isBad, r)
    PROVE  Turns'
<1>1. ASSUME NEW e \in Endpoint, Picks(e, r) PROVE Turns'
  BY <1>1, PickKeepsTurns
<1>2. ASSUME UNCHANGED cursor,
             passed' = [f \in Endpoint |-> IF r[f] > 0 THEN 0 ELSE passed[f]]
      PROVE  Turns'
  BY <1>2, NobodyKeepsTurns
<1> QED
  BY <1>1, <1>2 DEF Attempts

\* Every step keeps Turns: a pick shortens the way of whoever it passes over,
\* a failure resets the count of the endpoint that goes to rest, and an endpoint
\* whose rest ends comes back with a count of zero.
LEMMA TurnsStep == RpcTypeOK /\ Turns /\ [RpcNext]_rpcVars => Turns'
<1> SUFFICES ASSUME RpcTypeOK, Turns, [RpcNext]_rpcVars PROVE Turns'
  OBVIOUS
<1>1. ASSUME NEW c \in Call, NEW isBad \in BOOLEAN, Starts(c, isBad) PROVE Turns'
  <2>1. rest \in [Endpoint -> 0..Quarantine] /\ rest' = rest
        /\ Attempts(c, 0, isBad, rest)
    BY <1>1 DEF Starts, RpcTypeOK
  <2> QED
    BY <2>1, AttemptKeepsTurns
<1>2. ASSUME NEW c \in Call, Refused(c) PROVE Turns'
  <2>1. call[c].at \in Endpoint
    BY DEF RpcTypeOK, CallState
  <2>2. rest' = [rest EXCEPT ![call[c].at] = Quarantine]
    BY <1>2 DEF Refused
  <2>3. /\ rest' \in [Endpoint -> 0..Quarantine]
        /\ \A f \in Endpoint : rest'[f] = 0 => rest[f] = 0
        /\ \A f \in Endpoint : rest'[f] > 0 => rest[f] > 0 \/ f = call[c].at
    BY <2>1, <2>2, Sizes DEF RpcTypeOK
  <2>4. CASE call[c].attempt + 1 < MAX_RETRIES
    <3>1. Attempts(c, call[c].attempt + 1, call[c].bad, rest')
      BY <1>2, <2>4 DEF Refused
    <3> QED
      BY <2>3, <3>1, AttemptKeepsTurns
  <2>5. CASE ~(call[c].attempt + 1 < MAX_RETRIES)
    <3>1. passed' = [passed EXCEPT ![call[c].at] = 0] /\ UNCHANGED cursor
      BY <1>2, <2>5 DEF Refused
    <3>2. \A f \in Endpoint : Ahead(f)' = Ahead(f) /\ Ahead(f) \in 0..(N - 1)
      BY <3>1, Distances DEF Ahead, RpcTypeOK
    <3>3. \A f \in Endpoint : passed'[f] = IF f = call[c].at THEN 0 ELSE passed[f]
      BY <2>1, <3>1 DEF RpcTypeOK
    <3> QED
      BY <2>3, <3>2, <3>3, Sizes DEF Turns, RpcTypeOK
  <2> QED
    BY <2>4, <2>5
<1>3. ASSUME Tick PROVE Turns'
  <2>1. \A f \in Endpoint : rest'[f] > 0 => rest[f] > 0
    BY <1>3, Sizes DEF Tick, RpcTypeOK
  <2> QED
    BY <1>3, <2>1 DEF Tick, Turns, Ahead
<1>4. CASE UNCHANGED <<cursor, rest, passed>>
  BY <1>4 DEF Turns, Ahead
<1> QED
  BY <1>1, <1>2, <1>3, <1>4 DEF RpcNext, Answered, NodeChanges, rpcVars

\* An endpoint was passed over by at most all the others.
LEMMA TurnsBound == RpcTypeOK /\ Turns => EveryLiveEndpointGetsItsTurn
<1> SUFFICES ASSUME RpcTypeOK, Turns, NEW e \in Endpoint PROVE passed[e] < N
  BY DEF EveryLiveEndpointGetsItsTurn
<1>1. Ahead(e) \in 0..(N - 1) /\ passed[e] \in Nat /\ passed[e] + Ahead(e) <= N - 1
  BY Distances DEF RpcTypeOK, Turns
<1> HIDE DEF Ahead
<1> QED
  BY <1>1, Sizes

\* Round-robin, however many calls overlap and whichever nodes fail: an endpoint
\* that is not in quarantine is never passed over N times.
THEOREM NobodyIsPassedOver == RpcSpec => []EveryLiveEndpointGetsItsTurn
<1>1. RpcInit => Turns
  BY Sizes DEF RpcInit, Turns, Ahead, Endpoint
<1>2. RpcTypeOK /\ Turns => EveryLiveEndpointGetsItsTurn
  BY TurnsBound
<1> QED
  BY <1>1, <1>2, TurnsStep, TypeCorrect, PTL DEF RpcSpec

-----------------------------------------------------------------------------
(* Failover *)

\* k requests have failed, the first one n ticks ago: as long as that is less
\* than the quarantine, the k endpoints are different ones and still rest.
Tried(r, k, n, at) ==
    n < Quarantine =>
        \E F \in SUBSET (Endpoint \ {at}) :
            /\ IsFiniteSet(F) /\ Cardinality(F) = k
            /\ \A f \in F : r[f] + n >= Quarantine

TriedInv ==
    \A c \in Call : call[c].status = "pending" =>
        Tried(rest, call[c].attempt, call[c].since, call[c].at)

\* One more failure: the endpoint that failed joins the others, and all of them
\* still rest.
LEMMA OneMoreTried ==
    ASSUME RpcTypeOK, TriedInv, NEW c \in Call, Refused(c), call[c].since < Quarantine
    PROVE  \E F \in SUBSET Endpoint :
              /\ IsFiniteSet(F) /\ Cardinality(F) = call[c].attempt + 1
              /\ \A f \in F : rest'[f] + call[c].since >= Quarantine /\ rest'[f] > 0
<1> DEFINE k  == call[c].attempt
           at == call[c].at
           n  == call[c].since
<1>1. /\ k \in 0..(MAX_RETRIES - 1) /\ at \in Endpoint /\ n \in 0..Quarantine
      /\ rest \in [Endpoint -> 0..Quarantine]
  BY DEF RpcTypeOK, CallState
<1>2. PICK F \in SUBSET (Endpoint \ {at}) :
         /\ IsFiniteSet(F) /\ Cardinality(F) = k
         /\ \A f \in F : rest[f] + n >= Quarantine
  BY DEF Refused, TriedInv, Tried
<1>3. rest' = [rest EXCEPT ![at] = Quarantine] /\ n < Quarantine
  BY DEF Refused
<1> HIDE DEF k, at, n
<1>4. IsFiniteSet(F \cup {at}) /\ Cardinality(F \cup {at}) = k + 1
  BY <1>2, FS_AddElement
<1>5. ASSUME NEW f \in F \cup {at}
      PROVE  rest'[f] + n >= Quarantine /\ rest'[f] > 0
  <2>1. f \in Endpoint /\ rest[f] \in 0..Quarantine
    BY <1>1, <1>2
  <2>2. CASE f = at
    <3>1. rest'[f] = Quarantine
      BY <1>1, <1>3, <2>2
    <3> QED
      BY <1>1, <3>1, Sizes
  <2>3. CASE f # at
    <3>1. rest'[f] = rest[f] /\ rest[f] + n >= Quarantine
      BY <1>1, <1>2, <1>3, <2>1, <2>3
    <3> QED
      BY <1>1, <1>3, <2>1, <3>1, Sizes
  <2> QED
    BY <2>2, <2>3
<1>6. F \cup {at} \in SUBSET Endpoint
  BY <1>1, <1>2
<1> QED
  BY <1>4, <1>5, <1>6 DEF k, n

\* The other calls' endpoints go on resting when one more is put to rest.
LEMMA TriedFrame ==
    ASSUME RpcTypeOK, NEW r \in [Endpoint -> 0..Quarantine],
           \A f \in Endpoint : r[f] >= rest[f],
           NEW k, NEW n \in 0..Quarantine, NEW at, Tried(rest, k, n, at)
    PROVE  Tried(r, k, n, at)
<1> SUFFICES ASSUME n < Quarantine
             PROVE  \E F \in SUBSET (Endpoint \ {at}) :
                       /\ IsFiniteSet(F) /\ Cardinality(F) = k
                       /\ \A f \in F : r[f] + n >= Quarantine
  BY DEF Tried
<1>1. PICK F \in SUBSET (Endpoint \ {at}) :
         /\ IsFiniteSet(F) /\ Cardinality(F) = k
         /\ \A f \in F : rest[f] + n >= Quarantine
  BY DEF Tried
<1>2. ASSUME NEW f \in F PROVE r[f] + n >= Quarantine
  <2>1. /\ rest[f] \in 0..Quarantine /\ r[f] \in 0..Quarantine /\ r[f] >= rest[f]
        /\ rest[f] + n >= Quarantine
    BY <1>1 DEF RpcTypeOK
  <2> QED
    BY <2>1, Sizes
<1> QED
  BY <1>1, <1>2

\* Nothing has been tried when a call starts.
LEMMA NothingTried == \A r, n, at : Tried(r, 0, n, at)
BY FS_EmptySet DEF Tried

\* Every step keeps TriedInv.
LEMMA TriedStep == RpcTypeOK /\ TriedInv /\ [RpcNext]_rpcVars => TriedInv'
<1> SUFFICES ASSUME RpcTypeOK, TriedInv, [RpcNext]_rpcVars,
                    NEW d \in Call, call'[d].status = "pending"
             PROVE  Tried(rest', call'[d].attempt, call'[d].since, call'[d].at)
  BY DEF TriedInv
<1>0. /\ call[d].attempt \in 0..(MAX_RETRIES - 1) /\ call[d].since \in 0..Quarantine
      /\ rest \in [Endpoint -> 0..Quarantine]
      /\ call \in [Call -> CallState]
      /\ RpcTypeOK'
  BY RpcTypeStep DEF RpcTypeOK, CallState
<1>1. ASSUME call'[d] = call[d], \A f \in Endpoint : rest'[f] >= rest[f]
      PROVE  Tried(rest', call'[d].attempt, call'[d].since, call'[d].at)
  <2>1. Tried(rest, call[d].attempt, call[d].since, call[d].at)
    BY <1>1 DEF TriedInv
  <2>2. rest' \in [Endpoint -> 0..Quarantine]
    BY <1>0 DEF RpcTypeOK
  <2> QED
    BY <1>0, <1>1, <2>1, <2>2, TriedFrame
<1>2. CASE UNCHANGED <<call, rest>>
  <2>1. \A f \in Endpoint : rest'[f] >= rest[f]
    BY <1>0, <1>2, Sizes
  <2> QED
    BY <1>1, <1>2, <2>1
<1>3. ASSUME NEW c \in Call, NEW isBad \in BOOLEAN, Starts(c, isBad)
      PROVE  Tried(rest', call'[d].attempt, call'[d].since, call'[d].at)
  <2>1. rest' = rest /\ \A f \in Endpoint : rest'[f] >= rest[f]
    BY <1>0, <1>3, Sizes DEF Starts
  <2>2. CASE d = c
    <3>1. call'[c].attempt = 0
      BY <1>0, <1>3, <2>2 DEF Starts, Attempts, Ends, Idle
    <3> QED
      BY <2>2, <3>1, NothingTried
  <2>3. CASE d # c
    <3>1. call'[d] = call[d]
      BY <1>0, <1>3, <2>3 DEF Starts, Attempts, Ends
    <3> QED
      BY <1>1, <2>1, <3>1
  <2> QED
    BY <2>2, <2>3
<1>4. ASSUME NEW c \in Call, Answered(c)
      PROVE  Tried(rest', call'[d].attempt, call'[d].since, call'[d].at)
  <2>1. call'[d] = call[d] /\ rest' = rest
    BY <1>0, <1>4 DEF Answered, Ends, Idle
  <2>2. \A f \in Endpoint : rest'[f] >= rest[f]
    BY <1>0, <2>1, Sizes
  <2> QED
    BY <1>1, <2>1, <2>2
<1>5. ASSUME NEW c \in Call, Refused(c)
      PROVE  Tried(rest', call'[d].attempt, call'[d].since, call'[d].at)
  <2>1. \A f \in Endpoint : rest'[f] >= rest[f]
    <3>1. call[c].at \in Endpoint /\ rest' = [rest EXCEPT ![call[c].at] = Quarantine]
      BY <1>5 DEF Refused, RpcTypeOK, CallState
    <3> QED
      BY <1>0, <3>1, Sizes
  <2>2. CASE d = c
    <3>1. /\ call[c].attempt + 1 < MAX_RETRIES
          /\ Attempts(c, call[c].attempt + 1, call[c].bad, rest')
      BY <1>0, <1>5, <2>2 DEF Refused, Ends, Idle
    <3>2. PICK e \in Endpoint :
             /\ Picks(e, rest')
             /\ call'[c] = [status |-> "pending", at |-> e, attempt |-> call[c].attempt + 1,
                            bad |-> call[c].bad, since |-> call[c].since]
      BY <1>0, <2>2, <3>1 DEF Attempts, Ends, Idle
    <3>3. SUFFICES ASSUME call[c].since < Quarantine
                   PROVE  \E F \in SUBSET (Endpoint \ {e}) :
                             /\ IsFiniteSet(F) /\ Cardinality(F) = call[c].attempt + 1
                             /\ \A f \in F : rest'[f] + call[c].since >= Quarantine
      BY <2>2, <3>2 DEF Tried
    <3>4. PICK F \in SUBSET Endpoint :
             /\ IsFiniteSet(F) /\ Cardinality(F) = call[c].attempt + 1
             /\ \A f \in F : rest'[f] + call[c].since >= Quarantine /\ rest'[f] > 0
      BY <1>5, <3>3, OneMoreTried
    <3>5. F \in SUBSET (Endpoint \ {e})
      BY <3>2, <3>4 DEF Picks, Live
    <3> QED
      BY <3>4, <3>5
  <2>3. CASE d # c
    <3>1. call'[d] = call[d]
      BY <1>0, <1>5, <2>3 DEF Refused, Attempts, Ends
    <3> QED
      BY <1>1, <2>1, <3>1
  <2> QED
    BY <2>2, <2>3
<1>6. ASSUME Tick
      PROVE  Tried(rest', call'[d].attempt, call'[d].since, call'[d].at)
  <2>1. /\ call[d].status = "pending"
        /\ call'[d].attempt = call[d].attempt /\ call'[d].at = call[d].at
        /\ call'[d].since = IF call[d].attempt > 0 /\ call[d].since < Quarantine
                            THEN call[d].since + 1 ELSE call[d].since
    BY <1>0, <1>6 DEF Tick, CallState
  <2>2. CASE call[d].attempt = 0
    BY <2>1, <2>2, NothingTried
  <2>3. CASE call[d].attempt # 0
    <3>1. SUFFICES ASSUME call[d].since + 1 < Quarantine, call'[d].since = call[d].since + 1
                   PROVE  \E F \in SUBSET (Endpoint \ {call[d].at}) :
                             /\ IsFiniteSet(F) /\ Cardinality(F) = call[d].attempt
                             /\ \A f \in F : rest'[f] + (call[d].since + 1) >= Quarantine
      BY <1>0, <2>1, <2>3, Sizes DEF Tried
    <3>2. PICK F \in SUBSET (Endpoint \ {call[d].at}) :
             /\ IsFiniteSet(F) /\ Cardinality(F) = call[d].attempt
             /\ \A f \in F : rest[f] + call[d].since >= Quarantine
      BY <1>0, <2>1, <3>1, Sizes DEF TriedInv, Tried
    <3>3. ASSUME NEW f \in F PROVE rest'[f] + (call[d].since + 1) >= Quarantine
      <4>1. rest[f] \in 0..Quarantine /\ rest[f] + call[d].since >= Quarantine
        BY <1>0, <3>2
      <4>2. rest'[f] \in Nat /\ rest'[f] + 1 >= rest[f]
        BY <1>0, <1>6, <3>2, Sizes DEF Tick
      <4> QED
        BY <1>0, <4>1, <4>2, Sizes
    <3> QED
      BY <3>2, <3>3
  <2> QED
    BY <2>2, <2>3
<1>7. ASSUME NEW e \in Endpoint, NodeChanges(e)
      PROVE  Tried(rest', call'[d].attempt, call'[d].since, call'[d].at)
  BY <1>2, <1>7 DEF NodeChanges
<1> QED
  BY <1>2, <1>3, <1>4, <1>5, <1>6, <1>7 DEF RpcNext, rpcVars

\* A call that fails leaves MAX_RETRIES endpoints, or all there are, at rest,
\* or has been at it for the length of the quarantine.
LEMMA FailureStep ==
    ASSUME RpcTypeOK, TriedInv, [RpcNext]_rpcVars,
           NEW c \in Call, call'[c].status = "error", call[c].status # "error"
    PROVE  \/ Live(rest') = {}
           \/ Cardinality(Endpoint \ Live(rest')) >= MAX_RETRIES
           \/ call[c].since = Quarantine
<1>0. /\ call \in [Call -> CallState] /\ call[c].attempt \in 0..(MAX_RETRIES - 1)
      /\ call[c].since \in 0..Quarantine
  BY DEF RpcTypeOK, CallState
<1>1. ASSUME NEW d \in Call, NEW isBad \in BOOLEAN, Starts(d, isBad) PROVE Live(rest') = {}
  BY <1>0, <1>1 DEF Starts, Attempts, Ends
<1>2. ASSUME NEW d \in Call, Answered(d) PROVE FALSE
  BY <1>0, <1>2 DEF Answered, Ends, Idle
<1>3. ASSUME NEW d \in Call, Refused(d)
      PROVE  \/ Live(rest') = {}
             \/ Cardinality(Endpoint \ Live(rest')) >= MAX_RETRIES
             \/ call[c].since = Quarantine
  <2>1. d = c
    BY <1>0, <1>3 DEF Refused, Attempts, Ends
  <2>2. CASE call[c].attempt + 1 < MAX_RETRIES
    <3>1. Attempts(c, call[c].attempt + 1, call[c].bad, rest')
      BY <1>3, <2>1, <2>2 DEF Refused
    <3> QED
      BY <1>0, <3>1 DEF Attempts, Ends
  <2>3. CASE ~(call[c].attempt + 1 < MAX_RETRIES)
    <3>1. call[c].attempt + 1 = MAX_RETRIES
      BY <1>0, <2>3, Sizes
    <3>0. SUFFICES ASSUME call[c].since < Quarantine
                   PROVE  Cardinality(Endpoint \ Live(rest')) >= MAX_RETRIES
      BY <1>0, Sizes
    <3>2. PICK F \in SUBSET Endpoint :
             /\ IsFiniteSet(F) /\ Cardinality(F) = MAX_RETRIES
             /\ \A f \in F : rest'[f] > 0
      BY <1>3, <2>1, <3>0, <3>1, OneMoreTried
    <3>3. F \subseteq Endpoint \ Live(rest')
      BY <3>2 DEF Live
    <3>4. IsFiniteSet(Endpoint \ Live(rest'))
      <4>1. IsFiniteSet(Endpoint)
        BY Sizes, FS_Interval DEF Endpoint
      <4> QED
        BY <4>1, FS_Subset
    <3>5. Cardinality(F) <= Cardinality(Endpoint \ Live(rest'))
      BY <3>3, <3>4, FS_Subset
    <3> QED
      BY <3>2, <3>4, <3>5, Sizes, FS_CardinalityType
  <2> QED
    BY <2>2, <2>3
<1>4. ASSUME Tick PROVE FALSE
  BY <1>0, <1>4 DEF Tick, CallState
<1> QED
  BY <1>1, <1>2, <1>3, <1>4 DEF RpcNext, NodeChanges, rpcVars

-----------------------------------------------------------------------------
(* The monitor and its users *)

\* A step of the monitor is one of the client, or the end of a pulse, which
\* only clears what the pulse's call has left.
LEMMA PulsesAreCalls ==
    ASSUME RpcTypeOK, [Next]_vars
    PROVE  \/ [RpcNext]_rpcVars
           \/ /\ UNCHANGED <<cursor, rest, up, passed>>
              /\ \E p \in Call : Ends(p, "none")
<1>1. ASSUME NEW p \in Pulse, PulseStarts(p) PROVE RpcNext
  <2>1. p \in Call
    BY HeartbeatAssumption DEF HeartbeatAssumption
  <2> QED
    BY <1>1, <2>1 DEF PulseStarts, RpcNext
<1>2. ASSUME NEW p \in Pulse, Report(p)
      PROVE  /\ UNCHANGED <<cursor, rest, up, passed>>
             /\ \E q \in Call : Ends(q, "none")
  <2>1. p \in Call
    BY HeartbeatAssumption DEF HeartbeatAssumption
  <2> QED
    BY <1>2, <2>1 DEF Report
<1>3. ASSUME NEW c \in User, NEW isBad \in BOOLEAN, Starts(c, isBad) PROVE RpcNext
  BY <1>3 DEF RpcNext, User
<1> QED
  BY <1>1, <1>2, <1>3
  DEF Next, start, Fires, stop, PostEnds, vars, RpcNext

\* The same for the bridge as it runs, pulses overlapping with each other and
\* with everybody else's calls: no live endpoint is passed over N times.
THEOREM NobodyIsPassedOverByPulses == Spec => []EveryLiveEndpointGetsItsTurn
<1>1. Init => RpcTypeOK /\ Turns
  BY Sizes DEF Init, RpcInit, RpcTypeOK, Turns, Ahead, Endpoint, Idle, CallState, Status
<1>2. RpcTypeOK /\ Turns /\ [Next]_vars => RpcTypeOK' /\ Turns'
  <2> SUFFICES ASSUME RpcTypeOK, Turns, [Next]_vars PROVE RpcTypeOK' /\ Turns'
    OBVIOUS
  <2>1. CASE [RpcNext]_rpcVars
    BY <2>1, RpcTypeStep, TurnsStep
  <2>2. ASSUME UNCHANGED <<cursor, rest, up, passed>>, NEW p \in Call, Ends(p, "none")
        PROVE  RpcTypeOK' /\ Turns'
    <3>1. call' \in [Call -> CallState]
      BY <2>2, EndTypes DEF Status
    <3> QED
      BY <2>2, <3>1 DEF RpcTypeOK, Turns, Ahead
  <2> QED
    BY <2>1, <2>2, PulsesAreCalls
<1>3. RpcTypeOK /\ Turns => EveryLiveEndpointGetsItsTurn
  BY TurnsBound
<1> QED
  BY <1>1, <1>2, <1>3, PTL DEF Spec

\* Failover for any number of endpoints, retries and overlapping calls, pulses
\* among them, and requests of any duration: a call fails only while MAX_RETRIES
\* endpoints, or all there are, rest, or after retries as long as a quarantine.
THEOREM FailuresAreJustified == Spec => FailsOnlyWhenOthersRest
<1>1. Init => RpcTypeOK /\ TriedInv
  BY Sizes DEF Init, RpcInit, RpcTypeOK, TriedInv, Endpoint, Idle, CallState, Status
<1>2. ASSUME RpcTypeOK, NEW p \in Call, Ends(p, "none")
      PROVE  /\ call' \in [Call -> CallState]
             /\ \A c \in Call : call'[c] = call[c] \/ call'[c].status = "none"
  BY <1>2, EndTypes DEF Status, Ends, Idle, RpcTypeOK
<1>3. RpcTypeOK /\ TriedInv /\ [Next]_vars => RpcTypeOK' /\ TriedInv'
  <2> SUFFICES ASSUME RpcTypeOK, TriedInv, [Next]_vars PROVE RpcTypeOK' /\ TriedInv'
    OBVIOUS
  <2>1. CASE [RpcNext]_rpcVars
    BY <2>1, RpcTypeStep, TriedStep
  <2>2. ASSUME UNCHANGED <<cursor, rest, up, passed>>, NEW p \in Call, Ends(p, "none")
        PROVE  RpcTypeOK' /\ TriedInv'
    BY <1>2, <2>2 DEF RpcTypeOK, TriedInv
  <2> QED
    BY <2>1, <2>2, PulsesAreCalls
<1>4. RpcTypeOK /\ TriedInv /\ [Next]_vars =>
         [\A c \in Call :
             call'[c].status = "error" /\ call[c].status # "error"
             => \/ Live(rest') = {}
                \/ Cardinality(Endpoint \ Live(rest')) >= MAX_RETRIES
                \/ call[c].since = Quarantine]_rpcVars
  <2> SUFFICES ASSUME RpcTypeOK, TriedInv, [Next]_vars, NEW c \in Call,
                      call'[c].status = "error", call[c].status # "error"
               PROVE  \/ Live(rest') = {}
                      \/ Cardinality(Endpoint \ Live(rest')) >= MAX_RETRIES
                      \/ call[c].since = Quarantine
    OBVIOUS
  <2>1. ~\E p \in Call : Ends(p, "none")
    BY <1>2
  <2> QED
    BY <2>1, PulsesAreCalls, FailureStep
<1> QED
  BY <1>1, <1>3, <1>4, PTL DEF Spec, FailsOnlyWhenOthersRest

-----------------------------------------------------------------------------
(* The cache: tables *)

LEMMA CacheSizes == MaxEntries \in Nat /\ MaxVersion \in Nat /\ Slot \subseteq Nat /\ 0 \notin Slot
BY CacheAssumption DEF CacheAssumption

\* A slot that fetches is told from one that does not.
LEMMA FetchingIsNotIdle == \A f \in Fetch : f # NoFetch
<1> SUFFICES ASSUME NEW f \in Fetch PROVE f # NoFetch
  OBVIOUS
<1>1. "by" \in DOMAIN f
  BY DEF Fetch
<1>2. "by" \notin DOMAIN NoFetch
  BY DEF NoFetch
<1> QED
  BY <1>1, <1>2

\* The part of CacheTypeOK about the Map and its order.
TableOK ==
    /\ items \in [Key -> Item]
    /\ order \in Seq(Key)
    /\ Len(order) <= MaxEntries
    /\ \A k \in Key : items[k].cached <=> k \in Members(order)
    /\ ~HasDuplicates(order)

\* cache.set and evictIfNeeded store k, or drop it at once; other items stay as
\* they are or go; and the table keeps its bound.
LEMMA StoresTable ==
    ASSUME TableOK, NEW k \in Key, NEW v \in Version, Stores(k, v)
    PROVE  /\ TableOK'
           /\ \A j \in Key :
                 items'[j] = NoItem \/ items'[j] = IF j = k THEN Fresh(v) ELSE items[j]
<1> DEFINE o == Placed(k)
           a == Len(o) - MaxEntries + 1
<1>1. /\ o \in Seq(Key) /\ ~HasDuplicates(o)
      /\ Members(o) = Members(order) \cup {k}
  <2>1. CASE items[k].cached
    BY <2>1 DEF TableOK, Placed
  <2>2. CASE ~items[k].cached
    BY <2>2, AppendIsNew, MembersAppend DEF TableOK, Placed
  <2> QED
    BY <2>1, <2>2
<1> HIDE DEF o
<1>2. /\ order' \in Seq(Key) /\ ~HasDuplicates(order')
      /\ Members(order') \subseteq Members(o)
      /\ Len(order') <= MaxEntries
  <2>1. order' = Kept(o)
    BY DEF Stores, o
  <2>2. Len(o) \in Nat
    BY <1>1
  <2>3. CASE Len(o) <= MaxEntries
    BY <1>1, <2>1, <2>3 DEF Kept
  <2>4. CASE ~(Len(o) <= MaxEntries)
    <3>1. a \in 1..(Len(o) + 1) /\ Len(o) + 1 - a = MaxEntries
      BY <2>2, <2>4, CacheSizes
    <3>2. order' = SubSeq(o, a, Len(o))
      BY <2>1, <2>4 DEF Kept
    <3> HIDE DEF a
    <3> QED
      BY <1>1, <3>1, <3>2, CacheSizes, EndOfVector
  <2> QED
    BY <2>3, <2>4
<1>3. \A j \in Key : items'[j] = IF j \notin Members(order') THEN NoItem
                                 ELSE IF j = k THEN Fresh(v) ELSE items[j]
  BY DEF Stores
<1>4. NoItem \in Item /\ ~NoItem.cached /\ Fresh(v) \in Item /\ Fresh(v).cached
  BY CacheSizes DEF NoItem, Item, Fresh, Version
<1>5. items' \in [Key -> Item]
  BY <1>4 DEF Stores, TableOK
<1>6. \A j \in Key : items'[j].cached <=> j \in Members(order')
  BY <1>1, <1>2, <1>3, <1>4 DEF TableOK
<1> QED
  BY <1>2, <1>3, <1>5, <1>6 DEF TableOK

\* touch moves a key to the end and changes nothing else.
LEMMA TouchedTable ==
    ASSUME TableOK, NEW k \in Key, items[k].cached
    PROVE  /\ Touched(k) \in Seq(Key) /\ ~HasDuplicates(Touched(k))
           /\ Members(Touched(k)) = Members(order)
           /\ Len(Touched(k)) <= MaxEntries
<1> DEFINE w == Without(order, k)
<1>1. k \in Members(order) /\ order \in Seq(Key) /\ ~HasDuplicates(order) /\ Len(order) \in Nat
  BY DEF TableOK
<1>2. /\ w \in Seq(Key) /\ ~HasDuplicates(w)
      /\ Members(w) = Members(order) \ {k}
      /\ Len(w) = Len(order) - 1
  BY <1>1, WithoutOne
<1> HIDE DEF w
<1>3. /\ Append(w, k) \in Seq(Key) /\ ~HasDuplicates(Append(w, k))
      /\ Members(Append(w, k)) = Members(w) \cup {k}
  BY <1>2, AppendIsNew, MembersAppend
<1>4. Len(Append(w, k)) = Len(order)
  BY <1>1, <1>2
<1> QED
  BY <1>1, <1>2, <1>3, <1>4 DEF Touched, TableOK, w

-----------------------------------------------------------------------------
(* The cache: fetches *)

FetchOK == fetch \in [Slot -> Fetch \cup {NoFetch}]

Running(k) == Misses(k) \cup Revalidations(k)

LEMMA RunningIsAll ==
    ASSUME NEW f, NEW k
    PROVE  Fetches(f, k, {"getSwr", "revalidate"})
             = Fetches(f, k, {"getSwr"}) \cup Fetches(f, k, {"revalidate"})
BY DEF Fetches

\* A fetch that starts is one more of its kind for its key, with the version
\* the chain has now.
LEMMA FetchStarts ==
    ASSUME FetchOK, chain \in Version, NEW k \in Key, NEW who \in {"getSwr", "revalidate"},
           StartsFetch(k, who)
    PROVE  \E s \in Slot :
              /\ FetchOK'
              /\ fetch'[s].from = chain
              /\ \A t \in Slot \ {s} : fetch'[t] = fetch[t]
              /\ \A j \in Key : s \notin Running(j)
              /\ \A j \in Key : Misses(j)' =
                    IF j = k /\ who = "getSwr" THEN Misses(j) \cup {s} ELSE Misses(j)
              /\ \A j \in Key : Revalidations(j)' =
                    IF j = k /\ who = "revalidate" THEN Revalidations(j) \cup {s}
                    ELSE Revalidations(j)
              /\ inflight' = IF who = "getSwr" THEN [inflight EXCEPT ![k] = s] ELSE inflight
<1> DEFINE f == [by |-> who, key |-> k, from |-> chain]
<1>1. f \in Fetch /\ f.by = who /\ f.key = k /\ f.from = chain
  BY DEF Fetch
<1>2. f # NoFetch
  BY <1>1, FetchingIsNotIdle
<1>3. PICK s \in Slot :
         /\ fetch[s] = NoFetch
         /\ fetch' = [fetch EXCEPT ![s] = f]
         /\ inflight' = IF who = "getSwr" THEN [inflight EXCEPT ![k] = s] ELSE inflight
  BY DEF StartsFetch
<1> HIDE DEF f
<1>4. FetchOK' /\ fetch'[s] = f /\ \A t \in Slot \ {s} : fetch'[t] = fetch[t]
  BY <1>1, <1>3 DEF FetchOK
<1>5. \A j \in Key : s \notin Running(j)
  BY <1>3 DEF Running, Misses, Revalidations, Fetches
<1>6. \A j \in Key : Misses(j)' =
         IF j = k /\ who = "getSwr" THEN Misses(j) \cup {s} ELSE Misses(j)
  BY <1>1, <1>2, <1>3, <1>4 DEF Misses, Fetches
<1>7. \A j \in Key : Revalidations(j)' =
         IF j = k /\ who = "revalidate" THEN Revalidations(j) \cup {s} ELSE Revalidations(j)
  BY <1>1, <1>2, <1>3, <1>4 DEF Revalidations, Fetches
<1> QED
  BY <1>1, <1>3, <1>4, <1>5, <1>6, <1>7

\* A fetch that ends is gone from its key, and no other is.
LEMMA FetchEnds ==
    ASSUME FetchOK, NEW s \in Slot, fetch' = [fetch EXCEPT ![s] = NoFetch]
    PROVE  /\ FetchOK'
           /\ \A t \in Slot \ {s} : fetch'[t] = fetch[t]
           /\ \A j \in Key : Misses(j)' = Misses(j) \ {s}
           /\ \A j \in Key : Revalidations(j)' = Revalidations(j) \ {s}
<1>1. FetchOK' /\ fetch'[s] = NoFetch /\ \A t \in Slot \ {s} : fetch'[t] = fetch[t]
  BY DEF FetchOK
<1>2. \A j \in Key : Misses(j)' = Misses(j) \ {s}
  BY <1>1 DEF Misses, Fetches
<1>3. \A j \in Key : Revalidations(j)' = Revalidations(j) \ {s}
  BY <1>1 DEF Revalidations, Fetches
<1> QED
  BY <1>1, <1>2, <1>3

-----------------------------------------------------------------------------
(* The cache: what holds of a key *)

\* What is recorded of a key, and the versions it has met: nothing is newer than
\* the chain; and unless the key is torn it is fetched for one purpose at a time,
\* a miss while it is away and a revalidation while it is there and flagged, and
\* whatever is under way started no earlier than what was returned last.
KeyInv(k) ==
    /\ items[k].isRevalidating => items[k].cached
    /\ Misses(k) = {inflight[k]} \ {0}
    /\ items[k].isRevalidating => Revalidations(k) # {}
    /\ seen[k] <= chain /\ items[k].version <= chain
    /\ \A s \in Running(k) : fetch[s].from <= chain
    /\ ~torn[k] =>
          /\ \A s, t \in Revalidations(k) : s = t /\ items[k].isRevalidating
          /\ Misses(k) # {} => ~items[k].cached /\ Revalidations(k) = {}
          /\ items[k].cached => seen[k] <= items[k].version
          /\ \A s \in Misses(k) : seen[k] <= fetch[s].from
          /\ \A s \in Revalidations(k) : items[k].version <= fetch[s].from

NumbersOK ==
    /\ inflight \in [Key -> Slot \cup {0}]
    /\ chain \in Version
    /\ seen \in [Key -> Version]
    /\ torn \in [Key -> BOOLEAN]

CacheIInv == TableOK /\ FetchOK /\ NumbersOK /\ \A k \in Key : KeyInv(k)

\* getSwr goes no further back for a key.
NotBack(k) == ~torn[k] /\ ~torn'[k] => seen'[k] >= seen[k]

KeyKept(k) == KeyInv(k)' /\ NotBack(k)

\* What Remember keeps of one key.
LEMMA Remembers ==
    ASSUME NumbersOK, NEW gone, NEW returned, Remember(gone, returned),
           \A k \in DOMAIN returned : returned[k] \in Version
    PROVE  /\ torn' \in [Key -> BOOLEAN]
           /\ seen' \in [Key -> Version]
           /\ \A k \in Key :
                 /\ torn'[k] <=> IF torn[k] THEN Running(k)' # {}
                                 ELSE k \in gone /\ Revalidations(k)' # {}
                 /\ seen'[k] = IF torn[k] /\ ~torn'[k] THEN 0
                               ELSE IF k \in DOMAIN returned THEN returned[k] ELSE seen[k]
<1>1. 0 \in Version
  BY CacheSizes DEF Version
<1>2. \A k \in Key :
         /\ Fetches(fetch', k, {"getSwr", "revalidate"}) = Running(k)'
         /\ Fetches(fetch', k, {"revalidate"}) = Revalidations(k)'
  BY RunningIsAll DEF Running, Misses, Revalidations
<1>3. torn' \in [Key -> BOOLEAN]
  BY DEF Remember, NumbersOK
<1>4. \A k \in Key :
         /\ torn'[k] <=> IF torn[k] THEN Running(k)' # {}
                         ELSE k \in gone /\ Revalidations(k)' # {}
         /\ seen'[k] = IF torn[k] /\ ~torn'[k] THEN 0
                       ELSE IF k \in DOMAIN returned THEN returned[k] ELSE seen[k]
  BY <1>2 DEF Remember, NumbersOK
<1>5. seen' \in [Key -> Version]
  BY <1>1 DEF Remember, NumbersOK
<1> QED
  BY <1>3, <1>4, <1>5

LEMMA RunningFrom ==
    ASSUME FetchOK, NEW k, NEW s \in Running(k)
    PROVE  s \in Slot /\ fetch[s] \in Fetch /\ fetch[s].key = k /\ fetch[s].from \in Version
<1>1. s \in Slot /\ fetch[s] # NoFetch /\ fetch[s].key = k
  BY DEF Running, Misses, Revalidations, Fetches
<1>2. fetch[s] \in Fetch
  BY <1>1 DEF FetchOK
<1> QED
  BY <1>1, <1>2 DEF Fetch

\* A key that a step is not about keeps its fetches; its item stays or goes.
LEMMA OtherKey ==
    ASSUME CacheIInv, NEW k \in Key,
           items' \in [Key -> Item], NumbersOK', chain' = chain, inflight'[k] = inflight[k],
           Misses(k)' = Misses(k), Revalidations(k)' = Revalidations(k),
           \A s \in Running(k) : fetch'[s] = fetch[s],
           items'[k] = items[k] \/ items'[k] = NoItem,
           torn'[k] <=> IF torn[k] THEN Running(k)' # {}
                        ELSE /\ items[k].cached /\ ~items'[k].cached
                             /\ Revalidations(k)' # {},
           seen'[k] = IF torn[k] /\ ~torn'[k] THEN 0 ELSE seen[k]
    PROVE  KeyKept(k)
<1>0. /\ KeyInv(k) /\ seen[k] \in Nat /\ chain \in Nat
      /\ items[k].version \in Nat /\ items'[k].version \in Nat /\ seen'[k] \in Nat
  BY CacheSizes DEF CacheIInv, NumbersOK, TableOK, Item, Version
<1>1. Running(k)' = Running(k)
  BY DEF Running
<1>2. \A s \in Running(k) : fetch[s].from \in Nat
  BY RunningFrom, CacheSizes DEF CacheIInv, Version
<1>3. ~NoItem.cached /\ ~NoItem.isRevalidating /\ NoItem.version = 0
  BY DEF NoItem
<1>4. CASE items'[k] = items[k]
  <2>1. torn'[k] <=> torn[k] /\ Running(k) # {}
    BY <1>1, <1>4
  <2>2. CASE torn[k] /\ ~torn'[k]
    <3>1. Misses(k) = {} /\ Revalidations(k) = {} /\ seen'[k] = 0
      BY <2>1, <2>2 DEF Running
    <3> QED
      BY <1>0, <1>1, <1>4, <2>2, <3>1 DEF KeyKept, KeyInv, NotBack
  <2>3. CASE ~(torn[k] /\ ~torn'[k])
    <3>1. torn'[k] = torn[k] /\ seen'[k] = seen[k]
      BY <2>1, <2>3 DEF NumbersOK, CacheIInv
    <3> QED
      BY <1>0, <1>1, <1>2, <1>4, <3>1 DEF KeyKept, KeyInv, NotBack, Running
  <2> QED
    BY <2>2, <2>3
<1>5. CASE items'[k] = NoItem
  <2>1. CASE torn[k] /\ ~torn'[k]
    <3>1. Misses(k) = {} /\ Revalidations(k) = {} /\ seen'[k] = 0
      BY <1>1, <2>1 DEF Running
    <3> QED
      BY <1>0, <1>1, <1>3, <1>5, <2>1, <3>1 DEF KeyKept, KeyInv, NotBack
  <2>2. CASE torn'[k]
    BY <1>0, <1>1, <1>3, <1>5, <2>2 DEF KeyKept, KeyInv, NotBack
  <2>3. CASE ~torn[k] /\ ~torn'[k]
    <3>1. seen'[k] = seen[k]
      BY <2>3
    <3>2. ~items[k].cached \/ Revalidations(k) = {}
      BY <1>3, <1>5, <2>3
    <3>3. Revalidations(k) = {}
      BY <1>0, <1>3, <2>3, <3>2 DEF KeyInv
    <3> QED
      BY <1>0, <1>1, <1>2, <1>3, <1>5, <2>3, <3>1, <3>3 DEF KeyKept, KeyInv, NotBack, Running
  <2> QED
    BY <2>1, <2>2, <2>3
<1> QED
  BY <1>4, <1>5

-----------------------------------------------------------------------------
(* The cache: its operations *)

CacheKept == TableOK' /\ FetchOK' /\ NumbersOK' /\ \A k \in Key : KeyKept(k)

\* A hit, which may start a revalidation in the background.
LEMMA HitStep ==
    ASSUME CacheIInv, NEW k \in Key, NEW isStale \in BOOLEAN, Hit(k, isStale)
    PROVE  CacheKept
<1> DEFINE returned == Returned(k, items[k].version)
<1>0. /\ TableOK /\ FetchOK /\ NumbersOK /\ items[k].cached /\ chain' = chain
      /\ Remember({}, returned) /\ order' = Touched(k)
      /\ \A j \in Key : items[j] \in Item /\ items[j].version \in Version
  BY DEF Hit, CacheIInv, TableOK, Item
<1>1. DOMAIN returned = {k} /\ returned[k] = items[k].version
  BY DEF Returned
<1>2. /\ torn' \in [Key -> BOOLEAN]
      /\ seen' \in [Key -> Version]
      /\ \A j \in Key :
            /\ torn'[j] <=> torn[j] /\ Running(j)' # {}
            /\ seen'[j] = IF torn[j] /\ ~torn'[j] THEN 0
                          ELSE IF j = k THEN items[k].version ELSE seen[j]
  <2>1. \A j \in DOMAIN returned : returned[j] \in Version
    BY <1>0, <1>1
  <2> HIDE DEF returned
  <2> QED
    BY <1>0, <1>1, <2>1, Remembers
<1> HIDE DEF returned
<1>3. /\ items[k].version \in Nat /\ chain \in Nat /\ seen[k] \in Nat /\ seen'[k] \in Nat
      /\ KeyInv(k)
  BY <1>0, <1>2, CacheSizes DEF NumbersOK, Version, CacheIInv
<1>4. CASE isStale /\ ~items[k].isRevalidating
  <2>1. items' = [items EXCEPT ![k].isRevalidating = TRUE] /\ StartsFetch(k, "revalidate")
    BY <1>4 DEF Hit
  <2>2. PICK s \in Slot :
          /\ FetchOK'
          /\ fetch'[s].from = chain
          /\ \A t \in Slot \ {s} : fetch'[t] = fetch[t]
          /\ \A j \in Key : s \notin Running(j)
          /\ \A j \in Key : Misses(j)' = Misses(j)
          /\ \A j \in Key : Revalidations(j)' = IF j = k THEN Revalidations(j) \cup {s}
                                                ELSE Revalidations(j)
          /\ inflight' = inflight
    BY <1>0, <2>1, FetchStarts DEF NumbersOK
  <2>3. /\ items' \in [Key -> Item] /\ items'[k].isRevalidating
        /\ items'[k].cached /\ items'[k].version = items[k].version
        /\ \A j \in Key \ {k} : items'[j] = items[j]
        /\ \A j \in Key : items'[j].cached = items[j].cached
    BY <1>0, <2>1 DEF Item, TableOK
  <2>4. TableOK'
    BY <1>0, <2>3, TouchedTable DEF TableOK
  <2>5. NumbersOK'
    BY <1>0, <1>2, <2>2 DEF NumbersOK
  <2>6. ASSUME NEW j \in Key, j # k PROVE KeyKept(j)
    <3>1. Revalidations(j)' = Revalidations(j) /\ items'[j] = items[j]
      BY <2>2, <2>3, <2>6
    <3>2. \A t \in Running(j) : fetch'[t] = fetch[t]
      BY <1>0, <2>2, RunningFrom
    <3> QED
      BY <1>0, <1>2, <2>2, <2>3, <2>5, <2>6, <3>1, <3>2, OtherKey
  <2>7. KeyKept(k)
    <3>1. \A t \in Running(k) : t # s /\ fetch'[t] = fetch[t] /\ fetch[t].from \in Nat
      BY <1>0, <2>2, RunningFrom, CacheSizes DEF Version
    <3>2. torn'[k] = torn[k] /\ seen'[k] = items[k].version
      BY <1>0, <1>2, <2>2 DEF Running, NumbersOK
    <3>3. ~torn[k] => Revalidations(k) = {} /\ Misses(k) = {}
      BY <1>0, <1>3, <1>4 DEF KeyInv
    <3> QED
      BY <1>0, <1>3, <2>2, <2>3, <3>1, <3>2, <3>3 DEF KeyKept, KeyInv, NotBack, Running
  <2> QED
    BY <2>2, <2>4, <2>5, <2>6, <2>7 DEF CacheKept
<1>5. CASE ~(isStale /\ ~items[k].isRevalidating)
  <2>1. UNCHANGED <<items, inflight, fetch>>
    BY <1>5 DEF Hit
  <2>2. /\ \A j \in Key : Misses(j)' = Misses(j) /\ Revalidations(j)' = Revalidations(j)
        /\ \A j \in Key : Running(j)' = Running(j)
    BY <2>1 DEF Misses, Revalidations, Running
  <2>3. TableOK' /\ FetchOK' /\ NumbersOK'
    BY <1>0, <1>2, <2>1, TouchedTable DEF TableOK, FetchOK, NumbersOK
  <2>4. ASSUME NEW j \in Key, j # k PROVE KeyKept(j)
    <3>1. items' \in [Key -> Item]
      BY <2>3 DEF TableOK
    <3> QED
      BY <1>0, <1>2, <2>1, <2>2, <2>3, <2>4, <3>1, OtherKey
  <2>5. KeyKept(k)
    <3>1. \A t \in Running(k) : fetch[t].from \in Nat
      BY <1>0, RunningFrom, CacheSizes DEF Version
    <3>2. CASE torn[k] /\ ~torn'[k]
      <4>1. Misses(k) = {} /\ Revalidations(k) = {} /\ seen'[k] = 0
        BY <1>2, <2>2, <3>2 DEF Running
      <4> QED
        BY <1>3, <2>1, <2>2, <3>2, <4>1, <1>0 DEF KeyKept, KeyInv, NotBack, Running
    <3>3. CASE ~(torn[k] /\ ~torn'[k])
      <4>1. torn'[k] = torn[k] /\ seen'[k] = items[k].version
        BY <1>0, <1>2, <3>3 DEF NumbersOK
      <4> QED
        BY <1>0, <1>3, <2>1, <2>2, <3>1, <4>1 DEF KeyKept, KeyInv, NotBack, Running
    <3> QED
      BY <3>2, <3>3
  <2> QED
    BY <2>3, <2>4, <2>5 DEF CacheKept
<1> QED
  BY <1>4, <1>5

\* A miss that is the first to ask.
LEMMA MissStep ==
    ASSUME CacheIInv, NEW k \in Key, Miss(k)
    PROVE  CacheKept
<1>0. /\ TableOK /\ FetchOK /\ NumbersOK /\ ~items[k].cached /\ chain' = chain
      /\ inflight[k] = 0 /\ items' = items /\ order' = order
      /\ StartsFetch(k, "getSwr") /\ Remember({}, Nothing) /\ KeyInv(k)
  BY DEF Miss, CacheIInv
<1>1. /\ torn' \in [Key -> BOOLEAN]
      /\ seen' \in [Key -> Version]
      /\ \A j \in Key :
            /\ torn'[j] <=> torn[j] /\ Running(j)' # {}
            /\ seen'[j] = IF torn[j] /\ ~torn'[j] THEN 0 ELSE seen[j]
  <2>1. DOMAIN Nothing = {}
    BY DEF Nothing
  <2> QED
    BY <1>0, <2>1, Remembers
<1>2. PICK s \in Slot :
        /\ FetchOK'
        /\ fetch'[s].from = chain
        /\ \A t \in Slot \ {s} : fetch'[t] = fetch[t]
        /\ \A j \in Key : s \notin Running(j)
        /\ \A j \in Key : Misses(j)' = IF j = k THEN Misses(j) \cup {s} ELSE Misses(j)
        /\ \A j \in Key : Revalidations(j)' = Revalidations(j)
        /\ inflight' = [inflight EXCEPT ![k] = s]
  BY <1>0, FetchStarts DEF NumbersOK
<1>3. TableOK' /\ NumbersOK'
  BY <1>0, <1>1, <1>2 DEF TableOK, NumbersOK
<1>4. ASSUME NEW j \in Key, j # k PROVE KeyKept(j)
  <2>1. Misses(j)' = Misses(j) /\ inflight'[j] = inflight[j] /\ items' \in [Key -> Item]
    BY <1>0, <1>2, <1>3, <1>4 DEF NumbersOK, TableOK
  <2>2. \A t \in Running(j) : fetch'[t] = fetch[t]
    BY <1>0, <1>2, RunningFrom
  <2> QED
    BY <1>0, <1>1, <1>2, <1>3, <1>4, <2>1, <2>2, OtherKey
<1>5. KeyKept(k)
  <2>1. \A t \in Running(k) : t # s /\ fetch'[t] = fetch[t]
    BY <1>0, <1>2, RunningFrom
  <2>2. torn'[k] = torn[k] /\ seen'[k] = seen[k]
    BY <1>0, <1>1, <1>2 DEF Running, NumbersOK
  <2>3. inflight'[k] = s /\ s # 0 /\ Misses(k) = {} /\ Misses(k)' = {s}
    BY <1>0, <1>2, CacheSizes DEF NumbersOK, KeyInv
  <2>4. ~items[k].isRevalidating
    BY <1>0 DEF KeyInv, NoItem
  <2>5. ~torn[k] => Revalidations(k) = {}
    BY <1>0, <2>4 DEF KeyInv
  <2>6. seen[k] \in Nat
    BY <1>0, CacheSizes DEF NumbersOK, Version
  <2>7. Running(k)' = Revalidations(k) \cup {s} /\ Running(k) = Revalidations(k)
    BY <1>2, <2>3 DEF Running
  <2>8. \A t \in Running(k)' : fetch'[t].from <= chain'
    BY <1>0, <1>2, <2>1, <2>7 DEF KeyInv, NumbersOK, Version
  <2>9. /\ seen'[k] <= chain' /\ items'[k].version <= chain'
        /\ Misses(k)' = {inflight'[k]} \ {0}
        /\ ~items'[k].isRevalidating
    BY <1>0, <2>2, <2>3, <2>4 DEF KeyInv
  <2>10. ~torn'[k] => /\ Revalidations(k)' = {} /\ ~items'[k].cached
                      /\ seen'[k] <= fetch'[s].from
    BY <1>0, <1>2, <2>2, <2>5 DEF KeyInv
  <2> QED
    BY <2>2, <2>3, <2>6, <2>8, <2>9, <2>10 DEF KeyKept, KeyInv, NotBack
<1> QED
  BY <1>2, <1>3, <1>4, <1>5 DEF CacheKept

\* A fetch ends and leaves every other key's alone.
LEMMA EndLeavesOthers ==
    ASSUME CacheIInv, NEW s \in Slot, fetch[s] # NoFetch,
           fetch' = [fetch EXCEPT ![s] = NoFetch], NEW j \in Key, j # fetch[s].key
    PROVE  /\ Misses(j)' = Misses(j) /\ Revalidations(j)' = Revalidations(j)
           /\ \A t \in Running(j) : fetch'[t] = fetch[t]
<1>1. s \notin Running(j) /\ FetchOK
  BY DEF Running, Misses, Revalidations, Fetches, CacheIInv
<1>2. /\ Misses(j)' = Misses(j) \ {s} /\ Revalidations(j)' = Revalidations(j) \ {s}
      /\ \A t \in Slot \ {s} : fetch'[t] = fetch[t]
  BY <1>1, FetchEnds
<1>3. \A t \in Running(j) : t \in Slot \ {s}
  BY <1>1, RunningFrom
<1> QED
  BY <1>1, <1>2, <1>3 DEF Running

\* A running fetch is one of its key's, with an item and versions to compare.
LEMMA RunningFetch ==
    ASSUME CacheIInv, NEW s \in Slot, fetch[s] # NoFetch
    PROVE  /\ fetch[s].key \in Key /\ KeyInv(fetch[s].key)
           /\ fetch[s].from \in Nat /\ chain \in Nat /\ fetch[s].from <= chain
           /\ fetch[s].by = "getSwr" => s \in Misses(fetch[s].key)
           /\ fetch[s].by = "revalidate" => s \in Revalidations(fetch[s].key)
           /\ seen[fetch[s].key] \in Nat /\ items[fetch[s].key].version \in Nat
           /\ fetch[s].by \in {"getSwr", "revalidate"}
<1>1. fetch[s] \in Fetch
  BY DEF CacheIInv, FetchOK
<1>2. /\ fetch[s].key \in Key /\ fetch[s].from \in Version
      /\ fetch[s].by \in {"getSwr", "revalidate"}
  BY <1>1 DEF Fetch
<1>3. /\ fetch[s].by = "getSwr" => s \in Misses(fetch[s].key)
      /\ fetch[s].by = "revalidate" => s \in Revalidations(fetch[s].key)
  BY DEF Misses, Revalidations, Fetches
<1>4. KeyInv(fetch[s].key) /\ fetch[s].from <= chain
  BY <1>2, <1>3 DEF CacheIInv, KeyInv, Running
<1> QED
  BY <1>2, <1>3, <1>4, CacheSizes DEF CacheIInv, NumbersOK, TableOK, Item, Version

\* A fetch brings its answer: the callers of a miss get it, and it is stored,
\* also when the key was evicted or invalidated in between.
LEMMA SettleStep ==
    ASSUME CacheIInv, NEW s \in Slot, NEW v \in Version, MissSettles(s, v) \/ RevalSettles(s, v)
    PROVE  CacheKept
<1>a. fetch[s] # NoFetch
  BY DEF MissSettles, RevalSettles
<1>b. PICK k \in Key : k = fetch[s].key
  BY <1>a, RunningFetch
<1> DEFINE returned == IF fetch[s].by = "getSwr" THEN Returned(k, v) ELSE Nothing
<1>0. /\ fetch[s] # NoFetch /\ Stores(k, v) /\ fetch' = [fetch EXCEPT ![s] = NoFetch]
      /\ v \in fetch[s].from..chain /\ chain' = chain /\ Remember(Gone, returned)
      /\ inflight' = IF fetch[s].by = "getSwr" THEN [inflight EXCEPT ![k] = 0] ELSE inflight
      /\ TableOK /\ FetchOK /\ NumbersOK
  BY <1>b DEF MissSettles, RevalSettles, CacheIInv
<1>1. /\ k \in Key /\ KeyInv(k)
      /\ fetch[s].from \in Nat /\ chain \in Nat /\ fetch[s].from <= chain
      /\ fetch[s].by = "getSwr" => s \in Misses(k)
      /\ fetch[s].by = "revalidate" => s \in Revalidations(k)
      /\ seen[k] \in Nat /\ items[k].version \in Nat
      /\ fetch[s].by \in {"getSwr", "revalidate"}
  BY <1>b, <1>0, RunningFetch
<1>2. v \in Nat /\ fetch[s].from <= v /\ v <= chain
  BY <1>0, <1>1
<1>3. DOMAIN returned = (IF fetch[s].by = "getSwr" THEN {k} ELSE {})
         /\ \A j \in DOMAIN returned : returned[j] = v
  BY DEF Returned, Nothing
<1> HIDE DEF returned
<1>4. /\ torn' \in [Key -> BOOLEAN]
      /\ seen' \in [Key -> Version]
      /\ \A j \in Key :
            /\ torn'[j] <=> IF torn[j] THEN Running(j)' # {}
                            ELSE j \in Gone /\ Revalidations(j)' # {}
            /\ seen'[j] = IF torn[j] /\ ~torn'[j] THEN 0
                          ELSE IF j = k /\ fetch[s].by = "getSwr" THEN v ELSE seen[j]
  <2>1. \A j \in DOMAIN returned : returned[j] \in Version
    BY <1>3
  <2> QED
    BY <1>0, <1>3, <2>1, Remembers
<1>5. /\ TableOK'
      /\ \A j \in Key : items'[j] = NoItem \/ items'[j] = IF j = k THEN Fresh(v) ELSE items[j]
  BY <1>0, <1>1, StoresTable
<1>6. /\ FetchOK'
      /\ \A t \in Slot \ {s} : fetch'[t] = fetch[t]
      /\ \A j \in Key : Misses(j)' = Misses(j) \ {s}
      /\ \A j \in Key : Revalidations(j)' = Revalidations(j) \ {s}
  BY <1>0, FetchEnds
<1>7. NumbersOK'
  BY <1>0, <1>1, <1>4 DEF NumbersOK
<1>8. ASSUME NEW j \in Key, j # k PROVE KeyKept(j)
  <2>1. /\ Misses(j)' = Misses(j) /\ Revalidations(j)' = Revalidations(j)
        /\ \A t \in Running(j) : fetch'[t] = fetch[t]
    BY <1>b, <1>0, <1>8, EndLeavesOthers
  <2>2. inflight'[j] = inflight[j]
    BY <1>0, <1>1, <1>8 DEF NumbersOK
  <2>3. j \in Gone <=> items[j].cached /\ ~items'[j].cached
    BY DEF Gone
  <2>4. items' \in [Key -> Item] /\ (items'[j] = items[j] \/ items'[j] = NoItem)
    BY <1>5, <1>8 DEF TableOK
  <2>5. /\ torn'[j] <=> IF torn[j] THEN Running(j)' # {}
                        ELSE items[j].cached /\ ~items'[j].cached /\ Revalidations(j)' # {}
        /\ seen'[j] = IF torn[j] /\ ~torn'[j] THEN 0 ELSE seen[j]
    BY <1>4, <1>8, <2>3
  <2> QED
    BY <1>0, <1>7, <2>1, <2>2, <2>4, <2>5, OtherKey
<1>9. KeyKept(k)
  <2>1. /\ ~items'[k].isRevalidating
        /\ items'[k].version \in Nat /\ items'[k].version <= chain
        /\ items'[k].cached => items'[k].version = v
    BY <1>1, <1>2, <1>5 DEF NoItem, Fresh
  <2>2. Misses(k)' = {inflight'[k]} \ {0}
    <3>1. CASE fetch[s].by = "getSwr"
      <4>1. Misses(k) = {s} /\ inflight'[k] = 0
        BY <1>0, <1>1, <3>1 DEF NumbersOK, KeyInv
      <4> QED
        BY <1>1, <1>6, <4>1
    <3>2. CASE fetch[s].by = "revalidate"
      <4>1. s \notin Misses(k) /\ inflight'[k] = inflight[k]
        BY <1>0, <3>2 DEF Misses, Fetches
      <4> QED
        BY <1>1, <1>6, <4>1 DEF KeyInv
    <3> QED
      BY <1>1, <3>1, <3>2
  <2>3. \A t \in Running(k)' : t \in Running(k) /\ fetch'[t].from <= chain
    <3>1. \A t \in Running(k)' : t \in Running(k) /\ t # s
      BY <1>1, <1>6 DEF Running
    <3>2. \A t \in Running(k) : t \in Slot /\ fetch[t].from <= chain
      BY <1>0, <1>1, RunningFrom DEF KeyInv
    <3> QED
      BY <1>6, <3>1, <3>2
  <2>4. seen'[k] \in Nat /\ seen'[k] <= chain
    BY <1>1, <1>2, <1>4 DEF KeyInv
  <2>5. ASSUME ~torn[k]
        PROVE  /\ Revalidations(k)' = {} /\ Misses(k)' = {} /\ seen[k] <= seen'[k] /\ seen'[k] <= v
    <3>1. CASE fetch[s].by = "getSwr"
      <4>1. Misses(k) = {s} /\ Revalidations(k) = {} /\ seen[k] <= fetch[s].from
        BY <1>0, <1>1, <2>5, <3>1 DEF KeyInv
      <4>2. seen'[k] = v
        BY <1>1, <1>4, <2>5, <3>1
      <4> QED
        BY <1>1, <1>2, <1>6, <4>1, <4>2
    <3>2. CASE fetch[s].by = "revalidate"
      <4>1. /\ Revalidations(k) = {s} /\ items[k].isRevalidating /\ Misses(k) = {}
            /\ items[k].version <= fetch[s].from
        BY <1>0, <1>1, <2>5, <3>2 DEF KeyInv
      <4>2. items[k].cached /\ seen[k] <= items[k].version
        BY <1>1, <2>5, <4>1 DEF KeyInv, NoItem
      <4>3. seen'[k] = seen[k]
        BY <1>1, <1>4, <2>5, <3>2
      <4> QED
        BY <1>1, <1>2, <1>6, <4>1, <4>2, <4>3
    <3> QED
      BY <1>1, <3>1, <3>2
  <2>6. ASSUME torn[k], ~torn'[k]
        PROVE  Revalidations(k)' = {} /\ Misses(k)' = {} /\ seen'[k] = 0
    BY <1>1, <1>4, <2>6 DEF Running
  <2>7. KeyInv(k)'
    <3>1. ~torn'[k] => Revalidations(k)' = {} /\ Misses(k)' = {} /\ seen'[k] <= v
      BY <1>2, <2>5, <2>6
    <3>2. ~torn'[k] /\ items'[k].cached => seen'[k] <= items'[k].version
      BY <2>1, <3>1
    <3> QED
      BY <1>0, <2>1, <2>2, <2>3, <2>4, <3>1, <3>2 DEF KeyInv
  <2>8. NotBack(k)
    BY <1>1, <2>4, <2>5 DEF NotBack
  <2> QED
    BY <2>7, <2>8 DEF KeyKept
<1> QED
  BY <1>5, <1>6, <1>7, <1>8, <1>9 DEF CacheKept

\* A fetch fails: a miss is forgotten, a revalidation clears the flag of the
\* item that the key has by now.
LEMMA FailStep ==
    ASSUME CacheIInv, NEW s \in Slot, MissFails(s) \/ RevalFails(s)
    PROVE  CacheKept
<1>a. fetch[s] # NoFetch
  BY DEF MissFails, RevalFails
<1>b. PICK k \in Key : k = fetch[s].key
  BY <1>a, RunningFetch
<1>0. /\ fetch' = [fetch EXCEPT ![s] = NoFetch]
      /\ chain' = chain /\ order' = order /\ Remember({}, Nothing)
      /\ inflight' = IF fetch[s].by = "getSwr" THEN [inflight EXCEPT ![k] = 0] ELSE inflight
      /\ items' = IF fetch[s].by = "getSwr" THEN items
                  ELSE [items EXCEPT ![k].isRevalidating = FALSE]
      /\ TableOK /\ FetchOK /\ NumbersOK
  BY <1>b DEF MissFails, RevalFails, CacheIInv
<1>1. /\ KeyInv(k)
      /\ fetch[s].by = "getSwr" => s \in Misses(k)
      /\ fetch[s].by = "revalidate" => s \in Revalidations(k)
      /\ seen[k] \in Nat /\ chain \in Nat /\ items[k].version \in Nat
      /\ fetch[s].by \in {"getSwr", "revalidate"}
  BY <1>a, <1>b, RunningFetch
<1>2. /\ torn' \in [Key -> BOOLEAN]
      /\ seen' \in [Key -> Version]
      /\ \A j \in Key :
            /\ torn'[j] <=> torn[j] /\ Running(j)' # {}
            /\ seen'[j] = IF torn[j] /\ ~torn'[j] THEN 0 ELSE seen[j]
  <2>1. DOMAIN Nothing = {}
    BY DEF Nothing
  <2> QED
    BY <1>0, <2>1, Remembers
<1>3. /\ FetchOK'
      /\ \A t \in Slot \ {s} : fetch'[t] = fetch[t]
      /\ \A j \in Key : Misses(j)' = Misses(j) \ {s}
      /\ \A j \in Key : Revalidations(j)' = Revalidations(j) \ {s}
  BY <1>0, FetchEnds
<1>4. /\ items' \in [Key -> Item]
      /\ \A j \in Key \ {k} : items'[j] = items[j] /\ inflight'[j] = inflight[j]
      /\ \A j \in Key : items'[j].cached = items[j].cached
      /\ items'[k].version = items[k].version
      /\ fetch[s].by = "revalidate" => ~items'[k].isRevalidating
      /\ fetch[s].by = "getSwr" => items'[k] = items[k]
  BY <1>0 DEF TableOK, NumbersOK, Item
<1>5. TableOK' /\ NumbersOK'
  BY <1>0, <1>2, <1>4 DEF TableOK, NumbersOK
<1>6. ASSUME NEW j \in Key, j # k PROVE KeyKept(j)
  <2>1. /\ Misses(j)' = Misses(j) /\ Revalidations(j)' = Revalidations(j)
        /\ \A t \in Running(j) : fetch'[t] = fetch[t]
    BY <1>a, <1>b, <1>0, <1>6, EndLeavesOthers
  <2> QED
    BY <1>0, <1>2, <1>4, <1>5, <1>6, <2>1, OtherKey
<1>7. KeyKept(k)
  <2>1. items'[k].isRevalidating => items'[k].cached
    BY <1>1, <1>4 DEF KeyInv
  <2>2. Misses(k)' = {inflight'[k]} \ {0}
    <3>1. CASE fetch[s].by = "getSwr"
      <4>1. Misses(k) = {s} /\ inflight'[k] = 0
        BY <1>0, <1>1, <3>1 DEF NumbersOK, KeyInv
      <4> QED
        BY <1>3, <4>1
    <3>2. CASE fetch[s].by = "revalidate"
      <4>1. s \notin Misses(k) /\ inflight'[k] = inflight[k]
        BY <1>0, <3>2 DEF Misses, Fetches
      <4> QED
        BY <1>1, <1>3, <4>1 DEF KeyInv
    <3> QED
      BY <1>1, <3>1, <3>2
  <2>3. \A t \in Running(k)' : /\ t \in Running(k) /\ fetch'[t] = fetch[t]
                               /\ fetch[t].from <= chain /\ fetch[t].from \in Nat
    <3>1. \A t \in Running(k)' : t \in Running(k) /\ t # s
      BY <1>3 DEF Running
    <3>2. \A t \in Running(k) : /\ t \in Slot /\ fetch[t].from <= chain
                                /\ fetch[t].from \in Nat
      BY <1>0, <1>1, RunningFrom, CacheSizes DEF KeyInv, Version
    <3> QED
      BY <1>3, <3>1, <3>2
  <2>4. items'[k].isRevalidating => Revalidations(k)' # {}
    <3>1. fetch[s].by = "getSwr" => s \notin Revalidations(k)
      BY DEF Revalidations, Fetches
    <3> QED
      BY <1>1, <1>3, <1>4, <3>1 DEF KeyInv
  <2>5. ASSUME ~torn[k]
        PROVE  /\ seen'[k] = seen[k]
               /\ items'[k].cached => seen'[k] <= items'[k].version
               /\ \A t \in Revalidations(k)' : FALSE
               /\ \A t \in Misses(k)' : FALSE
    <3>1. seen'[k] = seen[k] /\ ~torn'[k]
      BY <1>2, <2>5
    <3>2. items'[k].cached => seen'[k] <= items'[k].version
      BY <1>1, <1>4, <2>5, <3>1 DEF KeyInv
    <3>3. CASE fetch[s].by = "getSwr"
      BY <1>0, <1>1, <1>3, <2>5, <3>1, <3>2, <3>3 DEF KeyInv, NumbersOK
    <3>4. CASE fetch[s].by = "revalidate"
      BY <1>0, <1>1, <1>3, <2>5, <3>1, <3>2, <3>4 DEF KeyInv
    <3> QED
      BY <1>1, <3>3, <3>4
  <2>6. ASSUME torn[k], ~torn'[k]
        PROVE  /\ Revalidations(k)' = {} /\ Misses(k)' = {}
               /\ seen'[k] <= items'[k].version
    BY <1>1, <1>2, <1>4, <2>6 DEF Running
  <2>7. /\ items'[k].version <= chain
        /\ seen'[k] \in Nat /\ seen'[k] <= chain
    BY <1>1, <1>2, <1>4 DEF KeyInv
  <2>8. KeyInv(k)'
    BY <1>0, <2>1, <2>2, <2>3, <2>4, <2>5, <2>6, <2>7 DEF KeyInv
  <2>9. NotBack(k)
    BY <1>1, <2>5 DEF NotBack
  <2> QED
    BY <2>8, <2>9 DEF KeyKept
<1> QED
  BY <1>3, <1>5, <1>6, <1>7 DEF CacheKept

\* invalidate and clear take items out of the table; fetches go on.
LEMMA RemovalStep ==
    ASSUME CacheIInv, clear \/ \E k \in Key : invalidate(k)
    PROVE  CacheKept
<1>0. /\ UNCHANGED <<inflight, fetch, chain>> /\ Remember(Gone, Nothing)
      /\ TableOK /\ FetchOK /\ NumbersOK
  BY DEF clear, invalidate, CacheIInv
<1>1. /\ TableOK'
      /\ \A j \in Key : items'[j] = items[j] \/ items'[j] = NoItem
  <2>0. NoItem \in Item /\ ~NoItem.cached
    BY CacheSizes DEF NoItem, Item, Version
  <2>1. CASE clear
    <3>1. order' = <<>> /\ \A j \in Key : items'[j] = NoItem
      BY <2>1 DEF clear
    <3>2. Members(<<>>) = {} /\ ~HasDuplicates(<<>>)
      BY DEF Members, HasDuplicates
    <3>3. items' \in [Key -> Item]
      BY <2>0, <2>1 DEF clear
    <3> QED
      BY <2>0, <3>1, <3>2, <3>3, CacheSizes DEF TableOK
  <2>2. ASSUME NEW k \in Key, invalidate(k)
        PROVE  TableOK' /\ \A j \in Key : items'[j] = items[j] \/ items'[j] = NoItem
    <3>1. order' = Without(order, k) /\ items' = [items EXCEPT ![k] = NoItem]
      BY <2>2 DEF invalidate
    <3>2. /\ order' \in Seq(Key) /\ ~HasDuplicates(order')
          /\ Members(order') = Members(order) \ {k}
          /\ Len(order') <= Len(order)
      <4>1. order \in Seq(Key) /\ ~HasDuplicates(order) /\ Len(order) \in Nat
        BY <1>0 DEF TableOK
      <4> QED
        BY <3>1, <4>1, WithoutOne
    <3>3. Len(order) \in Nat /\ Len(order') \in Nat
      BY <1>0, <3>2 DEF TableOK
    <3>4. items' \in [Key -> Item] /\ items'[k] = NoItem /\ \A j \in Key \ {k} : items'[j] = items[j]
      BY <1>0, <2>0, <3>1 DEF TableOK
    <3> QED
      BY <1>0, <2>0, <3>2, <3>3, <3>4, CacheSizes DEF TableOK
  <2> QED
    BY <2>1, <2>2
<1>2. /\ torn' \in [Key -> BOOLEAN]
      /\ seen' \in [Key -> Version]
      /\ \A j \in Key :
            /\ torn'[j] <=> IF torn[j] THEN Running(j)' # {}
                            ELSE j \in Gone /\ Revalidations(j)' # {}
            /\ seen'[j] = IF torn[j] /\ ~torn'[j] THEN 0 ELSE seen[j]
  <2>1. DOMAIN Nothing = {}
    BY DEF Nothing
  <2> QED
    BY <1>0, <2>1, Remembers
<1>3. FetchOK' /\ NumbersOK'
  BY <1>0, <1>2 DEF FetchOK, NumbersOK
<1>4. ASSUME NEW j \in Key PROVE KeyKept(j)
  <2>1. /\ Misses(j)' = Misses(j) /\ Revalidations(j)' = Revalidations(j)
        /\ \A t \in Running(j) : fetch'[t] = fetch[t]
        /\ inflight'[j] = inflight[j]
    BY <1>0 DEF Misses, Revalidations
  <2>2. j \in Gone <=> items[j].cached /\ ~items'[j].cached
    BY DEF Gone
  <2>3. items' \in [Key -> Item]
    BY <1>1 DEF TableOK
  <2>4. torn'[j] <=> IF torn[j] THEN Running(j)' # {}
                     ELSE items[j].cached /\ ~items'[j].cached /\ Revalidations(j)' # {}
    BY <1>2, <2>2
  <2> QED
    BY <1>0, <1>1, <1>2, <1>3, <2>1, <2>3, <2>4, OtherKey
<1> QED
  BY <1>1, <1>3, <1>4 DEF CacheKept

\* Time and the chain move on.
LEMMA CacheEnvironmentStep ==
    ASSUME CacheIInv, ChainMoves \/ (\E k \in Key : Ages(k)) \/ UNCHANGED cacheVars
    PROVE  CacheKept
<1>0. /\ UNCHANGED <<order, inflight, fetch, seen, torn>>
      /\ TableOK /\ FetchOK /\ NumbersOK
  BY DEF ChainMoves, Ages, cacheVars, CacheIInv
<1>1. /\ items' \in [Key -> Item]
      /\ \A k \in Key : /\ items'[k].cached = items[k].cached
                        /\ items'[k].version = items[k].version
                        /\ items'[k].isRevalidating = items[k].isRevalidating
  <2>1. CASE items' = items
    BY <1>0, <2>1 DEF TableOK
  <2>2. ASSUME NEW k \in Key, items' = [items EXCEPT ![k].old = TRUE]
        PROVE  /\ items' \in [Key -> Item]
               /\ \A j \in Key : /\ items'[j].cached = items[j].cached
                                 /\ items'[j].version = items[j].version
                                 /\ items'[j].isRevalidating = items[j].isRevalidating
    BY <1>0, <2>2 DEF TableOK, Item
  <2> QED
    BY <2>1, <2>2 DEF ChainMoves, Ages, cacheVars
<1>2. chain \in Nat /\ chain' \in Version /\ chain <= chain'
  BY <1>0, CacheSizes DEF ChainMoves, Ages, cacheVars, NumbersOK, Version
<1>3. TableOK' /\ FetchOK' /\ NumbersOK'
  BY <1>0, <1>1, <1>2 DEF TableOK, FetchOK, NumbersOK
<1>4. ASSUME NEW k \in Key PROVE KeyKept(k)
  <2>1. /\ Misses(k)' = Misses(k) /\ Revalidations(k)' = Revalidations(k)
        /\ Running(k)' = Running(k)
    BY <1>0 DEF Misses, Revalidations, Running
  <2>2. \A s \in Running(k) : fetch[s].from \in Nat
    BY <1>0, RunningFrom, CacheSizes DEF Version
  <2>3. seen[k] \in Nat /\ items[k].version \in Nat /\ chain' \in Nat /\ KeyInv(k)
    BY <1>0, <1>2, CacheSizes DEF NumbersOK, TableOK, Item, Version, CacheIInv
  <2> QED
    BY <1>0, <1>1, <1>2, <2>1, <2>2, <2>3 DEF KeyKept, KeyInv, NotBack
<1> QED
  BY <1>3, <1>4 DEF CacheKept

LEMMA CacheStep ==
    ASSUME CacheIInv, [CacheNext]_cacheVars
    PROVE  CacheIInv' /\ \A k \in Key : NotBack(k)
<1>1. CacheKept
  <2>1. ASSUME NEW k \in Key, Join(k) PROVE UNCHANGED cacheVars
    BY <2>1 DEF Join
  <2> QED
    BY <2>1, HitStep, MissStep, SettleStep, FailStep, RemovalStep, CacheEnvironmentStep
    DEF CacheNext
<1> QED
  BY <1>1 DEF CacheKept, KeyKept, CacheIInv

LEMMA CacheStart == CacheInit => CacheIInv
<1> SUFFICES ASSUME CacheInit PROVE CacheIInv
  OBVIOUS
<1>1. NoItem \in Item /\ ~NoItem.cached /\ ~NoItem.isRevalidating /\ NoItem.version = 0
  BY CacheSizes DEF NoItem, Item, Version
<1>2. Members(<<>>) = {} /\ ~HasDuplicates(<<>>)
  BY DEF Members, HasDuplicates
<1>3. TableOK
  BY <1>1, <1>2, CacheSizes DEF CacheInit, TableOK
<1>4. FetchOK /\ NumbersOK
  BY CacheSizes DEF CacheInit, FetchOK, NumbersOK, Version
<1>5. ASSUME NEW k \in Key PROVE KeyInv(k)
  <2>1. Misses(k) = {} /\ Revalidations(k) = {}
    BY DEF CacheInit, Misses, Revalidations, Fetches
  <2>2. items[k] = NoItem /\ inflight[k] = 0 /\ seen[k] = 0 /\ chain = 0
    BY DEF CacheInit
  <2> QED
    BY <1>1, <2>1, <2>2 DEF KeyInv, Running
<1> QED
  BY <1>3, <1>4, <1>5 DEF CacheIInv

\* The bookkeeping of the cache, for any keys, any bound of the table and any
\* number of overlapping fetches: the table never outgrows its bound, callers
\* that miss together share one fetch, and a flag always has its revalidation.
THEOREM CacheAccountsForFetches == CacheSpec => []FetchesAreAccountedFor
<1>1. CacheIInv => FetchesAreAccountedFor
  <2> SUFFICES ASSUME CacheIInv PROVE FetchesAreAccountedFor
    OBVIOUS
  <2>1. CacheTypeOK
    BY DEF CacheIInv, TableOK, FetchOK, NumbersOK, CacheTypeOK
  <2>2. OneFetchPerMiss /\ FlagMeansRevalidating
    BY DEF CacheIInv, KeyInv, OneFetchPerMiss, FlagMeansRevalidating
  <2> QED
    BY <2>1, <2>2 DEF FetchesAreAccountedFor
<1>2. CacheIInv /\ [CacheNext]_cacheVars => CacheIInv'
  BY CacheStep
<1> QED
  BY <1>1, <1>2, CacheStart, PTL DEF CacheSpec

\* getSwr never takes a caller back behind what it has returned before, for any
\* history of evictions, invalidations, failures and refetches, as long as the
\* item did not go while its revalidation was running.
THEOREM CacheReadsGoForward == CacheSpec => ReadsDoNotGoBack
<1>1. CacheIInv /\ [CacheNext]_cacheVars
        => CacheIInv' /\ [\A k \in Key : ~torn[k] /\ ~torn'[k] => seen'[k] >= seen[k]]_cacheVars
  BY CacheStep DEF NotBack
<1> QED
  BY <1>1, CacheStart, PTL DEF CacheSpec, ReadsDoNotGoBack

=============================================================================
