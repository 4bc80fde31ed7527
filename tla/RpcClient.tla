------------------------------ MODULE RpcClient ------------------------------
(***************************************************************************)
(* Failover of the RPC client of engine-bridge (rpc-client.ts).  An action *)
(* is one synchronous stretch of call(): from its start, or from the error *)
(* of a request, to the next request or to the end.  Time is counted in    *)
(* ticks of which QUARANTINE_MS has Quarantine.                            *)
(***************************************************************************)
EXTENDS Naturals, FiniteSets

CONSTANTS
    N,              \* number of endpoints
    Call,           \* calls that may be under way at the same time
    MAX_RETRIES,
    Quarantine

ASSUME RpcAssumption ==
    /\ N \in Nat \ {0}
    /\ MAX_RETRIES \in Nat \ {0}
    /\ Quarantine \in Nat \ {0}

VARIABLES
    cursor,
    rest,       \* deadUntil: the ticks an endpoint is still in quarantine
    call,       \* where each call stands
    up,         \* environment: which nodes work
    passed      \* history: picks of others since an endpoint was last picked
                \* or last in quarantine

rpcVars == <<cursor, rest, call, up, passed>>

Endpoint == 0..(N - 1)
Status == {"none", "pending", "ok", "error"}

\* `at` is the endpoint that is asked, `bad` says that the request itself is
\* refused by every node (a wrong argument, a contract that traps).  `since` is
\* history: the ticks since the call's first request failed, up to Quarantine.
CallState == [status : Status, at : Endpoint, attempt : 0..(MAX_RETRIES - 1),
              bad : BOOLEAN, since : 0..Quarantine]
Idle(how) == [status |-> how, at |-> 0, attempt |-> 0, bad |-> FALSE, since |-> 0]

RpcTypeOK ==
    /\ cursor \in Endpoint
    /\ rest \in [Endpoint -> 0..Quarantine]
    /\ call \in [Call -> CallState]
    /\ up \in [Endpoint -> BOOLEAN]
    /\ passed \in [Endpoint -> Nat]

RpcInit ==
    /\ cursor = 0
    /\ rest = [e \in Endpoint |-> 0]
    /\ call = [c \in Call |-> Idle("none")]
    /\ up \in [Endpoint -> BOOLEAN]
    /\ passed = [e \in Endpoint |-> 0]

-----------------------------------------------------------------------------

Live(r) == {e \in Endpoint : r[e] = 0}
liveCount == Cardinality(Live(rest))

\* The i at which pickEndpoint's loop looks at an endpoint: the way to it from
\* the cursor, round the list.
Ahead(e) == IF e >= cursor THEN e - cursor ELSE e + N - cursor

After(e) == IF e = N - 1 THEN 0 ELSE e + 1

\* Wrong on purpose: the cursor stays on the endpoint it found.
Picks_CursorStays(e, r) ==
    /\ e \in Live(r)
    /\ \A f \in Live(r) : Ahead(e) <= Ahead(f)
    /\ cursor' = e
    /\ passed' = [f \in Endpoint |-> IF f = e \/ r[f] > 0 THEN 0 ELSE passed[f] + 1]

\* pickEndpoint finds e: the first live endpoint from the cursor on.
Picks(e, r) ==
    /\ e \in Live(r)
    /\ \A f \in Live(r) : Ahead(e) <= Ahead(f)
    /\ cursor' = After(e)
    /\ passed' = [f \in Endpoint |-> IF f = e \/ r[f] > 0 THEN 0 ELSE passed[f] + 1]

Ends(c, how) == call' = [call EXCEPT ![c] = Idle(how)]

\* One turn of the loop of call(), the endpoints resting as r: a request to the
\* next live endpoint, or "all endpoints unavailable".
Attempts(c, n, isBad, r) ==
    \/ \E e \in Endpoint :
          /\ Picks(e, r)
          /\ call' = [call EXCEPT ![c] = [status |-> "pending", at |-> e, attempt |-> n,
                                          bad |-> isBad, since |-> call[c].since]]
    \/ /\ Live(r) = {}
       /\ Ends(c, "error")
       /\ passed' = [f \in Endpoint |-> IF r[f] > 0 THEN 0 ELSE passed[f]]
       /\ UNCHANGED cursor

Starts(c, isBad) ==
    /\ call[c].status # "pending"
    /\ Attempts(c, 0, isBad, rest)
    /\ UNCHANGED <<rest, up>>

Answered(c) ==
    /\ call[c].status = "pending"
    /\ up[call[c].at] /\ ~call[c].bad
    /\ Ends(c, "ok")
    /\ UNCHANGED <<cursor, rest, up, passed>>

\* Wrong on purpose: the endpoint that failed is not put aside.
Refused_NoQuarantine(c) ==
    /\ call[c].status = "pending"
    /\ ~up[call[c].at] \/ call[c].bad
    /\ UNCHANGED rest
    /\ IF call[c].attempt + 1 < MAX_RETRIES
       THEN Attempts(c, call[c].attempt + 1, call[c].bad, rest)
       ELSE /\ Ends(c, "error")
            /\ UNCHANGED <<cursor, passed>>
    /\ UNCHANGED up

\* A request fails, whatever the reason: the endpoint is put in quarantine,
\* also when it is already there, and the loop goes on or throws lastError.
Refused(c) ==
    /\ call[c].status = "pending"
    /\ ~up[call[c].at] \/ call[c].bad
    /\ rest' = [rest EXCEPT ![call[c].at] = Quarantine]
    /\ IF call[c].attempt + 1 < MAX_RETRIES
       THEN Attempts(c, call[c].attempt + 1, call[c].bad, rest')
       ELSE /\ Ends(c, "error")
            /\ passed' = [passed EXCEPT ![call[c].at] = 0]
            /\ UNCHANGED cursor
    /\ UNCHANGED up

-----------------------------------------------------------------------------
(* The environment *)

\* Time passes.  call() sets no timeout: a request may outlast the quarantine of
\* the endpoints tried before it, or of its own, put there by another call.
Tick ==
    /\ rest' = [e \in Endpoint |-> IF rest[e] > 0 THEN rest[e] - 1 ELSE 0]
    /\ call' = [c \in Call |->
                  IF call[c].attempt > 0 /\ call[c].since < Quarantine
                  THEN [call[c] EXCEPT !.since = @ + 1] ELSE call[c]]
    /\ UNCHANGED <<cursor, up, passed>>

NodeChanges(e) ==
    /\ up' = [up EXCEPT ![e] = ~@]
    /\ UNCHANGED <<cursor, rest, call, passed>>

RpcNext ==
    \/ \E c \in Call, isBad \in BOOLEAN : Starts(c, isBad)
    \/ \E c \in Call : Answered(c) \/ Refused(c)
    \/ Tick
    \/ \E e \in Endpoint : NodeChanges(e)

RpcSpec == RpcInit /\ [][RpcNext]_rpcVars

-----------------------------------------------------------------------------
(* Properties *)

\* Round-robin: between two requests to an endpoint that is not in quarantine
\* the others get fewer than N, however the calls overlap and whichever of the
\* others come and go.
EveryLiveEndpointGetsItsTurn ==
    \A e \in Endpoint : rest[e] = 0 => passed[e] < N

\* Failover: a call that fails leaves no endpoint live, or MAX_RETRIES of them
\* at rest, since it does not ask one it has put aside again; unless its own
\* retries took QUARANTINE_MS, which no timeout of the client prevents.
FailsOnlyWhenOthersRest ==
    [][\A c \in Call :
          call'[c].status = "error" /\ call[c].status # "error"
          => \/ Live(rest') = {}
             \/ Cardinality(Endpoint \ Live(rest')) >= MAX_RETRIES
             \/ call[c].since = Quarantine]_rpcVars

=============================================================================
