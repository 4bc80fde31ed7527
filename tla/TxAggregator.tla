---------------------------- MODULE TxAggregator ----------------------------
(***************************************************************************)
(* Building and executing transactions of one account in engine-bridge     *)
(* (tx-aggregator.ts) on the nonce manager, the base-fee cache of the gas  *)
(* oracle (gas-oracle.ts) and the RPC client.  An action is a synchronous  *)
(* stretch between two awaits.  Of a base fee only its age is kept; what   *)
(* is computed from it is in the operators of the last part.               *)
(***************************************************************************)
EXTENDS NonceManager

CONSTANTS
    Ttl,            \* the cacheTtlMs that callers ask for, in ticks
    Timeout         \* timeoutMs of execute, in ticks

ASSUME TxAssumption ==
    /\ Ttl \subseteq Nat \ {0} /\ IsFiniteSet(Ttl) /\ Ttl # {}
    /\ Timeout \in Nat

VARIABLES
    fee,    \* baseFeeCache: ticks to its expiry and ticks since it was read
    job,    \* where each caller stands, and how long ago it started to wait
    ledger, \* the network: whose transaction, of those executed now, is in one
    company \* history: whose build, the last it began, another one overlapped

txVars == <<fee, job, ledger, company>>
allVars == <<vars, txVars>>

LongestTtl == CHOOSE t \in Ttl : \A u \in Ttl : u <= t
Stage == {"idle", "building", "fetching", "signed", "sending", "polling", "sleeping", "thrown"}
Building == {"building", "fetching"}
Executing == {"sending", "polling", "sleeping"}

\* How long it matters how long a caller has waited.
MaxClock(stage) ==
    IF stage = "fetching" THEN LongestTtl ELSE IF stage \in Executing THEN Timeout + 1 ELSE 0

TxInit ==
    /\ Init
    /\ fee = [left |-> 0, age |-> 0]
    /\ job = [c \in Caller |-> [stage |-> "idle", clock |-> 0]]
    /\ ledger = {}
    /\ company = {}

Goes(c, stage) == job' = [job EXCEPT ![c] = [stage |-> stage, clock |-> 0]]
Stays(c, stage) == job' = [job EXCEPT ![c].stage = stage]

-----------------------------------------------------------------------------
(* build *)

\* Up to the await of reserve.  Without signers build throws before that.
Builds(c) ==
    LET others == {d \in Caller : job[d].stage \in Building} IN
    /\ job[c].stage = "idle"
    /\ Goes(c, "building")
    /\ EnterReserve(c) \/ ParkReserve(c)
    /\ company' = IF others = {} THEN company \ {c} ELSE company \cup others \cup {c}
    /\ UNCHANGED <<fee, ledger>>

\* reserve goes on; an error of it leaves build, which has nothing to release.
Reserves(c) ==
    /\ job[c].stage = "building"
    /\ \/ (EnterReserve(c) \/ RpcReturns(c) \/ Commit(c)) /\ UNCHANGED job
       \/ RpcFails(c) /\ Goes(c, "idle")
    /\ UNCHANGED <<fee, ledger, company>>

Signs(c) ==
    /\ Goes(c, "signed")
    /\ UNCHANGED vars

\* The catch of build: no operations, no base fee, or a signature that fails.
Releases(c) ==
    /\ Release(c)
    /\ Goes(c, "idle")

\* After reserve: a cached base fee is used whatever TTL this caller asks for.
Plans(c) ==
    /\ job[c].stage = "building" /\ pc[c] = "owned"
    /\ \/ Releases(c)
       \/ fee.left > 0 /\ Signs(c)
       \/ fee.left = 0 /\ Goes(c, "fetching") /\ UNCHANGED vars
    /\ UNCHANGED <<fee, ledger, company>>

\* Wrong on purpose: the TTL runs from the answer.
Caches_FromAnswer(c, ttl, age) ==
    fee' = [left |-> ttl, age |-> age]

\* expiresAt counts from `now`, read before the request was sent.
Caches(c, ttl, age) ==
    fee' = [left |-> IF ttl > job[c].clock THEN ttl - job[c].clock ELSE 0, age |-> age]

\* The base fee arrives, read on the network some time since the request; it
\* replaces what another fetch has stored meanwhile.
FeeArrives(c) ==
    /\ job[c].stage = "fetching"
    /\ \E ttl \in Ttl, age \in 0..job[c].clock : Caches(c, ttl, age)
    /\ Signs(c) \/ Releases(c)
    /\ UNCHANGED <<ledger, company>>

FeeFails(c) ==
    /\ job[c].stage = "fetching"
    /\ Releases(c)
    /\ UNCHANGED <<fee, ledger, company>>

-----------------------------------------------------------------------------
(* execute *)

Sends(c) ==
    /\ job[c].stage = "signed"
    /\ Goes(c, "sending")
    /\ UNCHANGED <<vars, fee, ledger, company>>

\* Wrong on purpose: execute gives its sequence back.
Throws_Releases(c) ==
    /\ Releases(c)
    /\ ledger' = ledger \ {c}
    /\ UNCHANGED <<fee, company>>

\* execute throws.  It releases nothing and forgets nothing: what is left of
\* the sequence is the caller's affair.  A transaction that a node still holds
\* may take effect all the same, a foreign one from here on (Manual).
Throws(c) ==
    /\ Goes(c, "thrown")
    /\ ledger' = ledger \ {c}
    /\ UNCHANGED <<vars, fee, company>>

\* Wrong on purpose: the loop does not look at the clock.
Loops_Forever(c) ==
    /\ Stays(c, "polling") /\ UNCHANGED <<vars, fee, ledger, company>>

\* The head of the polling loop.
Loops(c) ==
    \/ job[c].clock > Timeout /\ Throws(c)
    \/ job[c].clock <= Timeout /\ Stays(c, "polling") /\ UNCHANGED <<vars, fee, ledger, company>>

\* sendTransaction is over: PENDING or DUPLICATE for a transaction a node has
\* taken, TRY_AGAIN_LATER for one it has not, which is polled for all the same;
\* status ERROR; or rpc.call gave up, and nobody knows.
SendSettles(c) ==
    /\ job[c].stage = "sending"
    /\ Loops(c) \/ Throws(c)

\* getTransaction is over: SUCCESS once the transaction is in a ledger, or
\* FAILED, which throws; NOT_FOUND before, or after from a node that lags; or
\* an error.
PollSettles(c) ==
    /\ job[c].stage = "polling"
    /\ \/ c \in ledger /\ ledger' = ledger \ {c} /\ Goes(c, "idle") /\ Done(c)
             /\ UNCHANGED <<fee, company>>
       \/ Stays(c, "sleeping") /\ UNCHANGED <<vars, fee, ledger, company>>
       \/ Throws(c)

Wakes(c) ==
    /\ job[c].stage = "sleeping"
    /\ Loops(c)

-----------------------------------------------------------------------------
(* The callers and the operator *)

\* nonce-manager.ts:22: "The caller MUST call release on submission failure";
\* it does so when execute has thrown, for whatever reason, or when it does not
\* submit what it has built.
GivesBack(c) ==
    /\ job[c].stage \in {"signed", "thrown"}
    /\ Releases(c)
    /\ UNCHANGED <<fee, ledger, company>>

\* A caller whose sequence was used up knows better than to release it.
Leaves(c) ==
    /\ job[c].stage = "thrown"
    /\ Done(c)
    /\ Goes(c, "idle")
    /\ UNCHANGED <<fee, ledger, company>>

\* SECURITY.md:174 has the operator call refresh when nonces are out of step.
Refreshes(c) ==
    /\ job[c].stage = "idle"
    /\ \/ ParkRefresh(c) \/ EnterRefresh(c)
       \/ pc[c] \in Refreshing /\ (RpcReturns(c) \/ RpcFails(c))
    /\ UNCHANGED txVars

-----------------------------------------------------------------------------
(* The network and the time *)

\* The ledger closes with a transaction that a node has taken, whatever it has
\* answered, with its effect or as failed.
InLedger(c) ==
    /\ job[c].stage \in Executing
    /\ Applied(c)
    /\ ledger' = ledger \cup {c}
    /\ UNCHANGED <<fee, job, company>>

Tick ==
    /\ fee' = [left |-> IF fee.left > 0 THEN fee.left - 1 ELSE 0,
               age |-> IF fee.left > 1 THEN fee.age + 1 ELSE 0]
    /\ job' = [c \in Caller |-> IF job[c].clock < MaxClock(job[c].stage)
                                THEN [job[c] EXCEPT !.clock = @ + 1] ELSE job[c]]
    /\ UNCHANGED <<vars, ledger, company>>

TxNext ==
    \/ \E c \in Caller : Builds(c) \/ Reserves(c) \/ Plans(c) \/ FeeArrives(c) \/ FeeFails(c)
    \/ \E c \in Caller : Sends(c) \/ SendSettles(c) \/ PollSettles(c) \/ Wakes(c)
    \/ \E c \in Caller : GivesBack(c) \/ Leaves(c) \/ Refreshes(c)
    \/ \E c \in Caller : InLedger(c)
    \/ Manual /\ UNCHANGED txVars
    \/ Tick

TxSpec == TxInit /\ [][TxNext]_allVars

\* Continuations run, requests are settled and time passes.  Waiters for the
\* nonce manager's lock are not passed over for ever (NonceManager).
TxFairSpec ==
    /\ TxSpec
    /\ WF_allVars(Tick)
    /\ \A c \in Caller :
          /\ SF_allVars(Reserves(c))
          /\ SF_allVars(pc[c] \in Refreshing /\ Refreshes(c))
          /\ WF_allVars(SendSettles(c) \/ PollSettles(c) \/ Wakes(c))

-----------------------------------------------------------------------------
(* What is computed from a base fee, in stroops; the multiplier is a number *)
(* of tenths.                                                               *)

CeilDiv(a, b) == (a + b - 1) \div b

\* GasOracle.estimateFee, the maxFee that resolveFeePlan returns.
estimateFee(base, tenths, safety) == CeilDiv(base * tenths + 10 * safety, 10)

perOperationMaxFee(base, tenths) == CeilDiv(base * tenths, 10)
totalMaxFee(n, base, tenths, safety) == perOperationMaxFee(base, tenths) * n + safety
unbatchedTotalMaxFee(n, base, tenths, safety) ==
    (perOperationMaxFee(base, tenths) + safety) * n

\* The fee of the signed envelope: the builder takes a fee per operation and
\* charges it for each.
EnvelopeFee(n, base, tenths, safety) ==
    n * CeilDiv(totalMaxFee(n, base, tenths, safety), n)

-----------------------------------------------------------------------------
(* Properties *)

\* A step that makes sequences unsure, or puts one in danger of being lost.
Disturbs == (unsure' \ unsure # {}) \/ (intact /\ ~intact')

\* What the aggregator does to the manager: a build that no other build overlaps
\* leaves the sequences of all others alone however it fails, and execute does
\* so always, also one that times out or fails in the middle of other builds.
\* What makes collisions and losses possible is a build that fails while others
\* are under way, a caller that gives back what was built, and a refresh.
KeepsNonceDiscipline ==
    [][Disturbs =>
          \E c \in Caller :
             \/ job[c].stage \in Building /\ job'[c].stage = "idle" /\ c \in company
             \/ job[c].stage \in {"signed", "thrown"} /\ job'[c].stage = "idle"
             \/ pc[c] # "rpc_refresh" /\ pc'[c] = "rpc_refresh"]_allVars

\* A base fee is not used from the cache when it was read LongestTtl ago or
\* more: the time a fetch takes counts, also with fetches that overlap and
\* end in the other order.
FeeIsFresh == fee.left > 0 => fee.age + fee.left <= LongestTtl

\* The envelope pays for the plan and never costs more than the operations
\* would one by one, and a batch of one is priced as the oracle prices it.
FeesAddUp ==
    \A n \in 1..4, base \in {1, 7, 100}, tenths \in {10, 12, 25}, safety \in {0, 1, 5} :
        /\ EnvelopeFee(n, base, tenths, safety) >= totalMaxFee(n, base, tenths, safety)
        /\ EnvelopeFee(n, base, tenths, safety) <= unbatchedTotalMaxFee(n, base, tenths, safety)
        /\ EnvelopeFee(1, base, tenths, safety) = estimateFee(base, tenths, safety)

\* What a caller pays is computed from a base fee that still holds, and adds up.
FeesAreRight == FeeIsFresh /\ FeesAddUp

\* execute ends, with a result or an error, also for a transaction that no
\* node has taken and for one whose sequence is used up.
ExecuteSettles ==
    \A c \in Caller : job[c].stage \in Executing ~> job[c].stage \in {"idle", "thrown"}

\* nonce-manager.ts, header: it "auto-refreshes on network desync, and releases
\* sequences back to the pool if the outer operation fails".
DesyncIsNoticed == (cache # 0 /\ cache <= net) ~> (cache = 0 \/ cache > net)

=============================================================================
