# Verification of vero-core-engine

TLA+ models, TLC runs and TLAPS proofs for the Soroban contract crate
`engine-core` (Rust), the off-chain service `engine-bridge` (TypeScript) and the
dashboard's stateful parts (React).  Every definition is written from the
source; `PROJECT.json` ("map") names the lines each one stands for.

## 1. The system

| Part | State | Operations | What makes it correct |
|---|---|---|---|
| Circuit breaker (`circuit_breaker.rs`) | open/closed, guardians | init, trip, reset, assert_closed | protected state stands still while it is open |
| Governance (`governance.rs`, `upgrade.rs`) | signers, threshold, stake gate, proposals | init, propose, approve, execute, upgrade | quorum of different signers, delay from the completing vote, one execution, code only by vote |
| Control plane and audit chain (`core/control_plane.rs`, `audit.rs`, `core/zk_hooks.rs`) | parameters, update counter, last sequence and hash, attestations | initialize, update_param, batch_update_param, register_proof, breaker wrappers | no replay, no lost update, every change anchored, counter right |
| Treasury (`treasury.rs`) | outflows, snapshot counter, temporary entries | init, schedule, execute, record_snapshot, audit_trail | full delay, one execution, trail without holes |
| Emergency recovery (`emergency_recovery.rs`) | admins, pending request, approvals | init, request, approve | paid once, by a quorum for that very request |
| Protocol fees (`protocol_fee.rs`) | rate, recipient | init, setters, deduct_fee | fee within its share |
| Event pipeline (`event-queue.ts`, `event-propagator.ts`, `main.ts`) | SQLite table, cursor, timers | poll, process, recover, stop/start, cleanup | no event lost behind the cursor, none handled twice at once, bounded retries, everything settles |
| Nonce manager (`nonce-manager.ts`) | cached sequence and lock per account | reserve, release, refresh | which uses may repeat or lose a sequence, and which cannot; calls return |
| Transaction aggregator, sender and gas oracle (`tx-aggregator.ts`, `tx-sender.ts`, `gas-oracle.ts`) | base-fee cache; a transaction between its awaits | build, plan, execute, fee estimates | it disturbs nobody else's sequence but where it says so, fees that still hold, execute ends |
| Chain state cache (`chain-state-cache.ts`) | LRU map, in-flight fetches | getSwr, revalidate, invalidate, clear | one fetch per miss, reads do not go back, staleness ends |
| RPC client (`rpc-client.ts`) | cursor, `deadUntil` per endpoint | call with retries, liveCount | every live endpoint gets its turn, a call fails only for want of endpoints or after a long wait |
| Heartbeat and alerts (`heartbeat-monitor.ts`, `alert-channel.ts`) | interval, last report | start, stop, pulse, post | outage and recovery are both reported |
| ZK state broadcast (`zk-state-syncer.ts`, `relayer-auth.ts`, `wallet-connector.ts`) | client table, challenges, verifications under way | connect, auth_submit, broadcast, ping, close | snapshots only to who may have them, a table that tells the truth, vanished clients leave |
| Dashboard (`useRpcNodes.ts`, `RpcSettings.tsx`, `rpcHealth.ts`, `useZodForm.ts`, `GuardianConfigForm.tsx`, `csv.ts`, `App.tsx`) | endpoint list, its copy in localStorage, probes, form, active tab | add, remove, activate, probeAll, edit, submit, reset, export | storage, probe round and success banner tell the truth; CSV reads back |
| Proxy, version, protocol state, roles | admin, state, version | init, upgrade, transition | not modelled, section 7 |
| Burn; event encoding; audit guard | none | | not modelled, section 7 |

How they interact.  All contract modules are linked into one contract: they
share one storage, the reentrancy lock and the breaker, and a Soroban
invocation is atomic (a panic rolls everything back).  So a contract action is a
whole invocation that returns, and its guard is the conjunction of the conditions on
the way.  Recovery and fees pay from the same token balance; fees read the
administrator that the control plane stores.  The bridge reads contract events
through the RPC client, queues them in SQLite and hands them to handlers; the
transaction aggregator takes sequence numbers from the nonce manager; readers of
chain state go through the cache; the heartbeat shares the RPC client with
everybody else.  The bridge and the dashboard are single threaded: an action is
one synchronous stretch between two awaits, callbacks or renderings, and
everything may happen in between.

What is hard here: votes, halts and executions in any order; commitments that
were derived from a head that has moved; poll and process loops that survive
`stop()`; crashes between `dequeue` and `markProcessed`; a cursor older than the
table; releases in the order of failures and not of reservations; fetches that
finish in the wrong order or after their key was evicted; requests that
are answered after any time, and quarantine an endpoint that is back; a transaction that is applied
after `execute` gave up on it; a socket that closes while its signatures are
being verified; a panel that goes away in the middle of a probe or a save.
`PROJECT.json` ("hazards") has them line by line, with the properties about each.

## 2. Modules

Contract:

* **CircuitBreaker** is extended by every contract module; `AssertClosed` is the
  guard of the protected entry points.
* **Governance** models `governance.rs` and `upgrade.rs`.  `props` is the stored
  proposal map; ids without an entry are `NoProposal`.  `approve` is split by
  its last branch (`ApproveBelowQuorum`, `ApproveReachesQuorum`, common conditions in
  `CanApprove`).  The ledger and stake balances are environment actions.
* **Multisig** is the abstract promise: sets of voters, a clock, a halt flag.
  Governance implements it; the refinement mapping is `Abs` in Governance.  The
  code keeps an absolute unlock ledger, so `since` is read back from it.
* **ControlPlane** models the parameter store and the commitment chain.  A hash
  is represented by what it is computed from (the sequence of commitments it
  covers), so equality of hashes is equality of histories; collisions are out of
  scope.  `Prepare` is the operator who reads the head and derives a commitment,
  which may go stale, be replayed or be submitted with another payload.  Updates may name
  any key, `P_COUNT` too, which `RESERVED_KEYS` lacks; `counted_from` records the
  value the counter was last given and the length of the chain then.  `register_proof`
  is offered with every state of the chain and with states that were only prepared.
* **TokenHoldings**, **Treasury**, **EmergencyRecovery** and **ProtocolFee** are
  composed by **ContractFunds**: one breaker, one balance, one clock (timestamp
  and ledger sequence move together).  `Settle` in EmergencyRecovery is the
  payment inside the invocation that completes the quorum: an unfunded transfer
  disables the whole invocation, signature included.

Bridge:

* **EventQueue** holds the SQL statements of `event-queue.ts` as operators on
  the table; **EventPropagator** is the state machine over them: loops are
  numbered because `stop()` clears only the timer handle stored last.  `saved` is
  what the next start finds in `EVENT_CURSOR`.  The service never stores it;
  `SaveCursor` is somebody who reads `getCursor()`, at any time or never.  A crash and
  the shutdown handler are one action, since the handler only cuts off what runs.
* **NonceManager** models one account; the await between reading the next
  sequence and storing its successor is the state `gap`.  Callers reserve,
  release and refresh when they like.  Three history variables record what they
  did: `after` (who was given a sequence since a caller's own), `unsure` (whose
  sequence may be given out again) and `intact` (no release fell into a gap, no
  refresh failed, since the network was read).
* **TxAggregator** extends it with `build` and `execute`: `job` is where a caller
  stands between two awaits, `ledger` which transactions the network has executed, late
  or never; transactions of the account that take another way go on (`Manual`).
  Callers overlap, give back what they have built or what `execute` failed on
  (`nonce-manager.ts:22` has them do it), and the operator refreshes
  (`SECURITY.md:174`).  `company` records whose build another one overlapped.
* **ChainStateCache** models the cache's two Maps and the running fetches.
  Data is the chain version it was read at; a fetch may see any version between
  its start and its end.  `staleTimeMs` is the caller's, so an old item may be
  stale for one caller and not for another.
* **RpcClient** models `call()` turn by turn: `rest` is `deadUntil` counted in
  ticks, `call` a request under way with its attempt and endpoint, `passed` a
  history of how often others were picked since.  No request has a timeout: it ends
  when it ends, `since` counting the ticks up to a quarantine.  A request may be wrong by
  itself (`bad`), so that healthy nodes are quarantined for it.
  **HeartbeatMonitor** extends it: a pulse is one of the calls, and nothing in
  the code keeps two pulses apart.
* **ZkStateSyncer** has one action per callback: upgrade, socket close and error,
  `auth_submit`, the account read inside the verification and its end, broadcast,
  ping timer, close.  The configuration is whatever `main.ts` can read from its
  environment; keys and signatures are names, and the signers of a client's
  account may change at any time.  A socket may have several verifications under way, each
  in a place of `Auth`.  `keyed` and `weighed` record what a socket has
  really shown.

Dashboard:

* **RpcNodes** is the hook, its panel and the probes: a click with the effects of
  its rendering is one action, an answer of a probe and the write to
  localStorage are two.  **GuardianForm** is the form with its hook, with and without a
  save handler (`onSave`; `App.tsx` passes none).
  **Dashboard** composes them under the tab bar, which unmounts what it leaves.
  **Csv** is the serialiser with an RFC 4180 reader as reference; it keeps no state,
  and `Dashboard` states `CsvReadsBack` about it.

Shared: **Vectors** has the operators on vectors without repetition, which
contract, cache and dashboard have in common: `Members`, `HasDuplicates`, and
`Without`, which takes one entry out; and `Folded`, a loop over a sequence, which
the CSV text is built and read with.

Proofs: **CommonLemmas** (vectors and their counts, greatest and first positions,
quotients, induction, loops over sequences), **GovernanceProofs**, **ControlPlaneProofs**, **FundsProofs**,
**EventPropagatorProofs**, **NonceManagerProofs** (with the aggregator and its
fees), **ChainReadProofs** (RPC client, heartbeat and cache: whatever reads the
chain), **ClientProofs** (ZK broadcast and dashboard: whatever serves its clients).
Where two components meet in one proof module, one of them carries its name in
its specification (`RpcSpec`, `CacheSpec`, `TxSpec`, `DashboardSpec`).

`MC*` modules only supply constants.  Operators whose comment begins with "Wrong on
purpose" are plausible slips in the definition that follows them; each is put in
place of the correct one to see that the property it is paired with in
`PROJECT.json` ("mutants") notices.  They are used nowhere else.

## 3. Runs

| Run | Question | Instance |
|---|---|---|
| `governance` | What passes had its own quorum and delay; upgrades consume one proposal; equal approvers leave equal trails; what is approved gets executed | 2 signers, every threshold 0..3, 2 proposals, 2 hashes, stake gate, breaker flapping, 4 ledger values |
| `controlplane` | Replay, lost updates, anchoring, attestations, the update counter | 2 operators, 2 addresses, 2 sequences, updates of every key that is not reserved, batches with reserved and repeated keys, word limit 3 |
| `events` | Two poll and two process loops after stop/start, a crash at any point with recovery, the clean-up, a cursor saved at any time or never: nothing lost behind the cursor, handled by two, too often, out of order or again | 2 events, pages of 2, 2 attempts, 1 restart |
| `events_progress` | Is every event queued and settled, whatever crashes? | 2 events, 2 restarts, 1 loop |
| `events_norecovery` | As `main.ts` starts the service: does everything settle? **No** (section 6) | 1 event, 1 crash |
| `nonce_collision` | Do reserve and release alone keep sequences apart? **No** (section 6) | 2 callers |
| `transactions` | Which sequences may collide or get lost, what has the aggregator to do with it, are its fees right, does every call return? | 2 callers, sequences up to 2, cache lifetimes 1 and 2, timeout 1, failures, refreshes, foreign transactions |
| `funds` | Nothing leaves early, twice or without quorum | 2 admins, thresholds 0..3, an unfunded contract, overflowing and negative amounts, expiring snapshots |
| `cache` | Shared fetches, flags, bound, order of reads, staleness ends | 2 keys for 1 place, 3 fetches, 2 versions |
| `rpc` | Fair failover, failures only for want of endpoints, outage and recovery reported | 2 endpoints, 2 pulses that overlap and another call, 2 attempts, quarantine of 2 ticks, requests of any duration |
| `zk` | Who gets snapshots, does the client table tell the truth, do vanished clients leave? | 2 sockets, 2 verifications at a time, 2 keys, 3 signer configurations (one with threshold 0), every environment `main.ts` can read |
| `dashboard` | Storage, probe round, banner and CSV through clicks, saves, tab changes and reloads | 3 URLs, a fallback of 2, 2 fields, with and without a save handler, CSV fields of up to 2 symbols |

Some properties are conjunctions, so that one run answers one question:
`RecordIsAuditable` (types, equal approvers leave equal trails, the code that
runs was approved), `UpdatesFormOneChain` (`NoLostUpdate`, `UpdatesAreAnchored`),
`HandledWithinLimits` (types, `HandledByOne`, `CallsBounded`),
`ApprovalsFitRequests` (`PaidByOwnQuorum`, `PendingWaitsForSomebody`),
`FetchesAreAccountedFor` (types, `OneFetchPerMiss`, `FlagMeansRevalidating`),
`FeesAreRight` (`FeeIsFresh`, `FeesAddUp`).  The parts stand, each with its
comment, in the modules.

Where the code does not keep what a doc promises, a property says under which
circumstances it does, and these are part of its statement and not of the
specification, so that the runs take every step the code can take.  The exceptions are:
* `UniqueReservations`: one of the two sequences was given out before a refresh,
  or while an older one, released since, was out (`unsure`);
* `NoSequenceLost`: a release in the gap of a reserve, or a refresh that failed,
  until the network is read again (`~intact`);
* `KeepsNonceDiscipline` names the steps that bring these about;
* `EveryEventQueued`: the cursor stays behind the table for ever (`Behind`);
* `CleanedStaysCleaned` speaks of rows that the saved cursor is past (`Passed`);
* `CallsBounded` counts one call more for each restart;
* `ParamCountFollowsChain` counts from what an update last wrote into `P_COUNT`;
* `FailsOnlyWhenOthersRest`: the call's own retries outlasted a quarantine;
* `ReadsDoNotGoBack`: a key was dropped under a running fetch (`torn`);
* `BannerIsWhatWasSubmitted`: without `onSave` nothing was saved.

Section 6 has the finding that belongs to each.

Why the bounds are enough.  The interesting limits lie inside the instances:
counters and word sizes (`U32Max`, `U64Max`, `EventMax`, `I128Max`,
`MaxSnapshots`, `TimeMax`) are so small that the checked arithmetic fails in
reachable states; vectors with duplicates, thresholds above the vector, the zero
hash and the zero address are offered so that refusals are exercised; two
proposals, operators, loops, callers, pulses, keys or sockets are the fewest that can
interfere, two verifications the fewest of one socket that overlap, and two
attempts on two endpoints the fewest for which both ways to give up differ.  Bounds that are
not in the code are `MaxSequence`, `MaxProofs`, `MaxLoops`, `MaxRestarts`,
`MaxRequests`, `MaxHeld`, `MaxSeq`, `MaxNet`, `Slot`, `MaxVersion`, `MaxPosts` and the sets
`Caller`, `Client`, `Call`, `Pulse`, `Socket`, `Auth`; each limits what the environment
does, and each run reaches it.  `CHECK_DEADLOCK FALSE` is given where the instance may run out of
ledgers, sequences, events or time.

## 4. Fairness

* Governance: ledgers keep closing, and somebody keeps submitting `execute`
  (it needs no signature), so an approved proposal passes once the breaker stays closed.
* Events: timers fire, handlers settle either way, a dead process is restarted
  and started; an RPC asked for ever sometimes answers with a full page (strong
  fairness of that one answer).  Nothing is assumed about crashes.
* Nonces: a request is answered or fails; continuations run.  Waiters wake in
  the order they parked, and those that find the lock taken park first on the
  new one, hence strong fairness of entering.  Nobody has to release anything.
* Transactions: as for the nonces, and time passes.  Nobody has to build, execute,
  give back or refresh, and whether the network applies anything is left open.
* Cache: every fetch ends; of infinitely many revalidations of a key some
  succeeds; somebody keeps asking with the default stale time.
* RPC and heartbeat: requests are settled, after any time (the client sets no
  timeout and leaves that to the transport), time passes, the interval fires, the
  continuation of a pulse runs, and the abort timer of a webhook post ends it.
  Nodes come and go as they like; the two properties say in their premises what they
  must do.
* ZK: the ping timer fires, TCP gives up on a peer that acknowledges nothing, a
  closing socket closes (the `ws` library has a timeout for the handshake), and
  `wss.close` is done once every socket is closed.  A verification need not end.

## 5. Proofs

The theorems hold for every value of the constants, under the named assumptions
of the modules, which only bound the constants (`GuardianListsAssumption`, `GovernanceAssumption`,
`ControlPlaneAssumption`, `HoldingsAssumption`, `TreasuryAssumption`,
`RecoveryAssumption`, `FeeAssumption`, `EventQueueAssumption`,
`EventPropagatorAssumption`, `NonceManagerAssumption`, `TxAssumption`,
`RpcAssumption`, `HeartbeatAssumption`, `CacheAssumption`, `ZkAssumption`,
`RpcNodesAssumption`).  They have no other hypotheses, and are about the specifications
without fairness.

**Governance.**
* `TypeCorrect`: the content is that the unlock ledger never leaves u32.
* `ApprovalsCorrect`: the inductive invariant `ApprovalInv`.  The code compares
  the *length* of a vector with the threshold; that this counts people needs the
  strengthening that the vector has no repetition (`Cardinality = Len`, from
  CommonLemmas), that approvals are configured signers, and that no proposal
  precedes `init` (the threshold is positive once one exists).  `QuorumCorrect`
  follows.
* `BreakerHaltsGovernance`: a step property, action by action.
* `GovernanceImplementsMultisig`: the refinement.  Each `approve` is a vote for
  a new voter (by ApprovalInv), the vote that completes the quorum sets `since`
  to the current ledger, `execute` and `upgrade` are the abstract execution.
* `RecordCorrect`: an approval vector follows the order of the signers
  (`TrailsOrdered`), so an approver's place in it is how many approvers come no
  later in that order; equal sets of approvers then give equal vectors.
  Counting by cardinality replaces an induction over the vector.
* `UpgradesArePaidFor`: every change of code spends exactly one Approved proposal.

**ControlPlane.**  `ChainCorrect`, `UpdatesAreOneChain`, `CounterCorrect`,
`ProofsStayOnChain`.  A new sequence is compared with the last one only; that it
exceeds all needs the chain to be increasing, so the two parts of ChainInv are proved
together.  The counter's equation is inductive with `Deployed` and `NothingCounted` (before
there is an administrator nothing is chained or counted): each commitment adds one,
whatever a batch names besides, and writing `P_COUNT` starts the equation anew.
What a batch leaves under a key is its last entry for it, found with
well-foundedness of finite sets.

**ContractFunds.**
* `OutflowsAreLocked`: `OutflowInv`, the entry and the history of executions of
  each id agree; `init` writes an empty map, so it needs that there was nothing before.
* `TrailStaysWhole`: `TrailInv`, an older snapshot never outlives a newer one.
* `RecoveryCorrect`: `RecoveryInv`, the approvals repeat nobody, are admins, and are those
  of the current request, which is unpaid.
* `FeesAreFair`: facts about integer division, for every rate and word size.

**EventPropagator.**  `EventStep` says what one step of the pipeline may do
to one event; most is read off it.  `IInv` has the types, which loop holds which
row (`HandInv`), what the phase of the process allows (`PhaseInv`), which rows
exist behind each cursor (`SeenInv`, `KnownInv`).
* `CursorIsBacked`, `OneHandlerAtATime` and `SettledStays` are read off.
* `CleanedUpStays`: `PassedStep`, once the saved cursor, the live one and all requests
  under way are past an event they stay so, since a request starts from the live
  cursor and a restart from the saved one; `CleanedStep`, an answer inserts nothing its
  request was past.
* `LimitsHold`: `AttemptInv`, calls of the handlers exceed the attempts of a row by
  the number of restarts at most, and by one less for rows recovery still has to do;
  dequeuing keeps the attempts within `maxRetries`.
* `FirstInOrder`: `FreshInv`, a pending row that was not with the handlers is as enqueue
  made it, ready to be dequeued; the other pending rows are those a recovery has put
  back and still has to do.  Both take the lowest rank that is ready.

**NonceManager and TxAggregator.**  For any number of callers that use both as they like.
* `ReservationsAreUnique`: the lock admits one call (`LockInv`).  `OrderInv` relates
  the sequences that are sure: one lies below all that were given out after it and
  below the cache, and what a reserve is about to return lies above all of them.  A
  release of an older reservation breaks that for those given out since, which
  `after` names and `unsure` takes out.
* `SequencesAreNotLost`: `LostInv`, as long as no release falls into a gap the sequence
  in the gap is the cached one, and what a release puts back closes exactly its own hole.
* `TransactionsHaveTheirOwnSequence`: every step of the aggregator is one of the manager,
  or none (`TxStepsAreNonceSteps`), so both hold of the two together.
* `AggregatorKeepsDiscipline`: `BuildInv`, of two callers who build at the same time
  both have company, and nobody was given a sequence since that of a builder without.
* `CallersPayTheRightFee`: `FeeInv`, time takes from what is
  left of the cached fee what it adds to its age, so together they never exceed the
  lifetime it was stored with; and an answer stores only what its wait has left of
  that lifetime, because expiry counts from the request.  Its second half is `EnvelopeCoversThePlan`, the
  arithmetic of `plan` and `build` for all numbers (the run checks small ones):
  the fee per operation is a rounded share of the total, so what the envelope pays
  exceeds the plan by less than the number of operations, and the safety
  margin, which every single transaction would pay again, covers that.

**RpcClient and HeartbeatMonitor.**
* `NobodyIsPassedOverByPulses`: `Turns`, the picks that passed an endpoint over
  and those still to come before the cursor reaches it are fewer than the other
  endpoints.
* `FailuresAreJustified`: `TriedInv`, the endpoints a call has failed on are
  different, and each rests at least as long as a quarantine lacks the ticks since the
  first failure; so a call that fails before a quarantine is over leaves them all at
  rest.  Nothing is assumed about the time a request takes.

**ChainStateCache.**  `CacheAccountsForFetches` and `CacheReadsGoForward` rest on one
invariant, `CacheIInv`: the keys of the LRU order are those of the table
(`TableOK`), and of each key `KeyInv`.  Neither property is inductive.  That a
revalidation does not write back something older than what `getSwr` has returned
needs that a key is fetched for one purpose at a time (a miss while it is away, a
revalidation while it is there and flagged) and that whatever is under way
started no earlier than the last version returned; and that is true only of keys
that were not dropped under a running fetch (`torn`; section 6 says what happens to
those).  A step is looked at for the key it concerns, the others lose at most
their place (`OtherKey`).  The theorems hold for every `maxEntries`, also
0, where what was fetched is evicted at once.

**ZkStateSyncer.**  `SnapshotsAreGuarded`, `TableIsTrue`: `CredentialInv` follows a
credential from where it is shown to where it is used, also through the await of
a verification.  How weights add up plays no part.

**Dashboard.**  Theorems about `DashboardSpec`, through clicks, probes, tab
changes and reloads.
* `HostsStartWithTheSelection`: `EndpointsOK` holds of the hook's state and of what is
  stored, which an answer of a probe separates; in particular a selection exists
  as soon as there is a node and names one.  `DedupedKeepsMembers` says what `new Set`
  makes of a list: it drops no member, repeats none and keeps the first in front.
* `ProbesLeaveNobodyChecking`: `ProbesOK`, who is "checking" is being probed or was
  loaded so.  A URL without a node is never "checking" (part of
  `EndpointsOK`), which matters for one that is removed and added again during a probe.
* `BannersAreTrue`: `FormInv`, what is being saved was valid when it was handed
  over, and only a form with a save handler saves; the edits made meanwhile reach neither.
* `ExportsReadBack` follows from `WhatIsWrittenReadsBack`, which is about tables of
  any size with any text in their fields; every row, also the header, has a field.
  It is an induction over data.  The library's induction theorems take a predicate,
  which no prover here can instantiate; `NaturalInduction` and
  `SequenceInduction` (CommonLemmas) take a set instead, and are proved from the
  existence of a first position outside it.  From them come the laws of `Folded`:
  it has a value (`PassesExist`, `PassesAgree`), one more entry is one more step,
  and a loop over two sequences in a row is one loop after the other.  Then: a
  text without quotes, commas and line ends is read as it is (`PlainReads`),
  any text inside quotes once its quotes are doubled (`DoubledReads`), hence an
  escaped field (`FieldReads`), a line (`LineReads`), a table (`TableReads`).
  The invariant of each is `Adds`: the reader has added the text to
  the field it is reading, and has touched nothing else.

Model-checked only: the liveness properties (`ApprovedIsExecuted`,
`EveryEventQueued`, `EveryEventSettles`, `EveryCallReturns`, `ExecuteSettles`,
`StaleIsReplaced`, `RecoveryIsNoticed`, `OutageIsReported`,
`VanishedClientsLeave`), since fairness and ENABLED are beyond the prover.
Every other property of a passing run is a theorem.

## 6. Findings

With a run:

* `main.ts` never calls `recoverPendingEvents`; a row in `processing` at a
  crash stays there, against `EVENT_QUEUE_DESIGN.md:253` (`events_norecovery`).
* `release` of an older reservation lowers the cache below newer ones, which are
  handed out again (`nonce_collision`): callers hold 1 and 2, the first fails and
  releases 1, reserves it again, succeeds, and gets 2.  `nonce-manager.ts:4-8`
  says that the manager serialises reservation against collisions and takes back
  what failed.

Seen while modelling.  The first five have a configuration of their own, to be
run by hand (`tlc -config MCGovernance_stuck.cfg MCGovernance`); each stops with
a counterexample:

1. `MCGovernance_stuck.cfg` (`MCGovernance`): `approve` requires signer order, so
   a vote by a late signer bars the earlier ones for ever;
   `PROPOSAL_STATE_FSM.md:18-19` says approve can be called until the threshold is
   reached.
2. `MCControlPlane_pcount.cfg` (`MCControlPlane`): `RESERVED_KEYS` lacks `P_COUNT`
   (`control_plane.rs:26-62`), so `update_param` overwrites the counter that
   `control_plane.rs:124` documents as the number of successful parameter updates.
   `ParamCountFollowsChain` says what the counter is: what was last written into it
   and one for each commitment since.
3. `EventPropagator_stalecursor.cfg` (`EventPropagator`): `event-propagator.ts:6-7`
   promises no data loss and automatic cursor persistence.  Nothing stores
   `getCursor()`; `main.ts` only reads `EVENT_CURSOR`.  A restart then begins behind the
   table, and a page that begins with a row that exists leaves the cursor where it was:
   newer events are never fetched.  The run `events_progress`
   (`EveryEventQueued`) finds no other way to lose one.  For the same reason rows that were cleaned up come back and are
   handled again; `CleanedStaysCleaned` has the cursor that prevents it.
4. `TxAggregator_desync.cfg` (`TxAggregator`): nothing calls `refresh`, and a
   cached sequence is never compared with the network, although
   `nonce-manager.ts:6` says that it "auto-refreshes on network desync".
5. `MCZkStateSyncer_close.cfg` (`MCZkStateSyncer`): `close` waits for
   `wss.close`, which waits for clients that nobody disconnects;
   `zk-state-syncer.ts:132` says it closes "the server and all active connections".

Without a configuration:

* The vote that completes the quorum overwrites `unlock_ledger`
  (`governance.rs:231`); `PROPOSAL_STATE_FSM.md:83` says it is already set.
  Multisig counts the delay from that vote, as the code does.
* `register_proof` does not ask the breaker (`core/zk_hooks.rs:57`), although
  `control_plane.rs:4-6` calls every state-changing path breaker aware.
* `recoverPendingEvents` calls handlers without counting an attempt, so with
  restarts the handlers may see an event more often than `maxRetries`, at most once more
  for each (`CallsBounded`).
* A `release` in the gap of another `reserve` is overwritten and its sequence
  lost, and a `refresh` that fails leaves a hole where reservations were out
  (`NoSequenceLost` excepts both until the network is read again).
* `nonce-manager.ts:22` has callers release on submission failure.  `execute` also fails
  by its timeout, and the transaction may be applied later; a caller that obeys
  then makes the manager hand out a number that is in use (`GivesBack`).
* `App.tsx:35` mounts the settings form without `onSave`, and
  `GuardianConfigForm.tsx:55` then skips the save and shows "Settings saved" of
  settings that were saved nowhere.  `BannerIsWhatWasSubmitted` tells the two cases apart.
* An account whose medium threshold is 0 is satisfied by the signature of any one of its
  signers (`wallet-connector.ts:107` passes the threshold on as it is).
* `rpc-client.ts:38` sets no timeout.  A request that hangs longer than the quarantine
  lets the endpoints that failed first come back before the call fails, although they
  were not asked again (`FailsOnlyWhenOthersRest`).
* Snapshots live in temporary storage for about seven days;
  `TREASURY_SNAPSHOT_DESIGN.md` describes them as persistent.
  AuditTrailHasNoHoles states what is left of the trail.
* A revalidation that ends after its key was evicted makes that key the most
  recent one without anybody having asked for it, and may push out a key that
  was used later; `invalidate` does not stop a running fetch from caching what
  it read before.  ReadsDoNotGoBack excludes keys in that state (`torn`).
* Any recovery admin can replace the pending request at any time and thereby
  drop the signatures given so far; PaidByOwnQuorum says that they are not
  carried over.
* `verifyClient` knows API keys only: a server configured with a JWT secret alone
  refuses everybody; one with a signing key but without pass phrase or domain
  accepts connections that can never prove themselves, and sends them nothing.
* A request that every node refuses quarantines as many endpoints as it has
  attempts; FailsOnlyWhenOthersRest counts them as resting, and the other calls
  fail meanwhile.
* A node stored as "checking", because the panel went away in the middle of a
  probe, comes back as "checking" without a probe; NoProbeLeftBehind excepts it.

## 7. Not modelled, and what is left

* Proxy, version, protocol state and roles.  `state.rs` and `access.rs` each keep
  words that no other module of the crate reads, and change them by one look-up
  in a table per call; a model would repeat the table and could relate it to nothing.
  The same holds of `core/guards.rs` and the migration half of `version.rs`.  The proxy is
  a contract of its own beside the control plane; its `upgrade` by the
  admin is a path to new code that the theorems about Governance do not cover,
  and `verify_integrity` cannot succeed (`core/proxy.rs:72` takes the lock that
  `validate_transition` takes again).
* That an open breaker stops treasury, recovery and fees as well: the guard is in the
  models, but no property is stated about it beside those of Governance and ControlPlane.
* `burn_to` keeps no state; event encoding publishes; the audit-guard tool lies
  outside the two main crates.
* Treasury: hashes, clamping and `get_recent_snapshots`.  Heartbeat: the wording of
  reports and the logger.  Dashboard: charts, filters, theme, the simulated
  figures and log generator, which display or export what they are given.
* Hash collisions (also of the ids the dashboard derives from URLs), a failing
  database, a full localStorage, a second browser tab on the same localStorage, a node that lags
  behind its own answers to the cache, and a handler that never settles are excluded by
  assumption.

Left to do: a module for the protocol lifecycle as soon as other modules consult it;
and the recovery of the event pipeline composed with the RPC client, whose
failures it sees as failed polls.
