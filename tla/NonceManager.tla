---------------------------- MODULE NonceManager ----------------------------
(***************************************************************************)
(* Sequence-number reservation in engine-bridge (nonce-manager.ts), for    *)
(* one account: accounts share nothing.  An action is one synchronous      *)
(* stretch between two awaits; the gap between reading the next sequence   *)
(* and storing its successor is one of those awaits, and release() takes   *)
(* no lock, so it may run inside that gap.                                 *)
(***************************************************************************)
EXTENDS Naturals, FiniteSets

CONSTANTS
    Caller,
    MaxSeq,         \* bound: no call starts once the cache is beyond it
    MaxNet          \* bound: the last sequence the network applies

ASSUME NonceManagerAssumption ==
    /\ IsFiniteSet(Caller)
    /\ MaxSeq \in Nat
    /\ MaxNet \in 0..MaxSeq

VARIABLES
    net,      \* the account's sequence number on the network
    cache,    \* next usable sequence; 0 while the map has no entry
    lock,     \* some caller is inside withLock
    pc,       \* per caller: where its call stands
    seq,      \* per caller: the sequence it is about to get, or was given; 0
              \*   outside reserve, and once the caller has no more use for it
    after,    \* history, per caller: who was given a sequence since it was
    unsure,   \* history: whose sequence may be handed out again, because one
              \*   given out before it was released, or after a refresh
    intact    \* history: since the network was read no release fell into the
              \*   gap of a reserve, and no refresh has dropped the cache

state == <<net, cache, lock, pc, seq>>
history == <<after, unsure, intact>>
vars == <<state, history>>

PC == {"idle", "parked", "parked_refresh", "rpc", "rpc_refresh", "gap", "owned"}
Refreshing == {"parked_refresh", "rpc_refresh"}
Inside == {"rpc", "rpc_refresh", "gap"}

TypeOK ==
    /\ net \in 0..MaxNet
    /\ cache \in 0..(MaxSeq + 2 * Cardinality(Caller) + 1)
    /\ lock \in BOOLEAN
    /\ pc \in [Caller -> PC]
    /\ seq \in [Caller -> 0..(MaxSeq + 2 * Cardinality(Caller))]
    /\ after \in [Caller -> SUBSET Caller]
    /\ unsure \subseteq Caller
    /\ intact \in BOOLEAN

\* Sequences count from the account's own at the start.
Init ==
    /\ net = 0
    /\ cache = 0
    /\ lock = FALSE
    /\ pc = [c \in Caller |-> "idle"]
    /\ seq = [c \in Caller |-> 0]
    /\ after = [c \in Caller |-> {}]
    /\ unsure = {}
    /\ intact = TRUE

-----------------------------------------------------------------------------
(* The callers reserve, refresh and release when they like: the code asks   *)
(* nothing of them but a release() of what they do not submit.              *)

StartsReserve(c) == pc[c] = "idle" /\ cache <= MaxSeq
StartsRefresh(c) == pc[c] = "idle"

Owners == {c \in Caller : pc[c] = "owned"}
Gap == {c \in Caller : pc[c] = "gap"}

\* after, without c: its sequence is another's or nobody's from here on.
LeftOut(c) == [d \in Caller |-> IF d = c THEN {} ELSE after[d] \ {c}]

-----------------------------------------------------------------------------
(* reserve and refresh *)

\* withLock, the lock held: a new call waits for the promise in the map.
ParkReserve(c) ==
    /\ StartsReserve(c)
    /\ lock
    /\ pc' = [pc EXCEPT ![c] = "parked"]
    /\ UNCHANGED <<net, cache, lock, seq, history>>

ParkRefresh(c) ==
    /\ StartsRefresh(c)
    /\ lock
    /\ pc' = [pc EXCEPT ![c] = "parked_refresh"]
    /\ UNCHANGED <<net, cache, lock, seq, history>>

\* Wrong on purpose: no lock.
EnterReserve_NoLock(c) ==
    /\ StartsReserve(c) \/ pc[c] = "parked"
    /\ lock' = TRUE
    /\ IF cache # 0
       THEN /\ pc' = [pc EXCEPT ![c] = "gap"]
            /\ seq' = [seq EXCEPT ![c] = cache]
       ELSE /\ pc' = [pc EXCEPT ![c] = "rpc"]
            /\ UNCHANGED seq
    /\ UNCHANGED <<net, cache, history>>

\* withLock, the lock free, for a new call or for a waiter that wakes: take it
\* and run to the first await, on a cached sequence or on the network.
EnterReserve(c) ==
    /\ ~lock
    /\ StartsReserve(c) \/ pc[c] = "parked"
    /\ lock' = TRUE
    /\ IF cache # 0
       THEN /\ pc' = [pc EXCEPT ![c] = "gap"]
            /\ seq' = [seq EXCEPT ![c] = cache]
       ELSE /\ pc' = [pc EXCEPT ![c] = "rpc"]
            /\ UNCHANGED seq
    /\ UNCHANGED <<net, cache, history>>

EnterRefresh(c) ==
    /\ ~lock
    /\ StartsRefresh(c) \/ pc[c] = "parked_refresh"
    /\ lock' = TRUE
    /\ cache' = 0
    /\ pc' = [pc EXCEPT ![c] = "rpc_refresh"]
    /\ unsure' = Owners
    /\ intact' = FALSE
    /\ UNCHANGED <<net, seq, after>>

\* The network answers getAccount: nextSequence stores net + 1 over whatever
\* release() put there meanwhile; reserve goes on with it, refresh is done.
RpcReturns(c) ==
    /\ pc[c] \in {"rpc", "rpc_refresh"}
    /\ cache' = net + 1
    /\ IF pc[c] = "rpc"
       THEN /\ pc' = [pc EXCEPT ![c] = "gap"]
            /\ seq' = [seq EXCEPT ![c] = net + 1]
            /\ UNCHANGED lock
       ELSE /\ pc' = [pc EXCEPT ![c] = "idle"]
            /\ lock' = FALSE
            /\ UNCHANGED seq
    /\ intact' = TRUE
    /\ UNCHANGED <<net, after, unsure>>

\* Wrong on purpose: no finally.
RpcFails_StaysLocked(c) ==
    /\ pc[c] \in {"rpc", "rpc_refresh"}
    /\ pc' = [pc EXCEPT ![c] = "idle"]
    /\ UNCHANGED <<net, cache, lock, seq, history>>

\* getAccount fails: the finally of withLock unlocks, the caller gets the error.
RpcFails(c) ==
    /\ pc[c] \in {"rpc", "rpc_refresh"}
    /\ pc' = [pc EXCEPT ![c] = "idle"]
    /\ lock' = FALSE
    /\ UNCHANGED <<net, cache, seq, history>>

\* The rest of reserve: store the successor, unlock, return.
Commit(c) ==
    /\ pc[c] = "gap"
    /\ cache' = seq[c] + 1
    /\ lock' = FALSE
    /\ pc' = [pc EXCEPT ![c] = "owned"]
    /\ after' = [d \in Caller |-> IF d \in Owners THEN after[d] \cup {c} ELSE after[d]]
    /\ UNCHANGED <<net, seq, unsure, intact>>

\* Wrong on purpose: the comparison is the other way round.
Release_Reversed(c) ==
    /\ pc[c] = "owned"
    /\ cache' = IF cache = 0 \/ seq[c] > cache THEN seq[c] ELSE cache
    /\ pc' = [pc EXCEPT ![c] = "idle"]
    /\ after' = LeftOut(c)
    /\ unsure' = (unsure \cup after[c]) \ {c}
    /\ intact' = (intact /\ Gap = {})
    /\ seq' = [seq EXCEPT ![c] = 0]
    /\ UNCHANGED <<net, lock>>

Release(c) ==
    /\ pc[c] = "owned"
    /\ cache' = IF cache = 0 \/ seq[c] < cache THEN seq[c] ELSE cache
    /\ pc' = [pc EXCEPT ![c] = "idle"]
    /\ after' = LeftOut(c)
    /\ unsure' = (unsure \cup after[c]) \ {c}
    /\ intact' = (intact /\ Gap = {})
    /\ seq' = [seq EXCEPT ![c] = 0]
    /\ UNCHANGED <<net, lock>>

-----------------------------------------------------------------------------
(* The network applies a transaction when its sequence is the next one; its *)
(* caller hears of it later, or never and releases the sequence all the     *)
(* same.                                                                    *)

Applied(c) ==
    /\ pc[c] = "owned"
    /\ seq[c] = net + 1
    /\ net < MaxNet
    /\ net' = seq[c]
    /\ UNCHANGED <<cache, lock, pc, seq, history>>

\* The caller is done with a sequence that the network is past.
Done(c) ==
    /\ pc[c] = "owned"
    /\ seq[c] <= net
    /\ pc' = [pc EXCEPT ![c] = "idle"]
    /\ after' = LeftOut(c)
    /\ unsure' = unsure \ {c}
    /\ seq' = [seq EXCEPT ![c] = 0]
    /\ UNCHANGED <<net, cache, lock, intact>>

\* A transaction of the account that did not go through this manager.
Manual ==
    /\ net < MaxNet
    /\ net' = net + 1
    /\ UNCHANGED <<cache, lock, pc, seq, history>>

Next ==
    \/ \E c \in Caller : ParkReserve(c)
    \/ \E c \in Caller : ParkRefresh(c)
    \/ \E c \in Caller : EnterReserve(c)
    \/ \E c \in Caller : EnterRefresh(c)
    \/ \E c \in Caller : RpcReturns(c)
    \/ \E c \in Caller : RpcFails(c)
    \/ \E c \in Caller : Commit(c)
    \/ \E c \in Caller : Release(c)
    \/ \E c \in Caller : Applied(c)
    \/ \E c \in Caller : Done(c)
    \/ Manual

Spec == Init /\ [][Next]_vars

\* Callers that do no more than reserve and release, and never refresh.
NoRefreshSpec == Init /\ [][Next /\ \A c \in Caller : pc'[c] \notin Refreshing]_vars

-----------------------------------------------------------------------------
(* Fairness.  Network calls are answered or fail; continuations run.  The    *)
(* promise wakes its waiters in the order they parked, and those that find  *)
(* the lock taken again park first on the new one: no waiter is passed over *)
(* for ever.                                                                *)

FairSpec ==
    /\ Spec
    /\ \A c \in Caller :
          /\ WF_vars(RpcReturns(c) \/ RpcFails(c))
          /\ WF_vars(Commit(c))
          /\ SF_vars(pc[c] = "parked" /\ EnterReserve(c))
          /\ SF_vars(pc[c] = "parked_refresh" /\ EnterRefresh(c))

-----------------------------------------------------------------------------
(* Properties *)

Out == {"gap", "owned"}

\* Two sequences in flight, reserved or about to be, are different: not for
\* any use of the manager, but unless one of them was given out before a
\* refresh, or between the reservation and the release of an older one.  The
\* order of releases, waiters, failures and late answers has no other way to
\* make two transactions collide.
UniqueReservations ==
    \A c, d \in Caller :
        c # d /\ pc[c] \in Out /\ pc[d] \in Out /\ seq[c] = seq[d]
        => c \in unsure \/ d \in unsure

\* nonce-manager.ts:4-8, as it stands: "Concurrent submitters racing to build
\* transactions would produce sequence collisions.  This manager serialises
\* reservation ... and releases sequences back to the pool".  Releases alone
\* suffice to break it (NoRefreshSpec).
NoCollision ==
    \A c, d \in Caller :
        c # d /\ pc[c] \in Out /\ pc[d] \in Out => seq[c] # seq[d]

\* No sequence is lost between the account and the cache: each one the network
\* waits for before the cached one is in somebody's hands, so the account does
\* not get stuck behind a number nobody will ever use.  Two things alone break
\* this until the network is read again: a release in the gap of a reserve,
\* which then overwrites it, and a refresh that fails after it has dropped the
\* cache.
NoSequenceLost ==
    intact /\ ~lock /\ cache # 0 =>
        \A s \in (net + 1)..(cache - 1) : \E c \in Caller : pc[c] = "owned" /\ seq[c] = s

\* Every reserve and refresh ends, with a sequence or an error: the lock is
\* released on every path, errors of the network included, and the callers
\* parked on it are served.
EveryCallReturns ==
    \A c \in Caller : pc[c] \in Inside \cup {"parked", "parked_refresh"}
                        ~> pc[c] \in {"idle", "owned"}

=============================================================================
