--------------------------- MODULE ChainStateCache --------------------------
(***************************************************************************)
(* The stale-while-revalidate cache of engine-bridge (chain-state-cache.ts)*)
(* in front of the RPC client.  An action is one synchronous stretch: a    *)
(* call of getSwr up to what it returns or awaits, or the continuation of  *)
(* a fetch.  Data is the version of the chain it was read at; a fetch may  *)
(* see any version between its start and its end.                          *)
(***************************************************************************)
EXTENDS Vectors

CONSTANTS
    Key,
    MaxEntries,
    Slot,           \* bound: fetches that run at the same time
    MaxVersion      \* bound on the versions of the chain

ASSUME CacheAssumption ==
    /\ MaxEntries \in Nat
    /\ Slot \subseteq Nat \ {0}
    /\ MaxVersion \in Nat

VARIABLES
    items,      \* the values of the Map `cache`, NoItem where it has none
    order,      \* the keys of that Map, in its iteration order
    inflight,   \* the Map `inflight`: the slot of a running fetch, 0 for none
    fetch,      \* what each slot is fetching, by whom, since which version
    chain,      \* the current version of the chain
    seen,       \* history: the version getSwr returned last for a key
    torn        \* history: an item went while its revalidation was running,
                \* and fetches of the key have been running ever since

cacheVars == <<items, order, inflight, fetch, chain, seen, torn>>

Version == 0..MaxVersion
Item == [cached : BOOLEAN, version : Version, old : BOOLEAN, isRevalidating : BOOLEAN]
NoItem == [cached |-> FALSE, version |-> 0, old |-> FALSE, isRevalidating |-> FALSE]

Fresh(v) == [cached |-> TRUE, version |-> v, old |-> FALSE, isRevalidating |-> FALSE]
Fetch == [by : {"getSwr", "revalidate"}, key : Key, from : Version]
NoFetch == <<>>

Fetches(f, k, who) == {s \in Slot : f[s] # NoFetch /\ f[s].key = k /\ f[s].by \in who}
Revalidations(k) == Fetches(fetch, k, {"revalidate"})
Misses(k) == Fetches(fetch, k, {"getSwr"})

\* Types; the Map and its order agree, and between two steps it holds no more
\* than maxEntries, also when a revalidation brings an evicted key back.
CacheTypeOK ==
    /\ items \in [Key -> Item]
    /\ order \in Seq(Key)
    /\ Len(order) <= MaxEntries
    /\ \A k \in Key : items[k].cached <=> k \in Members(order)
    /\ ~HasDuplicates(order)
    /\ inflight \in [Key -> Slot \cup {0}]
    /\ fetch \in [Slot -> Fetch \cup {NoFetch}]
    /\ chain \in Version
    /\ seen \in [Key -> Version]
    /\ torn \in [Key -> BOOLEAN]

CacheInit ==
    /\ items = [k \in Key |-> NoItem]
    /\ order = <<>>
    /\ inflight = [k \in Key |-> 0]
    /\ fetch = [s \in Slot |-> NoFetch]
    /\ chain = 0
    /\ seen = [k \in Key |-> 0]
    /\ torn = [k \in Key |-> FALSE]

-----------------------------------------------------------------------------
(* Pieces the handlers share *)

\* touch: delete and set again moves a key to the end of the Map.
Touched(k) == Append(Without(order, k), k)

\* Map.set: a key that is there keeps its place, a new one goes to the end.
Placed(k) == IF items[k].cached THEN order ELSE Append(order, k)

\* evictIfNeeded: keys go from the front until the bound holds.
Kept(o) == IF Len(o) <= MaxEntries THEN o ELSE SubSeq(o, Len(o) - MaxEntries + 1, Len(o))

\* Some fetch starts in the first free slot.
StartsFetch(k, who) ==
    \E s \in Slot :
        /\ fetch[s] = NoFetch
        /\ \A t \in Slot : fetch[t] = NoFetch => s <= t
        /\ fetch' = [fetch EXCEPT ![s] = [by |-> who, key |-> k, from |-> chain]]
        /\ inflight' = IF who = "getSwr" THEN [inflight EXCEPT ![k] = s] ELSE inflight

\* Bookkeeping: `returned` is what getSwr has just returned, per key.  Once a
\* torn key is quiet again, what was returned before no longer counts.
Remember(gone, returned) ==
    /\ torn' = [k \in Key |->
                  IF torn[k] THEN Fetches(fetch', k, {"getSwr", "revalidate"}) # {}
                  ELSE k \in gone /\ Fetches(fetch', k, {"revalidate"}) # {}]
    /\ seen' = [k \in Key |->
                  IF torn[k] /\ ~torn'[k] THEN 0
                  ELSE IF k \in DOMAIN returned THEN returned[k] ELSE seen[k]]

Returned(k, v) == [j \in {k} |-> v]
Nothing == [j \in {} |-> 0]

\* cache.set and evictIfNeeded.
Stores(k, v) ==
    /\ order' = Kept(Placed(k))
    /\ items' = [j \in Key |->
                   IF j \notin Members(order') THEN NoItem
                   ELSE IF j = k THEN Fresh(v) ELSE items[j]]

Gone == {k \in Key : items[k].cached /\ ~items'[k].cached}

-----------------------------------------------------------------------------
(* getSwr.  staleTimeMs is the caller's choice, so of two callers at the    *)
(* same moment one may find an old item stale and the other may not.        *)

\* Wrong on purpose: the flag is set but not asked.
Hit_FlagIgnored(k, isStale) ==
    /\ items[k].cached
    /\ isStale => items[k].old
    /\ order' = Touched(k)
    /\ IF isStale
       THEN /\ items' = [items EXCEPT ![k].isRevalidating = TRUE]
            /\ StartsFetch(k, "revalidate")
       ELSE UNCHANGED <<items, inflight, fetch>>
    /\ Remember({}, Returned(k, items[k].version))
    /\ UNCHANGED chain

Hit(k, isStale) ==
    /\ items[k].cached
    /\ isStale => items[k].old
    /\ order' = Touched(k)
    /\ IF isStale /\ ~items[k].isRevalidating
       THEN /\ items' = [items EXCEPT ![k].isRevalidating = TRUE]
            /\ StartsFetch(k, "revalidate")
       ELSE UNCHANGED <<items, inflight, fetch>>
    /\ Remember({}, Returned(k, items[k].version))
    /\ UNCHANGED chain

Miss(k) ==
    /\ ~items[k].cached
    /\ inflight[k] = 0
    /\ StartsFetch(k, "getSwr")
    /\ Remember({}, Nothing)
    /\ UNCHANGED <<items, order, chain>>

\* A miss while the key is being fetched: the caller gets the running promise
\* and is answered by MissSettles or MissFails with all the others.
Join(k) ==
    /\ ~items[k].cached
    /\ inflight[k] # 0
    /\ UNCHANGED cacheVars

MissSettles(s, v) ==
    /\ fetch[s] # NoFetch /\ fetch[s].by = "getSwr"
    /\ v \in fetch[s].from..chain
    /\ Stores(fetch[s].key, v)
    /\ inflight' = [inflight EXCEPT ![fetch[s].key] = 0]
    /\ fetch' = [fetch EXCEPT ![s] = NoFetch]
    /\ Remember(Gone, Returned(fetch[s].key, v))
    /\ UNCHANGED chain

\* Wrong on purpose: the rejected promise stays in the Map.
MissFails_StaysInflight(s) ==
    /\ fetch[s] # NoFetch /\ fetch[s].by = "getSwr"
    /\ fetch' = [fetch EXCEPT ![s] = NoFetch]
    /\ Remember({}, Nothing)
    /\ UNCHANGED <<items, order, inflight, chain>>

MissFails(s) ==
    /\ fetch[s] # NoFetch /\ fetch[s].by = "getSwr"
    /\ inflight' = [inflight EXCEPT ![fetch[s].key] = 0]
    /\ fetch' = [fetch EXCEPT ![s] = NoFetch]
    /\ Remember({}, Nothing)
    /\ UNCHANGED <<items, order, chain>>

-----------------------------------------------------------------------------
(* revalidate *)

RevalSettles(s, v) ==
    /\ fetch[s] # NoFetch /\ fetch[s].by = "revalidate"
    /\ v \in fetch[s].from..chain
    /\ Stores(fetch[s].key, v)
    /\ fetch' = [fetch EXCEPT ![s] = NoFetch]
    /\ Remember(Gone, Nothing)
    /\ UNCHANGED <<inflight, chain>>

\* Wrong on purpose: a failure leaves the flag set.
RevalFails_StaysFlagged(s) ==
    /\ fetch[s] # NoFetch /\ fetch[s].by = "revalidate"
    /\ fetch' = [fetch EXCEPT ![s] = NoFetch]
    /\ Remember({}, Nothing)
    /\ UNCHANGED <<items, order, inflight, chain>>

\* The flag is cleared on whatever item the key has by now.
RevalFails(s) ==
    /\ fetch[s] # NoFetch /\ fetch[s].by = "revalidate"
    /\ items' = [items EXCEPT ![fetch[s].key].isRevalidating = FALSE]
    /\ fetch' = [fetch EXCEPT ![s] = NoFetch]
    /\ Remember({}, Nothing)
    /\ UNCHANGED <<order, inflight, chain>>

-----------------------------------------------------------------------------

invalidate(k) ==
    /\ items' = [items EXCEPT ![k] = NoItem]
    /\ order' = Without(order, k)
    /\ UNCHANGED <<inflight, fetch, chain>>
    /\ Remember(Gone, Nothing)

clear ==
    /\ items' = [k \in Key |-> NoItem]
    /\ order' = <<>>
    /\ UNCHANGED <<inflight, fetch, chain>>
    /\ Remember(Gone, Nothing)

\* Time passes: an item gets older than somebody's staleTimeMs.
Ages(k) ==
    /\ items[k].cached /\ ~items[k].old
    /\ items' = [items EXCEPT ![k].old = TRUE]
    /\ UNCHANGED <<order, inflight, fetch, chain, seen, torn>>

ChainMoves ==
    /\ chain < MaxVersion
    /\ chain' = chain + 1
    /\ UNCHANGED <<items, order, inflight, fetch, seen, torn>>

CacheNext ==
    \/ \E k \in Key, isStale \in BOOLEAN : Hit(k, isStale)
    \/ \E k \in Key : Miss(k) \/ Join(k) \/ invalidate(k) \/ Ages(k)
    \/ \E s \in Slot : MissFails(s) \/ RevalFails(s)
    \/ \E s \in Slot, v \in Version : MissSettles(s, v) \/ RevalSettles(s, v)
    \/ clear
    \/ ChainMoves

CacheSpec == CacheInit /\ [][CacheNext]_cacheVars

\* Every fetch ends, no key is unlucky with all its revalidations, and some
\* caller keeps asking for each key with the default staleTimeMs.
CacheFairSpec ==
    /\ CacheSpec
    /\ \A s \in Slot :
          WF_cacheVars(MissFails(s) \/ RevalFails(s)
                    \/ \E v \in Version : MissSettles(s, v) \/ RevalSettles(s, v))
    /\ \A k \in Key :
          /\ SF_cacheVars(\E s \in Revalidations(k), v \in Version : RevalSettles(s, v))
          /\ SF_cacheVars(Hit(k, TRUE))

-----------------------------------------------------------------------------
(* Properties *)

\* Callers that miss a key at the same time share one fetch, the one that
\* inflight names, and inflight never names one that is over: not after a
\* failure, and not when the key comes and goes in between.
OneFetchPerMiss ==
    \A k \in Key : Misses(k) = {inflight[k]} \ {0}

\* A set flag means that a revalidation of the key is running, so no item is
\* barred from ever being refreshed; and unless the key was torn, it is the
\* only one and every running one is flagged.
FlagMeansRevalidating ==
    \A k \in Key :
        /\ items[k].isRevalidating => Revalidations(k) # {}
        /\ ~torn[k] =>
              \A s, t \in Revalidations(k) : s = t /\ items[k].isRevalidating

\* The bookkeeping of fetches as a whole: the table is within its bound, and
\* both records of what is running, inflight and the flags, are true.
FetchesAreAccountedFor == CacheTypeOK /\ OneFetchPerMiss /\ FlagMeansRevalidating

\* For a key that is not torn, getSwr never goes back to an older version than
\* it has already returned, through evictions, invalidations and refetches.
ReadsDoNotGoBack ==
    [][\A k \in Key : ~torn[k] /\ ~torn'[k] => seen'[k] >= seen[k]]_cacheVars

\* An item that somebody found stale does not stay: it is replaced by fresh
\* data or removed, however many revalidations fail in between.
StaleIsReplaced ==
    \A k \in Key :
        (items[k].old /\ items[k].isRevalidating) ~> ~items[k].old

=============================================================================
