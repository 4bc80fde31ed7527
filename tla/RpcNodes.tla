------------------------------ MODULE RpcNodes -------------------------------
(***************************************************************************)
(* The endpoint list of the dashboard: the hook useRpcNodes.ts, the panel  *)
(* RpcSettings.tsx that uses it and the probes of rpcHealth.ts.  A click   *)
(* and its effects are one action; a result of a probe is shown in one and *)
(* written to localStorage by the effect in another.  A node is named by   *)
(* its URL, from which its id is derived.                                  *)
(***************************************************************************)
EXTENDS Vectors

CONSTANTS
    Url,
    NoUrl,
    Fallback        \* what a host application appends

ASSUME RpcNodesAssumption == NoUrl \notin Url /\ Fallback \in Seq(Url)

VARIABLES
    rpc,        \* the hook's state: nodes in order, their status, activeId
    stored,     \* the same in localStorage
    probes,     \* requests of the running probeAll: HEAD or GET, or none
    probing,    \* of the panel: the button is disabled
    loaded      \* history: nodes that were loaded as "checking"

rpcVars == <<rpc, stored, probes, probing, loaded>>

Has(s, u) == u \in Members(s)
Empty == [nodes |-> <<>>, status |-> [u \in Url |-> "unknown"], active |-> NoUrl]
NoProbes == [u \in Url |-> "none"]

\* loadInitial: an active id that names no node is dropped.
Loaded(s) == [s EXCEPT !.active = IF Has(s.nodes, @) THEN @ ELSE NoUrl]

RpcInit ==
    /\ stored = Empty
    /\ rpc = Empty
    /\ probes = NoProbes
    /\ probing = FALSE
    /\ loaded = {}

\* The panel is mounted, on the first visit, another visit or a reload: what
\* probes of an earlier instance find is nobody's any more.
RpcMounts ==
    /\ rpc' = Loaded(stored)
    /\ probes' = NoProbes
    /\ probing' = FALSE
    /\ loaded' = {u \in Url : Has(stored.nodes, u) /\ stored.status[u] = "checking"}
    /\ UNCHANGED stored

\* Before the panel goes, React runs the effects that are still due.
Persists ==
    /\ stored # rpc
    /\ stored' = rpc
    /\ UNCHANGED <<rpc, probes, probing, loaded>>

-----------------------------------------------------------------------------
(* Clicks *)

Shows(s) == rpc' = s /\ stored' = s

\* addNode: a URL that is already there is refused; a new node is "unknown", as
\* `status` is for every URL without a node.
AddNode(u) ==
    /\ ~Has(rpc.nodes, u)
    /\ Shows([nodes |-> Append(rpc.nodes, u),
              status |-> rpc.status,
              active |-> IF rpc.active = NoUrl THEN u ELSE rpc.active])
    /\ UNCHANGED <<probes, probing, loaded>>

\* Wrong on purpose: the selection stays on what is removed.
RemoveNode_KeepsActive(u) ==
    /\ Has(rpc.nodes, u)
    /\ Shows([rpc EXCEPT !.nodes = Without(@, u)])
    /\ UNCHANGED <<probes, probing, loaded>>

RemoveNode(u) ==
    /\ Has(rpc.nodes, u)
    /\ LET rest == Without(rpc.nodes, u)
       IN  Shows([rpc EXCEPT !.nodes = rest, !.status[u] = "unknown",
                             !.active = IF @ # u THEN @
                                        ELSE IF rest = <<>> THEN NoUrl ELSE Head(rest)])
    /\ UNCHANGED <<probes, probing, loaded>>

SetActive(u) ==
    /\ Has(rpc.nodes, u)
    /\ Shows([rpc EXCEPT !.active = u])
    /\ UNCHANGED <<probes, probing, loaded>>

\* handleProbeAll: every node of the moment is asked.
ProbeAll ==
    /\ ~probing /\ rpc.nodes # <<>>
    /\ probing' = TRUE
    /\ probes' = [u \in Url |-> IF Has(rpc.nodes, u) THEN "HEAD" ELSE "none"]
    /\ Shows([rpc EXCEPT !.status = [u \in Url |-> IF Has(rpc.nodes, u) THEN "checking" ELSE @[u]]])
    /\ loaded' = {}

-----------------------------------------------------------------------------
(* Probes: every request is answered, fails or is aborted after its timeout *)

HeadRefused(u) ==
    /\ probes[u] = "HEAD"
    /\ probes' = [probes EXCEPT ![u] = "GET"]
    /\ UNCHANGED <<rpc, stored, probing, loaded>>

\* Wrong on purpose: the first result ends the round.
ProbeEnds_First(u, res) ==
    /\ probes[u] # "none"
    /\ probes' = [probes EXCEPT ![u] = "none"]
    /\ rpc' = IF Has(rpc.nodes, u) THEN [rpc EXCEPT !.status[u] = res] ELSE rpc
    /\ probing' = FALSE
    /\ UNCHANGED <<stored, loaded>>

\* The result goes to the node with the id, if there is still or again one; the
\* last one ends the round.
ProbeEnds(u, res) ==
    /\ probes[u] # "none"
    /\ probes' = [probes EXCEPT ![u] = "none"]
    /\ rpc' = IF Has(rpc.nodes, u) THEN [rpc EXCEPT !.status[u] = res] ELSE rpc
    /\ probing' = (probes' # NoProbes)
    /\ UNCHANGED <<stored, loaded>>

RpcMoves ==
    \/ \E u \in Url : AddNode(u) \/ RemoveNode(u) \/ SetActive(u) \/ HeadRefused(u)
    \/ \E u \in Url, res \in {"healthy", "unreachable"} : ProbeEnds(u, res)
    \/ ProbeAll
    \/ Persists

-----------------------------------------------------------------------------
(* What a host application reads *)

getActiveRpcUrl == IF Has(stored.nodes, stored.active) THEN <<stored.active>> ELSE <<>>

\* A Set keeps the first of equal entries, in their order.
Firsts(s) == {i \in DOMAIN s : \A j \in 1..(i - 1) : s[j] # s[i]}
Nth(F, n) == CHOOSE i \in F : Cardinality({j \in F : j <= i}) = n
Deduped(s) == [n \in 1..Cardinality(Firsts(s)) |-> s[Nth(Firsts(s), n)]]
getActiveRpcHostUrls == Deduped(getActiveRpcUrl \o stored.nodes \o Fallback)

-----------------------------------------------------------------------------
(* Properties *)

\* A host that reads localStorage at any moment gets every configured URL once
\* and the fallback, the user's selection first, and there is a selection as
\* soon as there is a node: through removals, reloads and tab changes.
HostStartsWithSelection ==
    LET urls == getActiveRpcHostUrls
    IN  /\ Members(urls) = Members(stored.nodes) \cup Members(Fallback)
        /\ ~HasDuplicates(urls)
        /\ stored.nodes # <<>> => Has(stored.nodes, stored.active) /\ urls[1] = stored.active

\* When the panel offers to probe again no node is left "checking", except one
\* that was stored so because the panel went away in the middle of a probe:
\* through nodes removed, added and added again while they are being probed.
NoProbeLeftBehind ==
    ~probing => \A u \in Url : Has(rpc.nodes, u) /\ rpc.status[u] = "checking" => u \in loaded

=============================================================================
