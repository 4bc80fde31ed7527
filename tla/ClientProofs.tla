---------------------------- MODULE ClientProofs ----------------------------
(***************************************************************************)
(* Theorems about the two parts that a browser talks to.  The first is the *)
(* WebSocket server, for any number of sockets, any keys and any signer    *)
(* configurations of the accounts; what is proved of it does not depend on *)
(* how weights add up: Weight is never expanded.  The second is the        *)
(* dashboard, for any endpoints, fallback, fields and schema, and its CSV  *)
(* export, for tables of any size and any text in their fields.            *)
(***************************************************************************)
EXTENDS ZkStateSyncer, Dashboard, CommonLemmas

\* What follows a credential from where it is shown to where it is used.  A
\* client in the Map has passed verifyClient; a verification that ended well
\* was backed by enough weight, also while it waits to be noticed; and so was
\* every client that counts as proven.
CredentialInv ==
    /\ Accepts(conf)
    /\ \A s \in clients : hasAuth(conf) => s \in keyed
    /\ \A a \in Auth, s \in Socket : verifying[a] = <<s, "enough">> => s \in weighed
    /\ proven \subseteq weighed

IInv == TypeOK /\ CredentialInv /\ SnapshotsNeedCredentials /\ CountedAreConnected

LEMMA ZkInit == Init => IInv
<1> SUFFICES ASSUME Init PROVE IInv
    OBVIOUS
<1>1. TypeOK
    BY DEF Init, TypeOK
<1>2. CredentialInv
    <2>1. \A a \in Auth : verifying[a] = NoAuth
        BY DEF Init
    <2>2. \A s \in Socket : NoAuth # <<s, "enough">>
        BY DEF NoAuth
    <2>3. Accepts(conf) /\ clients = {} /\ proven = {}
        BY DEF Init
    <2>4. QED
        BY <2>1, <2>2, <2>3 DEF CredentialInv
<1>3. SnapshotsNeedCredentials /\ CountedAreConnected
    BY DEF Init, SnapshotsNeedCredentials, CountedAreConnected, Open
<1>4. QED
    BY <1>1, <1>2, <1>3 DEF IInv

\* What is sent changes only what TCP knows.
LEMMA SentToType ==
    ASSUME TypeOK, NEW S, SentTo(S)
    PROVE  link' \in [Socket -> {"fine", "dead", "noticed"}]
BY DEF TypeOK, SentTo

\* Types are kept, action by action.
LEMMA TypeStep == TypeOK /\ [Next]_vars => TypeOK'
<1> SUFFICES ASSUME TypeOK, [Next]_vars PROVE TypeOK'
    OBVIOUS
<1> USE DEF TypeOK, wsVars, authVars
<1>1. ASSUME NEW s \in Socket, NEW hasKey \in BOOLEAN, Connects(s, hasKey) PROVE TypeOK'
    BY <1>1 DEF Connects
<1>2. ASSUME NEW s \in Socket, PeerCloses(s) \/ Vanishes(s) \/ Errors(s) \/ Closes(s)
      PROVE  TypeOK'
    BY <1>2 DEF PeerCloses, Vanishes, Errors, Closes
<1>3. ASSUME NEW s \in Socket, NEW a \in Auth, AuthSubmit(s, a) PROVE TypeOK'
    BY <1>3 DEF AuthSubmit
<1>4. ASSUME NEW s \in Socket, NEW a \in Auth, AuthFails(s, a) \/ AuthSettles(s, a)
      PROVE  TypeOK'
    <2>1. link' \in [Socket -> {"fine", "dead", "noticed"}]
        BY <1>4, SentToType DEF AuthFails, AuthSettles
    <2>2. QED
        BY <1>4, <2>1 DEF AuthFails, AuthSettles
<1>5. ASSUME NEW s \in Socket, NEW a \in Auth, NEW sigs \in SUBSET Key,
             AccountRead(s, a, sigs)
      PROVE  TypeOK'
    BY <1>5 DEF AccountRead
<1>6. ASSUME Broadcasts PROVE TypeOK'
    BY <1>6, SentToType DEF Broadcasts, Served, Open
<1>7. ASSUME Heartbeat PROVE TypeOK'
    BY <1>7, SentToType DEF Heartbeat, Open
<1>8. ASSUME Close \/ ServerClosed PROVE TypeOK'
    BY <1>8 DEF Close, ServerClosed
<1>9. ASSUME AccountChanges PROVE TypeOK'
    BY <1>9 DEF AccountChanges
<1>10. ASSUME UNCHANGED vars PROVE TypeOK'
    BY <1>10 DEF vars
<1>11. QED
    BY <1>1, <1>2, <1>3, <1>4, <1>5, <1>6, <1>7, <1>8, <1>9, <1>10 DEF Next

\* Credentials.  A socket that connects starts without any history, and while
\* a verification of its predecessor is still running it cannot connect.
LEMMA CredentialStep == TypeOK /\ CredentialInv /\ [Next]_vars => CredentialInv'
<1> SUFFICES ASSUME TypeOK, CredentialInv, [Next]_vars PROVE CredentialInv'
    OBVIOUS
<1> USE DEF CredentialInv, TypeOK, wsVars, authVars, Accepts, hasAuth
<1>1. ASSUME NEW s \in Socket, NEW hasKey \in BOOLEAN, Connects(s, hasKey) PROVE CredentialInv'
    <2>1. hasAuth(conf) => s \in keyed'
        BY <1>1 DEF Connects, verifyClient
    <2>2. \A c \in clients' : hasAuth(conf)' => c \in keyed'
        BY <1>1, <2>1 DEF Connects
    <2>3. \A a \in Auth, c \in Socket : verifying'[a] = <<c, "enough">> => c \in weighed'
        BY <1>1 DEF Connects, Verifies, NoAuth
    <2>4. proven' \subseteq weighed'
        BY <1>1 DEF Connects
    <2>5. QED
        BY <1>1, <2>2, <2>3, <2>4 DEF Connects
<1>2. ASSUME NEW s \in Socket, PeerCloses(s) \/ Vanishes(s) \/ Errors(s) \/ Closes(s)
      PROVE  CredentialInv'
    BY <1>2 DEF PeerCloses, Vanishes, Errors, Closes
<1>3. ASSUME NEW s \in Socket, NEW a \in Auth,
             AuthSubmit(s, a) \/ AuthFails(s, a) \/ AuthSettles(s, a)
      PROVE  CredentialInv'
    <2>1. /\ verifying'[a] \in {NoAuth, <<s, "loading">>}
          /\ \A b \in Auth \ {a} : verifying'[b] = verifying[b]
        BY <1>3 DEF AuthSubmit, AuthFails, AuthSettles
    <2>2. \A b \in Auth, c \in Socket : verifying'[b] = <<c, "enough">> => c \in weighed
        BY <2>1 DEF NoAuth
    <2>3. proven' \subseteq weighed
        BY <1>3 DEF AuthSubmit, AuthFails, AuthSettles
    <2>4. UNCHANGED <<conf, clients, keyed, weighed>>
        BY <1>3 DEF AuthSubmit, AuthFails, AuthSettles
    <2>5. QED
        BY <2>2, <2>3, <2>4
<1>5. ASSUME NEW s \in Socket, NEW a \in Auth, NEW sigs \in SUBSET Key,
             AccountRead(s, a, sigs)
      PROVE  CredentialInv'
    <2>1. verifying'[a] = <<s, "enough">> /\ s \in weighed'
        BY <1>5 DEF AccountRead, Verified
    <2>2. weighed \subseteq weighed' /\ \A b \in Auth \ {a} : verifying'[b] = verifying[b]
        BY <1>5 DEF AccountRead
    <2>3. QED
        BY <1>5, <2>1, <2>2 DEF AccountRead
<1>6. ASSUME Broadcasts \/ Heartbeat PROVE CredentialInv'
    BY <1>6 DEF Broadcasts, Heartbeat
<1>7. ASSUME Close \/ ServerClosed PROVE CredentialInv'
    BY <1>7 DEF Close, ServerClosed
<1>8. ASSUME AccountChanges PROVE CredentialInv'
    BY <1>8 DEF AccountChanges
<1>9. ASSUME UNCHANGED vars PROVE CredentialInv'
    BY <1>9 DEF vars
<1>10. QED
    BY <1>1, <1>2, <1>3, <1>5, <1>6, <1>7, <1>8, <1>9 DEF Next

\* Snapshots: only a broadcast sends one, and it serves clients whose
\* credentials CredentialInv vouches for.
LEMMA SnapshotStep ==
    TypeOK /\ CredentialInv /\ SnapshotsNeedCredentials /\ [Next]_vars
        => SnapshotsNeedCredentials'
<1> SUFFICES ASSUME TypeOK, CredentialInv, SnapshotsNeedCredentials, [Next]_vars
             PROVE  SnapshotsNeedCredentials'
    OBVIOUS
<1> USE DEF SnapshotsNeedCredentials, wsVars, authVars
<1>1. ASSUME NEW s \in Socket, NEW hasKey \in BOOLEAN, Connects(s, hasKey)
      PROVE  SnapshotsNeedCredentials'
    BY <1>1 DEF Connects, hasAuth
<1>2. ASSUME NEW s \in Socket, PeerCloses(s) \/ Vanishes(s) \/ Errors(s) \/ Closes(s)
      PROVE  SnapshotsNeedCredentials'
    BY <1>2 DEF PeerCloses, Vanishes, Errors, Closes, hasAuth
<1>3. ASSUME NEW s \in Socket, NEW a \in Auth,
             AuthSubmit(s, a) \/ AuthFails(s, a) \/ AuthSettles(s, a)
      PROVE  SnapshotsNeedCredentials'
    BY <1>3 DEF AuthSubmit, AuthFails, AuthSettles, hasAuth
<1>4. ASSUME NEW s \in Socket, NEW a \in Auth, NEW sigs \in SUBSET Key,
             AccountRead(s, a, sigs)
      PROVE  SnapshotsNeedCredentials'
    BY <1>4 DEF AccountRead, hasAuth
<1>5. ASSUME Broadcasts PROVE SnapshotsNeedCredentials'
    <2>1. \A s \in Served :
              /\ hasAuth(conf) => s \in keyed
              /\ conf.serverSigningKey => s \in weighed
              /\ s \in keyed \cup weighed \/ conf.allowUnauthenticated
        BY DEF Served, CredentialInv, Accepts
    <2>2. QED
        BY <1>5, <2>1 DEF Broadcasts, hasAuth
<1>6. ASSUME Heartbeat \/ Close \/ ServerClosed \/ AccountChanges
      PROVE  SnapshotsNeedCredentials'
    BY <1>6 DEF Heartbeat, Close, ServerClosed, AccountChanges, hasAuth
<1>7. ASSUME UNCHANGED vars PROVE SnapshotsNeedCredentials'
    BY <1>7 DEF vars, hasAuth
<1>8. QED
    BY <1>1, <1>2, <1>3, <1>4, <1>5, <1>6, <1>7 DEF Next

\* The client table against the sockets.
LEMMA TableStep == TypeOK /\ CountedAreConnected /\ [Next]_vars => CountedAreConnected'
<1> SUFFICES ASSUME TypeOK, CountedAreConnected, [Next]_vars PROVE CountedAreConnected'
    OBVIOUS
<1> USE DEF CountedAreConnected, Open, TypeOK, wsVars, authVars
<1>1. ASSUME NEW s \in Socket, NEW hasKey \in BOOLEAN, Connects(s, hasKey)
      PROVE  CountedAreConnected'
    BY <1>1 DEF Connects
<1>2. ASSUME NEW s \in Socket, PeerCloses(s) PROVE CountedAreConnected'
    BY <1>2 DEF PeerCloses
<1>3. ASSUME NEW s \in Socket, Errors(s) \/ Closes(s) PROVE CountedAreConnected'
    BY <1>3 DEF Errors, Closes
<1>4. ASSUME NEW s \in Socket, NEW a \in Auth,
             AuthSubmit(s, a) \/ AuthFails(s, a) \/ AuthSettles(s, a)
      PROVE  CountedAreConnected'
    BY <1>4 DEF AuthSubmit, AuthFails, AuthSettles
<1>11. ASSUME NEW s \in Socket, Vanishes(s) PROVE CountedAreConnected'
    BY <1>11 DEF Vanishes
<1>5. ASSUME NEW s \in Socket, NEW a \in Auth, NEW sigs \in SUBSET Key,
             AccountRead(s, a, sigs)
      PROVE  CountedAreConnected'
    BY <1>5 DEF AccountRead
<1>6. ASSUME Broadcasts PROVE CountedAreConnected'
    BY <1>6 DEF Broadcasts
<1>7. ASSUME Heartbeat PROVE CountedAreConnected'
    BY <1>7 DEF Heartbeat
<1>8. ASSUME Close \/ ServerClosed \/ AccountChanges PROVE CountedAreConnected'
    BY <1>8 DEF Close, ServerClosed, AccountChanges
<1>9. ASSUME UNCHANGED vars PROVE CountedAreConnected'
    BY <1>9 DEF vars
<1>10. QED
    BY <1>1, <1>2, <1>3, <1>4, <1>5, <1>6, <1>7, <1>8, <1>9, <1>11 DEF Next

LEMMA ZkInvariant == Spec => []IInv
<1>1. IInv /\ [Next]_vars => IInv'
    BY TypeStep, CredentialStep, SnapshotStep, TableStep DEF IInv
<1>2. QED
    BY ZkInit, <1>1, PTL DEF Spec

\* handleEvent and broadcast send snapshots only to clients that have shown
\* what the configuration asks for, whatever connects, closes, reconnects or
\* changes its signers while a verification is under way.
THEOREM SnapshotsAreGuarded == Spec => []SnapshotsNeedCredentials
<1>1. IInv => SnapshotsNeedCredentials
    BY DEF IInv
<1>2. QED
    BY ZkInvariant, <1>1, PTL

\* The Map `clients` has every open socket and no closed one.
THEOREM TableIsTrue == Spec => []CountedAreConnected
<1>1. IInv => CountedAreConnected
    BY DEF IInv
<1>2. QED
    BY ZkInvariant, <1>1, PTL

-----------------------------------------------------------------------------
(* The dashboard: what a host reads *)

\* A Set has the entries of the sequence it is built from, each once and the
\* first one first.
LEMMA DedupedKeepsMembers ==
    ASSUME NEW S, NEW s \in Seq(S)
    PROVE  /\ Members(Deduped(s)) = Members(s)
           /\ ~HasDuplicates(Deduped(s))
           /\ s # <<>> => Deduped(s)[1] = s[1]
<1> DEFINE F == Firsts(s)
           N == Cardinality(F)
           rank(i) == Cardinality({j \in F : j <= i})
           d == Deduped(s)
<1>1. DOMAIN s = 1..Len(s) /\ Len(s) \in Nat
  OBVIOUS
<1>2. F \in SUBSET (1..Len(s)) /\ F \in SUBSET Nat
  BY <1>1 DEF Firsts
<1>3. IsFiniteSet(F) /\ N \in Nat
  <2>1. IsFiniteSet(1..Len(s))
    BY <1>1, FS_Interval
  <2>2. IsFiniteSet(F)
    BY <1>2, <2>1, FS_Subset
  <2> QED
    BY <2>2, FS_CardinalityType
<1>4. /\ \A i \in F : rank(i) \in 1..N
      /\ \A i, j \in F : i < j => rank(i) < rank(j)
      /\ \A n \in 1..N : \E i \in F : rank(i) = n
  <2> HIDE DEF F
  <2> QED
    BY <1>2, <1>3, Ranks
<1>5. \A i, j \in F : rank(i) = rank(j) => i = j
  <2>1. SUFFICES ASSUME NEW i \in F, NEW j \in F, i # j PROVE rank(i) # rank(j)
    OBVIOUS
  <2>2. rank(i) \in Nat /\ rank(j) \in Nat /\ (i < j \/ j < i)
    BY <1>2, <1>3, <1>4, <2>1
  <2> HIDE DEF rank
  <2> QED
    BY <1>4, <2>2
<1>6. \A n \in 1..N : Nth(F, n) \in F /\ rank(Nth(F, n)) = n
  <2>1. ASSUME NEW n \in 1..N PROVE Nth(F, n) \in F /\ rank(Nth(F, n)) = n
    <3>1. \E i \in F : Cardinality({j \in F : j <= i}) = n
      BY <1>4
    <3> QED
      BY <3>1 DEF Nth
  <2> QED
    BY <2>1
<1>7. DOMAIN d = 1..N /\ \A n \in 1..N : d[n] = s[Nth(F, n)]
  BY DEF Deduped
<1>8. \A i, j \in F : s[i] = s[j] => i = j
  <2>1. SUFFICES ASSUME NEW i \in F, NEW j \in F, i < j PROVE s[i] # s[j]
    BY <1>2
  <2>2. i \in 1..(j - 1)
    BY <1>2, <2>1
  <2> QED
    BY <2>2 DEF Firsts
<1>9. \A x \in Members(s) : \E i \in F : s[i] = x
  <2>1. SUFFICES ASSUME NEW x \in Members(s) PROVE \E i \in F : s[i] = x
    OBVIOUS
  <2> DEFINE T == {i \in 1..Len(s) : s[i] = x}
  <2>2. T \in SUBSET (1..Len(s)) /\ T # {}
    BY <1>1 DEF Members
  <2>3. PICK i \in T : \A j \in T : i <= j
    <3> HIDE DEF T
    <3> QED
      BY <1>1, <2>2, FirstPosition
  <2>4. ASSUME NEW j \in 1..(i - 1) PROVE s[j] # s[i]
    <3>1. j \in 1..Len(s) /\ ~(i <= j)
      BY <1>1, <2>3
    <3> QED
      BY <2>3, <3>1
  <2>5. i \in F
    BY <1>1, <2>3, <2>4 DEF Firsts
  <2> QED
    BY <2>3, <2>5
<1> HIDE DEF F, N, rank, d
<1>10. Members(d) = Members(s)
  <2>1. ASSUME NEW x \in Members(d) PROVE x \in Members(s)
    <3>1. PICK n \in 1..N : x = s[Nth(F, n)]
      BY <1>7 DEF Members
    <3>2. Nth(F, n) \in 1..Len(s)
      BY <1>2, <1>6
    <3> QED
      BY <1>1, <3>1, <3>2 DEF Members
  <2>2. ASSUME NEW x \in Members(s) PROVE x \in Members(d)
    <3>1. PICK i \in F : s[i] = x
      BY <1>9
    <3>2. rank(i) \in 1..N /\ Nth(F, rank(i)) = i
      BY <1>4, <1>5, <1>6
    <3> QED
      BY <1>7, <3>1, <3>2 DEF Members
  <2> QED
    BY <2>1, <2>2
<1>11. ~HasDuplicates(d)
  <2>1. SUFFICES ASSUME NEW m \in 1..N, NEW n \in 1..N, m < n, d[m] = d[n] PROVE FALSE
    BY <1>7 DEF HasDuplicates
  <2>2. Nth(F, m) = Nth(F, n)
    BY <1>6, <1>7, <1>8, <2>1
  <2>3. m = n
    BY <1>6, <2>2
  <2> QED
    BY <1>3, <2>1, <2>3
<1>12. ASSUME s # <<>> PROVE d[1] = s[1]
  <2>1. 1 \in 1..Len(s)
    BY <1>1, <1>12
  <2>2. 1 \in F
    BY <1>1, <2>1 DEF F, Firsts
  <2>3. rank(1) = 1
    <3>1. rank(1) \in 1..N
      BY <1>4, <2>2
    <3>2. PICK i \in F : rank(i) = 1
      BY <1>3, <1>4, <3>1
    <3>3. i = 1 \/ 1 < i
      BY <1>2, <3>2
    <3>4. ~(1 < i)
      BY <1>3, <1>4, <2>2, <3>1, <3>2
    <3> QED
      BY <3>2, <3>3, <3>4
  <2>4. 1 \in 1..N /\ Nth(F, 1) = 1
    BY <1>4, <1>5, <1>6, <2>2, <2>3
  <2> QED
    BY <1>7, <2>4
<1> QED
  BY <1>10, <1>11, <1>12 DEF d

\* The hook's state: no endpoint twice, one is selected as soon as there is one,
\* and a URL without a node has no status.
EndpointsOK(s) ==
    /\ s \in [nodes : Seq(Url), status : [Url -> {"unknown", "checking", "healthy", "unreachable"}],
              active : Url \cup {NoUrl}]
    /\ ~HasDuplicates(s.nodes)
    /\ s.nodes = <<>> => s.active = NoUrl
    /\ s.nodes # <<>> => Has(s.nodes, s.active)
    /\ \A u \in Url : ~Has(s.nodes, u) => s.status[u] = "unknown"

\* Whatever endpoints are stored, a host reads them as HostStartsWithSelection
\* says.
LEMMA HostReads == EndpointsOK(stored) => HostStartsWithSelection
<1> SUFFICES ASSUME EndpointsOK(stored) PROVE HostStartsWithSelection
  OBVIOUS
<1> DEFINE first == getActiveRpcUrl
           own == first \o stored.nodes
           all == own \o Fallback
<1>1. stored.nodes \in Seq(Url) /\ Fallback \in Seq(Url) /\ NoUrl \notin Url
  BY RpcNodesAssumption DEF EndpointsOK
<1>2. \A u \in Members(stored.nodes) : u \in Url
  BY <1>1 DEF Members
<1>3. CASE stored.nodes = <<>>
  <2>1. first = <<>>
    BY <1>3, MembersEmpty DEF getActiveRpcUrl, Has
  <2>2. own = <<>> /\ own \in Seq(Url) /\ all \in Seq(Url)
    BY <1>1, <1>3, <2>1
  <2>3. Members(all) = Members(stored.nodes) \cup Members(Fallback)
    <3> HIDE DEF own
    <3>1. own \in Seq(Url) /\ Fallback \in Seq(Url)
      BY <1>1, <2>2
    <3>2. Members(all) = Members(own) \cup Members(Fallback)
      BY <3>1, MembersConcat
    <3> QED
      BY <1>3, <2>2, <3>2
  <2>4. Members(Deduped(all)) = Members(all) /\ ~HasDuplicates(Deduped(all))
    <3> HIDE DEF all
    <3> QED
      BY <2>2, DedupedKeepsMembers
  <2> QED
    BY <1>3, <2>3, <2>4 DEF HostStartsWithSelection, getActiveRpcHostUrls
<1>4. CASE stored.nodes # <<>>
  <2>1. Has(stored.nodes, stored.active) /\ stored.active \in Members(stored.nodes)
    BY <1>4 DEF EndpointsOK, Has
  <2>2. first = <<stored.active>> /\ stored.active \in Url
    BY <1>2, <2>1 DEF getActiveRpcUrl
  <2>3. first \in Seq(Url) /\ Members(first) = {stored.active} /\ first # <<>> /\ Len(first) = 1
    BY <2>2 DEF Members
  <2> HIDE DEF first
  <2>4. own \in Seq(Url) /\ Members(own) = Members(first) \cup Members(stored.nodes)
    BY <1>1, <2>3, MembersConcat
  <2>5. own[1] = stored.active /\ own # <<>> /\ Len(own) \in Nat \ {0}
    BY <1>1, <2>2, <2>3 DEF first
  <2> HIDE DEF own
  <2>6. all \in Seq(Url) /\ Members(all) = Members(own) \cup Members(Fallback)
    BY <1>1, <2>4, MembersConcat
  <2>7. all[1] = stored.active /\ all # <<>>
    BY <1>1, <2>4, <2>5
  <2> HIDE DEF all
  <2>8. /\ Members(Deduped(all)) = Members(all) /\ ~HasDuplicates(Deduped(all))
        /\ Deduped(all)[1] = all[1]
    BY <2>6, <2>7, DedupedKeepsMembers
  <2>9. Members(all) = Members(stored.nodes) \cup Members(Fallback)
    BY <2>1, <2>3, <2>4, <2>6
  <2>10. getActiveRpcHostUrls = Deduped(all)
    BY DEF getActiveRpcHostUrls, all, own, first
  <2> QED
    BY <2>1, <2>7, <2>8, <2>9, <2>10 DEF HostStartsWithSelection
<1> QED
  BY <1>3, <1>4

-----------------------------------------------------------------------------
(* The dashboard: endpoints and probes *)

\* Who is "checking" is being probed or was loaded so, through nodes that come
\* and go meanwhile, and probes run only while the button is disabled.
ProbesOK ==
    /\ probes \in [Url -> {"none", "HEAD", "GET"}]
    /\ ~probing => probes = NoProbes
    /\ \A u \in Url : rpc.status[u] = "checking" => probes[u] # "none" \/ u \in loaded

NodesInv == EndpointsOK(rpc) /\ EndpointsOK(stored) /\ ProbesOK

LEMMA EmptyIsOK == EndpointsOK(Empty)
<1>1. /\ Empty \in [nodes : Seq(Url),
                    status : [Url -> {"unknown", "checking", "healthy", "unreachable"}],
                    active : Url \cup {NoUrl}]
      /\ Empty.nodes = <<>> /\ Empty.active = NoUrl
      /\ \A u \in Url : Empty.status[u] = "unknown"
  BY DEF Empty
<1> QED
  BY <1>1 DEF EndpointsOK, HasDuplicates

\* Each click takes good endpoints to good endpoints.
LEMMA ClickStep ==
    ASSUME NodesInv, NEW u \in Url, AddNode(u) \/ RemoveNode(u) \/ SetActive(u)
    PROVE  NodesInv'
<1>0. /\ rpc.nodes \in Seq(Url) /\ ~HasDuplicates(rpc.nodes)
      /\ rpc.status \in [Url -> {"unknown", "checking", "healthy", "unreachable"}]
      /\ rpc.active \in Url \cup {NoUrl} /\ NoUrl \notin Url
      /\ rpc = [nodes |-> rpc.nodes, status |-> rpc.status, active |-> rpc.active]
  BY RpcNodesAssumption DEF NodesInv, EndpointsOK
<1>1. ASSUME NEW ns \in Seq(Url), NEW st \in [Url -> {"unknown", "checking", "healthy", "unreachable"}],
             NEW ac \in Url \cup {NoUrl},
             rpc' = [nodes |-> ns, status |-> st, active |-> ac], stored' = rpc',
             UNCHANGED <<probes, probing, loaded>>,
             ~HasDuplicates(ns), ns = <<>> => ac = NoUrl, ns # <<>> => Has(ns, ac),
             \A v \in Url : ~Has(ns, v) => st[v] = "unknown",
             \A v \in Url : st[v] = "checking" => rpc.status[v] = "checking"
      PROVE  NodesInv'
  <2>1. rpc'.nodes = ns /\ rpc'.status = st /\ rpc'.active = ac
    BY <1>1
  <2>2. EndpointsOK(rpc)'
    BY <1>1, <2>1 DEF EndpointsOK
  <2>3. EndpointsOK(stored)'
    BY <1>1, <2>2 DEF EndpointsOK
  <2>4. ProbesOK'
    BY <1>1, <2>1 DEF NodesInv, ProbesOK, NoProbes
  <2> QED
    BY <2>2, <2>3, <2>4 DEF NodesInv
<1>2. CASE AddNode(u)
  <2> DEFINE ns == Append(rpc.nodes, u)
             ac == IF rpc.active = NoUrl THEN u ELSE rpc.active
  <2>1. ~Has(rpc.nodes, u) /\ u \notin Members(rpc.nodes)
    BY <1>2 DEF AddNode, Has
  <2>2. ns \in Seq(Url) /\ ~HasDuplicates(ns) /\ Members(ns) = Members(rpc.nodes) \cup {u}
    BY <1>0, <2>1, AppendIsNew, MembersAppend
  <2>3. ns # <<>> /\ Has(ns, ac)
    <3>1. ns # <<>>
      BY <1>0
    <3>2. ASSUME rpc.active = NoUrl PROVE ac \in Members(ns)
      <4>1. ac = u
        BY <3>2
      <4> QED
        BY <2>2, <4>1
    <3>3. ASSUME rpc.active # NoUrl PROVE ac \in Members(ns)
      <4>1. rpc.active \in Members(rpc.nodes)
        BY <3>3 DEF NodesInv, EndpointsOK, Has
      <4>2. ac = rpc.active
        BY <3>3
      <4> HIDE DEF ns
      <4> QED
        BY <2>2, <4>1, <4>2
    <3> QED
      BY <3>1, <3>2, <3>3 DEF Has
  <2>4. rpc' = [nodes |-> ns, status |-> rpc.status, active |-> ac] /\ stored' = rpc'
        /\ UNCHANGED <<probes, probing, loaded>>
    BY <1>2 DEF AddNode, Shows
  <2>5. \A v \in Url : ~Has(ns, v) => rpc.status[v] = "unknown"
    BY <2>2 DEF NodesInv, EndpointsOK, Has
  <2>6. ac \in Url \cup {NoUrl}
    BY <1>0
  <2> HIDE DEF ns, ac
  <2> QED
    BY <1>0, <1>1, <2>2, <2>3, <2>4, <2>5, <2>6
<1>3. CASE RemoveNode(u)
  <2> DEFINE ns == Without(rpc.nodes, u)
             st == [rpc.status EXCEPT ![u] = "unknown"]
             ac == IF rpc.active # u THEN rpc.active
                   ELSE IF ns = <<>> THEN NoUrl ELSE Head(ns)
  <2>1. rpc' = [nodes |-> ns, status |-> st, active |-> ac] /\ stored' = rpc'
        /\ UNCHANGED <<probes, probing, loaded>> /\ u \in Members(rpc.nodes)
    <3>1. rpc' = [rpc EXCEPT !.nodes = ns, !.status[u] = "unknown", !.active = ac]
      BY <1>3 DEF RemoveNode, Shows
    <3> HIDE DEF ns, ac
    <3>2. rpc' = [nodes |-> ns, status |-> st, active |-> ac]
      BY <1>0, <3>1
    <3> QED
      BY <1>3, <3>2 DEF RemoveNode, Shows, Has
  <2>2. /\ ns \in Seq(Url) /\ ~HasDuplicates(ns)
        /\ Members(ns) = Members(rpc.nodes) \ {u}
    BY <1>0, WithoutOne
  <2> HIDE DEF ns
  <2>3. ns # <<>> => Head(ns) \in Members(ns) /\ Head(ns) \in Url
    BY <2>2 DEF Members
  <2>4. Has(rpc.nodes, rpc.active)
    <3>1. rpc.nodes # <<>>
      BY <2>1, MembersEmpty
    <3> QED
      BY <3>1 DEF NodesInv, EndpointsOK
  <2>5. ac \in Url \cup {NoUrl} /\ (ns # <<>> => Has(ns, ac))
    BY <1>0, <2>2, <2>3, <2>4 DEF Has
  <2>6. ns = <<>> => ac = NoUrl
    BY <2>2, <2>4, MembersEmpty DEF Has
  <2>7. /\ st \in [Url -> {"unknown", "checking", "healthy", "unreachable"}]
        /\ st[u] = "unknown" /\ \A v \in Url \ {u} : st[v] = rpc.status[v]
    BY <1>0
  <2>8. \A v \in Url : ~Has(ns, v) => st[v] = "unknown"
    BY <2>2, <2>7 DEF NodesInv, EndpointsOK, Has
  <2>9. \A v \in Url : st[v] = "checking" => rpc.status[v] = "checking"
    BY <2>7
  <2> HIDE DEF st, ac
  <2> QED
    BY <1>1, <2>1, <2>2, <2>5, <2>6, <2>7, <2>8, <2>9
<1>4. CASE SetActive(u)
  <2>1. rpc' = [rpc EXCEPT !.active = u] /\ stored' = rpc' /\ Has(rpc.nodes, u)
        /\ UNCHANGED <<probes, probing, loaded>>
    BY <1>4 DEF SetActive, Shows
  <2>2. rpc' = [nodes |-> rpc.nodes, status |-> rpc.status, active |-> u]
    BY <1>0, <2>1
  <2>3. rpc.nodes # <<>>
    BY <2>1, MembersEmpty DEF Has
  <2>4. \A v \in Url : ~Has(rpc.nodes, v) => rpc.status[v] = "unknown"
    BY DEF NodesInv, EndpointsOK
  <2> QED
    BY <1>0, <1>1, <2>1, <2>2, <2>3, <2>4
<1> QED
  BY <1>2, <1>3, <1>4

\* So do the results of probes and the start of a round.
LEMMA ProbeStep ==
    ASSUME NodesInv,
           \/ ProbeAll
           \/ \E u \in Url : HeadRefused(u)
           \/ \E u \in Url, res \in {"healthy", "unreachable"} : ProbeEnds(u, res)
    PROVE  NodesInv'
<1> DEFINE Status == {"unknown", "checking", "healthy", "unreachable"}
<1>0. /\ rpc.nodes \in Seq(Url) /\ rpc.status \in [Url -> Status]
      /\ rpc = [nodes |-> rpc.nodes, status |-> rpc.status, active |-> rpc.active]
  BY DEF NodesInv, EndpointsOK
<1>1. ASSUME NEW st \in [Url -> Status], rpc' = [rpc EXCEPT !.status = st],
             \A u \in Url : ~Has(rpc.nodes, u) => st[u] = "unknown"
      PROVE  EndpointsOK(rpc)' /\ rpc'.status = st
  <2>1. rpc' = [nodes |-> rpc.nodes, status |-> st, active |-> rpc.active]
    BY <1>0, <1>1
  <2>2. rpc'.nodes = rpc.nodes /\ rpc'.status = st /\ rpc'.active = rpc.active
    BY <2>1
  <2> QED
    BY <1>1, <2>1, <2>2 DEF NodesInv, EndpointsOK
<1>2. CASE ProbeAll
  <2> DEFINE st == [u \in Url |-> IF Has(rpc.nodes, u) THEN "checking" ELSE rpc.status[u]]
  <2>1. rpc' = [rpc EXCEPT !.status = st] /\ stored' = rpc' /\ probing' = TRUE
        /\ probes' = [u \in Url |-> IF Has(rpc.nodes, u) THEN "HEAD" ELSE "none"]
    BY <1>2 DEF ProbeAll, Shows
  <2>2. st \in [Url -> Status] /\ \A u \in Url : ~Has(rpc.nodes, u) => st[u] = "unknown"
    BY <1>0 DEF NodesInv, EndpointsOK
  <2>2a. \A u \in Url : st[u] = "checking" => Has(rpc.nodes, u)
    BY <2>2
  <2> HIDE DEF st
  <2>3. EndpointsOK(rpc)' /\ rpc'.status = st
    BY <1>1, <2>1, <2>2
  <2>4. EndpointsOK(stored)'
    BY <2>1, <2>3 DEF EndpointsOK
  <2>5. ProbesOK'
    BY <2>1, <2>2a, <2>3 DEF ProbesOK
  <2> QED
    BY <2>3, <2>4, <2>5 DEF NodesInv
<1>3. ASSUME NEW u \in Url, HeadRefused(u) PROVE NodesInv'
  <2>1. /\ UNCHANGED <<rpc, stored, probing, loaded>>
        /\ probes[u] = "HEAD" /\ probes' = [probes EXCEPT ![u] = "GET"]
    BY <1>3 DEF HeadRefused
  <2>2. probing
    BY <2>1 DEF NodesInv, ProbesOK, NoProbes
  <2>3. ProbesOK'
    BY <2>1, <2>2 DEF NodesInv, ProbesOK
  <2> QED
    BY <2>1, <2>3 DEF NodesInv, EndpointsOK
<1>4. ASSUME NEW u \in Url, NEW res \in {"healthy", "unreachable"}, ProbeEnds(u, res)
      PROVE  NodesInv'
  <2>1. /\ probes' = [probes EXCEPT ![u] = "none"]
        /\ rpc' = IF Has(rpc.nodes, u) THEN [rpc EXCEPT !.status[u] = res] ELSE rpc
        /\ probing' = (probes' # NoProbes) /\ UNCHANGED <<stored, loaded>>
    BY <1>4 DEF ProbeEnds
  <2>2. /\ EndpointsOK(rpc)'
        /\ \A v \in Url : rpc'.status[v] = "checking" => v # u /\ rpc.status[v] = "checking"
    <3>1. CASE Has(rpc.nodes, u)
      <4> DEFINE st == [rpc.status EXCEPT ![u] = res]
      <4>1. rpc' = [rpc EXCEPT !.status = st]
        BY <1>0, <2>1, <3>1
      <4>2. st \in [Url -> Status] /\ st[u] = res /\ \A v \in Url \ {u} : st[v] = rpc.status[v]
        BY <1>0
      <4> HIDE DEF st
      <4>3. \A v \in Url : ~Has(rpc.nodes, v) => st[v] = "unknown"
        BY <3>1, <4>2 DEF NodesInv, EndpointsOK
      <4>4. EndpointsOK(rpc)' /\ rpc'.status = st
        BY <1>1, <4>1, <4>2, <4>3
      <4> QED
        BY <4>2, <4>4
    <3>2. CASE ~Has(rpc.nodes, u)
      <4>1. rpc' = rpc
        BY <2>1, <3>2
      <4> QED
        BY <3>2, <4>1 DEF NodesInv, EndpointsOK
    <3> QED
      BY <3>1, <3>2
  <2>3. ProbesOK'
    BY <2>1, <2>2 DEF NodesInv, ProbesOK
  <2>4. EndpointsOK(stored)'
    BY <2>1 DEF NodesInv, EndpointsOK
  <2> QED
    BY <2>2, <2>3, <2>4 DEF NodesInv
<1> QED
  BY <1>2, <1>3, <1>4

\* Mounting the panel, now or on another tab, and the effect that stores.
LEMMA MountStep ==
    ASSUME NodesInv,
           \/ RpcMounts
           \/ Persists
           \/ /\ stored' = rpc \/ stored' = stored
              /\ rpc' = Empty /\ probes' = NoProbes /\ probing' = FALSE /\ loaded' = {}
           \/ UNCHANGED rpcVars
    PROVE  NodesInv'
<1>1. CASE RpcMounts
  <2>1. stored = [nodes |-> stored.nodes, status |-> stored.status, active |-> stored.active]
    BY DEF NodesInv, EndpointsOK
  <2>2. (IF Has(stored.nodes, stored.active) THEN stored.active ELSE NoUrl) = stored.active
    BY MembersEmpty DEF NodesInv, EndpointsOK, Has
  <2>3. Loaded(stored) = stored
    BY <2>1, <2>2 DEF Loaded
  <2>4. rpc' = stored /\ stored' = stored /\ probes' = NoProbes /\ probing' = FALSE
        /\ loaded' = {u \in Url : Has(stored.nodes, u) /\ stored.status[u] = "checking"}
    BY <1>1, <2>3 DEF RpcMounts
  <2>5. EndpointsOK(rpc)' /\ EndpointsOK(stored)'
    BY <2>4 DEF NodesInv, EndpointsOK
  <2>6. \A u \in Url : rpc'.status[u] = "checking" => u \in loaded'
    BY <2>4 DEF NodesInv, EndpointsOK
  <2>7. ProbesOK'
    BY <2>4, <2>6 DEF ProbesOK, NoProbes
  <2> QED
    BY <2>5, <2>7 DEF NodesInv
<1>2. CASE Persists
  BY <1>2 DEF Persists, NodesInv, EndpointsOK, ProbesOK, NoProbes
<1>3. CASE /\ stored' = rpc \/ stored' = stored
           /\ rpc' = Empty /\ probes' = NoProbes /\ probing' = FALSE /\ loaded' = {}
  <2>1. EndpointsOK(stored)'
    BY <1>3 DEF NodesInv, EndpointsOK
  <2>2. EndpointsOK(rpc)'
    BY <1>3, EmptyIsOK DEF EndpointsOK
  <2>3. \A u \in Url : rpc'.status[u] = "unknown"
    BY <1>3 DEF Empty
  <2>4. ProbesOK'
    BY <1>3, <2>3 DEF ProbesOK, NoProbes
  <2> QED
    BY <2>1, <2>2, <2>4 DEF NodesInv
<1>4. CASE UNCHANGED rpcVars
  BY <1>4 DEF rpcVars, NodesInv, EndpointsOK, ProbesOK, NoProbes
<1> QED
  BY <1>1, <1>2, <1>3, <1>4

LEMMA NodesStep == NodesInv /\ [DashboardNext]_dashboardVars => NodesInv'
<1> SUFFICES ASSUME NodesInv, [DashboardNext]_dashboardVars PROVE NodesInv'
  OBVIOUS
<1>1. CASE RpcMoves
  BY <1>1, ClickStep, ProbeStep, MountStep DEF RpcMoves
<1>2. ASSUME NEW tab, SwitchTo(tab) PROVE NodesInv'
  BY <1>2, MountStep DEF SwitchTo
<1>3. CASE Reload
  BY <1>3, MountStep DEF Reload
<1>4. CASE UNCHANGED rpcVars
  BY <1>4, MountStep
<1> QED
  BY <1>1, <1>2, <1>3, <1>4 DEF DashboardNext, dashboardVars

LEMMA NodesStart == DashboardInit => NodesInv
<1> SUFFICES ASSUME DashboardInit PROVE NodesInv
  OBVIOUS
<1>1. stored = Empty /\ rpc = Empty /\ probes = NoProbes /\ probing = FALSE /\ loaded = {}
  BY DEF DashboardInit, RpcInit
<1>2. \A u \in Url : Empty.status[u] = "unknown"
  BY DEF Empty
<1>3. EndpointsOK(rpc) /\ EndpointsOK(stored)
  BY <1>1, EmptyIsOK
<1>4. ProbesOK
  BY <1>1, <1>2 DEF ProbesOK, NoProbes
<1> QED
  BY <1>3, <1>4 DEF NodesInv

\* A host that reads localStorage gets every endpoint once, the selected one
\* first and the fallback's last, for any endpoints and any history of the panel.
THEOREM HostsStartWithTheSelection == DashboardSpec => []HostStartsWithSelection
<1>1. NodesInv => HostStartsWithSelection
  BY HostReads DEF NodesInv
<1> QED
  BY <1>1, NodesStart, NodesStep, PTL DEF DashboardSpec

\* Every round of probes ends with a result for each node that is still there,
\* whatever was removed and added meanwhile.
THEOREM ProbesLeaveNobodyChecking == DashboardSpec => []NoProbeLeftBehind
<1>1. NodesInv => NoProbeLeftBehind
  BY DEF NodesInv, ProbesOK, NoProbes, NoProbeLeftBehind
<1> QED
  BY <1>1, NodesStart, NodesStep, PTL DEF DashboardSpec

-----------------------------------------------------------------------------
(* The dashboard: the guardian form *)

\* What is being saved was valid when it was handed over, no edit reaches it, and
\* nothing is submitted meanwhile; without a handler nothing is ever saved.
FormInv ==
    /\ saving.on => /\ \A f \in Field : saving.value[f] \in Valid[f]
                    /\ submitted = {saving.value}
                    /\ onSave
    /\ ~onSave => saved = {}
    /\ BannerIsWhatWasSubmitted

LEMMA FormStep == FormInv /\ [DashboardNext]_dashboardVars => FormInv'
<1> SUFFICES ASSUME FormInv, [DashboardNext]_dashboardVars PROVE FormInv'
  OBVIOUS
<1> USE DEF FormInv, BannerIsWhatWasSubmitted
<1>1. CASE Submit
  BY <1>1 DEF Submit, isValid, errors, Idle
<1>2. ASSUME NEW ok \in BOOLEAN, SaveSettles(ok) PROVE FormInv'
  BY <1>2 DEF SaveSettles, NotSaving, Idle
<1>3. CASE Reset
  BY <1>3 DEF Reset, Idle, histVars
<1>4. CASE FormMounts
  BY <1>4 DEF FormMounts, NotSaving, Idle
<1>5. CASE UNCHANGED <<onSave, saving, submitState, histVars>>
  BY <1>5 DEF histVars
<1>6. CASE FormMoves
  BY <1>1, <1>2, <1>3, <1>5, <1>6 DEF FormMoves, setValue, handleBlur
<1> QED
  BY <1>4, <1>5, <1>6 DEF DashboardNext, dashboardVars, SwitchTo, Reload, formVars

\* The success banner names what was submitted last and is valid, and was saved
\* if there is a handler, for any fields, any schema, and any edits, resets and
\* tab changes during a save.
THEOREM BannersAreTrue == DashboardSpec => []BannerIsWhatWasSubmitted
<1>1. DashboardInit => FormInv
  BY DEF DashboardInit, FormInit, FormInv, NotSaving, Idle, BannerIsWhatWasSubmitted
<1>2. FormInv => BannerIsWhatWasSubmitted
  BY DEF FormInv
<1> QED
  BY <1>1, <1>2, FormStep, PTL DEF DashboardSpec

-----------------------------------------------------------------------------
(* The dashboard: the CSV export.  Symbol by symbol, then field by field,    *)
(* line by line: what the reader makes of what the serialiser has written.   *)

\* What the reader has made of a text.
Reads(st, text) == Folded(Reading, st, text)

\* The reader is a step function on its states.
LEMMA ReadingIsStep ==
    /\ IsStep(Reading, ReaderState, Symbol)
    /\ \A st \in ReaderState, c \in Symbol : Reading[<<st, c>>] = Read(st, c)
<1>1. ASSUME NEW st \in ReaderState, NEW c \in Symbol PROVE Read(st, c) \in ReaderState
  <2>1. /\ st.rows \in Seq(Seq(Text)) /\ st.row \in Seq(Text) /\ st.field \in Seq(Symbol)
        /\ st.open \in BOOLEAN /\ st.closed \in BOOLEAN
    BY DEF ReaderState, Text
  <2>2. Append(st.field, c) \in Text /\ Append(st.field, "quote") \in Text /\ <<>> \in Text
    BY <2>1 DEF Text, Symbol
  <2>3. st.field \in Text
    BY <2>1 DEF Text
  <2>4. Append(st.row, st.field) \in Seq(Text)
    BY <2>1, <2>3
  <2>5. Append(st.rows, Append(st.row, st.field)) \in Seq(Seq(Text))
    BY <2>1, <2>4
  <2>6. st = [rows |-> st.rows, row |-> st.row, field |-> st.field, open |-> st.open, closed |-> st.closed]
    BY DEF ReaderState
  <2>7. /\ \A f \in Text, o, d \in BOOLEAN :
             [rows |-> st.rows, row |-> st.row, field |-> f, open |-> o, closed |-> d] \in ReaderState
        /\ [rows |-> st.rows, row |-> Append(st.row, st.field), field |-> <<>>,
            open |-> st.open, closed |-> FALSE] \in ReaderState
        /\ [rows |-> Append(st.rows, Append(st.row, st.field)), row |-> <<>>, field |-> <<>>,
            open |-> FALSE, closed |-> FALSE] \in ReaderState
    <3>1. <<>> \in Seq(Text)
      OBVIOUS
    <3> QED
      BY <2>1, <2>2, <2>3, <2>4, <2>5, <3>1 DEF ReaderState
  <2>8. CASE st.open
    BY <2>1, <2>2, <2>3, <2>6, <2>7, <2>8 DEF Read
  <2>9. CASE ~st.open
    BY <2>1, <2>2, <2>3, <2>6, <2>7, <2>9 DEF Read, Start
  <2> QED
    BY <2>8, <2>9
<1>2. \A p \in ReaderState \X Symbol : Read(p[1], p[2]) \in ReaderState
  BY <1>1
<1> QED
  BY <1>2 DEF Reading, IsStep

\* Reading goes on where it stopped: text after text, symbol after symbol.
LEMMA ReadsOn ==
    ASSUME NEW st \in ReaderState
    PROVE  /\ Reads(st, <<>>) = st
           /\ \A t \in Text : Reads(st, t) \in ReaderState
           /\ \A t, u \in Text : Reads(st, t \o u) = Reads(Reads(st, t), u)
           /\ \A t \in Text, c \in Symbol : Reads(st, Append(t, c)) = Read(Reads(st, t), c)
           /\ \A c \in Symbol : Reads(st, <<c>>) = Read(st, c)
<1>1. Reads(st, <<>>) = st
  BY ReadingIsStep, FoldedAppend DEF Reads
<1>2. ASSUME NEW t \in Text, NEW u \in Text
      PROVE  Reads(st, t) \in ReaderState /\ Reads(st, t \o u) = Reads(Reads(st, t), u)
  BY ReadingIsStep, FoldedConcat DEF Reads, Text
<1>3. ASSUME NEW t \in Text, NEW c \in Symbol PROVE Reads(st, Append(t, c)) = Read(Reads(st, t), c)
  <2>1. Reads(st, Append(t, c)) = Reading[<<Reads(st, t), c>>]
    BY ReadingIsStep, FoldedAppend DEF Reads, Text
  <2> QED
    BY <1>2, <2>1, ReadingIsStep
<1>4. ASSUME NEW c \in Symbol PROVE Reads(st, <<c>>) = Read(st, c)
  <2>1. <<>> \in Text /\ <<c>> = Append(<<>>, c)
    BY DEF Text
  <2> QED
    BY <1>1, <1>3, <2>1
<1> QED
  BY <1>1, <1>2, <1>3, <1>4

\* q comes from st by adding text to the field that is being read.
Adds(st, q, text, open) ==
    /\ q.rows = st.rows /\ q.row = st.row
    /\ q.field = st.field \o text
    /\ q.open = open

\* Text added in two parts is the two parts in a row.
LEMMA AddsTwice ==
    ASSUME NEW st \in ReaderState, NEW q, NEW r, NEW t \in Text, NEW u \in Text,
           NEW o, NEW p, Adds(st, q, t, o), Adds(q, r, u, p)
    PROVE  Adds(st, r, t \o u, p)
<1>1. st.field \in Seq(Symbol) /\ t \in Seq(Symbol) /\ u \in Seq(Symbol)
  BY DEF ReaderState, Text
<1>2. (st.field \o t) \o u = st.field \o (t \o u)
  <2> DEFINE f == st.field
  <2>1. f \in Seq(Symbol)
    BY <1>1
  <2> HIDE DEF f
  <2>2. (f \o t) \o u = f \o (t \o u)
    BY <1>1, <2>1, ConcatAssociative
  <2> QED
    BY <2>2 DEF f
<1> QED
  BY <1>2 DEF Adds

\* What a symbol does, outside quotes and inside.
LEMMA ReadAdds ==
    ASSUME NEW q \in ReaderState
    PROVE  /\ \A c \in Symbol \ {"quote", "comma", "crlf"} :
                 ~q.open => Adds(q, Read(q, c), <<c>>, FALSE)
           /\ \A c \in Symbol \ {"quote"} : q.open => Adds(q, Read(q, c), <<c>>, TRUE)
           /\ ~q.open /\ ~q.closed => Adds(q, Read(q, "quote"), <<>>, TRUE)
           /\ q.open => /\ Adds(q, Read(q, "quote"), <<>>, FALSE)
                        /\ Adds(q, Read(Read(q, "quote"), "quote"), <<"quote">>, TRUE)
<1>1. q.field \in Seq(Symbol) /\ q.open \in BOOLEAN /\ q.closed \in BOOLEAN
  BY DEF ReaderState, Text
<1>2. \A c \in Symbol : Append(q.field, c) = q.field \o <<c>>
  BY <1>1, AppendIsConcat
<1>3. q.field \o <<>> = q.field /\ "quote" \in Symbol
  BY <1>1, ConcatEmptySeq DEF Symbol
<1>4. q = [rows |-> q.rows, row |-> q.row, field |-> q.field, open |-> q.open, closed |-> q.closed]
  BY DEF ReaderState
<1>5. ASSUME NEW c \in Symbol \ {"quote", "comma", "crlf"}, ~q.open PROVE Adds(q, Read(q, c), <<c>>, FALSE)
  BY <1>1, <1>2, <1>4, <1>5 DEF Read, Adds
<1>6. ASSUME NEW c \in Symbol \ {"quote"}, q.open PROVE Adds(q, Read(q, c), <<c>>, TRUE)
  BY <1>1, <1>2, <1>4, <1>6 DEF Read, Adds
<1>7. ASSUME ~q.open, ~q.closed PROVE Adds(q, Read(q, "quote"), <<>>, TRUE)
  BY <1>1, <1>3, <1>4, <1>7 DEF Read, Adds
<1>8. ASSUME q.open
      PROVE  /\ Adds(q, Read(q, "quote"), <<>>, FALSE)
             /\ Adds(q, Read(Read(q, "quote"), "quote"), <<"quote">>, TRUE)
  <2> DEFINE r == [rows |-> q.rows, row |-> q.row, field |-> q.field, open |-> FALSE, closed |-> TRUE]
  <2>1. Read(q, "quote") = r
    BY <1>1, <1>4, <1>8 DEF Read
  <2>2. Adds(q, r, <<>>, FALSE)
    BY <1>3 DEF Adds
  <2>3. Adds(q, Read(r, "quote"), <<"quote">>, TRUE)
    BY <1>2, <1>3 DEF Read, Adds
  <2> QED
    BY <2>1, <2>2, <2>3
<1> QED
  BY <1>5, <1>6, <1>7, <1>8

\* Outside quotes a text without quotes, commas and line ends is read as it is.
Plain(t) == \A i \in DOMAIN t : t[i] \notin {"quote", "comma", "crlf"}

\* So it does: the reader adds the text to the field and stays outside quotes.
LEMMA PlainReads ==
    ASSUME NEW st \in ReaderState, ~st.open
    PROVE  \A t \in Text : Plain(t) => Adds(st, Reads(st, t), t, FALSE)
<1> DEFINE S == {t \in Text : Plain(t) => Adds(st, Reads(st, t), t, FALSE)}
<1>0. st.field \in Seq(Symbol) /\ st.open = FALSE
  BY DEF ReaderState, Text
<1>1. <<>> \in S
  <2>1. st.field \o <<>> = st.field /\ <<>> \in Text
    BY <1>0, ConcatEmptySeq DEF Text
  <2>2. Reads(st, <<>>) = st
    BY ReadsOn
  <2>3. Adds(st, st, <<>>, FALSE)
    BY <1>0, <2>1 DEF Adds
  <2> QED
    BY <2>1, <2>2, <2>3
<1>2. ASSUME NEW t \in Seq(Symbol), NEW c \in Symbol, t \in S PROVE Append(t, c) \in S
  <2>1. Append(t, c) \in Text /\ t \in Text /\ <<c>> \in Text /\ Append(t, c) = t \o <<c>>
    BY AppendIsConcat DEF Text
  <2>2. ASSUME Plain(Append(t, c)) PROVE Adds(st, Reads(st, Append(t, c)), Append(t, c), FALSE)
    <3>1. Plain(t) /\ c \notin {"quote", "comma", "crlf"}
      <4>1. /\ DOMAIN Append(t, c) = 1..(Len(t) + 1) /\ DOMAIN t = 1..Len(t) /\ Len(t) \in Nat
            /\ Append(t, c)[Len(t) + 1] = c /\ \A i \in 1..Len(t) : Append(t, c)[i] = t[i]
        OBVIOUS
      <4> QED
        BY <2>2, <4>1 DEF Plain
    <3>2. Adds(st, Reads(st, t), t, FALSE)
      BY <1>2, <3>1
    <3>3. Reads(st, t) \in ReaderState /\ Reads(st, Append(t, c)) = Read(Reads(st, t), c)
      BY <2>1, ReadsOn
    <3>4. ~Reads(st, t).open
      BY <3>2 DEF Adds
    <3>5. Adds(Reads(st, t), Read(Reads(st, t), c), <<c>>, FALSE)
      BY <3>1, <3>3, <3>4, ReadAdds
    <3> QED
      BY <2>1, <3>2, <3>3, <3>5, AddsTwice
  <2> QED
    BY <2>1, <2>2
<1>3. \A t \in Seq(Symbol) : t \in S
  <2> HIDE DEF S
  <2> QED
    BY <1>1, <1>2, SequenceInduction
<1> QED
  BY <1>3 DEF Text

\* The text with its quotes doubled.
Doubled(t) == Folded(Doubling, <<>>, t)

\* Doubling the quotes goes symbol by symbol.
LEMMA DoubledGrows ==
    /\ Doubled(<<>>) = <<>>
    /\ \A t \in Text : Doubled(t) \in Text
    /\ \A t \in Text, c \in Symbol :
          Doubled(Append(t, c)) = Doubled(t) \o IF c = "quote" THEN <<c, c>> ELSE <<c>>
<1>1. <<>> \in Text
  BY DEF Text
<1>2. ASSUME NEW t \in Text, NEW c \in Symbol
      PROVE  /\ t \o (IF c = "quote" THEN <<c, c>> ELSE <<c>>) \in Text
             /\ Doubling[<<t, c>>] = t \o (IF c = "quote" THEN <<c, c>> ELSE <<c>>)
  <2>1. <<c, c>> \in Seq(Symbol) /\ <<c>> \in Seq(Symbol)
    OBVIOUS
  <2>2. t \o (IF c = "quote" THEN <<c, c>> ELSE <<c>>) \in Text
    BY <2>1 DEF Text
  <2> QED
    BY <2>2 DEF Doubling
<1>3. IsStep(Doubling, Text, Symbol)
  BY <1>2 DEF Doubling, IsStep
<1>4. ASSUME NEW t \in Text PROVE Doubled(t) \in Text
  BY <1>1, <1>3, FoldedConcat DEF Doubled, Text
<1>5. Doubled(<<>>) = <<>>
  BY <1>1, <1>3, FoldedAppend DEF Doubled
<1>6. ASSUME NEW t \in Text, NEW c \in Symbol
      PROVE  Doubled(Append(t, c)) = Doubled(t) \o IF c = "quote" THEN <<c, c>> ELSE <<c>>
  <2>1. t \in Seq(Symbol)
    BY DEF Text
  <2>2. Doubled(Append(t, c)) = Doubling[<<Doubled(t), c>>]
    BY <1>1, <1>3, <2>1, FoldedAppend DEF Doubled
  <2> QED
    BY <1>2, <1>4, <2>2
<1> QED
  BY <1>4, <1>5, <1>6

\* Inside quotes any text is read as it is once its quotes are doubled.
LEMMA DoubledReads ==
    ASSUME NEW st \in ReaderState, st.open
    PROVE  \A t \in Text : Adds(st, Reads(st, Doubled(t)), t, TRUE)
<1> DEFINE S == {t \in Text : Adds(st, Reads(st, Doubled(t)), t, TRUE)}
<1>0. st.field \in Seq(Symbol) /\ st.open = TRUE
  BY DEF ReaderState, Text
<1>1. <<>> \in S
  <2>1. st.field \o <<>> = st.field /\ <<>> \in Text
    BY <1>0, ConcatEmptySeq DEF Text
  <2>2. Reads(st, Doubled(<<>>)) = st
    BY ReadsOn, DoubledGrows
  <2>3. Adds(st, st, <<>>, TRUE)
    BY <1>0, <2>1 DEF Adds
  <2> QED
    BY <2>1, <2>2, <2>3
<1>2. ASSUME NEW t \in Seq(Symbol), NEW c \in Symbol, t \in S PROVE Append(t, c) \in S
  <2> DEFINE q == Reads(st, Doubled(t))
             d == IF c = "quote" THEN <<c, c>> ELSE <<c>>
  <2>1. Append(t, c) \in Text /\ t \in Text /\ <<c>> \in Text /\ Append(t, c) = t \o <<c>>
    BY AppendIsConcat DEF Text
  <2>2. Adds(st, q, t, TRUE)
    BY <1>2
  <2>3. Doubled(t) \in Text /\ q \in ReaderState
    BY <2>1, ReadsOn, DoubledGrows
  <2>4. d \in Text
    <3>1. <<c, c>> \in Seq(Symbol) /\ <<c>> \in Seq(Symbol)
      OBVIOUS
    <3> QED
      BY <3>1 DEF Text
  <2>5. Reads(st, Doubled(Append(t, c))) = Reads(q, d)
    <3>1. Doubled(Append(t, c)) = Doubled(t) \o d
      BY <2>1, DoubledGrows
    <3> HIDE DEF d
    <3> QED
      BY <2>3, <2>4, <3>1, ReadsOn
  <2>6. q.open
    BY <2>2 DEF Adds
  <2> HIDE DEF q
  <2>7. Adds(q, Reads(q, d), <<c>>, TRUE)
    <3>1. CASE c = "quote"
      <4>1. d = Append(<<c>>, c)
        BY <3>1
      <4>2. Reads(q, d) = Read(Read(q, c), c)
        <5>1. Reads(q, Append(<<c>>, c)) = Read(Reads(q, <<c>>), c)
          BY <2>1, <2>3, ReadsOn
        <5>2. Reads(q, <<c>>) = Read(q, c)
          BY <2>3, ReadsOn
        <5> HIDE DEF d
        <5> QED
          BY <4>1, <5>1, <5>2
      <4> QED
        BY <2>3, <2>6, <3>1, <4>2, ReadAdds
    <3>2. CASE c # "quote"
      <4>1. Reads(q, d) = Read(q, c)
        BY <2>3, <3>2, ReadsOn
      <4> QED
        BY <2>3, <2>6, <3>2, <4>1, ReadAdds
    <3> QED
      BY <3>1, <3>2
  <2>8. Adds(st, Reads(q, d), t \o <<c>>, TRUE)
    <3> HIDE DEF d
    <3> QED
      BY <2>1, <2>2, <2>7, AddsTwice
  <2> QED
    BY <2>1, <2>5, <2>8
<1>3. \A t \in Seq(Symbol) : t \in S
  <2> HIDE DEF S
  <2> QED
    BY <1>1, <1>2, SequenceInduction
<1> QED
  BY <1>3 DEF Text

\* An escaped field is read as the field, with its formula neutralized.
LEMMA FieldReads ==
    ASSUME NEW st \in ReaderState, ~st.open, ~st.closed, NEW f \in Text
    PROVE  /\ Neutralized(f) \in Text /\ escapeCsvField(f) \in Text
           /\ Adds(st, Reads(st, escapeCsvField(f)), Neutralized(f), FALSE)
<1> DEFINE t == Neutralized(f)
<1>1. t \in Text
  <2>1. <<"apostrophe">> \in Seq(Symbol) /\ f \in Seq(Symbol)
    BY DEF Symbol, Text
  <2> QED
    BY <2>1 DEF Neutralized, Text
<1> HIDE DEF t
<1>2. CASE Plain(t)
  <2>1. escapeCsvField(f) = t
    BY <1>2 DEF escapeCsvField, Plain, t
  <2> QED
    BY <1>1, <1>2, <2>1, PlainReads DEF t
<1>3. CASE ~Plain(t)
  <2> DEFINE m == <<"quote">>
             d == Doubled(t)
  <2>1. escapeCsvField(f) = (m \o d) \o m
    BY <1>3 DEF escapeCsvField, Quoted, Plain, Doubled, t
  <2>2. m \in Text /\ d \in Text /\ "quote" \in Symbol
    BY <1>1, DoubledGrows DEF Text, Symbol
  <2>3. m \o d \in Text /\ (m \o d) \o m \in Text
    BY <2>2 DEF Text
  <2> DEFINE q1 == Reads(st, m)
             q2 == Reads(q1, d)
             q3 == Reads(q2, m)
  <2>4. q1 \in ReaderState /\ Adds(st, q1, <<>>, TRUE)
    BY <2>2, ReadsOn, ReadAdds
  <2>5. q2 \in ReaderState /\ Adds(q1, q2, t, TRUE)
    <3>1. q1.open
      BY <2>4 DEF Adds
    <3> HIDE DEF q1
    <3> QED
      BY <1>1, <2>2, <2>4, <3>1, ReadsOn, DoubledReads
  <2>6. Adds(q2, q3, <<>>, FALSE)
    <3>1. q2.open
      BY <2>5 DEF Adds
    <3> HIDE DEF q2
    <3>2. Reads(q2, m) = Read(q2, "quote")
      BY <2>2, <2>5, ReadsOn
    <3> QED
      BY <2>5, <3>1, <3>2, ReadAdds
  <2>7. Reads(st, (m \o d) \o m) = q3
    <3>1. Reads(st, m \o d) = q2
      BY <2>2, ReadsOn
    <3>2. Reads(st, (m \o d) \o m) = Reads(Reads(st, m \o d), m)
      BY <2>2, <2>3, ReadsOn
    <3> QED
      BY <3>1, <3>2
  <2> HIDE DEF q1, q2, q3, m, d
  <2>8. <<>> \in Text /\ (<<>> \o t) = t /\ t \o <<>> = t
    BY <1>1, ConcatEmptySeq DEF Text
  <2>9. Adds(st, q2, <<>> \o t, TRUE)
    BY <1>1, <2>4, <2>5, <2>8, AddsTwice
  <2>10. Adds(st, q3, t \o <<>>, FALSE)
    BY <1>1, <2>6, <2>8, <2>9, AddsTwice
  <2> QED
    BY <1>1, <2>1, <2>3, <2>7, <2>8, <2>10 DEF t
<1> QED
  BY <1>2, <1>3

\* What join makes of its parts, one part at a time.
LEMMA JoinedGrows ==
    ASSUME NEW sep \in Text
    PROVE  /\ \A parts \in Seq(Text) : Joined(parts, sep) \in Text
           /\ \A p \in Text : Joined(Append(<<>>, p), sep) = p
           /\ \A parts \in Seq(Text), p \in Text :
                 parts # <<>> => Joined(Append(parts, p), sep) = (Joined(parts, sep) \o sep) \o p
<1>1. <<>> \in Text
  BY DEF Text
<1>2. \A t, p \in Text : (t \o sep) \o p \in Text
  BY DEF Text
<1>3. IsStep(Joining(sep), Text, Text) /\ \A t, p \in Text : Joining(sep)[<<t, p>>] = (t \o sep) \o p
  BY <1>2 DEF Joining, IsStep
<1>4. ASSUME NEW parts \in Seq(Text) PROVE Joined(parts, sep) \in Text
  <2>1. CASE parts = <<>>
    BY <1>1, <2>1 DEF Joined
  <2>2. CASE parts # <<>>
    <3>1. parts[1] \in Text /\ Tail(parts) \in Seq(Text)
      BY <2>2
    <3> QED
      BY <1>3, <2>2, <3>1, FoldedConcat DEF Joined
  <2> QED
    BY <2>1, <2>2
<1>5. ASSUME NEW p \in Text PROVE Joined(Append(<<>>, p), sep) = p
  <2>1. Append(<<>>, p) # <<>> /\ Append(<<>>, p)[1] = p /\ Tail(Append(<<>>, p)) = <<>>
    OBVIOUS
  <2>2. Folded(Joining(sep), p, <<>>) = p
    BY <1>3, FoldedAppend
  <2> QED
    BY <2>1, <2>2 DEF Joined
<1>6. ASSUME NEW parts \in Seq(Text), NEW p \in Text, parts # <<>>
      PROVE  Joined(Append(parts, p), sep) = (Joined(parts, sep) \o sep) \o p
  <2> DEFINE more == Append(parts, p)
             first == parts[1]
             rest == Tail(parts)
  <2>1. /\ first \in Text /\ rest \in Seq(Text)
        /\ more # <<>> /\ more[1] = first
    BY <1>6
  <2>2. Tail(more) = Append(rest, p)
    BY <1>6, HeadTailAppend
  <2>3. Joined(more, sep) = Folded(Joining(sep), first, Append(rest, p))
    BY <2>1, <2>2 DEF Joined
  <2>4. Joined(parts, sep) = Folded(Joining(sep), first, rest)
    BY <1>6 DEF Joined
  <2> HIDE DEF more, first, rest
  <2>5. Folded(Joining(sep), first, Append(rest, p)) = Joining(sep)[<<Joined(parts, sep), p>>]
    BY <1>3, <2>1, <2>4, FoldedAppend
  <2> QED
    BY <1>3, <1>4, <2>3, <2>5 DEF more
<1> QED
  BY <1>4, <1>5, <1>6

\* What the two separators do.
LEMMA SeparatorsRead ==
    ASSUME NEW q \in ReaderState, ~q.open
    PROVE  /\ Read(q, "comma") = [rows |-> q.rows, row |-> Append(q.row, q.field), field |-> <<>>,
                                  open |-> FALSE, closed |-> FALSE]
           /\ Read(q, "crlf") = [Start EXCEPT !.rows = Append(q.rows, Append(q.row, q.field))]
<1> DEFINE a == q.rows
           b == q.row
           f == q.field
           d == q.closed
           r == [rows |-> a, row |-> b, field |-> f, open |-> FALSE, closed |-> d]
<1>1. q = r
  BY DEF ReaderState
<1> HIDE DEF a, b, f, d
<1>2. Read(r, "comma") = [rows |-> a, row |-> Append(b, f), field |-> <<>>,
                          open |-> FALSE, closed |-> FALSE]
  BY DEF Read
<1>3. Read(r, "crlf") = [Start EXCEPT !.rows = Append(a, Append(b, f))]
  BY DEF Read
<1> QED
  BY <1>1, <1>2, <1>3 DEF a, b, f

\* A row as it is written, and as it should be read back.
Escaped(row) == [j \in DOMAIN row |-> escapeCsvField(row[j])]
Neutral(row) == [j \in DOMAIN row |-> Neutralized(row[j])]

\* Escaping and neutralizing go field by field.
LEMMA FieldByField ==
    ASSUME NEW row \in Seq(Text), NEW f \in Text
    PROVE  /\ Escaped(row) \in Seq(Text) /\ Neutral(row) \in Seq(Text)
           /\ Escaped(row) = <<>> <=> row = <<>>
           /\ Escaped(Append(row, f)) = Append(Escaped(row), escapeCsvField(f))
           /\ Neutral(Append(row, f)) = Append(Neutral(row), Neutralized(f))
<1> DEFINE n == Len(row)
           more == Append(row, f)
<1>1. Start \in ReaderState /\ ~Start.open /\ ~Start.closed
  BY DEF Start, ReaderState, Text
<1>2. \A g \in Text : Neutralized(g) \in Text /\ escapeCsvField(g) \in Text
  BY <1>1, FieldReads
<1>3. /\ n \in Nat /\ DOMAIN row = 1..n /\ DOMAIN more = 1..(n + 1)
      /\ more[n + 1] = f /\ \A i \in 1..n : more[i] = row[i] /\ row[i] \in Text
  OBVIOUS
<1>4. /\ Escaped(row) = [i \in 1..n |-> escapeCsvField(row[i])]
      /\ Neutral(row) = [i \in 1..n |-> Neutralized(row[i])]
      /\ Escaped(more) = [i \in 1..(n + 1) |-> escapeCsvField(more[i])]
      /\ Neutral(more) = [i \in 1..(n + 1) |-> Neutralized(more[i])]
  BY <1>3 DEF Escaped, Neutral
<1> HIDE DEF n, more
<1>5. Escaped(row) \in Seq(Text) /\ Len(Escaped(row)) = n
  BY <1>2, <1>3, <1>4
<1>6. Neutral(row) \in Seq(Text) /\ Len(Neutral(row)) = n
  BY <1>2, <1>3, <1>4
<1>7. Escaped(row) = <<>> <=> row = <<>>
  BY <1>5 DEF n
<1>8. Escaped(more) = Append(Escaped(row), escapeCsvField(f))
  BY <1>2, <1>3, <1>4, <1>5
<1>9. Neutral(more) = Append(Neutral(row), Neutralized(f))
  BY <1>2, <1>3, <1>4, <1>6
<1> QED
  BY <1>5, <1>6, <1>7, <1>8, <1>9 DEF more

\* A line is read field by field; the last one is still being read.
LEMMA LineReads ==
    ASSUME NEW st \in ReaderState, st.row = <<>>, st.field = <<>>, ~st.open, ~st.closed
    PROVE  \A row \in Seq(Text) :
              row # <<>> =>
                LET q == Reads(st, Line(row))
                IN  /\ q.rows = st.rows /\ ~q.open
                    /\ Append(q.row, q.field) = Neutral(row)
<1> DEFINE sep == <<"comma">>
           Good(row, q) == /\ q.rows = st.rows /\ ~q.open
                           /\ Append(q.row, q.field) = Neutral(row)
           S == {row \in Seq(Text) : row # <<>> => Good(row, Reads(st, Line(row)))}
<1>1. sep \in Text /\ "comma" \in Symbol /\ "crlf" \in Symbol
  BY DEF Text, Symbol
<1>2. <<>> \in S
  OBVIOUS
<1>3. ASSUME NEW row \in Seq(Text), NEW f \in Text, row \in S PROVE Append(row, f) \in S
  <2> DEFINE more == Append(row, f)
             e == escapeCsvField(f)
  <2>1. more \in Seq(Text)
    OBVIOUS
  <2>2. /\ Escaped(row) \in Seq(Text) /\ Neutral(row) \in Seq(Text)
        /\ (Escaped(row) = <<>> <=> row = <<>>)
        /\ Escaped(more) = Append(Escaped(row), e)
        /\ Neutral(more) = Append(Neutral(row), Neutralized(f))
    BY FieldByField
  <2>3. Line(row) = Joined(Escaped(row), sep) /\ Line(more) = Joined(Escaped(more), sep)
    BY DEF Line, Escaped
  <2>4. e \in Text /\ Neutralized(f) \in Text
    BY FieldReads
  <2>5. Line(row) \in Text
    <3> HIDE DEF sep
    <3> QED
      BY <1>1, <2>2, <2>3, JoinedGrows
  <2>6. CASE row = <<>>
    <3>1. Line(more) = e
      <4>1. Escaped(more) = Append(<<>>, e)
        BY <2>2, <2>6
      <4> HIDE DEF sep, e
      <4> QED
        BY <1>1, <2>3, <2>4, <4>1, JoinedGrows
    <3>2. Adds(st, Reads(st, e), Neutralized(f), FALSE)
      BY FieldReads
    <3>3. Neutral(row) = <<>>
      BY <2>6 DEF Neutral
    <3>4. <<>> \o Neutralized(f) = Neutralized(f)
      BY <2>4, ConcatEmptySeq DEF Text
    <3> HIDE DEF e
    <3>5. Good(more, Reads(st, e))
      BY <2>2, <3>2, <3>3, <3>4 DEF Adds
    <3> QED
      BY <2>1, <3>1, <3>5
  <2>7. CASE row # <<>>
    <3> DEFINE q == Reads(st, Line(row))
               q1 == Read(q, "comma")
               q2 == Reads(q1, e)
    <3>1. q \in ReaderState /\ Good(row, q)
      BY <1>3, <2>5, <2>7, ReadsOn
    <3> HIDE DEF q
    <3>2. q1 = [rows |-> q.rows, row |-> Append(q.row, q.field), field |-> <<>>,
                open |-> FALSE, closed |-> FALSE]
      BY <3>1, SeparatorsRead
    <3>3. q1 \in ReaderState
      <4>1. q1 = Reads(q, sep)
        BY <1>1, <3>1, ReadsOn
      <4> HIDE DEF sep, q1
      <4> QED
        BY <1>1, <3>1, <4>1, ReadsOn
    <3> HIDE DEF q1
    <3>4. Adds(q1, q2, Neutralized(f), FALSE)
      <4>1. ~q1.open /\ ~q1.closed
        BY <3>2
      <4> QED
        BY <3>3, <4>1, FieldReads
    <3>5. Reads(st, Line(more)) = q2
      <4>1. Line(more) = (Line(row) \o sep) \o e
        <5>1. Escaped(row) # <<>>
          BY <2>2, <2>7
        <5> HIDE DEF sep, e
        <5>2. sep \in Text /\ e \in Text /\ Escaped(row) \in Seq(Text)
          BY <1>1, <2>2, <2>4
        <5>3. \A parts \in Seq(Text), p \in Text :
                 parts # <<>> => Joined(Append(parts, p), sep) = (Joined(parts, sep) \o sep) \o p
          BY <5>2, JoinedGrows
        <5>4. Joined(Append(Escaped(row), e), sep) = (Joined(Escaped(row), sep) \o sep) \o e
          BY <5>1, <5>2, <5>3, Zenon
        <5> QED
          BY <2>2, <2>3, <5>4
      <4>2. Reads(st, Line(row) \o sep) = q1
        <5>1. Reads(st, Line(row) \o sep) = Reads(q, sep)
          <6> HIDE DEF sep
          <6> QED
            BY <1>1, <2>5, ReadsOn DEF q
        <5> QED
          BY <1>1, <3>1, <5>1, ReadsOn DEF q1
      <4>3. Line(row) \o sep \in Text
        BY <1>1, <2>5 DEF Text
      <4> HIDE DEF sep, e
      <4>4. Reads(st, (Line(row) \o sep) \o e) = Reads(Reads(st, Line(row) \o sep), e)
        BY <2>4, <4>3, ReadsOn
      <4> QED
        BY <4>1, <4>2, <4>4
    <3>6. <<>> \o Neutralized(f) = Neutralized(f)
      BY <2>4, ConcatEmptySeq DEF Text
    <3> HIDE DEF q2
    <3>7. Good(more, q2)
      BY <2>2, <3>1, <3>2, <3>4, <3>6 DEF Adds
    <3> QED
      BY <2>1, <3>5, <3>7
  <2> QED
    BY <2>6, <2>7
<1>4. \A row \in Seq(Text) : row \in S
  <2> HIDE DEF S
  <2> QED
    BY <1>2, <1>3, SequenceInduction
<1> QED
  BY <1>4

\* A row has at least one field.
Row == Seq(Text) \ {<<>>}
Lines(rows) == [i \in DOMAIN rows |-> Line(rows[i])]
NeutralRows(rows) == [i \in DOMAIN rows |-> Neutral(rows[i])]

\* Lines are made, and neutralized, row by row.
LEMMA RowByRow ==
    ASSUME NEW rows \in Seq(Row), NEW row \in Row
    PROVE  /\ Lines(rows) \in Seq(Text) /\ NeutralRows(rows) \in Seq(Seq(Text))
           /\ Lines(rows) = <<>> <=> rows = <<>>
           /\ Lines(Append(rows, row)) = Append(Lines(rows), Line(row))
           /\ NeutralRows(Append(rows, row)) = Append(NeutralRows(rows), Neutral(row))
<1> DEFINE n == Len(rows)
           more == Append(rows, row)
<1>1. ASSUME NEW r \in Row PROVE Line(r) \in Text /\ Neutral(r) \in Seq(Text)
  <2>1. r \in Seq(Text) /\ <<>> \in Text
    BY DEF Row, Text
  <2>2. Escaped(r) \in Seq(Text) /\ Neutral(r) \in Seq(Text)
    BY <2>1, FieldByField
  <2>3. Line(r) = Joined(Escaped(r), <<"comma">>)
    BY DEF Line, Escaped
  <2>4. <<"comma">> \in Text
    BY DEF Text, Symbol
  <2> QED
    BY <2>2, <2>3, <2>4, JoinedGrows
<1>2. /\ n \in Nat /\ DOMAIN rows = 1..n /\ DOMAIN more = 1..(n + 1)
      /\ more[n + 1] = row /\ \A i \in 1..n : more[i] = rows[i] /\ rows[i] \in Row
  OBVIOUS
<1>3. /\ Lines(rows) = [i \in 1..n |-> Line(rows[i])]
      /\ NeutralRows(rows) = [i \in 1..n |-> Neutral(rows[i])]
      /\ Lines(more) = [i \in 1..(n + 1) |-> Line(more[i])]
      /\ NeutralRows(more) = [i \in 1..(n + 1) |-> Neutral(more[i])]
  BY <1>2 DEF Lines, NeutralRows
<1> HIDE DEF n, more
<1>4. Lines(rows) \in Seq(Text) /\ Len(Lines(rows)) = n
  BY <1>1, <1>2, <1>3
<1>5. NeutralRows(rows) \in Seq(Seq(Text)) /\ Len(NeutralRows(rows)) = n
  BY <1>1, <1>2, <1>3
<1>6. Lines(rows) = <<>> <=> rows = <<>>
  BY <1>4 DEF n
<1>7. Lines(more) = Append(Lines(rows), Line(row))
  BY <1>1, <1>2, <1>3, <1>4
<1>8. NeutralRows(more) = Append(NeutralRows(rows), Neutral(row))
  BY <1>1, <1>2, <1>3, <1>5
<1> QED
  BY <1>4, <1>5, <1>6, <1>7, <1>8 DEF more

\* A table is read line by line; the last one is still being read.
LEMMA TableReads ==
    \A rows \in Seq(Row) :
       rows # <<>> =>
         LET q == Reads(Start, Joined(Lines(rows), <<"crlf">>))
         IN  ~q.open /\ Append(q.rows, Append(q.row, q.field)) = NeutralRows(rows)
<1> DEFINE sep == <<"crlf">>
           Body(rows) == Joined(Lines(rows), sep)
           Good(rows, q) == ~q.open /\ Append(q.rows, Append(q.row, q.field)) = NeutralRows(rows)
           S == {rows \in Seq(Row) : rows # <<>> => Good(rows, Reads(Start, Body(rows)))}
<1>1. /\ sep \in Text /\ "crlf" \in Symbol
      /\ Start \in ReaderState /\ Start.rows = <<>> /\ Start.row = <<>> /\ Start.field = <<>>
      /\ ~Start.open /\ ~Start.closed
  BY DEF Text, Symbol, Start, ReaderState
<1>2. <<>> \in S
  OBVIOUS
<1>3. ASSUME NEW rows \in Seq(Row), NEW row \in Row, rows \in S PROVE Append(rows, row) \in S
  <2> DEFINE more == Append(rows, row)
             l == Line(row)
  <2>1. more \in Seq(Row) /\ row \in Seq(Text) /\ row # <<>>
    BY DEF Row
  <2>2. /\ Lines(rows) \in Seq(Text) /\ NeutralRows(rows) \in Seq(Seq(Text))
        /\ (Lines(rows) = <<>> <=> rows = <<>>)
        /\ Lines(more) = Append(Lines(rows), l)
        /\ NeutralRows(more) = Append(NeutralRows(rows), Neutral(row))
    BY RowByRow
  <2>3. l \in Text
    <3>1. <<>> \in Seq(Row) /\ Append(<<>>, row) \in Seq(Row)
      OBVIOUS
    <3>2. Lines(Append(<<>>, row)) \in Seq(Text)
      BY <3>1, RowByRow
    <3>3. Lines(Append(<<>>, row))[1] = l /\ Len(Lines(Append(<<>>, row))) = 1
      BY DEF Lines
    <3> QED
      BY <3>2, <3>3
  <2>4. Body(rows) \in Text
    <3> HIDE DEF sep
    <3> QED
      BY <1>1, <2>2, JoinedGrows
  <2>5. CASE rows = <<>>
    <3>1. Body(more) = l
      <4>1. Lines(more) = Append(<<>>, l)
        BY <2>2, <2>5
      <4> HIDE DEF sep, l
      <4> QED
        BY <1>1, <2>3, <4>1, JoinedGrows
    <3> DEFINE q == Reads(Start, l)
    <3>2. q.rows = Start.rows /\ ~q.open /\ Append(q.row, q.field) = Neutral(row)
      BY <1>1, <2>1, LineReads
    <3>3. NeutralRows(rows) = <<>>
      BY <2>5 DEF NeutralRows
    <3> HIDE DEF q, l
    <3>4. Good(more, q)
      BY <1>1, <2>2, <3>2, <3>3
    <3> QED
      BY <2>1, <3>1, <3>4 DEF q
  <2>6. CASE rows # <<>>
    <3> DEFINE q == Reads(Start, Body(rows))
               q1 == Read(q, "crlf")
               q2 == Reads(q1, l)
    <3>1. q \in ReaderState /\ Good(rows, q)
      <4> HIDE DEF Body
      <4> QED
        BY <1>1, <1>3, <2>4, <2>6, ReadsOn
    <3> HIDE DEF q
    <3>2. q1 = [Start EXCEPT !.rows = NeutralRows(rows)]
      BY <3>1, SeparatorsRead
    <3>3. q1 \in ReaderState
      <4>1. q1 = Reads(q, sep)
        BY <1>1, <3>1, ReadsOn
      <4> HIDE DEF sep, q1
      <4> QED
        BY <1>1, <3>1, <4>1, ReadsOn
    <3>4. q1.rows = NeutralRows(rows) /\ q1.row = <<>> /\ q1.field = <<>> /\ ~q1.open /\ ~q1.closed
      BY <3>2 DEF Start
    <3> HIDE DEF q1
    <3>5. q2.rows = q1.rows /\ ~q2.open /\ Append(q2.row, q2.field) = Neutral(row)
      BY <2>1, <3>3, <3>4, LineReads
    <3>6. Reads(Start, Body(more)) = q2
      <4>1. Body(more) = (Body(rows) \o sep) \o l
        <5>1. Lines(rows) # <<>>
          BY <2>2, <2>6
        <5> HIDE DEF sep, l
        <5>2. Joined(Append(Lines(rows), l), sep) = (Joined(Lines(rows), sep) \o sep) \o l
          BY <1>1, <2>2, <2>3, <5>1, JoinedGrows
        <5> QED
          BY <2>2, <5>2
      <4> HIDE DEF Body, l
      <4>2. Reads(Start, Body(rows) \o sep) = q1
        <5>1. Reads(Start, Body(rows) \o sep) = Reads(q, sep)
          <6> HIDE DEF sep
          <6> QED
            BY <1>1, <2>4, ReadsOn DEF q
        <5> QED
          BY <1>1, <3>1, <5>1, ReadsOn DEF q1
      <4>3. Body(rows) \o sep \in Text
        BY <1>1, <2>4 DEF Text
      <4> HIDE DEF sep
      <4>4. Reads(Start, (Body(rows) \o sep) \o l) = Reads(Reads(Start, Body(rows) \o sep), l)
        BY <1>1, <2>3, <4>3, ReadsOn
      <4> QED
        BY <4>1, <4>2, <4>4
    <3> HIDE DEF q2, Body
    <3>7. Good(more, q2)
      BY <2>2, <3>4, <3>5
    <3> QED
      BY <2>1, <3>6, <3>7
  <2> QED
    BY <2>5, <2>6
<1>4. \A rows \in Seq(Row) : rows \in S
  <2> HIDE DEF S
  <2> QED
    BY <1>2, <1>3, SequenceInduction
<1> QED
  BY <1>4

\* Whatever is in the fields, and however many there are, a reader gets back
\* what was written, as long as there is a header and every line has a field.
THEOREM WhatIsWrittenReadsBack ==
    ASSUME NEW rows \in Seq(Row), rows # <<>>
    PROVE  ReadsBack(rows)
<1> DEFINE sep == <<"crlf">>
           b == Joined(Lines(rows), sep)
           q == Reads(Start, b)
<1>1. Start \in ReaderState /\ sep \in Text /\ "crlf" \in Symbol
  BY DEF Start, ReaderState, Text, Symbol
<1>2. ~q.open /\ Append(q.rows, Append(q.row, q.field)) = NeutralRows(rows)
  BY TableReads
<1>3. b \in Text
  <2>1. PICK r : r \in Row
    <3>1. rows[1] \in Row
      OBVIOUS
    <3> QED
      BY <3>1
  <2>2. Lines(rows) \in Seq(Text)
    BY <2>1, RowByRow
  <2> HIDE DEF sep
  <2> QED
    BY <1>1, <2>2, JoinedGrows
<1>4. toCsv(rows) = b \o sep
  BY DEF toCsv, Lines
<1> HIDE DEF b, q
<1>5. q \in ReaderState
  BY <1>1, <1>3, ReadsOn DEF q
<1>6. Reads(Start, b \o sep) = Read(q, "crlf")
  <2>1. Reads(Start, b \o sep) = Reads(q, sep)
    <3> HIDE DEF sep
    <3> QED
      BY <1>1, <1>3, ReadsOn DEF q
  <2> QED
    BY <1>1, <1>5, <2>1, ReadsOn
<1>7. Read(q, "crlf").rows = NeutralRows(rows)
  BY <1>2, <1>5, SeparatorsRead DEF Start
<1>8. Parsed(toCsv(rows)) = NeutralRows(rows)
  BY <1>4, <1>6, <1>7 DEF Parsed, Reads
<1> QED
  BY <1>8 DEF ReadsBack, NeutralRows, Neutral

\* What the log view exports reads back: the tables that the run looks at are
\* among those of WhatIsWrittenReadsBack.
THEOREM ExportsReadBack == DashboardSpec => []CsvReadsBack
<1>1. ShortTablesReadBack
  <2> SUFFICES ASSUME NEW a \in BoundedSeq(Symbol, 2), NEW b \in BoundedSeq(Symbol, 2)
               PROVE  ReadsBack(<<<<a, b>>, <<b, a>>>>)
    BY DEF ShortTablesReadBack
  <2>1. \A s \in BoundedSeq(Symbol, 2) : s \in Text
    <3> SUFFICES ASSUME NEW m \in 0..2, NEW s \in [1..m -> Symbol] PROVE s \in Seq(Symbol)
      BY DEF BoundedSeq, SeqOf, Text
    <3> QED
      OBVIOUS
  <2>2. <<a, b>> \in Seq(Text) /\ <<b, a>> \in Seq(Text) /\ <<a, b>> # <<>> /\ <<b, a>> # <<>>
    <3>1. a \in Text /\ b \in Text
      BY <2>1
    <3> QED
      BY <3>1
  <2>3. <<a, b>> \in Row /\ <<b, a>> \in Row
    BY <2>2 DEF Row
  <2>4. <<<<a, b>>, <<b, a>>>> \in Seq(Row) /\ <<<<a, b>>, <<b, a>>>> # <<>>
    BY <2>3
  <2> QED
    BY <2>4, WhatIsWrittenReadsBack
<1>2. CsvReadsBack
  BY <1>1 DEF CsvReadsBack
<1> QED
  BY <1>2, PTL DEF DashboardSpec

=============================================================================
