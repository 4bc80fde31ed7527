---------------------------- MODULE ZkStateSyncer ----------------------------
(***************************************************************************)
(* The WebSocket server that pushes ZK state snapshots (zk-state-syncer.ts)*)
(* as main.ts starts and stops it, with the relayer's API keys             *)
(* (relayer-auth.ts) and the wallet challenge (wallet-connector.ts).  An   *)
(* action is one callback: of the server, of a socket, of a timer, or the  *)
(* continuation of a verification.                                         *)
(***************************************************************************)
EXTENDS Naturals, FiniteSets, Functions, FiniteSetsExt

CONSTANTS
    Socket,     \* bound: connections at the same time
    Auth,       \* bound: verifications at the same time, of one socket or several
    Key,
    Account     \* signer configurations a client account may have

ASSUME ZkAssumption ==
    \A a \in Account : a.weight \in [Key -> Nat] /\ a.med_threshold \in Nat

VARIABLES
    conf,       \* the environment main.ts reads
    server,     \* the WebSocketServer
    ws,         \* readyState of the sockets
    clients,    \* the Map `clients`: its keys ...
    proven,     \* ... and those with authenticatedAs
    verifying,  \* calls of handleAuthSubmit across their await: socket and stage
    link,       \* environment: whether the peer is there, and whether TCP has
                \* something to notice it by
    account,    \* environment: the signer configuration on the network
    keyed,      \* history: sockets whose upgrade brought a configured key
    weighed,    \* history: sockets whose signatures reached the threshold
    got         \* history: sockets that were sent a snapshot

vars == <<conf, server, ws, clients, proven, verifying, link, account, keyed, weighed, got>>
wsVars == <<ws, clients, link>>
authVars == <<proven, verifying, account, weighed>>

Conf == [apiKeys : BOOLEAN, jwtSecret : BOOLEAN, serverSigningKey : BOOLEAN,
         names : BOOLEAN, allowUnauthenticated : BOOLEAN]
hasAuth(c) == c.apiKeys \/ c.jwtSecret

NoAuth == <<>>
Verifies(a, s) == verifying[a] # NoAuth /\ verifying[a][1] = s

TypeOK ==
    /\ conf \in Conf
    /\ server \in {"up", "closing", "closed"}
    /\ ws \in [Socket -> {"none", "open", "closing", "closed"}]
    /\ clients \subseteq Socket
    /\ proven \subseteq Socket /\ keyed \subseteq Socket
    /\ weighed \subseteq Socket /\ got \subseteq Socket
    /\ verifying \in [Auth -> (Socket \X {"loading", "enough"}) \cup {NoAuth}]
    /\ link \in [Socket -> {"fine", "dead", "noticed"}]
    /\ account \in Account

\* The constructor: without any authentication it throws, unless told to run
\* open.
Accepts(c) == hasAuth(c) \/ c.serverSigningKey \/ c.allowUnauthenticated

Init ==
    /\ conf \in {c \in Conf : Accepts(c)}
    /\ server = "up"
    /\ ws = [s \in Socket |-> "none"]
    /\ clients = {} /\ proven = {} /\ keyed = {} /\ weighed = {} /\ got = {}
    /\ verifying = [a \in Auth |-> NoAuth]
    /\ link = [s \in Socket |-> "fine"]
    /\ account \in Account

-----------------------------------------------------------------------------
(* Connections *)

\* verifyClient is there only with `auth`, and knows API keys only: with a JWT
\* secret alone it refuses everybody.
verifyClient(hasKey) == hasAuth(conf) => conf.apiKeys /\ hasKey

Connects(s, hasKey) ==
    /\ server = "up"
    /\ ws[s] \in {"none", "closed"} /\ \A a \in Auth : ~Verifies(a, s)
    /\ verifyClient(hasKey)
    /\ ws' = [ws EXCEPT ![s] = "open"]
    /\ link' = [link EXCEPT ![s] = "fine"]
    /\ clients' = clients \cup {s}
    /\ proven' = proven \ {s}
    /\ keyed' = IF conf.apiKeys /\ hasKey THEN keyed \cup {s} ELSE keyed \ {s}
    /\ weighed' = weighed \ {s}
    /\ got' = got \ {s}
    /\ UNCHANGED <<conf, server, verifying, account>>

\* The peer starts the closing handshake; the "close" event comes later.
PeerCloses(s) ==
    /\ ws[s] = "open" /\ link[s] = "fine"
    /\ ws' = [ws EXCEPT ![s] = "closing"]
    /\ UNCHANGED <<conf, server, clients, link, keyed, got, authVars>>

\* The peer is gone without a word.
Vanishes(s) ==
    /\ ws[s] = "open" /\ link[s] = "fine"
    /\ link' = [link EXCEPT ![s] = "dead"]
    /\ UNCHANGED <<conf, server, ws, clients, keyed, got, authVars>>

\* "error": a bad frame of the peer, or TCP gives up on what was sent.
Errors(s) ==
    /\ ws[s] = "open" /\ link[s] # "dead"
    /\ ws' = [ws EXCEPT ![s] = "closing"]
    /\ clients' = clients \ {s}
    /\ UNCHANGED <<conf, server, link, keyed, got, authVars>>

\* "close".
Closes(s) ==
    /\ ws[s] = "closing"
    /\ ws' = [ws EXCEPT ![s] = "closed"]
    /\ clients' = clients \ {s}
    /\ UNCHANGED <<conf, server, link, keyed, got, authVars>>

\* What is sent to a peer that is gone is never acknowledged.
SentTo(S) == link' = [s \in Socket |-> IF s \in S /\ link[s] = "dead" THEN "noticed" ELSE link[s]]

-----------------------------------------------------------------------------
(* handleAuthSubmit.  auth_request changes nothing: a client that wants to *)
(* submit has asked for its challenge.  Nothing keeps it from submitting   *)
(* again while an earlier answer of its is being verified.                 *)

AuthSubmit(s, a) ==
    /\ ws[s] = "open" /\ link[s] = "fine" /\ verifying[a] = NoAuth
    /\ conf.serverSigningKey /\ conf.names
    /\ verifying' = [verifying EXCEPT ![a] = <<s, "loading">>]
    /\ UNCHANGED <<conf, server, ws, clients, link, account, proven, weighed, keyed, got>>

Weight(sigs) == FoldFunctionOnSet(+, 0, account.weight, sigs)

\* Wrong on purpose: any signer of the account will do.
Verified_AnySigner(sigs) == sigs # {}

\* verifyChallengeTxThreshold on the account's own signers.
Verified(sigs) == sigs # {} /\ Weight(sigs) >= account.med_threshold

\* Horizon reads the account, against which the signatures are enough.
AccountRead(s, a, sigs) ==
    /\ verifying[a] = <<s, "loading">>
    /\ Verified(sigs)
    /\ verifying' = [verifying EXCEPT ![a] = <<s, "enough">>]
    /\ weighed' = IF sigs # {} /\ Weight(sigs) >= account.med_threshold
                  THEN weighed \cup {s} ELSE weighed
    /\ UNCHANGED <<conf, server, wsVars, account, proven, keyed, got>>

\* A challenge that is not valid, an account that cannot be loaded and too
\* little weight all end in auth_error.
AuthFails(s, a) ==
    /\ verifying[a] = <<s, "loading">>
    /\ verifying' = [verifying EXCEPT ![a] = NoAuth]
    /\ SentTo({s})
    /\ UNCHANGED <<conf, server, ws, clients, proven, account, weighed, keyed, got>>

\* Wrong on purpose: the client is set, whether it is still there or not.
AuthSettles_Sets(s, a) ==
    /\ verifying[a] = <<s, "enough">>
    /\ verifying' = [verifying EXCEPT ![a] = NoAuth]
    /\ proven' = proven \cup {s}
    /\ clients' = clients \cup {s}
    /\ SentTo({s})
    /\ UNCHANGED <<conf, server, ws, account, weighed, keyed, got>>

\* After the await: the socket may be gone from the Map.
AuthSettles(s, a) ==
    /\ verifying[a] = <<s, "enough">>
    /\ verifying' = [verifying EXCEPT ![a] = NoAuth]
    /\ IF s \in clients THEN proven' = proven \cup {s} /\ SentTo({s})
                       ELSE UNCHANGED <<proven, link>>
    /\ UNCHANGED <<conf, server, ws, clients, account, weighed, keyed, got>>

-----------------------------------------------------------------------------
(* broadcast, heartbeat, close *)

Open == {s \in Socket : ws[s] = "open"}
Served == IF conf.serverSigningKey THEN clients \cap proven ELSE clients

\* handleEvent and broadcast, for an event with the ZK topic.
Broadcasts ==
    /\ server # "closed"
    /\ got' = got \cup (Served \cap Open)
    /\ clients' = clients \ (Served \ Open)
    /\ SentTo(Served \cap Open)
    /\ UNCHANGED <<conf, server, ws, keyed, authVars>>

\* Wrong on purpose: only the dead are looked for, and nobody is pinged.
Heartbeat_NoPing ==
    /\ server = "up"
    /\ clients' = clients \cap Open
    /\ UNCHANGED <<conf, server, ws, link, keyed, got, authVars>>

Heartbeat ==
    /\ server = "up"
    /\ SentTo(clients \cap Open)
    /\ clients' = clients \cap Open
    /\ UNCHANGED <<conf, server, ws, keyed, got, authVars>>

\* close, the last step but one of main.ts's shutdown: the pings stop and the
\* server takes no more connections.  It leaves the sockets there are alone.
Close ==
    /\ server = "up"
    /\ server' = "closing"
    /\ UNCHANGED <<conf, wsVars, keyed, got, authVars>>

\* The server's own "close", which resolves close(): when no socket is left.
ServerClosed ==
    /\ server = "closing"
    /\ \A s \in Socket : ws[s] \in {"none", "closed"}
    /\ server' = "closed"
    /\ UNCHANGED <<conf, wsVars, keyed, got, authVars>>

AccountChanges ==
    /\ account' \in Account \ {account}
    /\ UNCHANGED <<conf, server, wsVars, proven, verifying, weighed, keyed, got>>

Next ==
    \/ \E s \in Socket, hasKey \in BOOLEAN : Connects(s, hasKey)
    \/ \E s \in Socket : PeerCloses(s) \/ Vanishes(s) \/ Errors(s) \/ Closes(s)
    \/ \E s \in Socket, a \in Auth : AuthSubmit(s, a) \/ AuthFails(s, a) \/ AuthSettles(s, a)
    \/ \E s \in Socket, a \in Auth, sigs \in SUBSET Key : AccountRead(s, a, sigs)
    \/ Broadcasts \/ Heartbeat \/ Close \/ ServerClosed \/ AccountChanges

Spec == Init /\ [][Next]_vars

\* The ping timer fires; TCP gives up on a peer that acknowledges nothing; the
\* closing handshake ends, by its timeout if not otherwise.
FairSpec ==
    /\ Spec
    /\ WF_vars(Heartbeat)
    /\ WF_vars(ServerClosed)
    /\ \A s \in Socket :
          /\ WF_vars(link[s] = "noticed" /\ Errors(s))
          /\ WF_vars(Closes(s))

-----------------------------------------------------------------------------
(* Properties *)

\* Whatever the environment variables say, a client that is sent a snapshot
\* has shown what they ask for: a configured key, signatures of enough weight
\* for its account as it was read, or nothing in a server told to run open.
SnapshotsNeedCredentials ==
    \A s \in got :
        /\ hasAuth(conf) => s \in keyed
        /\ conf.serverSigningKey => s \in weighed
        /\ s \in keyed \cup weighed \/ conf.allowUnauthenticated

\* clientCount: the Map has every open socket, so nobody is left out of the
\* broadcasts, and none that is closed, also when a verification ends after
\* its socket.
CountedAreConnected ==
    Open \subseteq clients /\ \A s \in clients : ws[s] \in {"open", "closing"}

\* A client that vanishes without closing does not stay in the Map: the pings
\* give TCP something to fail on.
VanishedClientsLeave ==
    \A s \in Socket :
        (s \in clients /\ link[s] # "fine") ~> (s \notin clients \/ server # "up")

\* zk-state-syncer.ts, close: "Gracefully close the server and all active
\* connections."
CloseEnds == (server = "closing") ~> (server = "closed")

=============================================================================
