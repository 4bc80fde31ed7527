------------------------ MODULE NonceManagerProofs --------------------------
(***************************************************************************)
(* Which sequences may collide or get lost, for any number of callers who  *)
(* reserve, release and refresh as they like: the lock admits one call,    *)
(* what it is about to return lies above everything that has been given    *)
(* out since the cache last went back, and `after` tells what that is.     *)
(* The last parts are about TxAggregator, whose steps are steps of the     *)
(* manager: what it does to others' sequences, and the fees it pays.       *)
(***************************************************************************)
EXTENDS TxAggregator, CommonLemmas

NatInv ==
    /\ net \in Nat
    /\ cache \in Nat
    /\ lock \in BOOLEAN
    /\ pc \in [Caller -> PC]
    /\ seq \in [Caller -> Nat]
    /\ after \in [Caller -> SUBSET Caller]
    /\ intact \in BOOLEAN

\* One call is inside the lock, and only while the lock is held.
LockInv ==
    /\ \A c \in Caller : pc[c] \in Inside => lock
    /\ \A c, d \in Caller : pc[c] \in Inside /\ pc[d] \in Inside => c = d

\* The history speaks of owners only.
HistoryInv ==
    /\ unsure \subseteq Owners
    /\ \A c \in Caller : c \notin after[c] /\ after[c] \subseteq Owners
    /\ \A c \in Caller : pc[c] # "owned" => after[c] = {}

Sure(c) == pc[c] = "owned" /\ c \notin unsure

\* Where sequences stand relative to the cache and to each other: one that is
\* sure lies below all that is given out after it, and what a reserve is about
\* to return lies above all that are sure.
OrderInv ==
    /\ \A c \in Caller : pc[c] = "owned" => seq[c] # 0
    /\ \A c \in Caller : pc[c] \in {"rpc", "rpc_refresh"} => \A d \in Caller : ~Sure(d)
    /\ \A c \in Caller : pc[c] = "gap" =>
          /\ cache # 0 /\ cache <= seq[c]
          /\ \A d \in Caller : Sure(d) => seq[d] < seq[c]
    /\ Gap = {} => \A d \in Caller : Sure(d) => seq[d] < cache
    /\ \A c, d \in Caller : c # d /\ Sure(c) /\ pc[d] = "owned" /\ c \notin after[d]
                                => seq[c] < seq[d]
    /\ \A c, d \in Caller : c # d /\ Sure(c) /\ Sure(d) => seq[c] # seq[d]

\* Who has the sequences between the network and the cache.
LostInv ==
    intact =>
        /\ cache = 0 => Owners = {}
        /\ \A c \in Caller : pc[c] # "rpc_refresh"
        /\ \A c \in Caller : pc[c] = "rpc" => cache = 0
        /\ \A c \in Caller : pc[c] = "gap" => seq[c] = cache
        /\ cache # 0 =>
              \A s \in (net + 1)..(cache - 1) : \E c \in Caller : pc[c] = "owned" /\ seq[c] = s

IInv == NatInv /\ LockInv /\ HistoryInv /\ OrderInv /\ LostInv

-----------------------------------------------------------------------------

\* The invariant holds before the first call: nobody is in one, and there is
\* no cache entry.
LEMMA NonceInit == Init => IInv
<1> SUFFICES ASSUME Init PROVE IInv
    OBVIOUS
<1>1. NatInv
    <2>1. lock \in BOOLEAN /\ intact \in BOOLEAN /\ cache \in Nat /\ net \in Nat
        BY DEF Init
    <2>2. pc \in [Caller -> PC] /\ seq \in [Caller -> Nat] /\ after \in [Caller -> SUBSET Caller]
        BY DEF Init, PC
    <2>3. QED
        BY <2>1, <2>2 DEF NatInv
<1>2. LockInv
    BY DEF Init, LockInv, Inside
<1>3. HistoryInv
    BY DEF Init, HistoryInv
<1>4. OrderInv
    BY DEF Init, OrderInv, Sure
<1>5. LostInv
    BY DEF Init, LostInv, Owners
<1>6. QED
    BY <1>1, <1>2, <1>3, <1>4, <1>5 DEF IInv

\* A step of a call that neither gives out a sequence nor takes one back.
LEMMA QuietStep ==
    ASSUME IInv, NEW c \in Caller, NEW p \in PC \ {"owned"},
           pc[c] # "owned", pc' = [pc EXCEPT ![c] = p], UNCHANGED <<after, unsure>>
    PROVE  /\ Owners' = Owners
           /\ \A d \in Caller : Sure(d)' <=> Sure(d)
           /\ \A d \in Caller : d # c => pc'[d] = pc[d]
           /\ pc'[c] = p /\ pc' \in [Caller -> PC]
           /\ HistoryInv'
<1> USE DEF IInv, NatInv
<1>1. pc'[c] = p /\ \A d \in Caller : d # c => pc'[d] = pc[d]
    OBVIOUS
<1>2. \A d \in Caller : pc'[d] = "owned" <=> pc[d] = "owned"
    BY <1>1
<1>3. Owners' = Owners
    BY <1>2 DEF Owners
<1>4. HistoryInv'
    BY <1>2, <1>3 DEF HistoryInv
<1>5. QED
    BY <1>1, <1>2, <1>3, <1>4 DEF Sure

\* A caller that gives up its sequence leaves the lock and the others alone.
LEMMA LeaveStep ==
    ASSUME IInv, NEW c \in Caller, pc[c] = "owned",
           pc' = [pc EXCEPT ![c] = "idle"], seq' = [seq EXCEPT ![c] = 0],
           lock' = lock, after' = LeftOut(c), (unsure \ {c}) \subseteq unsure',
           unsure' \subseteq (unsure \cup after[c]) \ {c}
    PROVE  /\ pc' \in [Caller -> PC] /\ seq' \in [Caller -> Nat]
           /\ after' \in [Caller -> SUBSET Caller]
           /\ pc'[c] = "idle" /\ \A d \in Caller : d # c => pc'[d] = pc[d] /\ seq'[d] = seq[d]
           /\ Owners' = Owners \ {c} /\ Gap' = Gap
           /\ \A d \in Caller : Sure(d)' => Sure(d) /\ d # c
           /\ \A d, e \in Caller : d # c /\ e # c => (d \in after'[e] <=> d \in after[e])
           /\ LockInv' /\ HistoryInv'
<1> USE DEF IInv, NatInv
<1>1. /\ pc'[c] = "idle" /\ \A d \in Caller : d # c => pc'[d] = pc[d] /\ seq'[d] = seq[d]
      /\ pc' \in [Caller -> PC] /\ seq' \in [Caller -> Nat]
    BY DEF PC
<1>2. /\ after' \in [Caller -> SUBSET Caller]
      /\ \A d \in Caller : after'[d] = IF d = c THEN {} ELSE after[d] \ {c}
    BY DEF LeftOut
<1>3. Owners' = Owners \ {c} /\ Gap' = Gap
    BY <1>1 DEF Owners, Gap
<1>4. \A d \in Caller : Sure(d)' => Sure(d) /\ d # c
    BY <1>1 DEF Sure
<1>5. LockInv'
    BY <1>1 DEF LockInv, Inside
<1>6. HistoryInv'
    <2>1. unsure' \subseteq Owners'
        BY <1>3 DEF HistoryInv
    <2>2. \A d \in Caller : d \notin after'[d] /\ after'[d] \subseteq Owners'
        BY <1>2, <1>3 DEF HistoryInv
    <2>3. \A d \in Caller : pc'[d] # "owned" => after'[d] = {}
        BY <1>1, <1>2 DEF HistoryInv
    <2>4. QED
        BY <2>1, <2>2, <2>3 DEF HistoryInv
<1>7. QED
    BY <1>1, <1>2, <1>3, <1>4, <1>5, <1>6

\* A range that starts later and ends earlier is part of the other.
LEMMA RangeWithin ==
    ASSUME NEW low \in Nat, NEW later \in Nat, low <= later,
           NEW high \in Nat, NEW lower \in Nat, lower <= high,
           NEW s \in (later + 1)..(lower - 1)
    PROVE  s \in (low + 1)..(high - 1) /\ s < lower
OBVIOUS

\* Each call, release and network event keeps the invariant.
LEMMA NonceStep == IInv /\ [Next]_vars => IInv'
<1> SUFFICES ASSUME IInv, [Next]_vars PROVE IInv'
    OBVIOUS
<1> USE DEF IInv, NatInv, state, history
<1>1. ASSUME NEW c \in Caller, ParkReserve(c) \/ ParkRefresh(c) PROVE IInv'
    <2>1. PICK p \in {"parked", "parked_refresh"} :
              /\ pc[c] = "idle" /\ pc' = [pc EXCEPT ![c] = p]
              /\ UNCHANGED <<net, cache, lock, seq, history>>
        BY <1>1 DEF ParkReserve, ParkRefresh, StartsReserve, StartsRefresh
    <2>2. /\ Owners' = Owners /\ (\A d \in Caller : Sure(d)' <=> Sure(d)) /\ HistoryInv'
          /\ pc' \in [Caller -> PC] /\ pc'[c] = p /\ \A d \in Caller : d # c => pc'[d] = pc[d]
        BY <2>1, QuietStep DEF PC
    <2>3. Gap' = Gap
        BY <2>1, <2>2 DEF Gap
    <2>4. LockInv'
        BY <2>1, <2>2 DEF LockInv, Inside
    <2>5. OrderInv'
        BY <2>1, <2>2, <2>3 DEF OrderInv
    <2>6. LostInv'
        BY <2>1, <2>2 DEF LostInv
    <2>7. QED
        BY <2>1, <2>2, <2>4, <2>5, <2>6
<1>2. ASSUME NEW c \in Caller, EnterReserve(c) PROVE IInv'
    <2>1. PICK p \in {"gap", "rpc"} :
              /\ pc[c] \in {"idle", "parked"} /\ ~lock /\ lock' = TRUE
              /\ pc' = [pc EXCEPT ![c] = p]
              /\ p = "gap" => cache # 0 /\ seq' = [seq EXCEPT ![c] = cache]
              /\ p = "rpc" => cache = 0 /\ seq' = seq
              /\ UNCHANGED <<net, cache, history>>
        BY <1>2 DEF EnterReserve, StartsReserve
    <2>2. /\ Owners' = Owners /\ (\A d \in Caller : Sure(d)' <=> Sure(d)) /\ HistoryInv'
          /\ pc' \in [Caller -> PC] /\ pc'[c] = p /\ \A d \in Caller : d # c => pc'[d] = pc[d]
        BY <2>1, QuietStep DEF PC
    <2>3. /\ seq' \in [Caller -> Nat] /\ \A d \in Caller : d # c => seq'[d] = seq[d]
          /\ p = "gap" => seq'[c] = cache
        BY <2>1
    <2>4. /\ \A d \in Caller : pc[d] \notin Inside
          /\ \A d \in Caller : d # c => pc'[d] \notin Inside
        BY <2>1, <2>2 DEF LockInv
    <2>5. LockInv'
        BY <2>1, <2>4 DEF LockInv
    <2>6. Gap = {}
        BY <2>4 DEF Gap, Inside
    <2>7. \A d \in Caller : Sure(d) => seq[d] < cache
        BY <2>6 DEF OrderInv
    <2>8. OrderInv'
        <3>1. \A d \in Caller : pc'[d] = "owned" => pc[d] = "owned" /\ seq'[d] = seq[d]
            BY <2>2, <2>3
        <3>2. \A d \in Caller : Sure(d)' => seq'[d] = seq[d]
            BY <3>1 DEF Sure
        <3>3. \A d \in Caller : pc'[d] \in {"rpc", "rpc_refresh"} => d = c /\ p = "rpc"
            BY <2>2, <2>4 DEF Inside
        <3>4. \A d \in Caller : pc'[d] = "gap" => d = c /\ p = "gap"
            BY <2>2, <2>4 DEF Inside
        <3>5. p = "rpc" => \A d \in Caller : ~Sure(d)
            BY <2>1, <2>7
        <3>6. \A d \in Caller : pc'[d] = "gap" =>
                  cache' # 0 /\ cache' <= seq'[d] /\ \A e \in Caller : Sure(e)' => seq'[e] < seq'[d]
            BY <2>1, <2>2, <2>3, <2>7, <3>2, <3>4
        <3>7. \A d, e \in Caller : d # e /\ Sure(d)' /\ pc'[e] = "owned" /\ d \notin after'[e]
                                     => seq'[d] < seq'[e]
            BY <2>1, <2>2, <3>1, <3>2 DEF OrderInv
        <3>8. QED
            BY <2>1, <2>2, <2>7, <3>1, <3>2, <3>3, <3>5, <3>6, <3>7 DEF OrderInv
    <2>9. LostInv'
        <3>1. ASSUME intact
              PROVE  /\ cache # 0 => \A s \in (net + 1)..(cache - 1) :
                            \E e \in Caller : pc'[e] = "owned" /\ seq'[e] = s
                     /\ cache = 0 => Owners' = {}
            BY <2>1, <2>2, <2>3, <3>1 DEF LostInv
        <3>2. QED
            BY <2>1, <2>2, <2>3, <2>4, <3>1 DEF LostInv, Inside
    <2>10. QED
        BY <2>1, <2>2, <2>3, <2>5, <2>8, <2>9
<1>3. ASSUME NEW c \in Caller, EnterRefresh(c) PROVE IInv'
    <2>1. /\ pc[c] \in {"idle", "parked_refresh"} /\ ~lock /\ lock' = TRUE /\ cache' = 0
          /\ pc' = [pc EXCEPT ![c] = "rpc_refresh"] /\ unsure' = Owners /\ intact' = FALSE
          /\ UNCHANGED <<net, seq, after>>
        BY <1>3 DEF EnterRefresh, StartsRefresh
    <2>2. /\ pc'[c] = "rpc_refresh" /\ \A d \in Caller : d # c => pc'[d] = pc[d]
          /\ pc' \in [Caller -> PC]
        BY <2>1 DEF PC
    <2>3. Owners' = Owners
        BY <2>1, <2>2 DEF Owners
    <2>4. \A d \in Caller : d # c => pc'[d] \notin Inside
        BY <2>1, <2>2 DEF LockInv
    <2>5. LockInv'
        BY <2>1, <2>4 DEF LockInv
    <2>6. HistoryInv'
        BY <2>1, <2>2, <2>3 DEF HistoryInv
    <2>7. \A d \in Caller : ~Sure(d)'
        BY <2>1, <2>3 DEF Sure, Owners
    <2>8. \A d \in Caller : pc'[d] = "owned" => pc[d] = "owned"
        BY <2>2
    <2>9. OrderInv'
        BY <2>1, <2>2, <2>4, <2>7, <2>8 DEF OrderInv, Inside
    <2>10. LostInv'
        BY <2>1 DEF LostInv
    <2>11. QED
        BY <2>1, <2>2, <2>5, <2>6, <2>9, <2>10
<1>4. ASSUME NEW c \in Caller, RpcReturns(c) PROVE IInv'
    <2>1. PICK p \in {"gap", "idle"} :
              /\ pc[c] = IF p = "gap" THEN "rpc" ELSE "rpc_refresh"
              /\ pc' = [pc EXCEPT ![c] = p] /\ cache' = net + 1 /\ intact' = TRUE
              /\ p = "gap" => seq' = [seq EXCEPT ![c] = net + 1] /\ lock' = lock
              /\ p = "idle" => seq' = seq /\ lock' = FALSE
              /\ UNCHANGED <<net, after, unsure>>
        BY <1>4 DEF RpcReturns
    <2>2. /\ Owners' = Owners /\ (\A d \in Caller : Sure(d)' <=> Sure(d)) /\ HistoryInv'
          /\ pc' \in [Caller -> PC] /\ pc'[c] = p /\ \A d \in Caller : d # c => pc'[d] = pc[d]
        BY <2>1, QuietStep DEF PC
    <2>3. /\ seq' \in [Caller -> Nat] /\ \A d \in Caller : d # c => seq'[d] = seq[d]
          /\ p = "gap" => seq'[c] = net + 1
        BY <2>1
    <2>4. /\ \A d \in Caller : ~Sure(d)
          /\ \A d \in Caller : d # c => pc[d] \notin Inside
        BY <2>1 DEF OrderInv, LockInv, Inside
    <2>5. LockInv'
        BY <2>1, <2>2, <2>4 DEF LockInv, Inside
    <2>6. \A d \in Caller : pc'[d] = "owned" => pc[d] = "owned" /\ seq'[d] = seq[d]
        BY <2>2, <2>3
    <2>7. OrderInv'
        BY <2>1, <2>2, <2>3, <2>4, <2>6 DEF OrderInv, Inside
    <2>8. LostInv'
        BY <2>1, <2>2, <2>3, <2>4 DEF LostInv, Inside
    <2>9. lock' \in BOOLEAN /\ intact' \in BOOLEAN
        BY <2>1
    <2>10. QED
        BY <2>1, <2>2, <2>3, <2>5, <2>7, <2>8, <2>9
<1>5. ASSUME NEW c \in Caller, RpcFails(c) PROVE IInv'
    <2>1. /\ pc[c] \in {"rpc", "rpc_refresh"} /\ pc' = [pc EXCEPT ![c] = "idle"] /\ lock' = FALSE
          /\ UNCHANGED <<net, cache, seq, history>>
        BY <1>5 DEF RpcFails
    <2>2. /\ Owners' = Owners /\ (\A d \in Caller : Sure(d)' <=> Sure(d)) /\ HistoryInv'
          /\ pc' \in [Caller -> PC] /\ pc'[c] = "idle" /\ \A d \in Caller : d # c => pc'[d] = pc[d]
        BY <2>1, QuietStep DEF PC
    <2>3. /\ \A d \in Caller : ~Sure(d)
          /\ \A d \in Caller : pc'[d] \notin Inside
        BY <2>1, <2>2 DEF OrderInv, LockInv, Inside
    <2>4. LockInv'
        BY <2>3 DEF LockInv
    <2>5. OrderInv'
        BY <2>1, <2>2, <2>3 DEF OrderInv, Inside
    <2>6. LostInv'
        BY <2>1, <2>2, <2>3 DEF LostInv, Inside
    <2>7. lock' \in BOOLEAN
        BY <2>1
    <2>8. QED
        BY <2>1, <2>2, <2>4, <2>5, <2>6, <2>7
<1>6. ASSUME NEW c \in Caller, Commit(c) PROVE IInv'
    <2>1. /\ pc[c] = "gap" /\ cache' = seq[c] + 1 /\ lock' = FALSE
          /\ pc' = [pc EXCEPT ![c] = "owned"] /\ UNCHANGED <<net, seq, unsure, intact>>
          /\ after' \in [Caller -> SUBSET Caller]
          /\ \A d \in Caller : after'[d] = IF d \in Owners THEN after[d] \cup {c} ELSE after[d]
        BY <1>6 DEF Commit
    <2>2. /\ pc'[c] = "owned" /\ \A d \in Caller : d # c => pc'[d] = pc[d]
          /\ pc' \in [Caller -> PC]
        BY <2>1 DEF PC
    <2>3. /\ Owners' = Owners \cup {c} /\ c \notin Owners /\ c \notin unsure
          /\ Gap' = {} /\ \A d \in Caller : pc'[d] \notin Inside
        BY <2>1, <2>2 DEF Owners, Gap, Inside, LockInv, HistoryInv
    <2>4. LockInv'
        BY <2>3 DEF LockInv
    <2>5. HistoryInv'
        <3>1. \A d \in Caller : d \notin after'[d] /\ after'[d] \subseteq Owners'
            BY <2>1, <2>3 DEF HistoryInv
        <3>2. \A d \in Caller : pc'[d] # "owned" => after'[d] = {}
            BY <2>1, <2>2 DEF HistoryInv, Owners
        <3>3. QED
            BY <2>1, <2>3, <3>1, <3>2 DEF HistoryInv
    <2>6. /\ \A d \in Caller : Sure(d)' <=> Sure(d) \/ d = c
          /\ \A d \in Caller : Sure(d) => seq[d] < seq[c] /\ d # c
          /\ cache # 0 /\ cache <= seq[c]
        BY <2>1, <2>2, <2>3 DEF Sure, OrderInv
    <2>7. OrderInv'
        <3>1. \A d \in Caller : pc'[d] = "owned" => seq'[d] # 0
            BY <2>1, <2>2, <2>6 DEF OrderInv
        <3>2. \A d \in Caller : Sure(d)' => seq'[d] < cache'
            BY <2>1, <2>6
        <3>3. ASSUME NEW d \in Caller, NEW e \in Caller, d # e, Sure(d)', pc'[e] = "owned",
                     d \notin after'[e]
              PROVE  seq'[d] < seq'[e]
            <4>1. CASE e = c
                BY <2>1, <2>6, <3>3, <4>1
            <4>2. CASE e # c
                <5>1. pc[e] = "owned" /\ e \in Owners
                    BY <2>2, <3>3, <4>2 DEF Owners
                <5>2. d # c /\ d \notin after[e]
                    BY <2>1, <3>3, <5>1
                <5>3. QED
                    BY <2>1, <2>6, <3>3, <5>1, <5>2 DEF OrderInv
            <4>3. QED
                BY <4>1, <4>2
        <3>4. \A d, e \in Caller : d # e /\ Sure(d)' /\ Sure(e)' => seq'[d] # seq'[e]
            BY <2>1, <2>6 DEF OrderInv
        <3>5. QED
            BY <2>3, <3>1, <3>2, <3>3, <3>4 DEF OrderInv, Inside
    <2>8. LostInv'
        <3>1. ASSUME intact, NEW s \in (net' + 1)..(cache' - 1)
              PROVE  \E d \in Caller : pc'[d] = "owned" /\ seq'[d] = s
            <4>1. seq[c] = cache
                BY <2>1, <3>1 DEF LostInv
            <4>2. CASE s = cache
                BY <2>1, <2>2, <4>1, <4>2
            <4>3. CASE s # cache
                <5>1. s \in (net + 1)..(cache - 1)
                    BY <2>1, <3>1, <4>1, <4>3
                <5>2. PICK d \in Caller : pc[d] = "owned" /\ seq[d] = s
                    BY <2>6, <3>1, <5>1 DEF LostInv
                <5>3. QED
                    BY <2>1, <2>2, <5>2
            <4>4. QED
                BY <4>2, <4>3
        <3>2. cache' # 0
            BY <2>1
        <3>3. QED
            BY <2>1, <2>3, <3>1, <3>2 DEF LostInv, Inside
    <2>9. lock' \in BOOLEAN /\ cache' \in Nat
        <3>1. lock' \in BOOLEAN
            BY <2>1
        <3>2. cache' \in Nat
            BY <2>1
        <3>3. QED
            BY <3>1, <3>2
    <2>10. QED
        BY <2>1, <2>2, <2>4, <2>5, <2>7, <2>8, <2>9
<1>7. ASSUME NEW c \in Caller, Release(c) PROVE IInv'
    <2>1. /\ pc[c] = "owned" /\ cache' = IF cache = 0 \/ seq[c] < cache THEN seq[c] ELSE cache
          /\ pc' = [pc EXCEPT ![c] = "idle"] /\ seq' = [seq EXCEPT ![c] = 0]
          /\ after' = LeftOut(c) /\ unsure' = (unsure \cup after[c]) \ {c}
          /\ intact' = (intact /\ Gap = {}) /\ UNCHANGED <<net, lock>>
        BY <1>7 DEF Release
    <2>2. /\ pc' \in [Caller -> PC] /\ seq' \in [Caller -> Nat] /\ after' \in [Caller -> SUBSET Caller]
          /\ pc'[c] = "idle" /\ \A d \in Caller : d # c => pc'[d] = pc[d] /\ seq'[d] = seq[d]
          /\ Owners' = Owners \ {c} /\ Gap' = Gap
          /\ \A d \in Caller : Sure(d)' => Sure(d) /\ d # c
          /\ \A d, e \in Caller : d # c /\ e # c => (d \in after'[e] <=> d \in after[e])
          /\ LockInv' /\ HistoryInv'
        BY <2>1, LeaveStep
    <2>3. /\ cache' \in Nat /\ cache' # 0 /\ cache' <= seq[c] /\ seq[c] # 0
          /\ cache # 0 => cache' <= cache
        BY <2>1 DEF OrderInv
    <2>4. \A d \in Caller : Sure(d)' => seq[d] < seq[c]
        <3>1. ASSUME NEW d \in Caller, Sure(d)' PROVE d \notin after[c]
            BY <2>1, <2>2, <3>1 DEF Sure
        <3>2. QED
            BY <2>1, <2>2, <3>1 DEF OrderInv
    <2>5. OrderInv'
        <3>1. \A d \in Caller : pc'[d] = "owned" => d # c /\ pc[d] = "owned" /\ seq'[d] = seq[d]
            BY <2>2
        <3>2. \A d \in Caller : Sure(d)' => seq'[d] = seq[d]
            BY <2>2
        <3>3. \A d \in Caller : pc'[d] \in {"rpc", "rpc_refresh"} => \A e \in Caller : ~Sure(e)'
            BY <2>2 DEF OrderInv
        <3>4. ASSUME NEW d \in Caller, pc'[d] = "gap"
              PROVE  /\ cache' # 0 /\ cache' <= seq'[d]
                     /\ \A e \in Caller : Sure(e)' => seq'[e] < seq'[d]
            <4>1. d # c /\ pc[d] = "gap" /\ seq'[d] = seq[d]
                BY <2>2, <3>4
            <4>2. cache # 0 /\ cache <= seq[d] /\ \A e \in Caller : Sure(e) => seq[e] < seq[d]
                BY <4>1 DEF OrderInv
            <4>3. QED
                BY <2>2, <2>3, <3>2, <4>1, <4>2
        <3>5. Gap' = {} => \A d \in Caller : Sure(d)' => seq'[d] < cache'
            BY <2>1, <2>2, <2>4, <3>2 DEF OrderInv
        <3>6. \A d, e \in Caller : d # e /\ Sure(d)' /\ pc'[e] = "owned" /\ d \notin after'[e]
                                     => seq'[d] < seq'[e]
            BY <2>2, <3>1, <3>2 DEF OrderInv
        <3>7. \A d, e \in Caller : d # e /\ Sure(d)' /\ Sure(e)' => seq'[d] # seq'[e]
            BY <2>2, <3>2 DEF OrderInv
        <3>8. \A d \in Caller : pc'[d] = "owned" => seq'[d] # 0
            BY <3>1 DEF OrderInv
        <3>9. QED
            BY <3>3, <3>4, <3>5, <3>6, <3>7, <3>8 DEF OrderInv
    <2>6. LostInv'
        <3>1. SUFFICES ASSUME intact, Gap = {} PROVE LostInv'
            BY <2>1 DEF LostInv
        <3>2. c \in Owners /\ cache # 0
            BY <2>1, <3>1 DEF LostInv, Owners
        <3>3. \A d \in Caller : pc'[d] \notin {"gap", "rpc", "rpc_refresh"}
            BY <2>2, <3>1, <3>2 DEF LostInv, Gap
        <3>4. ASSUME NEW s \in (net + 1)..(cache' - 1)
              PROVE  \E d \in Caller : pc'[d] = "owned" /\ seq'[d] = s
            <4>1. s \in (net + 1)..(cache - 1) /\ s # seq[c]
                <5>1. cache' \in Nat /\ cache' <= seq[c] /\ cache' <= cache /\ seq[c] \in Nat
                    BY <2>3, <3>2
                <5>2. net \in Nat /\ cache \in Nat
                    OBVIOUS
                <5>3. s \in (net + 1)..(cache - 1) /\ s < cache'
                    <6> HIDE DEF IInv, NatInv
                    <6>1. net <= net
                        BY <5>2
                    <6>2. QED
                        BY <3>4, <5>1, <5>2, <6>1, RangeWithin
                <5>4. s # seq[c]
                    BY <5>1, <5>3
                <5>5. QED
                    BY <5>3, <5>4
            <4>2. PICK d \in Caller : pc[d] = "owned" /\ seq[d] = s
                BY <3>1, <3>2, <4>1 DEF LostInv
            <4>3. QED
                BY <2>2, <4>1, <4>2
        <3>5. QED
            BY <2>1, <2>3, <3>3, <3>4 DEF LostInv
    <2>7. intact' \in BOOLEAN /\ lock' \in BOOLEAN
        BY <2>1
    <2>8. QED
        BY <2>1, <2>2, <2>3, <2>5, <2>6, <2>7
<1>8. ASSUME NEW c \in Caller, Done(c) PROVE IInv'
    <2>1. /\ pc[c] = "owned" /\ seq[c] <= net /\ after' = LeftOut(c) /\ unsure' = unsure \ {c}
          /\ pc' = [pc EXCEPT ![c] = "idle"] /\ seq' = [seq EXCEPT ![c] = 0]
          /\ UNCHANGED <<net, cache, lock, intact>>
        BY <1>8 DEF Done
    <2>2. /\ pc' \in [Caller -> PC] /\ seq' \in [Caller -> Nat] /\ after' \in [Caller -> SUBSET Caller]
          /\ pc'[c] = "idle" /\ \A d \in Caller : d # c => pc'[d] = pc[d] /\ seq'[d] = seq[d]
          /\ Owners' = Owners \ {c} /\ Gap' = Gap
          /\ \A d \in Caller : Sure(d)' => Sure(d) /\ d # c
          /\ \A d, e \in Caller : d # c /\ e # c => (d \in after'[e] <=> d \in after[e])
          /\ LockInv' /\ HistoryInv'
        BY <2>1, LeaveStep
    <2>3. OrderInv'
        <3>1. \A d \in Caller : pc'[d] \in {"owned", "gap", "rpc", "rpc_refresh"}
                                  => d # c /\ pc[d] = pc'[d] /\ seq'[d] = seq[d]
            BY <2>2
        <3>2. \A d \in Caller : Sure(d)' => seq'[d] = seq[d]
            BY <2>2
        <3>3. \A d, e \in Caller : d # e /\ Sure(d)' /\ pc'[e] = "owned" /\ d \notin after'[e]
                                     => seq'[d] < seq'[e]
            BY <2>2, <3>1, <3>2 DEF OrderInv
        <3>4. QED
            BY <2>1, <2>2, <3>1, <3>2, <3>3 DEF OrderInv
    <2>4. LostInv'
        <3>1. SUFFICES ASSUME intact PROVE LostInv'
            BY <2>1 DEF LostInv
        <3>2. \A d \in Caller : pc'[d] \in {"gap", "rpc", "rpc_refresh"}
                                  => pc[d] = pc'[d] /\ seq'[d] = seq[d]
            BY <2>2
        <3>3. ASSUME NEW s \in (net + 1)..(cache - 1), cache # 0
              PROVE  \E d \in Caller : pc'[d] = "owned" /\ seq'[d] = s
            <4>1. PICK d \in Caller : pc[d] = "owned" /\ seq[d] = s
                BY <3>1, <3>3 DEF LostInv
            <4>2. d # c
                BY <2>1, <3>3, <4>1
            <4>3. QED
                BY <2>2, <4>1, <4>2
        <3>4. QED
            BY <2>1, <2>2, <3>1, <3>2, <3>3 DEF LostInv
    <2>5. QED
        BY <2>1, <2>2, <2>3, <2>4
<1>9. ASSUME net' \in Nat, net <= net', UNCHANGED <<cache, lock, pc, seq, history>> PROVE IInv'
    <2>1. LockInv' /\ HistoryInv'
        BY <1>9 DEF LockInv, HistoryInv, Owners
    <2>2. OrderInv'
        BY <1>9 DEF OrderInv, Sure, Gap
    <2>3. LostInv'
        <3>1. \A s \in (net' + 1)..(cache' - 1) : s \in (net + 1)..(cache - 1)
            <4>1. net \in Nat /\ net' \in Nat /\ net <= net' /\ cache \in Nat /\ cache' = cache
                BY <1>9
            <4> HIDE DEF IInv, NatInv
            <4>2. cache <= cache
                BY <4>1
            <4>3. QED
                BY <4>1, <4>2, RangeWithin
        <3>2. QED
            BY <1>9, <3>1 DEF LostInv, Owners
    <2>4. QED
        BY <1>9, <2>1, <2>2, <2>3
<1>10. ASSUME NEW c \in Caller, Applied(c) PROVE IInv'
    <2>1. net' = net + 1 /\ UNCHANGED <<cache, lock, pc, seq, history>>
        BY <1>10 DEF Applied
    <2>2. QED
        BY <1>9, <2>1
<1>11. CASE Manual
    <2>1. net' = net + 1 /\ UNCHANGED <<cache, lock, pc, seq, history>>
        BY <1>11 DEF Manual
    <2>2. QED
        BY <1>9, <2>1
<1>12. CASE UNCHANGED vars
    <2>1. net' = net /\ UNCHANGED <<cache, lock, pc, seq, history>>
        BY <1>12 DEF vars
    <2>2. QED
        BY <1>9, <2>1
<1>13. QED
    BY <1>1, <1>2, <1>3, <1>4, <1>5, <1>6, <1>7, <1>8, <1>10, <1>11, <1>12 DEF Next

LEMMA IInvGivesProperties == IInv => UniqueReservations /\ NoSequenceLost
<1> SUFFICES ASSUME IInv PROVE UniqueReservations /\ NoSequenceLost
    OBVIOUS
<1> USE DEF IInv
<1>1. ASSUME NEW c \in Caller, NEW d \in Caller, c # d, pc[c] \in Out, pc[d] \in Out,
             c \notin unsure, d \notin unsure
      PROVE  seq[c] # seq[d]
    <2>1. CASE pc[c] = "gap"
        <3>1. Sure(d)
            BY <1>1, <2>1 DEF Sure, Out, LockInv, Inside
        <3>2. QED
            BY <1>1, <2>1, <3>1 DEF OrderInv, NatInv
    <2>2. CASE pc[d] = "gap"
        <3>1. Sure(c)
            BY <1>1, <2>2 DEF Sure, Out, LockInv, Inside
        <3>2. QED
            BY <1>1, <2>2, <3>1 DEF OrderInv, NatInv
    <2>3. CASE pc[c] = "owned" /\ pc[d] = "owned"
        BY <1>1, <2>3 DEF OrderInv, Sure
    <2>4. QED
        BY <1>1, <2>1, <2>2, <2>3 DEF Out
<1>2. QED
    BY <1>1 DEF UniqueReservations, NoSequenceLost, LostInv

\* Two sequences in flight are different, for any number of callers and any use
\* they make of the manager, unless one was given out before a refresh or while
\* an older one, released since, was out: what nonce-manager.ts's lock ensures.
THEOREM ReservationsAreUnique == Spec => []UniqueReservations
<1>1. Init => IInv
    BY NonceInit
<1>2. IInv /\ [Next]_vars => IInv'
    BY NonceStep
<1>3. QED
    BY <1>1, <1>2, IInvGivesProperties, PTL DEF Spec

\* Every sequence before the cached one is in somebody's hands, unless a release
\* fell into the gap of a reserve or a refresh failed since the network was read.
THEOREM SequencesAreNotLost == Spec => []NoSequenceLost
<1>1. Init => IInv
    BY NonceInit
<1>2. IInv /\ [Next]_vars => IInv'
    BY NonceStep
<1>3. QED
    BY <1>1, <1>2, IInvGivesProperties, PTL DEF Spec

-----------------------------------------------------------------------------
(* The aggregator and the manager *)

\* Whatever the aggregator and its callers do is a step of the manager, or none.
LEMMA TxStepsAreNonceSteps == [TxNext]_allVars => [Next]_vars
<1> SUFFICES ASSUME [TxNext]_allVars PROVE [Next]_vars
  OBVIOUS
<1> USE DEF Releases, Signs
<1>1. ASSUME NEW c \in Caller, Builds(c) \/ Reserves(c) \/ Plans(c) PROVE [Next]_vars
  BY <1>1 DEF Builds, Reserves, Plans, Next
<1>2. ASSUME NEW c \in Caller, FeeArrives(c) \/ FeeFails(c) PROVE [Next]_vars
  BY <1>2 DEF FeeArrives, FeeFails, Next
<1>3. ASSUME NEW c \in Caller, Sends(c) \/ SendSettles(c) \/ PollSettles(c) \/ Wakes(c)
      PROVE  [Next]_vars
  BY <1>3 DEF Sends, SendSettles, PollSettles, Wakes, Loops, Throws, Next
<1>4. ASSUME NEW c \in Caller, GivesBack(c) \/ Leaves(c) \/ Refreshes(c) \/ InLedger(c)
      PROVE  [Next]_vars
  BY <1>4 DEF GivesBack, Leaves, Refreshes, InLedger, Next
<1>5. CASE Tick \/ (Manual /\ UNCHANGED txVars) \/ UNCHANGED allVars
  BY <1>5 DEF Tick, Next, allVars
<1> QED
  BY <1>1, <1>2, <1>3, <1>4, <1>5 DEF TxNext

\* The aggregator and the manager together: two transactions that are built and
\* not done with carry different sequences, and no sequence is lost, with the
\* same exceptions as for the manager alone.
THEOREM TransactionsHaveTheirOwnSequence ==
    TxSpec => [](UniqueReservations /\ NoSequenceLost)
<1>1. TxInit => IInv
  BY NonceInit DEF TxInit
<1>2. IInv /\ [TxNext]_allVars => IInv'
  BY TxStepsAreNonceSteps, NonceStep
<1> QED
  BY <1>1, <1>2, IInvGivesProperties, PTL DEF TxSpec

\* Who is in the gap of reserve is building; of two who build at the same time
\* both have company; nobody got a sequence during a build without company.
BuildInv ==
    /\ job \in [Caller -> [stage : Stage, clock : Nat]]
    /\ \A c \in Caller : pc[c] \in {"parked", "rpc", "gap"} => job[c].stage = "building"
    /\ \A c, d \in Caller : c # d /\ job[c].stage \in Building /\ job[d].stage \in Building
                                => c \in company
    /\ \A c \in Caller : job[c].stage \in Building /\ c \notin company => after[c] = {}

LEMMA BuildInit == TxInit => BuildInv
BY DEF TxInit, Init, BuildInv, Stage, Building

\* A step that moves one caller c, if any, and hands out no sequence.
LEMMA JobStep ==
    ASSUME BuildInv, NEW c \in Caller, NEW st \in Stage, UNCHANGED company,
           UNCHANGED job \/ Goes(c, st) \/ Stays(c, st),
           job'[c].stage \in Building => job[c].stage \in Building,
           \A d \in Caller : pc'[d] \in {"parked", "rpc", "gap"} => job'[d].stage = "building",
           \A d \in Caller : after'[d] \subseteq after[d]
    PROVE  BuildInv'
<1>1. /\ job' \in [Caller -> [stage : Stage, clock : Nat]]
      /\ \A d \in Caller : d # c => job'[d] = job[d]
  BY DEF BuildInv, Goes, Stays
<1>2. \A d \in Caller : job'[d].stage \in Building => job[d].stage \in Building
  BY <1>1
<1> QED
  BY <1>1, <1>2 DEF BuildInv

\* What the synchronous stretches of build, execute and the network do to the
\* others: BuildInv, and the step property itself.
LEMMA BuildStep ==
    ASSUME IInv, BuildInv, [TxNext]_allVars
    PROVE  /\ BuildInv'
           /\ Disturbs =>
                 \E c \in Caller :
                    \/ job[c].stage \in Building /\ job'[c].stage = "idle" /\ c \in company
                    \/ job[c].stage \in {"signed", "thrown"} /\ job'[c].stage = "idle"
                    \/ pc[c] # "rpc_refresh" /\ pc'[c] = "rpc_refresh"
<1> DEFINE Excused ==
              \E c \in Caller :
                 \/ job[c].stage \in Building /\ job'[c].stage = "idle" /\ c \in company
                 \/ job[c].stage \in {"signed", "thrown"} /\ job'[c].stage = "idle"
                 \/ pc[c] # "rpc_refresh" /\ pc'[c] = "rpc_refresh"
           Kept == BuildInv' /\ (Disturbs => Excused)
<1> USE DEF state, history
<1>0. /\ job \in [Caller -> [stage : Stage, clock : Nat]] /\ pc \in [Caller -> PC]
      /\ \A c \in Caller : job[c].stage \in Stage
  BY DEF BuildInv, IInv, NatInv
\* A step that leaves the manager alone and moves one caller between stages.
<1>1. ASSUME NEW c \in Caller, NEW st \in Stage, UNCHANGED vars, UNCHANGED company,
             Goes(c, st) \/ Stays(c, st),
             pc[c] \notin {"parked", "rpc", "gap"},
             st \in Building => job[c].stage \in Building
      PROVE  Kept
  <2>1. /\ job'[c].stage = st /\ \A d \in Caller : d # c => job'[d] = job[d]
    BY <1>0, <1>1 DEF Goes, Stays
  <2>2. pc' = pc /\ after' = after /\ unsure' = unsure /\ intact' = intact
    BY <1>1 DEF vars
  <2>3. \A d \in Caller : pc'[d] \in {"parked", "rpc", "gap"} => job'[d].stage = "building"
    BY <1>1, <2>1, <2>2 DEF BuildInv
  <2>4. BuildInv'
    BY <1>1, <2>1, <2>2, <2>3, JobStep
  <2> QED
    BY <2>2, <2>4 DEF Disturbs
\* A caller lets go of its sequence and is idle afterwards.
<1>2. ASSUME NEW c \in Caller, Release(c) \/ Done(c), Goes(c, "idle"), UNCHANGED company,
             Disturbs => Excused
      PROVE  Kept
  <2>1. /\ pc[c] = "owned" /\ pc' = [pc EXCEPT ![c] = "idle"] /\ after' = LeftOut(c)
    BY <1>2 DEF Release, Done
  <2>2. \A d \in Caller : after'[d] \subseteq after[d]
    BY <2>1 DEF LeftOut
  <2>3. /\ job'[c].stage = "idle" /\ \A d \in Caller : d # c => job'[d] = job[d]
        /\ pc'[c] = "idle" /\ \A d \in Caller : d # c => pc'[d] = pc[d]
    BY <1>0, <1>2, <2>1 DEF Goes
  <2>4. \A d \in Caller : pc'[d] \in {"parked", "rpc", "gap"} => job'[d].stage = "building"
    BY <2>3 DEF BuildInv
  <2>5. BuildInv'
    BY <1>2, <2>2, <2>3, <2>4, JobStep DEF Stage, Building
  <2> QED
    BY <1>2, <2>5
\* A call of the manager goes on; the caller stays where it is in build.
<1>3. ASSUME NEW c \in Caller, EnterReserve(c) \/ RpcReturns(c), job[c].stage = "building",
             UNCHANGED <<job, company>>
      PROVE  Kept
  <2>1. after' = after /\ unsure' = unsure /\ (intact' = intact \/ intact' = TRUE)
    BY <1>3 DEF EnterReserve, RpcReturns
  <2>2. \A d \in Caller : d # c => pc'[d] = pc[d]
    BY <1>0, <1>3 DEF EnterReserve, RpcReturns
  <2>3. \A d \in Caller : pc'[d] \in {"parked", "rpc", "gap"} => job'[d].stage = "building"
    BY <1>3, <2>2 DEF BuildInv
  <2>4. BuildInv'
    BY <1>3, <2>1, <2>3 DEF BuildInv
  <2> QED
    BY <2>1, <2>4 DEF Disturbs
<1>4. ASSUME NEW c \in Caller, Builds(c) PROVE Kept
  <2> DEFINE others == {d \in Caller : job[d].stage \in Building}
  <2>1. /\ job' = [job EXCEPT ![c] = [stage |-> "building", clock |-> 0]]
        /\ company' = IF others = {} THEN company \ {c} ELSE company \cup others \cup {c}
        /\ UNCHANGED history /\ pc[c] = "idle" /\ job[c].stage = "idle"
        /\ \E p \in {"gap", "rpc", "parked"} : pc' = [pc EXCEPT ![c] = p]
    <3>1. /\ job[c].stage = "idle" /\ Goes(c, "building")
          /\ EnterReserve(c) \/ ParkReserve(c)
          /\ company' = IF others = {} THEN company \ {c} ELSE company \cup others \cup {c}
      BY <1>4 DEF Builds
    <3>2. CASE EnterReserve(c)
      <4>1. UNCHANGED history /\ pc[c] \in {"idle", "parked"}
            /\ \E p \in {"gap", "rpc"} : pc' = [pc EXCEPT ![c] = p]
        BY <3>2 DEF EnterReserve, StartsReserve
      <4>2. pc[c] = "idle"
        BY <3>1, <4>1 DEF BuildInv
      <4> QED
        BY <3>1, <4>1, <4>2 DEF Goes
    <3>3. CASE ParkReserve(c)
      <4>1. UNCHANGED history /\ pc[c] = "idle" /\ pc' = [pc EXCEPT ![c] = "parked"]
        BY <3>3 DEF ParkReserve, StartsReserve
      <4> QED
        BY <3>1, <4>1 DEF Goes
    <3> QED
      BY <3>1, <3>2, <3>3
  <2>2. /\ job' \in [Caller -> [stage : Stage, clock : Nat]]
        /\ job'[c].stage = "building" /\ \A d \in Caller : d # c => job'[d] = job[d] /\ pc'[d] = pc[d]
    BY <1>0, <2>1 DEF Stage
  <2>3. \A d \in Caller : pc'[d] \in {"parked", "rpc", "gap"} => job'[d].stage = "building"
    BY <2>2 DEF BuildInv
  <2>4. after'[c] = {} /\ after' = after
    BY <2>1 DEF IInv, HistoryInv
  <2>5. ASSUME NEW d \in Caller, NEW e \in Caller, d # e, job'[d].stage \in Building,
               job'[e].stage \in Building
        PROVE  d \in company'
    <3>1. CASE d = c
      <4>1. e \in others
        BY <2>2, <2>5, <3>1
      <4> QED
        BY <2>1, <3>1, <4>1
    <3>2. CASE d # c
      <4>1. d \in others
        BY <2>2, <2>5, <3>2
      <4> QED
        BY <2>1, <4>1
    <3> QED
      BY <3>1, <3>2
  <2>6. ASSUME NEW d \in Caller, job'[d].stage \in Building, d \notin company' PROVE after'[d] = {}
    <3>1. CASE d # c
      <4>1. d \in others /\ job[d].stage \in Building
        BY <2>2, <2>6, <3>1
      <4>2. d \in company'
        BY <2>1, <4>1
      <4> QED
        BY <2>6, <4>2
    <3> QED
      BY <2>4, <3>1
  <2>7. BuildInv'
    BY <2>2, <2>3, <2>5, <2>6 DEF BuildInv
  <2> QED
    BY <2>1, <2>7 DEF Disturbs
<1>5. ASSUME NEW c \in Caller, Reserves(c) PROVE Kept
  <2>1. CASE Commit(c) /\ UNCHANGED <<job, company>>
    <3>1. /\ pc' = [pc EXCEPT ![c] = "owned"] /\ UNCHANGED <<unsure, intact>>
          /\ \A d \in Caller : after'[d] = IF d \in Owners THEN after[d] \cup {c} ELSE after[d]
      BY <2>1 DEF Commit
    <3>2. \A d \in Caller : pc'[d] \in {"parked", "rpc", "gap"} => job'[d].stage = "building"
      BY <1>0, <2>1, <3>1 DEF BuildInv
    <3>3. job[c].stage = "building" /\ c \notin Owners
      BY <1>5, <2>1 DEF Reserves, Commit, Owners
    <3>4. ASSUME NEW d \in Caller, job[d].stage \in Building, d \notin company PROVE after'[d] = {}
      <4>1. d = c
        BY <3>3, <3>4 DEF BuildInv, Building
      <4> QED
        BY <3>1, <3>3, <3>4, <4>1 DEF BuildInv
    <3>5. BuildInv'
      BY <2>1, <3>2, <3>4 DEF BuildInv
    <3> QED
      BY <3>1, <3>5 DEF Disturbs
  <2>2. CASE RpcFails(c) /\ Goes(c, "idle") /\ UNCHANGED company
    <3>1. pc' = [pc EXCEPT ![c] = "idle"] /\ UNCHANGED history
      BY <2>2 DEF RpcFails
    <3>2. /\ job'[c].stage = "idle" /\ \A d \in Caller : d # c => job'[d] = job[d] /\ pc'[d] = pc[d]
          /\ pc'[c] = "idle"
      BY <1>0, <2>2, <3>1 DEF Goes
    <3>3. \A d \in Caller : pc'[d] \in {"parked", "rpc", "gap"} => job'[d].stage = "building"
      BY <3>2 DEF BuildInv
    <3>4. BuildInv'
      BY <2>2, <3>1, <3>2, <3>3, JobStep DEF Stage, Building
    <3> QED
      BY <3>1, <3>4 DEF Disturbs
  <2> QED
    BY <1>3, <1>5, <2>1, <2>2 DEF Reserves
<1>6. ASSUME NEW c \in Caller, Release(c), Goes(c, "idle"), UNCHANGED company,
             job[c].stage \in Building
      PROVE  Kept
  <2>1. ASSUME c \notin company PROVE ~Disturbs
    <3>1. after[c] = {}
      BY <1>6, <2>1 DEF BuildInv
    <3>2. \A d \in Caller : d # c => job[d].stage \notin Building
      BY <1>6, <2>1 DEF BuildInv
    <3>3. Gap = {}
      BY <1>6, <3>2 DEF Gap, BuildInv, Building, Release
    <3> QED
      BY <1>6, <3>1, <3>3 DEF Release, Disturbs
  <2>2. job'[c].stage = "idle"
    BY <1>0, <1>6 DEF Goes
  <2>3. Disturbs => Excused
    BY <1>6, <2>1, <2>2
  <2> HIDE DEF Excused
  <2> QED
    BY <1>2, <1>6, <2>3
<1>7. ASSUME NEW c \in Caller, Plans(c) \/ FeeArrives(c) \/ FeeFails(c) PROVE Kept
  <2>1. job[c].stage \in Building /\ UNCHANGED company
    BY <1>7 DEF Plans, FeeArrives, FeeFails, Building
  <2>2. CASE Releases(c)
    BY <1>6, <2>1, <2>2 DEF Releases
  <2>3. ASSUME pc[c] = "owned", Signs(c) \/ (Goes(c, "fetching") /\ UNCHANGED vars) PROVE Kept
    BY <1>1, <2>1, <2>3 DEF Signs, Stage, Building
  <2>4. ASSUME job[c].stage = "fetching", Signs(c) PROVE Kept
    <3>1. pc[c] \notin {"parked", "rpc", "gap"}
      BY <2>4 DEF BuildInv
    <3> QED
      BY <1>1, <2>1, <2>4, <3>1 DEF Signs, Stage, Building
  <2> QED
    BY <1>7, <2>2, <2>3, <2>4 DEF Plans, FeeArrives, FeeFails
<1>8. ASSUME NEW c \in Caller, Sends(c) \/ SendSettles(c) \/ PollSettles(c) \/ Wakes(c) PROVE Kept
  <2>1. job[c].stage \notin Building /\ pc[c] \notin {"parked", "rpc", "gap"} /\ UNCHANGED company
    BY <1>8 DEF Sends, SendSettles, PollSettles, Wakes, Loops, Throws, Building, BuildInv
  <2>2. CASE \E st \in Stage \ Building : (Goes(c, st) \/ Stays(c, st)) /\ UNCHANGED vars
    BY <1>1, <2>1, <2>2
  <2>3. CASE Done(c) /\ Goes(c, "idle")
    <3>1. ~Disturbs
      BY <2>3 DEF Done, Disturbs
    <3> QED
      BY <1>2, <2>1, <2>3, <3>1
  <2> QED
    BY <1>8, <2>2, <2>3 DEF Sends, SendSettles, PollSettles, Wakes, Loops, Throws, Stage, Building
<1>9. ASSUME NEW c \in Caller, GivesBack(c) \/ Leaves(c) PROVE Kept
  <2>1. /\ job[c].stage \in {"signed", "thrown"} /\ Goes(c, "idle") /\ UNCHANGED company
        /\ Release(c) \/ Done(c)
    BY <1>9 DEF GivesBack, Leaves, Releases
  <2>2. job'[c].stage = "idle"
    BY <1>0, <2>1 DEF Goes
  <2>3. Excused
    BY <2>1, <2>2
  <2> HIDE DEF Excused
  <2> QED
    BY <1>2, <2>1, <2>3
<1>10. ASSUME NEW c \in Caller, Refreshes(c) PROVE Kept
  <2>1. UNCHANGED <<job, company>> /\ job[c].stage = "idle"
    BY <1>10 DEF Refreshes, txVars
  <2>2. /\ after' = after
        /\ \A d \in Caller : d # c => pc'[d] = pc[d]
        /\ pc'[c] \in {"parked_refresh", "rpc_refresh", "idle"}
    <3>1. pc[c] # "rpc"
      BY <2>1 DEF BuildInv
    <3> QED
      BY <1>0, <1>10, <3>1 DEF Refreshes, ParkRefresh, EnterRefresh, RpcReturns, RpcFails
  <2>3. \A d \in Caller : pc'[d] \in {"parked", "rpc", "gap"} => job'[d].stage = "building"
    BY <2>1, <2>2 DEF BuildInv
  <2>4. BuildInv'
    BY <2>1, <2>2, <2>3 DEF BuildInv
  <2>5. Disturbs => EnterRefresh(c)
    BY <1>10 DEF Refreshes, ParkRefresh, RpcReturns, RpcFails, Disturbs
  <2>6. EnterRefresh(c) => pc[c] # "rpc_refresh" /\ pc'[c] = "rpc_refresh"
    BY <1>0 DEF EnterRefresh, StartsRefresh
  <2> QED
    BY <2>4, <2>5, <2>6
<1>11. ASSUME UNCHANGED <<pc, history, company>>,
              \A d \in Caller : job'[d] \in [stage : Stage, clock : Nat] /\ job'[d].stage = job[d].stage,
              job' \in [Caller -> [stage : Stage, clock : Nat]]
       PROVE  Kept
  BY <1>11 DEF BuildInv, Disturbs
<1>12. ASSUME NEW c \in Caller, InLedger(c) PROVE Kept
  BY <1>0, <1>11, <1>12 DEF InLedger, Applied
<1>13. CASE Manual /\ UNCHANGED txVars
  BY <1>0, <1>11, <1>13 DEF Manual, txVars
<1>14. CASE Tick
  <2>1. job' = [d \in Caller |-> IF job[d].clock < MaxClock(job[d].stage)
                                 THEN [job[d] EXCEPT !.clock = @ + 1] ELSE job[d]]
    BY <1>14 DEF Tick
  <2>2. \A d \in Caller : job'[d] \in [stage : Stage, clock : Nat] /\ job'[d].stage = job[d].stage
    BY <1>0, <2>1
  <2> QED
    BY <1>11, <1>14, <2>1, <2>2 DEF Tick, vars
<1>15. CASE UNCHANGED allVars
  BY <1>0, <1>11, <1>15 DEF allVars, txVars, vars
<1> QED
  BY <1>4, <1>5, <1>7, <1>8, <1>9, <1>10, <1>12, <1>13, <1>14, <1>15 DEF TxNext

\* A build without company leaves everybody's sequence alone, however it fails,
\* and execute always; for any number of callers, overlapping as they like.
THEOREM AggregatorKeepsDiscipline == TxSpec => KeepsNonceDiscipline
<1>1. TxInit => IInv /\ BuildInv
  BY NonceInit, BuildInit DEF TxInit
<1>2. IInv /\ BuildInv /\ [TxNext]_allVars => (IInv /\ BuildInv)'
  BY BuildStep, NonceStep, TxStepsAreNonceSteps
<1>3. IInv /\ BuildInv /\ [TxNext]_allVars =>
        [Disturbs =>
            \E c \in Caller :
               \/ job[c].stage \in Building /\ job'[c].stage = "idle" /\ c \in company
               \/ job[c].stage \in {"signed", "thrown"} /\ job'[c].stage = "idle"
               \/ pc[c] # "rpc_refresh" /\ pc'[c] = "rpc_refresh"]_allVars
  BY BuildStep
<1> QED
  BY <1>1, <1>2, <1>3, PTL DEF TxSpec, KeepsNonceDiscipline

-----------------------------------------------------------------------------
(* Fees *)

LEMMA LongestTtlIsLongest == LongestTtl \in Ttl /\ \A t \in Ttl : t <= LongestTtl
<1>1. \E t \in Ttl : \A u \in Ttl : u <= t
  BY TxAssumption, GreatestNumber DEF TxAssumption
<1> QED
  BY <1>1 DEF LongestTtl

FeeType ==
    /\ fee \in [left : Nat, age : Nat]
    /\ job \in [Caller -> [stage : Stage, clock : Nat]]

FeeInv == FeeType /\ FeeIsFresh

\* The base fee ages as its time runs out, and what a request has waited for it
\* is taken off that time, whatever other requests have stored meanwhile.
LEMMA FeeStep == FeeInv /\ [TxNext]_allVars => FeeInv'
<1> SUFFICES ASSUME FeeInv, [TxNext]_allVars PROVE FeeInv'
  OBVIOUS
<1> USE DEF FeeInv, FeeType, Stage
<1>0. LongestTtl \in Nat /\ \A t \in Ttl : t \in Nat /\ t <= LongestTtl
  BY LongestTtlIsLongest, TxAssumption DEF TxAssumption
\* Most steps leave the base fee alone and at most move a caller.
<1>1. ASSUME UNCHANGED fee,
             \/ UNCHANGED job
             \/ \E c \in Caller, st \in Stage : Goes(c, st) \/ Stays(c, st)
      PROVE  FeeInv'
  BY <1>1 DEF Goes, Stays, FeeIsFresh
<1>2. ASSUME NEW c \in Caller, FeeArrives(c) PROVE FeeInv'
  <2>1. PICK ttl \in Ttl, age \in 0..job[c].clock : Caches(c, ttl, age)
    BY <1>2 DEF FeeArrives
  <2>2. \E st \in Stage : Goes(c, st)
    BY <1>2 DEF FeeArrives, Signs, Releases
  <2>3. job' \in [Caller -> [stage : Stage, clock : Nat]]
    BY <2>2 DEF Goes
  <2>4. /\ job[c].clock \in Nat /\ age \in Nat /\ age <= job[c].clock
        /\ ttl \in Nat /\ ttl <= LongestTtl
    BY <1>0, <2>1
  <2>5. CASE ttl > job[c].clock
    <3>1. fee' = [left |-> ttl - job[c].clock, age |-> age]
      BY <2>1, <2>5 DEF Caches
    <3> QED
      BY <1>0, <2>3, <2>4, <2>5, <3>1 DEF FeeIsFresh
  <2>6. CASE ~(ttl > job[c].clock)
    <3>1. fee' = [left |-> 0, age |-> age]
      BY <2>1, <2>6 DEF Caches
    <3> QED
      BY <2>3, <2>4, <3>1 DEF FeeIsFresh
  <2> QED
    BY <2>5, <2>6
<1>3. CASE Tick
  <2>1. job' \in [Caller -> [stage : Stage, clock : Nat]]
    BY <1>3 DEF Tick
  <2>2. /\ fee'.left = IF fee.left > 0 THEN fee.left - 1 ELSE 0
        /\ fee'.age = IF fee.left > 1 THEN fee.age + 1 ELSE 0
        /\ fee' = [left |-> fee'.left, age |-> fee'.age]
    BY <1>3 DEF Tick
  <2>3. fee.left \in Nat /\ fee.age \in Nat
    OBVIOUS
  <2>4. fee'.left \in Nat /\ fee'.age \in Nat
    BY <2>2, <2>3
  <2>5. FeeIsFresh'
    BY <1>0, <2>2, <2>3 DEF FeeIsFresh
  <2> QED
    BY <2>1, <2>2, <2>4, <2>5
<1>4. ASSUME NEW c \in Caller, Builds(c) \/ Reserves(c) \/ Plans(c) \/ FeeFails(c)
      PROVE  FeeInv'
  BY <1>1, <1>4 DEF Builds, Reserves, Plans, FeeFails, Signs, Releases
<1>5. ASSUME NEW c \in Caller,
             \/ Sends(c) \/ SendSettles(c)
             \/ PollSettles(c) \/ Wakes(c) \/ InLedger(c)
             \/ GivesBack(c) \/ Leaves(c) \/ Refreshes(c)
      PROVE  FeeInv'
  <2>1. UNCHANGED fee
    BY <1>5 DEF Sends, SendSettles, PollSettles, Wakes, InLedger, Loops, Throws,
                GivesBack, Leaves, Refreshes, txVars
  <2>2. UNCHANGED job \/ \E st \in Stage : Goes(c, st) \/ Stays(c, st)
    BY <1>5 DEF Sends, SendSettles, PollSettles, Wakes, InLedger, Loops, Throws,
                GivesBack, Leaves, Refreshes, Releases, txVars
  <2> QED
    BY <1>1, <2>1, <2>2
<1>6. CASE UNCHANGED allVars \/ UNCHANGED txVars
  BY <1>1, <1>6 DEF allVars, txVars
<1> QED
  BY <1>2, <1>3, <1>4, <1>5, <1>6 DEF TxNext

\* Division rounds up: the quotient covers the dividend, with less than one
\* divisor to spare.
LEMMA CeilDivCovers ==
    ASSUME NEW a \in Nat, NEW b \in Nat \ {0}
    PROVE  /\ CeilDiv(a, b) \in Nat
           /\ a <= b * CeilDiv(a, b)
           /\ b * CeilDiv(a, b) < a + b
<1> DEFINE x == a + b - 1
           q == x \div b
<1>1. x \in Nat
  OBVIOUS
<1>2. q \in Nat /\ b * q <= x /\ x < b * q + b
  <2> HIDE DEF x
  <2> QED
    BY <1>1, Quotient
<1>3. b * q \in Nat
  BY <1>2
<1> HIDE DEF q
<1>4. a <= b * q /\ b * q < a + b
  BY <1>2, <1>3
<1> QED
  BY <1>2, <1>4 DEF q, CeilDiv

\* Rounding up passes over whole multiples of the divisor.
LEMMA CeilDivShift ==
    ASSUME NEW a \in Nat, NEW b \in Nat \ {0}, NEW k \in Nat
    PROVE  CeilDiv(a + b * k, b) = CeilDiv(a, b) + k
<1> DEFINE q == CeilDiv(a, b)
           r == CeilDiv(a + b * k, b)
<1>0. b * k \in Nat /\ a + b * k \in Nat
  OBVIOUS
<1>1. q \in Nat /\ a <= b * q /\ b * q < a + b
  BY CeilDivCovers
<1>2. r \in Nat /\ a + b * k <= b * r /\ b * r < a + b * k + b
  BY <1>0, CeilDivCovers
<1> HIDE DEF q, r
<1>3. b * (q + k) = b * q + b * k
  BY <1>1
<1>3a. b * q \in Nat /\ b * r \in Nat /\ b * (q + k) \in Nat
  BY <1>1, <1>2
<1>4. b * (q + k) < b * r + b
  BY <1>0, <1>1, <1>2, <1>3, <1>3a
<1>5. b * r < b * (q + k) + b
  BY <1>0, <1>1, <1>2, <1>3, <1>3a
<1>6. q + k <= r
  BY <1>1, <1>2, <1>4, Cancels
<1>7. r <= q + k
  BY <1>1, <1>2, <1>5, Cancels
<1> QED
  BY <1>1, <1>2, <1>6, <1>7 DEF q, r

\* For any batch, base fee, multiplier in tenths and safety margin, the envelope
\* pays for the plan, a batch costs no more than its operations would one by
\* one, and a batch of one costs what the oracle estimates.
THEOREM EnvelopeCoversThePlan ==
    ASSUME NEW n \in Nat \ {0}, NEW base \in Nat, NEW tenths \in Nat, NEW safety \in Nat
    PROVE  /\ EnvelopeFee(n, base, tenths, safety) >= totalMaxFee(n, base, tenths, safety)
           /\ EnvelopeFee(n, base, tenths, safety) <= unbatchedTotalMaxFee(n, base, tenths, safety)
           /\ EnvelopeFee(1, base, tenths, safety) = estimateFee(base, tenths, safety)
<1> DEFINE b == base * tenths
           p == CeilDiv(b, 10)
           s == CeilDiv(safety, n)
<1>1. b \in Nat /\ p \in Nat /\ s \in Nat /\ safety <= n * s /\ n * s < safety + n
  <2>1. b \in Nat
    OBVIOUS
  <2>2. p \in Nat
    <3> HIDE DEF b
    <3> QED
      BY <2>1, CeilDivCovers
  <2> QED
    BY <2>1, <2>2, CeilDivCovers
<1>2. /\ totalMaxFee(n, base, tenths, safety) = p * n + safety
      /\ unbatchedTotalMaxFee(n, base, tenths, safety) = (p + safety) * n
      /\ EnvelopeFee(n, base, tenths, safety) = n * CeilDiv(p * n + safety, n)
      /\ EnvelopeFee(1, base, tenths, safety) = 1 * CeilDiv(p * 1 + safety, 1)
      /\ estimateFee(base, tenths, safety) = CeilDiv(b + 10 * safety, 10)
  BY DEF totalMaxFee, unbatchedTotalMaxFee, EnvelopeFee, estimateFee, perOperationMaxFee
<1> HIDE DEF b, p, s
<1>3. CeilDiv(p * n + safety, n) = s + p
  <2>1. p * n + safety = safety + n * p
    BY <1>1
  <2>2. CeilDiv(safety + n * p, n) = s + p
    BY <1>1, CeilDivShift DEF s
  <2> QED
    BY <2>1, <2>2
<1>4. CeilDiv(p * 1 + safety, 1) = p + safety
  BY <1>1 DEF CeilDiv
<1>5. CeilDiv(b + 10 * safety, 10) = p + safety
  BY <1>1, CeilDivShift DEF p
<1>6. s <= safety
  <2>1. CASE safety = 0
    <3>1. n * s < n * 0 + n
      BY <1>1, <2>1
    <3> QED
      BY <1>1, <2>1, <3>1, Cancels
  <2>2. CASE safety >= 1
    <3>1. n * safety >= safety
      BY <2>2
    <3>2. n * s < n * safety + n
      BY <1>1, <3>1
    <3> QED
      BY <1>1, <3>2, Cancels
  <2> QED
    BY <2>1, <2>2
<1>7. n * (s + p) = n * s + p * n
  BY <1>1
<1>8. n * s <= n * safety /\ (p + safety) * n = p * n + n * safety
  BY <1>1, <1>6
<1>9. n * s \in Nat /\ p * n \in Nat /\ n * safety \in Nat
  BY <1>1
<1>10. n * (s + p) >= p * n + safety /\ n * (s + p) <= (p + safety) * n
  BY <1>1, <1>7, <1>8, <1>9
<1> QED
  BY <1>1, <1>2, <1>3, <1>4, <1>5, <1>10

\* A base fee from the cache was read less than the longest TTL ago, with any
\* number of overlapping fetches and any TTLs, and what is computed from it adds
\* up.  This needs no discipline of the callers.
THEOREM CallersPayTheRightFee == TxSpec => []FeesAreRight
<1>1. TxInit => FeeInv
  BY DEF TxInit, FeeInv, FeeType, FeeIsFresh, Stage
<1>2. FeeInv /\ [TxNext]_allVars => FeeInv'
  BY FeeStep
<1>3. FeesAddUp
  <2>1. 1..4 \subseteq Nat \ {0} /\ {1, 7, 100} \subseteq Nat /\ {10, 12, 25} \subseteq Nat
          /\ {0, 1, 5} \subseteq Nat
    OBVIOUS
  <2> QED
    BY <2>1, EnvelopeCoversThePlan DEF FeesAddUp
<1>4. FeeInv => FeesAreRight
  BY <1>3 DEF FeeInv, FeesAreRight
<1> QED
  BY <1>1, <1>2, <1>4, PTL DEF TxSpec

=============================================================================
