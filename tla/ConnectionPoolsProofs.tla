------------------------ MODULE ConnectionPoolsProofs ------------------------
(***************************************************************************)
(* Theorems about ConnectionPools, for any connections, settings, ports,   *)
(* callers and limit.  The invariant adds to the properties who creates a  *)
(* pool, that no tunnel is opened beside a live one, and what shutdown     *)
(* still waits for.                                                        *)
(***************************************************************************)
EXTENDS ConnectionPools, FiniteSetTheorems, TLAPS

\* A call under way has a key, and a pool has one creator.
Creators ==
    /\ \A k \in Caller : pc[k] # "idle" => key[k] \in Key
    /\ \A k \in Caller : pc[k] = "create" => pools[key[k]] = "creating"
    /\ \A j, k \in Caller : pc[j] = "create" /\ pc[k] = "create" /\ key[j] = key[k] => j = k

\* A live tunnel has one port and nobody else's, and none is opened beside it.
Owners ==
    /\ \A c \in alive : \E p \in Port : tunnels[c] = {p}
    /\ \A c, d \in alive : tunnels[c] = tunnels[d] => c = d
    /\ \A c \in Conn : opening[c] # "no" => c \notin alive

\* A pool that shutdown will not find is late, or its creation is awaited.
Drained ==
    /\ stage = "creations" =>
         \A x \in Key : pools[x] = "creating" => x \in late \/ x \in awaited
    /\ stage = "pools" => \A x \in Key : pools[x] \in {"creating", "open"} => x \in late
    /\ stage \in {"openings", "tunnels", "exit"} =>
         \A x \in Key : pools[x] # "none" => x \in late

Counted == IsFiniteSet(Known) /\ LimitKept

IInv == /\ TypeOK /\ Creators /\ PoolsInMap
        /\ Owners /\ ForwardsInMap
        /\ Drained /\ Counted

-----------------------------------------------------------------------------
\* Answering calls.
LEMMA AnswerEffect ==
    ASSUME TypeOK, NEW K \in SUBSET Caller, Answer(K)
    PROVE  /\ pc' \in [Caller -> Waiting \cup {"idle"}]
           /\ key' \in [Caller -> Key \cup {NoKey}]
           /\ \A k \in K : pc'[k] = "idle"
           /\ \A k \in Caller \ K : pc'[k] = pc[k] /\ key'[k] = key[k]
BY DEF TypeOK, Answer

LEMMA TypedTunnels ==
    ASSUME TypeOK, [Next]_vars
    PROVE  TunnelsTypeOK'
<1> USE DEF TypeOK, TunnelsTypeOK
<1>1. CASE UNCHANGED tunnelVars
  BY <1>1 DEF tunnelVars
<1>2. ASSUME NEW k \in Caller, CallWaits(k) PROVE TunnelsTypeOK'
  <2>1. PICK c \in Conn : WaitForTunnel(c)
    BY <1>2 DEF CallWaits
  <2>2. opening' \in [Conn -> {"no", "connect", "listen"}] /\ target' \in [Conn -> Version]
    BY <2>1 DEF WaitForTunnel
  <2> QED
    BY <2>1, <2>2 DEF WaitForTunnel
<1>3. ASSUME NEW c \in Conn, OpenEnds(c) PROVE TunnelsTypeOK'
  <2>1. CASE Connected(c)
    BY <2>1 DEF Connected, Ready
  <2>2. CASE NoTunnel(c)
    BY <2>2 DEF NoTunnel, OpenFails
  <2>3. CASE TunnelUp(c)
    <3>1. PICK p \in Port : Opened(c, p)
      BY <2>3 DEF TunnelUp
    <3>2. forward' \in [Port -> SUBSET (Conn \X Version)]
      BY <3>1 DEF Opened
    <3>3. tunnels' \in [Conn -> SUBSET Port]
      BY <3>1 DEF Opened
    <3> QED
      BY <3>1, <3>2, <3>3 DEF Opened
  <2> QED
    BY <1>3, <2>1, <2>2, <2>3 DEF OpenEnds
<1>4. ASSUME NEW c \in Conn, TransportLost(c) PROVE TunnelsTypeOK'
  BY <1>4 DEF TransportLost, Dropped
<1>5. CASE Edit
  BY <1>5 DEF Edit, Edited
<1>6. CASE CloseForwards
  BY <1>6 DEF CloseForwards, CloseTunnels
<1> QED
  BY <1>1, <1>2, <1>3, <1>4, <1>5, <1>6
  DEF Next, Event, vars, Call, Created, CreateFails, LookUp, PoolEnded, Shutdown, ClosePools,
      PoolsClosed, Exit

\* The rest of the type invariant; live stays a natural number because only
\* pools that are there are ended.
LEMMA TypedPools ==
    ASSUME TypeOK, Creators, PoolsInMap, [Next]_vars
    PROVE  TypeOK'
<1> USE DEF Waiting, Stages
<1>0. TunnelsTypeOK'
  BY TypedTunnels
<1>1. CASE UNCHANGED vars
  BY <1>0, <1>1 DEF TypeOK, vars, callVars, poolVars, stopVars
<1>2. ASSUME NEW k \in Caller, Call(k) PROVE TypeOK'
  <2>1. PICK c \in Conn, e \in Endpoint : Arrive(k, "keyed", c, e)
    BY <1>2 DEF Call
  <2>2. settings[c] \in Version /\ <<c, settings[c], e>> \in Key
    BY DEF TypeOK, TunnelsTypeOK, Key
  <2> QED
    BY <1>0, <1>2, <2>1, <2>2 DEF TypeOK, Call, Arrive, poolVars, stopVars
<1>3. ASSUME NEW k \in Caller, CallWaits(k) PROVE TypeOK'
  <2>1. PICK c \in Conn : Arrive(k, "tunnel", c, Direct)
    BY <1>3 DEF CallWaits
  <2>2. settings[c] \in Version /\ <<c, settings[c], Direct>> \in Key
    BY DEF TypeOK, TunnelsTypeOK, Key, Endpoint
  <2> QED
    BY <1>0, <1>3, <2>1, <2>2 DEF TypeOK, CallWaits, Arrive, poolVars, stopVars
<1>4. ASSUME NEW c \in Conn, OpenEnds(c) PROVE TypeOK'
  <2>1. CASE Connected(c)
    BY <1>0, <2>1 DEF Connected, TypeOK, callVars, poolVars, stopVars
  <2>2. CASE NoTunnel(c)
    <3>1. /\ pc' \in [Caller -> Waiting \cup {"idle"}]
          /\ key' \in [Caller -> Key \cup {NoKey}]
      BY <2>2, AnswerEffect DEF NoTunnel, WaitingFor
    <3> QED
      BY <1>0, <2>2, <3>1 DEF NoTunnel, TypeOK, poolVars
  <2>3. CASE TunnelUp(c)
    <3>1. PICK p \in Port :
            key' = [k \in Caller |-> IF k \in WaitingFor(c)
                                     THEN <<key[k][1], key[k][2], p>> ELSE key[k]]
      BY <2>3 DEF TunnelUp
    <3>2. ASSUME NEW k \in WaitingFor(c) PROVE <<key[k][1], key[k][2], p>> \in Key
      <4>1. k \in Caller /\ key[k] \in Key
        BY <3>2 DEF Creators, WaitingFor
      <4> QED
        BY <4>1 DEF Key, Endpoint
    <3>3. key' \in [Caller -> Key \cup {NoKey}]
      BY <3>1, <3>2 DEF TypeOK
    <3>4. pc' \in [Caller -> Waiting \cup {"idle"}]
      BY <2>3 DEF TunnelUp, TypeOK
    <3> QED
      BY <1>0, <2>3, <3>3, <3>4 DEF TunnelUp, TypeOK, poolVars
  <2> QED
    BY <1>4, <2>1, <2>2, <2>3 DEF OpenEnds
<1>5. ASSUME NEW k \in Caller, LookUp(k) PROVE TypeOK'
  <2>1. key[k] \in Key
    BY <1>5 DEF LookUp, Creators
  <2>2. CASE Answer({k}) /\ UNCHANGED <<pools, late>>
    BY <1>0, <1>5, <2>2, AnswerEffect DEF LookUp, TypeOK, stopVars
  <2>3. CASE Joins(k)
    BY <1>0, <1>5, <2>3 DEF LookUp, Joins, TypeOK, stopVars
  <2>4. CASE Creates(k)
    <3>1. pools' \in [Key -> {"none", "creating", "open", "ending"}] /\ late' \subseteq Key
      BY <2>1, <2>4 DEF Creates, TypeOK
    <3>2. pc' \in [Caller -> Waiting \cup {"idle"}] /\ key' = key
      BY <2>4 DEF Creates, TypeOK
    <3> QED
      BY <1>0, <1>5, <3>1, <3>2 DEF LookUp, TypeOK, stopVars
  <2> QED
    BY <1>5, <2>2, <2>3, <2>4 DEF LookUp
<1>6. ASSUME NEW k \in Caller, Created(k) \/ CreateFails(k) PROVE TypeOK'
  <2>1. key[k] \in Key /\ SharesCreation(k) \subseteq Caller
    BY <1>6 DEF Created, CreateFails, Creators, SharesCreation
  <2>2. /\ pc' \in [Caller -> Waiting \cup {"idle"}]
        /\ key' \in [Caller -> Key \cup {NoKey}]
    BY <1>6, <2>1, AnswerEffect DEF Created, CreateFails
  <2>3. pools' \in [Key -> {"none", "creating", "open", "ending"}]
    BY <1>6, <2>1 DEF Created, CreateFails, TypeOK
  <2>4. live' \in [Key -> Nat]
    BY <1>6, <2>1 DEF Created, CreateFails, TypeOK
  <2> QED
    BY <1>0, <1>6, <2>2, <2>3, <2>4 DEF Created, CreateFails, TypeOK
<1>7. ASSUME NEW x \in Key, PoolEnded(x) PROVE TypeOK'
  <2>1. live[x] = 1
    BY <1>7 DEF PoolEnded, PoolsInMap
  <2>2. live' = [live EXCEPT ![x] = 0]
    BY <1>7, <2>1 DEF PoolEnded
  <2> QED
    BY <1>0, <1>7, <2>2 DEF PoolEnded, TypeOK, callVars, stopVars
<1>8. CASE Edit \/ CloseForwards \/ \E c \in Conn : TransportLost(c)
  BY <1>0, <1>8 DEF Edit, CloseForwards, TransportLost, TypeOK, callVars, poolVars, stopVars
<1>9. CASE Shutdown \/ ClosePools \/ PoolsClosed \/ Exit
  BY <1>0, <1>9 DEF Shutdown, ClosePools, PoolsClosed, Exit, TypeOK, callVars, poolVars
<1> QED
  BY <1>1, <1>2, <1>3, <1>4, <1>5, <1>6, <1>7, <1>8, <1>9 DEF Next, Event

-----------------------------------------------------------------------------
\* One creation at a time for each key, and one pool.
LEMMA CreatorsStep ==
    ASSUME TypeOK, Creators, PoolsInMap, [Next]_vars
    PROVE  Creators' /\ PoolsInMap'
<1>1. CASE UNCHANGED <<callVars, poolVars>>
  BY <1>1 DEF Creators, PoolsInMap, callVars, poolVars
<1>2. ASSUME NEW k \in Caller, NEW c \in Conn, NEW e \in Endpoint,
             NEW next \in {"keyed", "tunnel"}, Arrive(k, next, c, e), UNCHANGED poolVars
      PROVE  Creators' /\ PoolsInMap'
  <2>1. <<c, settings[c], e>> \in Key
    BY DEF TypeOK, TunnelsTypeOK, Key
  <2>2. \A j \in Caller : j # k => pc'[j] = pc[j] /\ key'[j] = key[j]
    BY <1>2 DEF Arrive, TypeOK
  <2>3. pc'[k] \in {"keyed", "tunnel"} /\ key'[k] \in Key
    BY <1>2, <2>1 DEF Arrive, TypeOK
  <2> QED
    BY <1>2, <2>2, <2>3 DEF Creators, PoolsInMap, poolVars
<1>3. ASSUME NEW K \in SUBSET Caller, Answer(K), UNCHANGED poolVars
      PROVE  Creators' /\ PoolsInMap'
  BY <1>3, AnswerEffect DEF Creators, PoolsInMap, poolVars
<1>4. ASSUME NEW c \in Conn, TunnelUp(c) PROVE Creators' /\ PoolsInMap'
  <2>1. PICK p \in Port :
          key' = [k \in Caller |-> IF k \in WaitingFor(c)
                                   THEN <<key[k][1], key[k][2], p>> ELSE key[k]]
    BY <1>4 DEF TunnelUp
  <2>2. ASSUME NEW k \in WaitingFor(c) PROVE pc'[k] = "keyed" /\ key'[k] \in Key
    <3>1. k \in Caller /\ key[k] \in Key
      BY <2>2 DEF Creators, WaitingFor
    <3>2. <<key[k][1], key[k][2], p>> \in Key
      BY <3>1 DEF Key, Endpoint
    <3> QED
      BY <1>4, <2>1, <2>2, <3>1, <3>2 DEF TunnelUp
  <2>3. \A k \in Caller \ WaitingFor(c) : pc'[k] = pc[k] /\ key'[k] = key[k]
    BY <1>4, <2>1 DEF TunnelUp
  <2>4. UNCHANGED poolVars
    BY <1>4 DEF TunnelUp
  <2> QED
    BY <2>2, <2>3, <2>4 DEF Creators, PoolsInMap, poolVars
<1>5. ASSUME NEW k \in Caller, LookUp(k) PROVE Creators' /\ PoolsInMap'
  <2>1. key[k] \in Key /\ pc[k] = "keyed" /\ live' = live
    BY <1>5 DEF LookUp, Creators
  <2>2. CASE Answer({k}) /\ UNCHANGED <<pools, late>>
    BY <1>3, <2>1, <2>2 DEF poolVars
  <2>3. CASE Joins(k)
    <3>1. key' = key /\ pools' = pools /\ pc' = [pc EXCEPT ![k] = "join"]
      BY <2>3 DEF Joins
    <3> QED
      BY <2>1, <3>1 DEF Creators, PoolsInMap, TypeOK
  <2>4. CASE Creates(k) /\ pools[key[k]] = "none"
    <3>1. key' = key /\ pools' = [pools EXCEPT ![key[k]] = "creating"]
          /\ pc' = [pc EXCEPT ![k] = "create"]
      BY <2>4 DEF Creates
    <3>2. \A j \in Caller : pc[j] = "create" => key[j] # key[k]
      BY <2>4 DEF Creators
    <3> QED
      BY <2>1, <2>4, <3>1, <3>2 DEF Creators, PoolsInMap, TypeOK
  <2> QED
    BY <1>5, <2>2, <2>3, <2>4 DEF LookUp
<1>6. ASSUME NEW k \in Caller, Created(k) \/ CreateFails(k) PROVE Creators' /\ PoolsInMap'
  <2>1. key[k] \in Key /\ pc[k] = "create" /\ pools[key[k]] = "creating"
        /\ SharesCreation(k) \in SUBSET Caller /\ k \in SharesCreation(k)
    BY <1>6 DEF Created, CreateFails, Creators, SharesCreation
  <2>2. /\ \A j \in SharesCreation(k) : pc'[j] = "idle"
        /\ \A j \in Caller \ SharesCreation(k) : pc'[j] = pc[j] /\ key'[j] = key[j]
    BY <1>6, <2>1, AnswerEffect DEF Created, CreateFails
  <2>3. \A j \in Caller : pc'[j] = "create" => /\ pc[j] = "create" /\ key'[j] = key[j]
                                              /\ key[j] # key[k]
    BY <2>1, <2>2 DEF Creators
  <2>4. \A x \in Key : x # key[k] => pools'[x] = pools[x] /\ live'[x] = live[x]
    BY <1>6 DEF Created, CreateFails, TypeOK
  <2>5. \A j \in Caller : pc'[j] # "idle" => key'[j] \in Key
    BY <2>2 DEF Creators
  <2>6. Creators'
    <3>1. \A j \in Caller : pc'[j] = "create" => pools'[key'[j]] = "creating"
      BY <2>3, <2>4, <2>5 DEF Creators
    <3>2. \A i, j \in Caller : pc'[i] = "create" /\ pc'[j] = "create" /\ key'[i] = key'[j]
                               => i = j
      BY <2>3 DEF Creators
    <3> QED
      BY <2>5, <3>1, <3>2 DEF Creators
  <2>7. live'[key[k]] = IF pools'[key[k]] \in {"open", "ending"} THEN 1 ELSE 0
    BY <1>6, <2>1 DEF Created, CreateFails, TypeOK, PoolsInMap
  <2>8. PoolsInMap'
    BY <2>4, <2>7 DEF PoolsInMap
  <2> QED
    BY <2>6, <2>8
<1>7. ASSUME NEW x \in Key, PoolEnded(x) PROVE Creators' /\ PoolsInMap'
  <2>1. pools[x] = "ending" /\ live[x] = 1
    BY <1>7 DEF PoolEnded, PoolsInMap
  <2>2. pools' = [pools EXCEPT ![x] = "none"] /\ live' = [live EXCEPT ![x] = 0]
    BY <1>7, <2>1 DEF PoolEnded
  <2>3. PoolsInMap'
    BY <2>2 DEF PoolsInMap, TypeOK
  <2>4. UNCHANGED <<pc, key>>
    BY <1>7 DEF PoolEnded, callVars
  <2> QED
    BY <2>1, <2>2, <2>3, <2>4 DEF Creators, TypeOK
<1>8. CASE ClosePools
  <2>1. \A x \in Key : /\ pools'[x] = "creating" <=> pools[x] = "creating"
                       /\ pools'[x] \in {"open", "ending"} <=> pools[x] \in {"open", "ending"}
    BY <1>8 DEF ClosePools, TypeOK
  <2>2. live' = live /\ UNCHANGED <<pc, key>>
    BY <1>8 DEF ClosePools, callVars
  <2> QED
    BY <2>1, <2>2 DEF Creators, PoolsInMap
<1>9. ASSUME NEW k \in Caller, Call(k) \/ CallWaits(k) PROVE Creators' /\ PoolsInMap'
  <2>1. UNCHANGED poolVars
    BY <1>9 DEF Call, CallWaits
  <2>2. CASE Call(k)
    <3>1. PICK c \in Conn, e \in Endpoint : Arrive(k, "keyed", c, e)
      BY <2>2 DEF Call
    <3> QED
      BY <1>2, <2>1, <3>1
  <2>3. CASE CallWaits(k)
    <3>1. PICK c \in Conn : Arrive(k, "tunnel", c, Direct)
      BY <2>3 DEF CallWaits
    <3>2. Direct \in Endpoint
      BY DEF Endpoint
    <3> QED
      BY <1>2, <2>1, <3>1, <3>2
  <2> QED
    BY <1>9, <2>2, <2>3
<1>10. ASSUME NEW c \in Conn, OpenEnds(c) PROVE Creators' /\ PoolsInMap'
  <2>1. CASE Connected(c)
    BY <1>1, <2>1 DEF Connected
  <2>2. CASE NoTunnel(c)
    <3>1. WaitingFor(c) \in SUBSET Caller
      BY DEF WaitingFor
    <3> QED
      BY <1>3, <2>2, <3>1 DEF NoTunnel
  <2> QED
    BY <1>4, <1>10, <2>1, <2>2 DEF OpenEnds
<1>11. CASE \/ UNCHANGED vars \/ Edit \/ Shutdown \/ PoolsClosed \/ CloseForwards \/ Exit
            \/ \E c \in Conn : TransportLost(c)
  BY <1>1, <1>11 DEF vars, Edit, Shutdown, PoolsClosed, CloseForwards, Exit, TransportLost
<1> QED
  BY <1>5, <1>6, <1>7, <1>8, <1>9, <1>10, <1>11 DEF Next, Event

-----------------------------------------------------------------------------
\* Forwards and the map of tunnels agree.
LEMMA OwnersStep ==
    ASSUME TypeOK, Owners, ForwardsInMap, [Next]_vars
    PROVE  Owners' /\ ForwardsInMap'
<1> USE DEF TypeOK, TunnelsTypeOK
<1>1. CASE UNCHANGED tunnelVars
  BY <1>1 DEF tunnelVars, Owners, ForwardsInMap
<1>2. ASSUME NEW c \in Conn, WaitForTunnel(c) \/ Ready(c) \/ OpenFails(c)
      PROVE  Owners' /\ ForwardsInMap'
  <2>1. UNCHANGED <<tunnels, alive, forward>>
    BY <1>2 DEF WaitForTunnel, Ready, OpenFails
  <2>2. \A d \in Conn : opening'[d] # "no" => opening[d] # "no" \/ d \notin alive
    BY <1>2 DEF WaitForTunnel, Ready, OpenFails
  <2>3. ForwardsInMap'
    BY <2>1 DEF ForwardsInMap
  <2> QED
    BY <2>1, <2>2, <2>3 DEF Owners
<1>3. ASSUME NEW c \in Conn, NEW p \in Port, Opened(c, p) PROVE Owners' /\ ForwardsInMap'
  <2>1. c \notin alive /\ \A d \in alive : tunnels[d] # {p}
    BY <1>3 DEF Opened, Owners, ForwardsInMap
  <2>2. \A d \in alive : tunnels'[d] = tunnels[d] /\ d # c
    BY <1>3, <2>1 DEF Opened
  <2>3. tunnels'[c] = {p} /\ alive' = alive \cup {c} /\ opening'[c] = "no"
    BY <1>3 DEF Opened
  <2>4. \A d \in Conn : d # c => opening'[d] = opening[d]
    BY <1>3 DEF Opened
  <2>5. Owners'
    BY <2>1, <2>2, <2>3, <2>4 DEF Owners
  <2>6. ASSUME NEW q \in Port, NEW d \in Conn
        PROVE  (\E v \in Version : <<d, v>> \in forward'[q]) <=> d \in alive' /\ tunnels'[d] = {q}
    <3>1. CASE q = p
      <4>1. forward'[q] = {<<c, target[c]>>} /\ target[c] \in Version
        BY <1>3, <3>1 DEF Opened
      <4>2. (\E v \in Version : <<d, v>> \in forward'[q]) <=> d = c
        BY <4>1
      <4> QED
        BY <2>1, <2>2, <2>3, <3>1, <4>2
    <3>2. CASE q # p
      <4>1. forward'[q] = forward[q]
        BY <1>3, <3>2 DEF Opened
      <4>2. tunnels'[c] # {q}
        BY <2>3, <3>2
      <4> QED
        BY <2>1, <2>2, <2>3, <4>1, <4>2 DEF ForwardsInMap
    <3> QED
      BY <3>1, <3>2
  <2> QED
    BY <2>5, <2>6 DEF ForwardsInMap
<1>4. ASSUME NEW c \in Conn, Dropped(c) PROVE Owners' /\ ForwardsInMap'
  <2>1. /\ c \in alive /\ alive' = alive \ {c} /\ tunnels' = tunnels /\ opening' = opening
        /\ forward' = [p \in Port |-> IF p \in tunnels[c] THEN {} ELSE forward[p]]
    BY <1>4 DEF Dropped
  <2>2. PICK p \in Port : tunnels[c] = {p}
    BY <2>1 DEF Owners
  <2>3. Owners'
    BY <2>1 DEF Owners
  <2>4. ASSUME NEW q \in Port, NEW d \in Conn
        PROVE  (\E v \in Version : <<d, v>> \in forward'[q]) <=> d \in alive' /\ tunnels'[d] = {q}
    <3>1. CASE q = p
      <4>1. forward'[q] = {}
        BY <2>1, <2>2, <3>1
      <4>2. \A b \in alive' : tunnels[b] # {p}
        BY <2>1, <2>2 DEF Owners
      <4> QED
        BY <2>1, <3>1, <4>1, <4>2
    <3>2. CASE q # p
      <4>1. forward'[q] = forward[q]
        BY <2>1, <2>2, <3>2
      <4>2. tunnels[c] # {q}
        BY <2>2, <3>2
      <4> QED
        BY <2>1, <4>1, <4>2 DEF ForwardsInMap
    <3> QED
      BY <3>1, <3>2
  <2> QED
    BY <2>3, <2>4 DEF ForwardsInMap
<1>5. CASE CloseTunnels
  <2>1. /\ alive' = {} /\ opening' = opening
        /\ forward' = [p \in Port |->
                         IF \E c \in alive : p \in tunnels[c] THEN {} ELSE forward[p]]
    BY <1>5 DEF CloseTunnels
  <2>2. ASSUME NEW q \in Port, NEW d \in Conn, NEW v \in Version PROVE <<d, v>> \notin forward'[q]
    <3>1. CASE <<d, v>> \in forward[q]
      <4>1. d \in alive /\ q \in tunnels[d]
        BY <3>1 DEF ForwardsInMap
      <4> QED
        BY <2>1, <4>1
    <3>2. CASE <<d, v>> \notin forward[q]
      BY <2>1, <3>2
    <3> QED
      BY <3>1, <3>2
  <2> QED
    BY <2>1, <2>2 DEF Owners, ForwardsInMap
<1>6. CASE Edited
  BY <1>6 DEF Edited, Owners, ForwardsInMap
<1> QED
  BY <1>1, <1>2, <1>3, <1>4, <1>5, <1>6
  DEF Next, Event, vars, Call, CallWaits, OpenEnds, Connected, NoTunnel, TunnelUp, TransportLost,
      Edit, CloseForwards, Created, CreateFails, LookUp, PoolEnded, Shutdown, ClosePools,
      PoolsClosed, Exit

-----------------------------------------------------------------------------
\* What shutdown will not find was looked up after it had begun.
LEMMA DrainedStep ==
    ASSUME TypeOK, Creators, Drained, [Next]_vars
    PROVE  Drained'
<1>1. CASE UNCHANGED <<pools, late>> /\ UNCHANGED stopVars
  BY <1>1 DEF Drained, stopVars
<1>2. ASSUME NEW c \in Conn, TunnelUp(c) \/ NoTunnel(c) PROVE Drained'
  <2>1. c \notin Key
    BY PoolsAssumption DEF Key, Endpoint
  <2>2. awaited' = awaited \ {c} /\ UNCHANGED <<pools, late, stage>>
    BY <1>2 DEF TunnelUp, NoTunnel, poolVars
  <2> QED
    BY <2>1, <2>2 DEF Drained
<1>3. ASSUME NEW k \in Caller, Creates(k), UNCHANGED stopVars, pc[k] = "keyed" PROVE Drained'
  <2>1. key[k] \in Key
    BY <1>3 DEF Creators
  <2>2. \A x \in Key : x # key[k] => pools'[x] = pools[x]
    BY <1>3 DEF Creates, TypeOK
  <2>3. late \subseteq late' /\ (stage # "up" => key[k] \in late')
    BY <1>3 DEF Creates
  <2> QED
    BY <1>3, <2>1, <2>2, <2>3 DEF Drained, stopVars
<1>4. ASSUME NEW k \in Caller, LookUp(k) PROVE Drained'
  <2>1. CASE Creates(k)
    BY <1>3, <1>4, <2>1 DEF LookUp
  <2>2. CASE UNCHANGED <<pools, late>>
    BY <1>1, <1>4, <2>2 DEF LookUp
  <2> QED
    BY <1>4, <2>1, <2>2 DEF LookUp, Joins
<1>5. ASSUME NEW k \in Caller, Created(k) \/ CreateFails(k) PROVE Drained'
  <2>1. key[k] \in Key /\ pools[key[k]] = "creating"
    BY <1>5 DEF Created, CreateFails, Creators
  <2>2. \A x \in Key : x # key[k] => pools'[x] = pools[x]
    BY <1>5 DEF Created, CreateFails, TypeOK
  <2>3. pools'[key[k]] \in {"open", "none"}
    BY <1>5, <2>1 DEF Created, CreateFails, TypeOK
  <2>4. awaited' = awaited \ {key[k]} /\ late' = late /\ stage' = stage
    BY <1>5 DEF Created, CreateFails
  <2> QED
    BY <2>1, <2>2, <2>3, <2>4 DEF Drained
<1>6. ASSUME NEW x \in Key, PoolEnded(x) PROVE Drained'
  BY <1>6 DEF PoolEnded, Drained, TypeOK, stopVars
<1>7. CASE Shutdown
  BY <1>7 DEF Shutdown, Drained, poolVars
<1>8. CASE ClosePools
  <2>1. \A x \in Key : pools[x] = "creating" => x \in late
    BY <1>8 DEF ClosePools, Drained
  <2>2. \A x \in Key : pools'[x] \in {"creating", "open"} => pools[x] = "creating"
    BY <1>8 DEF ClosePools, TypeOK
  <2> QED
    BY <1>8, <2>1, <2>2 DEF ClosePools, Drained
<1>9. CASE PoolsClosed
  <2>1. \A x \in Key : pools[x] # "none" => x \in late
    BY <1>9 DEF PoolsClosed, Drained, TypeOK
  <2> QED
    BY <1>9, <2>1 DEF PoolsClosed, Drained, poolVars
<1>10. CASE CloseForwards \/ Exit
  BY <1>10 DEF CloseForwards, Exit, Drained, poolVars
<1>11. CASE \/ UNCHANGED vars \/ Edit
            \/ \E k \in Caller : Call(k) \/ CallWaits(k)
            \/ \E c \in Conn : Connected(c) \/ TransportLost(c)
  BY <1>1, <1>11 DEF vars, Edit, Call, CallWaits, Connected, TransportLost, poolVars
<1> QED
  BY <1>2, <1>4, <1>5, <1>6, <1>7, <1>8, <1>9, <1>10, <1>11 DEF Next, Event, OpenEnds

-----------------------------------------------------------------------------
\* The map grows by one key at a time, and only below the limit.
LEMMA CountedStep ==
    ASSUME TypeOK, Creators, PoolsInMap, Counted, [Next]_vars
    PROVE  Counted'
<1>1. ASSUME Known' \subseteq Known PROVE Counted'
  <2>1. IsFiniteSet(Known') /\ Cardinality(Known') <= Cardinality(Known)
    BY <1>1, FS_Subset DEF Counted
  <2>2. Cardinality(Known) \in Nat /\ Cardinality(Known') \in Nat /\ limit \in Nat
    BY <2>1, FS_CardinalityType, PoolsAssumption DEF Counted
  <2> QED
    BY <2>1, <2>2 DEF Counted, LimitKept
<1>2. CASE UNCHANGED pools
  BY <1>1, <1>2 DEF Known
<1>3. ASSUME NEW k \in Caller, LookUp(k) PROVE Counted'
  <2>1. CASE UNCHANGED pools
    BY <1>2, <2>1
  <2>2. CASE Creates(k) /\ pools[key[k]] = "none" /\ Cardinality(Known) < limit
    <3>1. key[k] \in Key
      BY <1>3 DEF LookUp, Creators
    <3>2. Known' = Known \cup {key[k]} /\ key[k] \notin Known
      BY <2>2, <3>1 DEF Creates, Known, TypeOK
    <3>3. IsFiniteSet(Known') /\ Cardinality(Known') = Cardinality(Known) + 1
      BY <3>2, FS_AddElement DEF Counted
    <3>4. Cardinality(Known) \in Nat /\ limit \in Nat
      BY FS_CardinalityType, PoolsAssumption DEF Counted
    <3> QED
      BY <2>2, <3>3, <3>4 DEF Counted, LimitKept
  <2> QED
    BY <1>3, <2>1, <2>2 DEF LookUp, Joins
<1>4. ASSUME NEW k \in Caller, Created(k) \/ CreateFails(k) PROVE Counted'
  <2>1. key[k] \in Known
    BY <1>4 DEF Created, CreateFails, Creators, Known
  <2>2. \A x \in Key : x # key[k] => pools'[x] = pools[x]
    BY <1>4 DEF Created, CreateFails, TypeOK
  <2>3. Known' \subseteq Known
    BY <2>1, <2>2 DEF Known
  <2> QED
    BY <1>1, <2>3
<1>5. ASSUME NEW x \in Key, PoolEnded(x) PROVE Counted'
  <2>1. Known' \subseteq Known
    BY <1>5 DEF PoolEnded, Known, TypeOK
  <2> QED
    BY <1>1, <2>1
<1>6. CASE ClosePools
  <2>1. Known' \subseteq Known
    BY <1>6 DEF ClosePools, Known, TypeOK
  <2> QED
    BY <1>1, <2>1
<1> QED
  BY <1>2, <1>3, <1>4, <1>5, <1>6
  DEF Next, Event, vars, poolVars, Call, CallWaits, OpenEnds, Connected, NoTunnel, TunnelUp,
      TransportLost, Edit, CloseForwards, Shutdown, PoolsClosed, Exit

-----------------------------------------------------------------------------
LEMMA InitIInv == Init => IInv
<1> SUFFICES ASSUME Init PROVE IInv
  OBVIOUS
<1> USE DEF Init, TunnelsInit
<1>1. TypeOK
  BY DEF TypeOK, TunnelsTypeOK, Stages
<1>2. Known = {}
  BY DEF Known
<1>3. Counted
  BY <1>2, FS_EmptySet, PoolsAssumption DEF Counted, LimitKept
<1> QED
  BY <1>1, <1>3 DEF IInv, Creators, PoolsInMap, Owners, ForwardsInMap, Drained

\* Every reachable state of the managers satisfies the invariant.
THEOREM PoolInvariant == Spec => []IInv
<1>1. Init => IInv
  BY InitIInv
<1>2. IInv /\ [Next]_vars => IInv'
  BY TypedPools, CreatorsStep, OwnersStep, DrainedStep, CountedStep DEF IInv
<1> QED
  BY <1>1, <1>2, PTL DEF Spec

\* The managers' state is always well formed.
THEOREM PoolsTypeCorrect == Spec => []TypeOK
<1>1. IInv => TypeOK
  BY DEF IInv
<1> QED
  BY <1>1, PoolInvariant, PTL

\* However many calls want a pool at once, each pool in the process is in the
\* map, once, until closePool is done with it.
THEOREM PoolsOneEach == Spec => []PoolsInMap
<1>1. IInv => PoolsInMap
  BY DEF IInv
<1> QED
  BY <1>1, PoolInvariant, PTL

\* A port listens exactly while its tunnel is alive and in the map.
THEOREM PoolsForwards == Spec => []ForwardsInMap
<1>1. IInv => ForwardsInMap
  BY DEF IInv
<1> QED
  BY <1>1, PoolInvariant, PTL

\* There are never more pools, open or being created, than the limit.
THEOREM PoolsLimited == Spec => []LimitKept
<1>1. IInv => LimitKept
  BY DEF IInv, Counted
<1> QED
  BY <1>1, PoolInvariant, PTL

\* Shutdown closes the forwards after the pools it found.
THEOREM PoolsBeforeForwards == Spec => []PoolsGoFirst
<1>1. IInv => PoolsGoFirst
  BY DEF IInv, Drained, PoolsGoFirst, Known
<1> QED
  BY <1>1, PoolInvariant, PTL

=============================================================================
