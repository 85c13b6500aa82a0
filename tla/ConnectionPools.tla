--------------------------- MODULE ConnectionPools ---------------------------
(***************************************************************************)
(* pools/connection-pool.ts over net/ssh-tunnel.ts, and the shutdown of    *)
(* both in server.ts: one pool per connection, settings and endpoint,      *)
(* created by the first call that needs it while the others wait.          *)
(*                                                                         *)
(* getPool suspends while a tunnel is opened and while a pool is created;  *)
(* between the two it runs in one go, so the tunnel that gave the key its  *)
(* endpoint is the one the pool is created on.                             *)
(***************************************************************************)
EXTENDS SshTunnels, Naturals

CONSTANTS
  Caller,          (* calls that need a pool                               *)
  Direct,          (* the endpoint of a connection without a tunnel        *)
  NoKey,           (* stands for the key of a caller without a call        *)
  limit            (* pools open or being created (32)                     *)

ASSUME PoolsAssumption ==
    /\ IsFiniteSet(Caller) /\ Direct \notin Port /\ limit \in Nat \ {0}
    /\ (Conn \cup {NoKey}) \cap (Conn \X Version \X (Port \cup {Direct})) = {}

Endpoint == Port \cup {Direct}
Key == Conn \X Version \X Endpoint

VARIABLES
  pc,              (* how far a call has got                               *)
  key,             (* its connection and settings, and the endpoint        *)
  pools,           (* this.pools and this.pendingCreation                  *)
  live,            (* pools that exist in the process                      *)
  stage,           (* of the process                                       *)
  awaited,         (* creations closeAllPools, openings closeAll waits for *)
  late             (* auxiliary: keys looked up after shutdown began       *)

callVars == <<pc, key>>
poolVars == <<pools, live>>
stopVars == <<stage, awaited>>
vars == <<tunnelVars, callVars, poolVars, stopVars, late>>

(***************************************************************************)
(* idle: no call, or answered with a pool or an error.  tunnel: waits for  *)
(* a tunnel, the endpoint is not known yet.  keyed: has its key.  create:  *)
(* creates the pool.  join: waits for another call to create it.           *)
(***************************************************************************)
Waiting == {"tunnel", "keyed", "create", "join"}
Stages  == {"up", "creations", "pools", "openings", "tunnels", "exit"}

Known == {x \in Key : pools[x] # "none"}

Init == /\ TunnelsInit
        /\ pc = [k \in Caller |-> "idle"]
        /\ key = [k \in Caller |-> NoKey]
        /\ pools = [x \in Key |-> "none"]
        /\ live = [x \in Key |-> 0]
        /\ stage = "up" /\ awaited = {} /\ late = {}

-----------------------------------------------------------------------------
(***************************************************************************)
(* getPool.                                                                *)
(***************************************************************************)
Arrive(k, next, c, e) == /\ pc[k] = "idle"
                         /\ pc' = [pc EXCEPT ![k] = next]
                         /\ key' = [key EXCEPT ![k] = <<c, settings[c], e>>]

\* poolKey without waiting: no tunnel, or one that is alive.
Call(k) == /\ \E c \in Conn, e \in Endpoint :
                /\ IF settings[c] \in Tunnelled THEN c \in alive /\ e \in tunnels[c] ELSE e = Direct
                /\ Arrive(k, "keyed", c, e)
           /\ UNCHANGED <<tunnelVars, poolVars, stopVars, late>>

CallWaits(k) == /\ \E c \in Conn : Arrive(k, "tunnel", c, Direct) /\ WaitForTunnel(c)
                /\ UNCHANGED <<poolVars, stopVars, late>>

WaitingFor(c) == {k \in Caller : pc[k] = "tunnel" /\ key[k][1] = c}

Answer(K) == /\ pc' = [k \in Caller |-> IF k \in K THEN "idle" ELSE pc[k]]
             /\ key' = [k \in Caller |-> IF k \in K THEN NoKey ELSE key[k]]

Connected(c) == Ready(c) /\ UNCHANGED <<callVars, poolVars, stopVars, late>>

\* Everybody who waited for the forward has a key now.
TunnelUp(c) ==
    /\ \E p \in Port :
         /\ Opened(c, p)
         /\ key' = [k \in Caller |-> IF k \in WaitingFor(c)
                                     THEN <<key[k][1], key[k][2], p>> ELSE key[k]]
    /\ pc' = [k \in Caller |-> IF k \in WaitingFor(c) THEN "keyed" ELSE pc[k]]
    /\ awaited' = awaited \ {c}
    /\ UNCHANGED <<poolVars, stage, late>>

NoTunnel(c) == /\ OpenFails(c)
               /\ Answer(WaitingFor(c))
               /\ awaited' = awaited \ {c}
               /\ UNCHANGED <<poolVars, stage, late>>

\* The call creates the pool, and the others that want it wait for it.
Creates(k) == /\ pc' = [pc EXCEPT ![k] = "create"]
              /\ pools' = [pools EXCEPT ![key[k]] = "creating"]
              /\ late' = IF stage = "up" THEN late ELSE late \cup {key[k]}
              /\ UNCHANGED key

Joins(k) == pc' = [pc EXCEPT ![k] = "join"] /\ UNCHANGED <<key, pools, late>>

\* Mutant: a call creates the pool also when another one is creating it.
LookUpPools(k) ==
    /\ pc[k] = "keyed"
    /\ \/ /\ \/ pools[key[k]] \in {"open", "ending"}
             \/ pools[key[k]] = "none" /\ Cardinality(Known) >= limit
          /\ Answer({k}) /\ UNCHANGED <<pools, late>>
       \/ /\ \/ pools[key[k]] = "creating"
             \/ pools[key[k]] = "none" /\ Cardinality(Known) < limit
          /\ Creates(k)
    /\ UNCHANGED <<tunnelVars, live, stopVars>>

\* Mutant: the limit does not count the pools that are being created.
LookUpUncounted(k) ==
    /\ pc[k] = "keyed"
    /\ \/ /\ pools[key[k]] \in {"open", "ending"}
          /\ Answer({k}) /\ UNCHANGED <<pools, late>>
       \/ pools[key[k]] = "creating" /\ Joins(k)
       \/ /\ pools[key[k]] = "none"
          /\ Cardinality({x \in Key : pools[x] = "open"}) < limit
          /\ Creates(k)
    /\ UNCHANGED <<tunnelVars, live, stopVars>>

\* getPool once it has its key: the pool is there, also one that closePool is
\* ending, or there are too many; or somebody creates it; or this call does.
LookUp(k) ==
    /\ pc[k] = "keyed"
    /\ \/ /\ \/ pools[key[k]] \in {"open", "ending"}
             \/ pools[key[k]] = "none" /\ Cardinality(Known) >= limit
          /\ Answer({k}) /\ UNCHANGED <<pools, late>>
       \/ pools[key[k]] = "creating" /\ Joins(k)
       \/ /\ pools[key[k]] = "none" /\ Cardinality(Known) < limit
          /\ Creates(k)
    /\ UNCHANGED <<tunnelVars, live, stopVars>>

SharesCreation(k) == {k} \cup {j \in Caller : pc[j] = "join" /\ key[j] = key[k]}

Created(k) ==
    /\ pc[k] = "create"
    /\ pools' = [pools EXCEPT ![key[k]] = "open"]
    /\ live' = [live EXCEPT ![key[k]] = @ + 1]
    /\ Answer(SharesCreation(k))
    /\ awaited' = awaited \ {key[k]}
    /\ UNCHANGED <<tunnelVars, stage, late>>

\* Mutant: a failed creation stays in pendingCreation.
CreateFailsPending(k) ==
    /\ pc[k] = "create"
    /\ Answer({k})
    /\ awaited' = awaited \ {key[k]}
    /\ UNCHANGED <<tunnelVars, poolVars, stage, late>>

\* The driver, its settings, the credentials or the server refuse.
CreateFails(k) ==
    /\ pc[k] = "create"
    /\ pools' = [pools EXCEPT ![key[k]] = "none"]
    /\ Answer(SharesCreation(k))
    /\ awaited' = awaited \ {key[k]}
    /\ UNCHANGED <<tunnelVars, live, stage, late>>

-----------------------------------------------------------------------------
(***************************************************************************)
(* The world, and shutdown.  Calls keep coming until the process exits.    *)
(***************************************************************************)
TransportLost(c) == /\ Dropped(c)
                    /\ UNCHANGED <<callVars, poolVars, stopVars, late>>

Edit == Edited /\ UNCHANGED <<callVars, poolVars, stopVars, late>>

\* closeAllPools waits for the pools being created.
Shutdown == /\ stage = "up"
            /\ stage' = "creations"
            /\ awaited' = {x \in Key : pools[x] = "creating"}
            /\ UNCHANGED <<tunnelVars, callVars, poolVars, late>>

\* Mutant: closeAllPools takes the pools that are there.
ClosePoolsAtOnce == /\ stage = "creations"
                    /\ stage' = "pools"
                    /\ pools' = [x \in Key |-> IF pools[x] = "open" THEN "ending" ELSE pools[x]]
                    /\ awaited' = {}
                    /\ UNCHANGED <<tunnelVars, callVars, live, late>>

\* Then it closes the pools it finds.
ClosePools == /\ stage = "creations" /\ awaited = {}
              /\ stage' = "pools"
              /\ pools' = [x \in Key |-> IF pools[x] = "open" THEN "ending" ELSE pools[x]]
              /\ UNCHANGED <<tunnelVars, callVars, live, awaited, late>>

\* Mutant: closePool does not survive the error of a pool without a tunnel.
PoolEndedWell(x) == /\ pools[x] = "ending"
                    /\ x[3] # Direct => x[1] \in alive
                    /\ pools' = [pools EXCEPT ![x] = "none"]
                    /\ live' = [live EXCEPT ![x] = @ - 1]
                    /\ UNCHANGED <<tunnelVars, callVars, stopVars, late>>

\* The driver has ended the pool, or failed to, and the entry is removed.
PoolEnded(x) == /\ pools[x] = "ending"
                /\ pools' = [pools EXCEPT ![x] = "none"]
                /\ live' = [live EXCEPT ![x] = @ - 1]
                /\ UNCHANGED <<tunnelVars, callVars, stopVars, late>>

\* closeAll waits for the tunnels being opened, then closes those it finds.
PoolsClosed == /\ stage = "pools"
               /\ \A x \in Key : pools[x] # "ending"
               /\ stage' = "openings"
               /\ awaited' = {c \in Conn : opening[c] # "no"}
               /\ UNCHANGED <<tunnelVars, callVars, poolVars, late>>

CloseForwards == /\ stage = "openings" /\ awaited = {}
                 /\ stage' = "tunnels"
                 /\ CloseTunnels
                 /\ UNCHANGED <<callVars, poolVars, awaited, late>>

\* The sockets are closed, or half a second has passed.
Exit == /\ stage = "tunnels"
        /\ stage' = "exit"
        /\ UNCHANGED <<tunnelVars, callVars, poolVars, awaited, late>>

OpenEnds(c) == Connected(c) \/ TunnelUp(c) \/ NoTunnel(c)

\* A call with its key goes on before anything else happens: the transport
\* cannot be lost between the choice of the endpoint and the look-up.
Quiescent == \A k \in Caller : pc[k] # "keyed"

Event == \/ \E k \in Caller : Call(k) \/ CallWaits(k) \/ Created(k) \/ CreateFails(k)
         \/ \E c \in Conn : OpenEnds(c) \/ TransportLost(c)
         \/ \E x \in Key : PoolEnded(x)
         \/ Edit \/ Shutdown \/ ClosePools \/ PoolsClosed \/ CloseForwards \/ Exit

Next == /\ stage # "exit"
        /\ \/ \E k \in Caller : LookUp(k)
           \/ Quiescent /\ Event

Spec == Init /\ [][Next]_vars

(***************************************************************************)
(* Pools are created and ended, and tunnels opened, within the drivers'    *)
(* and ssh2's time-outs; nobody has to call, and no transport has to fail. *)
(* An event that is due waits for promise reactions, which come in again   *)
(* and again but always drain: hence strong fairness.                      *)
(***************************************************************************)
Stopping == ClosePools \/ PoolsClosed \/ CloseForwards \/ Exit \/ \E x \in Key : PoolEnded(x)

FairSpec == /\ Spec
            /\ \A k \in Caller : /\ WF_vars(LookUp(k) /\ Next)
                                 /\ SF_vars((Created(k) \/ CreateFails(k)) /\ Next)
            /\ \A c \in Conn : SF_vars(OpenEnds(c) /\ Next)
            /\ SF_vars(Stopping /\ Next)

-----------------------------------------------------------------------------
\* The managers' state is well formed.
TypeOK == /\ TunnelsTypeOK
          /\ pc \in [Caller -> Waiting \cup {"idle"}]
          /\ key \in [Caller -> Key \cup {NoKey}]
          /\ pools \in [Key -> {"none", "creating", "open", "ending"}]
          /\ live \in [Key -> Nat]
          /\ stage \in Stages
          /\ awaited \subseteq Key \cup Conn /\ late \subseteq Key

\* Every pool in the process is in the map, once: concurrent calls create one
\* pool between them, and shutdown finds it.
PoolsInMap == \A x \in Key : live[x] = IF pools[x] \in {"open", "ending"} THEN 1 ELSE 0

\* The limit holds although the check comes several awaits before the pool.
LimitKept == Cardinality(Known) <= limit

\* Pools are closed before the tunnels under them: when the forwards go, the
\* only pools left are those of calls looked up after shutdown had begun.
PoolsGoFirst == stage \in {"tunnels", "exit"} => Known \subseteq late

\* A call is answered, whoever opens the tunnel or creates the pool it waits
\* for and however that ends.
CallsEnd == \A k \in Caller :
    pc[k] \in Waiting ~> pc[k] = "idle" \/ stage = "exit"

\* Once begun, shutdown comes to its end, although calls keep coming.
ShutdownEnds == stage = "creations" ~> stage = "exit"

-----------------------------------------------------------------------------
\* What the documentation says and the code does not do: "Enabled ssh_tunnel
\* handlers open a local forward to the target configured in the workspace".
ForwardIsConfigured == \A k \in Caller :
    pc[k] = "keyed" /\ key[k][3] \in Port => forward[key[k][3]] = {<<key[k][1], key[k][2]>>}

=============================================================================
