------------------------------ MODULE SshTunnels ------------------------------
(***************************************************************************)
(* net/ssh-tunnel.ts, class SshTunnelManager: local forwards through an    *)
(* SSH server, one per connection id, opened when a call first needs one   *)
(* and again after the transport was lost.  The actions say what becomes   *)
(* of the manager; ConnectionPools adds the callers that wait for it.      *)
(***************************************************************************)
EXTENDS FiniteSets

CONSTANTS
  Conn,            (* connection ids                                       *)
  Version,         (* the settings a connection can have                   *)
  Tunnelled,       (* those with an enabled SSH tunnel                     *)
  Port             (* local ports the system may give a forward            *)

ASSUME TunnelsAssumption ==
    /\ IsFiniteSet(Conn) /\ IsFiniteSet(Version) /\ IsFiniteSet(Port)
    /\ Tunnelled \subseteq Version

VARIABLES
  settings,        (* the configuration now                                *)
  tunnels,         (* this.tunnels: no port, or the port of the forward    *)
  alive,           (* connections whose entry has its alive flag set       *)
  opening,         (* this.pending, and how far open has got               *)
  target,          (* the settings open was called with                    *)
  forward          (* what a port leads to; empty: nothing listens         *)

tunnelVars == <<settings, tunnels, alive, opening, target, forward>>

TunnelsInit == /\ settings \in [Conn -> Version]
               /\ tunnels = [c \in Conn |-> {}]
               /\ alive = {}
               /\ opening = [c \in Conn |-> "no"]
               /\ target = settings
               /\ forward = [p \in Port |-> {}]

\* resolveEndpoint finds no live tunnel: it waits for the one being opened,
\* with whatever settings, or opens one.
WaitForTunnel(c) ==
    /\ settings[c] \in Tunnelled /\ c \notin alive
    /\ IF opening[c] # "no" THEN UNCHANGED <<opening, target>>
       ELSE /\ opening' = [opening EXCEPT ![c] = "connect"]
            /\ target' = [target EXCEPT ![c] = settings[c]]
    /\ UNCHANGED <<settings, tunnels, alive, forward>>

\* The SSH server let us in and its key is known; the local server is next.
Ready(c) == /\ opening[c] = "connect"
            /\ opening' = [opening EXCEPT ![c] = "listen"]
            /\ UNCHANGED <<settings, tunnels, alive, target, forward>>

\* No key, no route, a wrong host key, the ready time-out, or no local port.
OpenFails(c) == /\ opening[c] # "no"
                /\ opening' = [opening EXCEPT ![c] = "no"]
                /\ UNCHANGED <<settings, tunnels, alive, target, forward>>

\* The forward is up and replaces the entry of a dead one.  A transport lost
\* while the local server starts goes unnoticed: Dropped then never comes.
Opened(c, p) == /\ opening[c] = "listen" /\ forward[p] = {}
                /\ opening' = [opening EXCEPT ![c] = "no"]
                /\ tunnels' = [tunnels EXCEPT ![c] = {p}]
                /\ alive' = alive \cup {c}
                /\ forward' = [forward EXCEPT ![p] = {<<c, target[c]>>}]
                /\ UNCHANGED <<settings, target>>

\* Mutant: invalidate clears the flag and leaves the local server listening.
DroppedListening(c) == /\ c \in alive
                       /\ alive' = alive \ {c}
                       /\ UNCHANGED <<settings, tunnels, opening, target, forward>>

\* The transport is lost: invalidate stops the local server.
Dropped(c) == /\ c \in alive
              /\ alive' = alive \ {c}
              /\ forward' = [p \in Port |-> IF p \in tunnels[c] THEN {} ELSE forward[p]]
              /\ UNCHANGED <<settings, tunnels, opening, target>>

\* closeAll, once what was being opened is settled.
CloseTunnels == /\ tunnels' = [c \in Conn |-> {}]
                /\ alive' = {}
                /\ forward' = [p \in Port |->
                                 IF \E c \in alive : p \in tunnels[c] THEN {} ELSE forward[p]]
                /\ UNCHANGED <<settings, opening, target>>

\* The operator edits a connection.
Edited == /\ \E c \in Conn, v \in Version :
                v # settings[c] /\ settings' = [settings EXCEPT ![c] = v]
          /\ UNCHANGED <<tunnels, alive, opening, target, forward>>

-----------------------------------------------------------------------------
TunnelsTypeOK == /\ settings \in [Conn -> Version]
                 /\ tunnels \in [Conn -> SUBSET Port]
                 /\ alive \subseteq Conn
                 /\ opening \in [Conn -> {"no", "connect", "listen"}]
                 /\ target \in [Conn -> Version]
                 /\ forward \in [Port -> SUBSET (Conn \X Version)]

\* A port is listening exactly when it belongs to a live tunnel in the map, one
\* port per connection: closeAll leaves no forward behind, however often
\* transports were lost and tunnels opened again.
ForwardsInMap == \A p \in Port, c \in Conn :
    (\E v \in Version : <<c, v>> \in forward[p]) <=> c \in alive /\ tunnels[c] = {p}

=============================================================================
