-------------------------------- MODULE MCGates --------------------------------
(***************************************************************************)
(* The two gates of runtime/concurrency.ts for TLC.  They share nothing,   *)
(* so a behaviour uses one of them: five callers on two slots and a queue  *)
(* of two, so that some wait and some are turned away; or five requests on *)
(* one file, every mix of readers and writers in every arrival order, with *)
(* room for a writer that gives up between two holders and a request       *)
(* behind it.                                                              *)
(***************************************************************************)
EXTENDS QueryGate, ReadWriteGate

Init == GateInit /\ RWInit

UseQueryGate == next = 0 /\ GateNext /\ UNCHANGED rwVars

UseFileGate == (\A c \in Caller : pc[c] = "idle") /\ RWNext /\ UNCHANGED vars

\* Every request on the file has been made and is over.
Served == next = Requests /\ Inside = {} /\ UNCHANGED <<vars, rwVars>>

Next == UseQueryGate \/ UseFileGate \/ Served

Spec == Init /\ [][Next]_<<vars, rwVars>> /\ GateFairness /\ RWFairness

================================================================================
