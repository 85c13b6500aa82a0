-------------------------- MODULE MCConnectionPools --------------------------
(***************************************************************************)
(* Instances of ConnectionPools for TLC.                                   *)
(***************************************************************************)
EXTENDS ConnectionPools

=============================================================================
