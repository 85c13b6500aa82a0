------------------------------- MODULE MCNotes -------------------------------
(***************************************************************************)
(* Notes alone, two scopes and three calls, for what the documentation     *)
(* says of them.                                                           *)
(***************************************************************************)
EXTENDS Notes

CONSTANTS c1, c2, c3, s1, s2

=============================================================================
