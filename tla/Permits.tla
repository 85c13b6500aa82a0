------------------------------- MODULE Permits -------------------------------
(***************************************************************************)
(* What a query gate promises, with no queue, timer or continuation: at    *)
(* most maximum callers hold a permit, a caller holds at most one, and     *)
(* each permit is given back once.                                         *)
(***************************************************************************)
EXTENDS Naturals, FiniteSets

CONSTANTS Caller,    (* concurrent operations that ask for a permit *)
          maximum    (* permits that may be held at the same time   *)

VARIABLE held        (* the callers that hold a permit              *)

PermitsInit == held = {}

Take(c) == /\ c \notin held
           /\ Cardinality(held) < maximum
           /\ held' = held \cup {c}

GiveBack(c) == /\ c \in held
               /\ held' = held \ {c}

\* A permit passes from one caller to the next one without becoming free.
HandOver(c, d) == /\ c \in held
                  /\ d \notin held
                  /\ held' = (held \ {c}) \cup {d}

PermitsNext == \E c \in Caller : \/ Take(c)
                                 \/ GiveBack(c)
                                 \/ \E d \in Caller : HandOver(c, d)

PermitsSpec == PermitsInit /\ [][PermitsNext]_held

=============================================================================
