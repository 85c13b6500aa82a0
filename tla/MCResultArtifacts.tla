--------------------------- MODULE MCResultArtifacts ---------------------------
(***************************************************************************)
(* Instances of ResultArtifacts for TLC.                                   *)
(***************************************************************************)
EXTENDS ResultArtifacts

\* compare_schemas has two connections, any other query one.
Compared == LET w == CHOOSE w \in Result : TRUE
                before == SetToSeq(Result \ {w})
                both == SetToSeq(Connection)
            IN [v \in Result |-> IF v \in {w, Head(before)} THEN both ELSE <<Head(both)>>]

\* One result could not be written; the others come, and nothing is edited.
OneFailed(w) ==
    /\ edits = Edits
    /\ \A r \in Reader : target[r] = CHOOSE v \in Result \ {w} : TRUE
    /\ size = [v \in Result |-> 0]
    /\ write = [v \in Result |-> IF v = w THEN "failed" ELSE "new"]
    /\ read = [r \in Read |-> "none"]
    /\ entries = <<>> /\ files = {}

\* All but one of the results are stored, of sizes of their own, and were
\* read.  The last may need the place of one, while the configuration is
\* edited, or the room of both.
OneMissing(w) ==
    /\ LET before == SetToSeq(Result \ {w}) IN
       /\ \A r \in Reader : target[r] \in {Head(before), w}
       /\ \E last \in {1, 3} :
           /\ size = [v \in Result |->
                        CASE v = w -> 0 [] v = Last(before) -> last [] OTHER -> 1]
           /\ edits = IF last = 1 THEN 0 ELSE Edits
       /\ write = [v \in Result |-> IF v = w THEN "new" ELSE "stored"]
       /\ read = [r \in Read |-> IF r \in Result \ {w} THEN "answered" ELSE "none"]
       /\ entries = before /\ files = Result \ {w}

(***************************************************************************)
(* Two histories to start from.  Together they hold every case: results    *)
(* that come at the same time, and one that evicts several.  Results have  *)
(* no order or name the code looks at, so any one may be the odd one.      *)
(***************************************************************************)
MCInit ==
    /\ policy = CHOOSE p \in Policy : TRUE
    /\ known = [c \in Connection |-> CHOOSE s \in Setting : TRUE]
    /\ source = [w \in Result |-> [policy |-> policy, settings |-> known]]
    /\ at = [r \in Read |-> 0] /\ since = [r \in Reader |-> {}]
    /\ target \in {f \in [Read -> Result] : \A w \in Result : f[w] = w}
    /\ LET w == CHOOSE w \in Result : TRUE IN OneFailed(w) \/ OneMissing(w)
    /\ writes = <<>> /\ waitingWrites = 0
    /\ expired = {} /\ lost = {}
    /\ removing = [a \in {"writer", "sweep"} |-> {}]
    /\ inside = {}
    /\ closed = FALSE /\ gone = FALSE

MCSpec == MCInit /\ [][Next]_vars /\ Fairness

=============================================================================
