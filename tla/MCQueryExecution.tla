--------------------------- MODULE MCQueryExecution ---------------------------
(***************************************************************************)
(* Instances of QueryExecution for TLC.                                    *)
(***************************************************************************)
EXTENDS QueryExecution

(***************************************************************************)
(* Queries of different engines share the gate and nothing else, so the    *)
(* queries of one behaviour go to one engine, or to the two that start     *)
(* processes.                                                              *)
(***************************************************************************)
MCInit == /\ Init
          /\ \/ \A q \in Query : engine[q] \in ProcessEngine
             \/ \A q, r \in Query : engine[q] = engine[r]

MCSpec == MCInit /\ [][Next]_vars /\ Fairness

=============================================================================
