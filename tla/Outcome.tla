------------------------------- MODULE Outcome -------------------------------
(***************************************************************************)
(* What the transaction tools promise about the database: a transaction is *)
(* opened once and decided once, and the answer the client was given       *)
(* agrees with the decision.  "failed" promises that nothing was or will   *)
(* be committed; "unknown" answers a COMMIT or ROLLBACK whose fate the     *)
(* server cannot tell.                                                     *)
(***************************************************************************)
CONSTANT Txn

VARIABLES server, told

Fate   == {"none", "open", "committed", "rolled_back"}
Answer == {"nothing", "committed", "rolled_back", "failed", "unknown"}

OutcomeInit == /\ server = [t \in Txn |-> "none"]
               /\ told = [t \in Txn |-> "nothing"]

Open(t) == /\ server[t] = "none" /\ server'[t] = "open"
           /\ told[t] = "nothing" /\ told'[t] = "nothing"

\* Nothing is committed once the client was told that it failed.
Decide(t) == /\ server[t] = "open"
             /\ \/ server'[t] = "rolled_back"
                \/ server'[t] = "committed" /\ told[t] \in {"nothing", "unknown"}

Agrees(t) == /\ told'[t] = "committed"   => server'[t] = "committed"
             /\ told'[t] = "rolled_back" => server'[t] = "rolled_back"
             /\ told'[t] = "failed"      => server'[t] # "committed"

Tell(t) == told[t] = "nothing" /\ Agrees(t)

\* A transaction is decided, answered, both at once, or left alone.
Step(t) == \/ Open(t)
           \/ /\ Decide(t) \/ server'[t] = server[t]
              /\ Tell(t) \/ told'[t] = told[t]

\* One step may end several transactions: rollbackAll, or a sweep.
OutcomeNext == /\ server' \in [Txn -> Fate] /\ told' \in [Txn -> Answer]
               /\ \A t \in Txn : Step(t)

OutcomeSpec == OutcomeInit /\ [][OutcomeNext]_<<server, told>>

=============================================================================
