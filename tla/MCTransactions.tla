--------------------------- MODULE MCTransactions ---------------------------
(***************************************************************************)
(* Instances of Transactions for TLC: leased and SQL Server transactions   *)
(* together, two contents of the policy file, one of them read-only.       *)
(***************************************************************************)
EXTENDS Transactions

(***************************************************************************)
(* Two kinds of behaviours.  In one a SQL Server transaction has ended and *)
(* the others do all they can; in the other there are more transactions    *)
(* than the limit, whose clients begin them and do no more (`claims' is a  *)
(* bound of the model).                                                    *)
(***************************************************************************)
MCInit ==
    /\ policy \in Policies
    /\ \/ /\ LET t == CHOOSE t \in SqlServer : TRUE IN
                op = [s \in Txn |-> IF s = t THEN "over" ELSE "new"]
          /\ claims = [t \in Txn |-> 0]
       \/ op = [t \in Txn |-> "new"] /\ claims = [t \in Txn |-> Claims]
    /\ answer = [t \in Txn |-> "nothing"]
    /\ active = {} /\ pending = 0
    /\ recorded = [t \in Txn |-> policy]
    /\ destroyed = {}
    /\ lease = [t \in Txn |-> "none"]
    /\ undoing = {}
    /\ server = [t \in Txn |-> "none"]
    /\ old = {}
    /\ rest = [k \in Sweeps |-> {}]
    /\ awaits = [k \in Sweeps |-> {}]
    /\ stage = "up" /\ stopping = {}

MCSpec == MCInit /\ [][Next]_vars /\ Fairness

=============================================================================
