----------------------------- MODULE SharedLock -----------------------------
(***************************************************************************)
(* What the gate of a database file promises: shared holders together, or  *)
(* one exclusive holder alone.                                             *)
(***************************************************************************)
CONSTANTS Holder           (* identities that can hold the lock            *)

VARIABLES shared,          (* the holders that share the lock              *)
          exclusive        (* the holder that has it alone, as a set       *)

lockVars == <<shared, exclusive>>

LockInit == shared = {} /\ exclusive = {}

Share(h) == /\ exclusive = {}
            /\ h \notin shared
            /\ shared' = shared \cup {h}
            /\ UNCHANGED exclusive

Exclude(h) == /\ shared = {} /\ exclusive = {}
              /\ exclusive' = {h}
              /\ UNCHANGED shared

Leave(h) == /\ h \in shared \cup exclusive
            /\ shared' = shared \ {h}
            /\ exclusive' = exclusive \ {h}

LockNext == \E h \in Holder : Share(h) \/ Exclude(h) \/ Leave(h)

LockSpec == LockInit /\ [][LockNext]_lockVars

=============================================================================
