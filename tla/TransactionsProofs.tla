------------------------- MODULE TransactionsProofs -------------------------
(***************************************************************************)
(* Proofs about Transactions.  The inductive invariant says, for each      *)
(* transaction, what its session can be at each point of its client's      *)
(* operation (Shape), and that the map and the pending count together stay *)
(* within the limit (Counts).                                              *)
(***************************************************************************)
EXTENDS Transactions, FiniteSetTheorems, TLAPS

Established == {"idle", "over"} \cup Busy

\* Well-formedness without the bounds that Counts gives.
Typed ==
    /\ policy \in Policies
    /\ op \in [Txn -> Ops]
    /\ answer \in [Txn -> {"nothing", "committed", "rolled_back", "failed", "unknown"}]
    /\ claims \in [Txn -> 0..Claims]
    /\ active \subseteq Txn
    /\ recorded \in [Txn -> Policies]
    /\ destroyed \subseteq Txn
    /\ lease \in [Txn -> {"none", "late", "held", "back", "twice"}]
    /\ undoing \subseteq SqlServer
    /\ server \in [Txn -> {"none", "open", "committed", "rolled_back"}]
    /\ old \subseteq Txn
    /\ rest \in [Sweeps -> SUBSET Txn] /\ awaits \in [Sweeps -> SUBSET SqlServer]
    /\ stage \in {"up", "rolling_back", "closing"}
    /\ stopping \subseteq SqlServer

\* Before BEGIN has succeeded nobody else knows the transaction.
ShapeStart(t) ==
    op[t] \in {"new", "unavailable"} \cup Start =>
       /\ t \notin active
       /\ server[t] = "none"
       /\ op[t] \in {"new", "acquire"} => lease[t] = "none"
       /\ op[t] = "unavailable" => lease[t] \in {"none", "late", "back"}
       /\ op[t] = "begin" /\ t \in Leased => lease[t] = "held"
       /\ op[t] = "undo_begin" => t \in SqlServer
       /\ t \in destroyed <=> op[t] = "undo_begin"

\* Afterwards a leased session is held exactly while its flag is clear, and a
\* transaction outside the map has its flag set.
ShapeSession(t) ==
    op[t] \in Established =>
       /\ t \in Leased => lease[t] = IF t \in destroyed THEN "back" ELSE "held"
       /\ t \in Leased /\ t \in active => t \notin destroyed
       /\ t \notin destroyed => t \in active /\ op[t] # "over"
       /\ op[t] = "undo" => t \in SqlServer /\ t \in destroyed
       /\ t \in active /\ t \in destroyed => op[t] = "undo"
       /\ op[t] = "over" => t \notin active

\* What the database can have decided by then, and what may be answered.
ShapeServer(t) ==
    /\ op[t] \in Established \ {"commit"} /\ t \notin destroyed => server[t] = "open"
    /\ op[t] = "commit" /\ t \notin destroyed => server[t] \in {"open", "committed"}
    /\ server[t] = "committed" => op[t] \in {"commit", "undo", "over"}
    /\ op[t] \in {"undo", "undo_begin"} => answer[t] \in {"failed", "unknown"}
    /\ op[t] \in {"undo", "undo_begin"} /\ answer[t] = "failed" => server[t] # "committed"

\* SQL Server sessions are no leases; their rollbacks come with the flag.
ShapeSql(t) == /\ t \in SqlServer => lease[t] = "none"
               /\ t \in undoing => t \in destroyed

\* A sweep only has transactions whose BEGIN succeeded.
ShapeSweep(t) == \A k \in Sweeps : t \in rest[k] => op[t] \in Established

Shape(t) == /\ ShapeStart(t) /\ ShapeSession(t) /\ ShapeServer(t)
            /\ ShapeSql(t) /\ ShapeSweep(t)

Starting == {t \in Txn : op[t] \in Start}

Counts == /\ pending = Cardinality(Starting)
          /\ Cardinality(active) + pending <= limit

IInv == Typed /\ (\A t \in Txn : Shape(t)) /\ Counts

-----------------------------------------------------------------------------
(***************************************************************************)
(* Typed.                                                                  *)
(***************************************************************************)
\* discard leaves well-formed sessions: what it does to the four variables.
LEMMA DiscardTyped ==
    ASSUME Typed, NEW D \in SUBSET Txn, NEW C, Discard(D, C)
    PROVE  /\ destroyed' = destroyed \cup D
           /\ lease' \in [Txn -> {"none", "late", "held", "back", "twice"}]
           /\ undoing' \subseteq SqlServer
           /\ server' \in [Txn -> {"none", "open", "committed", "rolled_back"}]
<1> DEFINE closed == (D \ destroyed) \ SqlServer
<1>1. lease' = [t \in Txn |-> IF t \in closed THEN GiveBack(lease[t]) ELSE lease[t]]
  BY DEF Discard
<1>2. \A t \in Txn : GiveBack(lease[t]) \in {"back", "twice"}
  BY DEF GiveBack
<1>3. server' = [t \in Txn |-> IF t \in closed /\ server[t] = "open"
                              THEN IF t \in C THEN "committed" ELSE "rolled_back"
                              ELSE server[t]]
  BY DEF Discard
<1>4. lease' \in [Txn -> {"none", "late", "held", "back", "twice"}]
  <2> HIDE DEF closed
  <2> QED BY <1>1, <1>2 DEF Typed
<1>5. server' \in [Txn -> {"none", "open", "committed", "rolled_back"}]
  <2> HIDE DEF closed
  <2> QED BY <1>3 DEF Typed
<1> QED
  BY <1>4, <1>5 DEF Typed, Discard

\* The error path keeps the state well formed.
LEMMA FailTyped ==
    ASSUME Typed, NEW t \in Txn,
           NEW verdict \in {"nothing", "committed", "rolled_back", "failed", "unknown"},
           Fail(t, verdict)
    PROVE  Typed'
<1>1. PICK C \in SUBSET {t} : Discard({t}, C)
  BY DEF Fail
<1>2. /\ destroyed' = destroyed \cup {t}
      /\ lease' \in [Txn -> {"none", "late", "held", "back", "twice"}]
      /\ undoing' \subseteq SqlServer
      /\ server' \in [Txn -> {"none", "open", "committed", "rolled_back"}]
  BY <1>1, DiscardTyped
<1>3. op' \in [Txn -> Ops] /\ active' \subseteq Txn
  BY DEF Typed, Fail, Ops, Start, Busy
<1> QED
  BY <1>2, <1>3 DEF Typed, Fail, sweepVars, stopVars

\* A sweep keeps the state well formed.
LEMMA SweepTyped ==
    ASSUME Typed, NEW k \in Sweeps, NEW stale \in SUBSET Txn, Sweep(k, stale)
    PROVE  Typed'
<1>1. PICK now \in SUBSET stale :
        /\ awaits' = [awaits EXCEPT ![k] = (now \cap SqlServer) \ destroyed]
        /\ rest' = [rest EXCEPT ![k] = stale \ now]
        /\ active' = active \ now
        /\ \E C \in SUBSET now : Discard(now, C)
        /\ UNCHANGED <<policy, op, answer, claims, pending, recorded, old, stopVars>>
  BY DEF Sweep
<1>2. PICK C \in SUBSET now : Discard(now, C)
  BY <1>1
<1>3. /\ destroyed' = destroyed \cup now
      /\ lease' \in [Txn -> {"none", "late", "held", "back", "twice"}]
      /\ undoing' \subseteq SqlServer
      /\ server' \in [Txn -> {"none", "open", "committed", "rolled_back"}]
  BY <1>2, DiscardTyped
<1>4. /\ rest' \in [Sweeps -> SUBSET Txn] /\ awaits' \in [Sweeps -> SUBSET SqlServer]
      /\ active' \subseteq Txn /\ destroyed' \subseteq Txn
  BY <1>1, <1>3 DEF Typed
<1> QED
  BY <1>1, <1>3, <1>4 DEF Typed, stopVars

\* Every step keeps the state well formed.
LEMMA TypedStep == ASSUME Typed, [Next]_vars PROVE Typed'
<1> USE DEF clientVars, sessionVars, sweepVars, stopVars
<1>1. CASE UNCHANGED vars
  BY <1>1 DEF Typed, vars, clientVars, sessionVars, sweepVars, stopVars
<1>2. ASSUME NEW t \in Txn, TxnStep(t) PROVE Typed'
  <2>0. t \in Txn
    BY <1>2
  <2>1. CASE BeginFails(t) \/ ExecuteFails(t) \/ CommitRefused(t) \/ FinishFails(t)
    BY <1>2, <2>1, FailTyped DEF BeginFails, ExecuteFails, CommitRefused, FinishFails
  <2>2. CASE Begin(t) \/ Acquired(t) \/ Unavailable(t) \/ LateLease(t) \/ Begun(t)
    BY <2>0, <2>2 DEF Typed, Ops, Start, Busy, Begin, Acquired, Unavailable, LateLease, Begun,
                clientVars, sessionVars, sweepVars, stopVars
  <2>3. CASE Claim(t)
    <3>1. claims' \in [Txn -> 0..Claims]
      BY TransactionsAssumption, <2>0, <2>3 DEF Typed, Claim, ClaimTxn
    <3> QED
      BY <2>0, <2>3, <3>1 DEF Typed, Ops, Start, Busy, Claim, ClaimTxn, sessionVars, sweepVars, stopVars
  <2>4. CASE Authorize(t) \/ NamesAllowed(t) \/ Executed(t) \/ ServerCommits(t)
    BY <2>0, <2>4 DEF Typed, Ops, Start, Busy, Authorize, NamesAllowed, Executed, ServerCommits,
                clientVars, sessionVars, sweepVars, stopVars
  <2>5. CASE Committed(t) \/ RolledBack(t)
    BY <2>0, <2>5 DEF Typed, Ops, Start, Busy, Committed, RolledBack, Finished, GiveBack,
                sweepVars, stopVars
  <2>6. CASE RollbackEnds(t) \/ Undone(t)
    BY <2>0, <2>6 DEF Typed, Ops, Start, Busy, RollbackEnds, Undone,
                clientVars, sessionVars, sweepVars, stopVars
  <2> QED
    BY <1>2, <2>1, <2>2, <2>3, <2>4, <2>5, <2>6 DEF TxnStep
<1>3. ASSUME NEW k \in Sweeps, SweepStarts(k) \/ SweepGoesOn(k) PROVE Typed'
  BY <1>3, SweepTyped DEF SweepStarts, SweepGoesOn, Typed
<1>4. CASE Terminate
  <2>1. PICK C \in SUBSET active : Discard(active, C)
    BY <1>4 DEF Terminate
  <2>2. /\ destroyed' = destroyed \cup active
        /\ lease' \in [Txn -> {"none", "late", "held", "back", "twice"}]
        /\ undoing' \subseteq SqlServer
        /\ server' \in [Txn -> {"none", "open", "committed", "rolled_back"}]
    BY <2>1, DiscardTyped DEF Typed
  <2> QED
    BY <1>4, <2>2 DEF Typed, Terminate, sweepVars
<1>5. CASE ClosePools \/ PolicyChanges \/ HourPasses
  BY <1>5 DEF Typed, ClosePools, PolicyChanges, HourPasses,
              clientVars, sessionVars, sweepVars, stopVars
<1> QED
  BY <1>1, <1>2, <1>3, <1>4, <1>5 DEF Next

-----------------------------------------------------------------------------
(***************************************************************************)
(* Shape.                                                                  *)
(***************************************************************************)
\* A step that leaves a transaction alone.
Untouched(u) ==
    /\ op'[u] = op[u] /\ answer'[u] = answer[u]
    /\ server'[u] = server[u] /\ lease'[u] = lease[u]
    /\ u \in active' <=> u \in active
    /\ u \in destroyed' <=> u \in destroyed
    /\ u \in undoing' => u \in undoing
    /\ \A k \in Sweeps : u \in rest'[k] => u \in rest[k]

\* A transaction a step does not touch keeps its shape.
LEMMA ShapeFrame ==
    ASSUME NEW u \in Txn, Shape(u), Untouched(u)
    PROVE  Shape(u)'
BY DEF Untouched, Shape, ShapeStart, ShapeSession, ShapeServer, ShapeSql, ShapeSweep

\* A step on one transaction has to keep the shape of that one only.
LEMMA ShapeOne ==
    ASSUME \A u \in Txn : Shape(u), NEW t \in Txn, Shape(t)',
           \A u \in Txn \ {t} : Untouched(u)
    PROVE  \A u \in Txn : Shape(u)'
<1> SUFFICES ASSUME NEW u \in Txn, u # t PROVE Shape(u)'
  OBVIOUS
<1> QED
  BY ShapeFrame

\* What discard does to a transaction in its set, and to one outside.
LEMMA DiscardOne ==
    ASSUME Typed, NEW u \in Txn, Shape(u), NEW D \in SUBSET Txn, NEW C, Discard(D, C)
    PROVE  /\ u \in destroyed' <=> u \in destroyed \cup D
           /\ u \notin D \/ u \in destroyed =>
                 /\ lease'[u] = lease[u] /\ server'[u] = server[u]
                 /\ u \in undoing' => u \in undoing
           /\ u \in SqlServer => lease'[u] = lease[u] /\ server'[u] = server[u]
           /\ u \in D \ destroyed /\ u \in Leased =>
                 /\ lease'[u] = GiveBack(lease[u])
                 /\ server[u] # "open" => server'[u] = server[u]
                 /\ server[u] = "open" =>
                      \/ server'[u] = "rolled_back"
                      \/ server'[u] = "committed" /\ op[u] = "commit"
           /\ u \in undoing' => u \in destroyed'
<1>1. u \in undoing' => u \in undoing \/ (u \in D \ destroyed /\ u \in SqlServer)
  BY DEF Discard
<1>2. u \in undoing => u \in destroyed
  BY DEF Shape, ShapeSql
<1>3. u \in destroyed' <=> u \in destroyed \cup D
  BY DEF Discard
<1>4. lease'[u] = IF u \in (D \ destroyed) \ SqlServer THEN GiveBack(lease[u]) ELSE lease[u]
  BY DEF Discard
<1>5. server'[u] = IF u \in (D \ destroyed) \ SqlServer /\ server[u] = "open"
                   THEN IF u \in C THEN "committed" ELSE "rolled_back"
                   ELSE server[u]
  BY DEF Discard
<1>6. u \in C => op[u] = "commit"
  BY DEF Discard
<1> QED
  BY <1>1, <1>2, <1>3, <1>4, <1>5, <1>6 DEF Leased

\* A step of one transaction leaves the others alone.
LEMMA OthersUntouched ==
    ASSUME Typed, \A u \in Txn : Shape(u), NEW t \in Txn, TxnStep(t)
    PROVE  \A u \in Txn \ {t} : Untouched(u)
<1> SUFFICES ASSUME NEW u \in Txn, u # t PROVE Untouched(u)
  OBVIOUS
<1>1. ASSUME NEW verdict, Fail(t, verdict) PROVE Untouched(u)
  <2>1. PICK C \in SUBSET {t} : Discard({t}, C)
    BY <1>1 DEF Fail
  <2>2. server'[u] = server[u] /\ lease'[u] = lease[u] /\ (u \in destroyed' <=> u \in destroyed)
        /\ (u \in undoing' => u \in undoing)
    BY <2>1, DiscardOne
  <2>3. op'[u] = op[u] /\ answer'[u] = answer[u] /\ (u \in active' <=> u \in active)
    BY <1>1 DEF Fail, Typed
  <2> QED
    BY <1>1, <2>2, <2>3 DEF Fail, Untouched, sweepVars
<1>2. CASE BeginFails(t) \/ ExecuteFails(t) \/ CommitRefused(t) \/ FinishFails(t)
  BY <1>1, <1>2 DEF BeginFails, ExecuteFails, CommitRefused, FinishFails
<1> USE DEF Untouched, Typed, clientVars, sessionVars, sweepVars, stopVars
<1>3. CASE Begin(t) \/ Acquired(t) \/ Unavailable(t)
  BY <1>3 DEF Begin, Acquired, Unavailable
<1>4. CASE LateLease(t) \/ Begun(t)
  BY <1>4 DEF LateLease, Begun
<1>5. CASE Claim(t) \/ Authorize(t)
  BY <1>5 DEF Claim, ClaimTxn, Authorize
<1>6. CASE NamesAllowed(t) \/ Executed(t) \/ ServerCommits(t)
  BY <1>6 DEF NamesAllowed, Executed, ServerCommits
<1>7. CASE Committed(t) \/ RolledBack(t)
  BY <1>7 DEF Committed, RolledBack, Finished
<1>8. CASE RollbackEnds(t) \/ Undone(t)
  BY <1>8 DEF RollbackEnds, Undone
<1> QED
  BY <1>2, <1>3, <1>4, <1>5, <1>6, <1>7, <1>8 DEF TxnStep

\* The error path: the transaction is over, or waits for its rollback.
LEMMA FailShape ==
    ASSUME Typed, \A u \in Txn : Shape(u), NEW t \in Txn, NEW verdict \in {"failed", "unknown"},
           op[t] \in {"begin"} \cup (Busy \ {"undo"}),
           op[t] = "commit" => verdict = "unknown",
           Fail(t, verdict)
    PROVE  \A u \in Txn : Shape(u)'
<1> SUFFICES ASSUME NEW u \in Txn PROVE Shape(u)'
  OBVIOUS
<1>1. PICK C \in SUBSET {t} : Discard({t}, C)
  BY DEF Fail
<1>2. Shape(u) /\ Shape(t)
  OBVIOUS
<1>3. CASE u # t
  <2>1. op'[u] = op[u] /\ answer'[u] = answer[u] /\ (u \in active' <=> u \in active)
    BY <1>3 DEF Fail, Typed
  <2>2. rest' = rest
    BY DEF Fail, sweepVars
  <2> QED
    BY <1>1, <1>2, <1>3, <2>1, <2>2, DiscardOne, ShapeFrame DEF Untouched
<1>4. CASE u = t
  <2>1. rest' = rest /\ answer'[t] = verdict
    BY DEF Fail, sweepVars, Typed
  <2>2. CASE t \in SqlServer \ destroyed
    <3>1. op'[t] = (IF op[t] = "begin" THEN "undo_begin" ELSE "undo") /\ active' = active
      BY <2>2 DEF Fail, Typed
    <3> QED
      BY <1>1, <1>2, <1>4, <2>1, <2>2, <3>1, DiscardOne
         DEF Shape, ShapeStart, ShapeSession, ShapeServer, ShapeSql, ShapeSweep, Established,
             Start, Busy, Leased
  <2>3. CASE ~(t \in SqlServer \ destroyed)
    <3>1. op'[t] = "over" /\ active' = active \ {t}
      BY <2>3 DEF Fail, Typed
    <3> QED
      BY <1>1, <1>2, <1>4, <2>1, <2>3, <3>1, DiscardOne
         DEF Shape, ShapeStart, ShapeSession, ShapeServer, ShapeSql, ShapeSweep, Established,
             Start, Busy, Leased, GiveBack
  <2> QED
    BY <2>2, <2>3
<1> QED
  BY <1>3, <1>4

\* Discarding a set of established transactions that leave the map.
LEMMA DropShape ==
    ASSUME Typed, \A u \in Txn : Shape(u), NEW D \in SUBSET Txn, NEW C,
           \A t \in D : op[t] \in Established,
           Discard(D, C), active' = active \ D, op' = op, answer' = answer,
           \A k \in Sweeps : \A t \in rest'[k] : op[t] \in Established
    PROVE  \A u \in Txn : Shape(u)'
<1> SUFFICES ASSUME NEW u \in Txn PROVE Shape(u)'
  OBVIOUS
<1>1. Shape(u)
  OBVIOUS
<1>2. CASE u \in D
  BY <1>1, <1>2, DiscardOne
     DEF Shape, ShapeStart, ShapeSession, ShapeServer, ShapeSql, ShapeSweep, Established,
         Start, Busy, Leased, GiveBack
<1>3. CASE u \notin D
  BY <1>1, <1>3, DiscardOne
     DEF Shape, ShapeStart, ShapeSession, ShapeServer, ShapeSql, ShapeSweep
<1> QED
  BY <1>2, <1>3

\* A sweep only discards transactions that BEGIN established.
LEMMA SweepShape ==
    ASSUME Typed, \A u \in Txn : Shape(u), NEW k \in Sweeps, NEW stale \in SUBSET Txn,
           \A t \in stale : op[t] \in Established, Sweep(k, stale)
    PROVE  \A u \in Txn : Shape(u)'
<1>1. PICK now \in SUBSET stale :
        /\ rest' = [rest EXCEPT ![k] = stale \ now]
        /\ active' = active \ now
        /\ \E C \in SUBSET now : Discard(now, C)
        /\ op' = op /\ answer' = answer
  BY DEF Sweep
<1>2. PICK C \in SUBSET now : Discard(now, C)
  BY <1>1
<1>3. \A j \in Sweeps : \A t \in rest[j] : op[t] \in Established
  BY DEF Typed, Shape, ShapeSweep
<1>4. \A j \in Sweeps : \A t \in rest'[j] : op[t] \in Established
  BY <1>1, <1>3 DEF Typed
<1> QED
  BY <1>1, <1>2, <1>4, DropShape

\* Every step keeps the shape of every transaction.
LEMMA ShapeStep ==
    ASSUME Typed, \A u \in Txn : Shape(u), [Next]_vars
    PROVE  \A u \in Txn : Shape(u)'
<1> USE DEF clientVars, sessionVars, sweepVars, stopVars
<1>1. CASE UNCHANGED vars
  BY <1>1, ShapeFrame DEF vars, Untouched
<1>2. ASSUME NEW t \in Txn, TxnStep(t) PROVE \A u \in Txn : Shape(u)'
  <2>0. t \in Txn /\ Shape(t)
    BY <1>2
  <2> SUFFICES Shape(t)'
    BY <1>2, OthersUntouched, ShapeOne
  <2>1. CASE BeginFails(t) \/ ExecuteFails(t) \/ CommitRefused(t) \/ FinishFails(t)
    BY <1>2, <2>1, FailShape DEF BeginFails, ExecuteFails, CommitRefused, FinishFails, Busy
  <2> USE DEF Typed, Shape, ShapeStart, ShapeSession, ShapeServer, ShapeSql, ShapeSweep,
              Established, Start, Busy, Leased
  <2>2. CASE Begin(t) \/ Acquired(t) \/ Unavailable(t)
    BY <2>0, <2>2 DEF Begin, Acquired, Unavailable
  <2>3. CASE LateLease(t) \/ Begun(t)
    BY <2>0, <2>3 DEF LateLease, Begun
  <2>4. CASE Claim(t)
    BY <2>0, <2>4 DEF Claim, ClaimTxn
  <2>5. CASE Authorize(t)
    BY <2>0, <2>5 DEF Authorize
  <2>6. CASE NamesAllowed(t) \/ Executed(t)
    BY <2>0, <2>6 DEF NamesAllowed, Executed, Usable
  <2>7. CASE ServerCommits(t)
    BY <2>0, <2>7 DEF ServerCommits, Usable
  <2>8. CASE Committed(t)
    BY <2>0, <2>8 DEF Committed, Finished, GiveBack
  <2>9. CASE RolledBack(t)
    BY <2>0, <2>9 DEF RolledBack, Finished, GiveBack, Usable
  <2>10. CASE RollbackEnds(t)
    BY <2>0, <2>10 DEF RollbackEnds
  <2>11. CASE Undone(t)
    BY <2>0, <2>11 DEF Undone
  <2> QED
    BY <1>2, <2>1, <2>2, <2>3, <2>4, <2>5, <2>6, <2>7, <2>8, <2>9, <2>10, <2>11 DEF TxnStep
<1>3. ASSUME NEW k \in Sweeps, SweepStarts(k) \/ SweepGoesOn(k) PROVE \A u \in Txn : Shape(u)'
  <2>1. CASE SweepStarts(k)
    BY <1>3, <2>1, SweepShape DEF SweepStarts, Typed, Established
  <2>2. CASE SweepGoesOn(k)
    <3>1. rest[k] \in SUBSET Txn /\ \A t \in rest[k] : op[t] \in Established
      BY <1>3 DEF Typed, Shape, ShapeSweep
    <3> QED
      BY <1>3, <2>2, <3>1, SweepShape DEF SweepGoesOn
  <2> QED
    BY <1>3, <2>1, <2>2
<1>4. CASE Terminate
  <2>1. PICK C \in SUBSET active : Discard(active, C)
    BY <1>4 DEF Terminate
  <2>2. \A t \in active : op[t] \in Established
    BY DEF Typed, Shape, ShapeStart, Ops, Established
  <2>3. active' = active \ active /\ op' = op /\ answer' = answer /\ rest' = rest
    BY <1>4 DEF Terminate
  <2>4. \A k \in Sweeps : \A t \in rest'[k] : op[t] \in Established
    BY <2>3 DEF Typed, Shape, ShapeSweep
  <2> QED
    BY <2>1, <2>2, <2>3, <2>4, DropShape DEF Typed
<1>5. CASE ClosePools \/ PolicyChanges \/ HourPasses
  BY <1>5, ShapeFrame DEF ClosePools, PolicyChanges, HourPasses, Untouched
<1> QED
  BY <1>1, <1>2, <1>3, <1>4, <1>5 DEF Next

-----------------------------------------------------------------------------
(***************************************************************************)
(* Counts.                                                                 *)
(***************************************************************************)
\* The sets that are counted are finite.
LEMMA FiniteCounts ==
    ASSUME Typed
    PROVE  /\ IsFiniteSet(Starting) /\ Cardinality(Starting) \in Nat
           /\ IsFiniteSet(active) /\ Cardinality(active) \in Nat
<1>1. IsFiniteSet(Txn)
  BY TransactionsAssumption
<1>2. Starting \subseteq Txn /\ active \subseteq Txn
  BY DEF Starting, Typed
<1> QED
  BY <1>1, <1>2, FS_Subset, FS_CardinalityType

\* No transaction starts or stops starting; the map does not grow.
LEMMA CountsKept ==
    ASSUME Typed, Counts, pending' = pending, Starting' = Starting, active' \subseteq active
    PROVE  Counts'
<1>1. Cardinality(active') \in Nat /\ Cardinality(active') <= Cardinality(active)
  BY FiniteCounts, FS_Subset, FS_CardinalityType
<1> QED
  BY <1>1, FiniteCounts, TransactionsAssumption DEF Counts

\* A starting transaction is counted down; the map does not grow.
LEMMA CountsDown ==
    ASSUME Typed, Counts, NEW t \in Txn, t \in Starting,
           pending' = pending - 1, Starting' = Starting \ {t}, active' \subseteq active
    PROVE  Counts'
<1>1. Cardinality(active') \in Nat /\ Cardinality(active') <= Cardinality(active)
  BY FiniteCounts, FS_Subset, FS_CardinalityType
<1>2. Cardinality(Starting \ {t}) = Cardinality(Starting) - 1
  BY FiniteCounts, FS_RemoveElement
<1> QED
  BY <1>1, <1>2, FiniteCounts, TransactionsAssumption DEF Counts

\* Every step keeps the counts.
LEMMA CountsStep ==
    ASSUME Typed, \A u \in Txn : Shape(u), Counts, [Next]_vars
    PROVE  Counts'
<1> USE DEF clientVars, sessionVars, sweepVars, stopVars
<1>1. CASE UNCHANGED vars
  BY <1>1, CountsKept DEF vars, Starting
<1>2. ASSUME NEW t \in Txn, TxnStep(t) PROVE Counts'
  <2>0. t \in Txn /\ Shape(t)
    BY <1>2
  <2>1. CASE Begin(t)
    <3>1. Starting' = Starting \cup {t} /\ t \notin Starting
      BY <2>0, <2>1 DEF Begin, Starting, Start, Typed
    <3>2. Cardinality(Starting \cup {t}) = Cardinality(Starting) + 1
      BY <3>1, FiniteCounts, FS_AddElement
    <3>3. active' = active /\ pending' = pending + 1 /\ Cardinality(active) + pending < limit
      BY <2>1 DEF Begin
    <3> QED
      BY <3>1, <3>2, <3>3, FiniteCounts, TransactionsAssumption DEF Counts
  <2>2. CASE Unavailable(t)
    <3>1. Starting' = Starting \ {t} /\ t \in Starting
      BY <2>0, <2>2 DEF Unavailable, Starting, Start, Typed
    <3> QED
      BY <2>0, <2>2, <3>1, CountsDown DEF Unavailable
  <2>3. CASE Begun(t)
    <3>1. Starting' = Starting \ {t} /\ t \in Starting
      BY <2>0, <2>3 DEF Begun, Starting, Start, Typed
    <3>2. Cardinality(Starting \ {t}) = Cardinality(Starting) - 1
      BY <3>1, FiniteCounts, FS_RemoveElement
    <3>3. t \notin active
      BY <2>0, <2>3 DEF Begun, Shape, ShapeStart, Start
    <3>4. Cardinality(active \cup {t}) = Cardinality(active) + 1
      BY <3>3, FiniteCounts, FS_AddElement
    <3>5. active' = active \cup {t} /\ pending' = pending - 1
      BY <2>3 DEF Begun
    <3> QED
      BY <3>1, <3>2, <3>4, <3>5, FiniteCounts, TransactionsAssumption DEF Counts
  <2>4. CASE BeginFails(t)
    <3>1. op[t] = "begin" /\ Fail(t, "failed")
      BY <2>4 DEF BeginFails
    <3>2. CASE t \in SqlServer \ destroyed
      <4>1. op' = [op EXCEPT ![t] = "undo_begin"] /\ active' = active /\ pending' = pending
        BY <3>1, <3>2 DEF Fail
      <4>2. Starting' = Starting
        BY <2>0, <3>1, <4>1 DEF Starting, Start, Typed
      <4> QED
        BY <4>1, <4>2, CountsKept
    <3>3. CASE ~(t \in SqlServer \ destroyed)
      <4>1. /\ op' = [op EXCEPT ![t] = "over"] /\ active' = active \ {t}
            /\ pending' = pending - 1
        BY <3>1, <3>3 DEF Fail, Start
      <4>2. Starting' = Starting \ {t} /\ t \in Starting
        BY <2>0, <3>1, <4>1 DEF Starting, Start, Typed
      <4> QED
        BY <2>0, <4>1, <4>2, CountsDown
    <3> QED
      BY <3>2, <3>3
  <2>5. CASE ExecuteFails(t) \/ CommitRefused(t) \/ FinishFails(t)
    <3>1. PICK verdict : Fail(t, verdict)
      BY <2>5 DEF ExecuteFails, CommitRefused, FinishFails
    <3>2. op[t] \in Busy
      BY <2>5 DEF ExecuteFails, CommitRefused, FinishFails, Busy
    <3>3. /\ op' = [op EXCEPT ![t] = "undo"] \/ op' = [op EXCEPT ![t] = "over"]
          /\ active' \subseteq active /\ pending' = pending
      BY <3>1, <3>2 DEF Fail, Start, Busy
    <3>4. Starting' = Starting
      BY <2>0, <3>2, <3>3 DEF Starting, Start, Busy, Typed
    <3> QED
      BY <3>3, <3>4, CountsKept
  <2>6. CASE Undone(t)
    <3>1. CASE op[t] = "undo_begin"
      <4>1. Starting' = Starting \ {t} /\ t \in Starting
        BY <2>0, <2>6, <3>1 DEF Undone, Starting, Start, Typed
      <4> QED
        BY <2>0, <2>6, <3>1, <4>1, CountsDown DEF Undone
    <3>2. CASE op[t] = "undo"
      <4>1. Starting' = Starting
        BY <2>0, <2>6, <3>2 DEF Undone, Starting, Start, Typed
      <4> QED
        BY <2>6, <3>2, <4>1, CountsKept DEF Undone
    <3> QED
      BY <2>6, <3>1, <3>2 DEF Undone
  <2>7. CASE Acquired(t) \/ LateLease(t) \/ Claim(t) \/ Authorize(t) \/ NamesAllowed(t)
    <3>1. Starting' = Starting
      BY <2>0, <2>7 DEF Acquired, LateLease, Claim, ClaimTxn, Authorize, NamesAllowed,
                        Starting, Start, Typed
    <3> QED
      BY <2>7, <3>1, CountsKept DEF Acquired, LateLease, Claim, Authorize, NamesAllowed
  <2>8. CASE Executed(t) \/ ServerCommits(t) \/ Committed(t) \/ RolledBack(t) \/ RollbackEnds(t)
    <3>1. Starting' = Starting
      BY <2>0, <2>8 DEF Executed, ServerCommits, Committed, RolledBack, Finished, RollbackEnds,
                        Starting, Start, Typed
    <3>2. active' \subseteq active /\ pending' = pending
      BY <2>8 DEF Executed, ServerCommits, Committed, RolledBack, Finished, RollbackEnds
    <3> QED
      BY <3>1, <3>2, CountsKept
  <2> QED
    BY <1>2, <2>1, <2>2, <2>3, <2>4, <2>5, <2>6, <2>7, <2>8 DEF TxnStep
<1>3. ASSUME NEW k \in Sweeps, SweepStarts(k) \/ SweepGoesOn(k) PROVE Counts'
  <2>1. op' = op /\ pending' = pending /\ active' \subseteq active
    BY <1>3 DEF SweepStarts, SweepGoesOn, Sweep
  <2> QED
    BY <2>1, CountsKept DEF Starting
<1>4. CASE Terminate \/ ClosePools \/ PolicyChanges \/ HourPasses
  BY <1>4, CountsKept DEF Terminate, ClosePools, PolicyChanges, HourPasses, Starting
<1> QED
  BY <1>1, <1>2, <1>3, <1>4 DEF Next

-----------------------------------------------------------------------------
(***************************************************************************)
(* The invariant and what follows from it.                                 *)
(***************************************************************************)
\* IInv holds initially.
LEMMA TransactionsInit == Init => IInv
<1> SUFFICES ASSUME Init PROVE IInv
  OBVIOUS
<1>1. Typed
  BY TransactionsAssumption DEF Init, Typed, Ops
<1>2. \A t \in Txn : Shape(t)
  BY DEF Init, Shape, ShapeStart, ShapeSession, ShapeServer, ShapeSql, ShapeSweep, Established,
         Start, Busy
<1>3. Starting = {} /\ active = {} /\ pending = 0
  BY DEF Init, Starting, Start
<1>4. Cardinality({}) = 0
  BY FS_EmptySet
<1> QED
  BY <1>1, <1>2, <1>3, <1>4, TransactionsAssumption DEF IInv, Counts

\* IInv is inductive.
THEOREM TxnInvariant == Spec => []IInv
<1>1. IInv /\ [Next]_vars => IInv'
  <2> SUFFICES ASSUME IInv, [Next]_vars PROVE IInv'
    OBVIOUS
  <2>1. Typed'
    BY TypedStep DEF IInv
  <2>2. \A t \in Txn : Shape(t)'
    BY ShapeStep DEF IInv
  <2>3. Counts'
    BY CountsStep DEF IInv
  <2> QED
    BY <2>1, <2>2, <2>3 DEF IInv
<1> QED
  BY <1>1, TransactionsInit, PTL DEF Spec

\* The manager's variables stay within their types: the pending count never
\* leaves 0..limit, whatever fails while a transaction starts.
THEOREM TxnTypeCorrect == Spec => []TypeOK
<1>1. IInv => TypeOK
  BY FiniteCounts, TransactionsAssumption DEF IInv, Typed, Counts, TypeOK
<1> QED
  BY <1>1, TxnInvariant, PTL

\* A transaction a client can use is open in the database and its session is
\* there, whatever sweeps, shutdown and error paths ran before.
THEOREM TxnIdleIsUsable == Spec => []IdleIsUsable
<1>1. IInv => IdleIsUsable
  BY DEF IInv, Typed, Shape, ShapeSession, ShapeServer, Established, Leased, IdleIsUsable, Usable
<1> QED
  BY <1>1, TxnInvariant, PTL

\* No path gives a leased session back twice.
THEOREM TxnReturnedOnce == Spec => []ReturnedOnce
<1>1. IInv => ReturnedOnce
  BY DEF IInv, Typed, Ops, Shape, ShapeStart, ShapeSession, ShapeSql, Established, Start, Leased,
         ReturnedOnce
<1> QED
  BY <1>1, TxnInvariant, PTL

\* No leased session is forgotten.
THEOREM TxnNoLostLease == Spec => []NoLostLease
<1>1. IInv => NoLostLease
  BY DEF IInv, Typed, Ops, Shape, ShapeStart, ShapeSession, ShapeSql, Established, Start, Leased,
         NoLostLease
<1> QED
  BY <1>1, TxnInvariant, PTL

\* The pending counter is the number of starting transactions.
THEOREM TxnPendingExact == Spec => []PendingExact
<1>1. IInv => PendingExact
  BY DEF IInv, Counts, Starting, PendingExact
<1> QED
  BY <1>1, TxnInvariant, PTL

\* The limit bounds the leased sessions and those waited for.
THEOREM TxnSessionLimit == Spec => []SessionLimit
<1> DEFINE taken == {t \in Txn : op[t] = "acquire" \/ lease[t] = "held"}
<1>1. IInv => SessionLimit
  <2> SUFFICES ASSUME IInv PROVE Cardinality(taken) <= limit
    BY DEF SessionLimit
  <2>1. taken \subseteq active \cup Starting
    BY DEF IInv, Typed, Ops, Shape, ShapeStart, ShapeSession, ShapeSql, Established, Start,
           Leased, Starting
  <2>2. /\ IsFiniteSet(Starting) /\ Cardinality(Starting) \in Nat
        /\ IsFiniteSet(active) /\ Cardinality(active) \in Nat
    BY FiniteCounts DEF IInv
  <2>3. active \cap Starting = {}
    BY DEF IInv, Typed, Shape, ShapeStart, Starting
  <2>4. /\ IsFiniteSet(active \cup Starting)
        /\ Cardinality(active \cup Starting) = Cardinality(active) + Cardinality(Starting)
    <3>1. /\ IsFiniteSet(active \cup Starting)
          /\ Cardinality(active \cup Starting) =
                Cardinality(active) + Cardinality(Starting) - Cardinality(active \cap Starting)
      BY <2>2, FS_Union
    <3>2. Cardinality(active \cap Starting) = 0
      BY <2>3, FS_EmptySet
    <3> QED
      BY <2>2, <3>1, <3>2
  <2>5. Cardinality(taken) <= Cardinality(active \cup Starting) /\ Cardinality(taken) \in Nat
    BY <2>1, <2>4, FS_Subset, FS_CardinalityType
  <2> QED
    BY <2>2, <2>4, <2>5, TransactionsAssumption DEF IInv, Counts
<1> QED
  BY <1>1, TxnInvariant, PTL

-----------------------------------------------------------------------------
(***************************************************************************)
(* The answers agree with the database.                                    *)
(***************************************************************************)
\* The error path rolls back or leaves undecided, and answers accordingly.
LEMMA FailOutcome ==
    ASSUME IInv, NEW t \in Txn, NEW verdict \in {"failed", "unknown"},
           op[t] \in {"begin"} \cup (Busy \ {"undo"}),
           op[t] = "commit" => verdict = "unknown",
           Fail(t, verdict)
    PROVE  Promise!Step(t)
<1>1. PICK C \in SUBSET {t} : Discard({t}, C)
  BY DEF Fail
<1>2. Typed /\ Shape(t)
  BY DEF IInv
<1>3. /\ server'[t] = server[t] \/ (server[t] = "open" /\ server'[t] = "rolled_back")
         \/ (server[t] = "open" /\ server'[t] = "committed" /\ op[t] = "commit")
  BY <1>1, <1>2, DiscardOne DEF Leased
<1>4. told[t] = "nothing"
  BY DEF told, Busy
<1>5. told'[t] \in {"nothing", verdict}
  BY <1>2 DEF told, Fail, Typed
<1>6. verdict = "failed" => server[t] # "committed"
  BY <1>2 DEF Shape, ShapeServer, Busy
<1> QED
  BY <1>3, <1>4, <1>5, <1>6
     DEF Promise!Step, Promise!Decide, Promise!Tell, Promise!Agrees

\* Discarding decides, and answers nobody.
LEMMA DropOutcome ==
    ASSUME IInv, NEW u \in Txn, NEW D \in SUBSET Txn, NEW C, Discard(D, C),
           op' = op, answer' = answer
    PROVE  Promise!Step(u)
<1>1. Typed /\ Shape(u)
  BY DEF IInv
<1>2. /\ server'[u] = server[u] \/ (server[u] = "open" /\ server'[u] = "rolled_back")
         \/ (server[u] = "open" /\ server'[u] = "committed" /\ op[u] = "commit")
  BY <1>1, DiscardOne DEF Leased
<1>3. told' = told /\ (op[u] = "commit" => told[u] = "nothing")
  BY DEF told
<1> QED
  BY <1>2, <1>3 DEF Promise!Step, Promise!Decide

\* Every step of one transaction is a step or a stutter of its promise.
LEMMA TxnOutcome ==
    ASSUME IInv, NEW t \in Txn, TxnStep(t)
    PROVE  Promise!Step(t)
<1> USE DEF clientVars, sessionVars, sweepVars, stopVars
<1>1. Typed /\ Shape(t)
  BY DEF IInv
<1>2. CASE BeginFails(t) \/ ExecuteFails(t) \/ CommitRefused(t) \/ FinishFails(t)
  BY <1>2, FailOutcome DEF BeginFails, ExecuteFails, CommitRefused, FinishFails, Busy
<1> USE DEF told, Typed, Promise!Step, Promise!Decide, Promise!Tell, Promise!Agrees, Promise!Open
<1>3. CASE Begin(t) \/ Acquired(t) \/ Unavailable(t) \/ LateLease(t)
  BY <1>1, <1>3 DEF Begin, Acquired, Unavailable, LateLease
<1>4. CASE Begun(t)
  BY <1>1, <1>4 DEF Begun, Shape, ShapeStart, Start
<1>5. CASE Claim(t) \/ Authorize(t) \/ NamesAllowed(t) \/ Executed(t)
  BY <1>1, <1>5 DEF Claim, ClaimTxn, Authorize, NamesAllowed, Executed
<1>6. CASE ServerCommits(t)
  BY <1>1, <1>6 DEF ServerCommits
<1>7. CASE Committed(t)
  BY <1>1, <1>7 DEF Committed, Finished
<1>8. CASE RolledBack(t)
  BY <1>1, <1>8 DEF RolledBack, Finished
<1>9. CASE RollbackEnds(t)
  BY <1>1, <1>9 DEF RollbackEnds
<1>10. CASE Undone(t)
  BY <1>1, <1>10 DEF Undone, Shape, ShapeServer
<1> QED
  BY <1>2, <1>3, <1>4, <1>5, <1>6, <1>7, <1>8, <1>9, <1>10 DEF TxnStep

\* Every step is one of the abstract specification, or a stutter.
LEMMA OutcomeStep ==
    ASSUME IInv, [Next]_vars
    PROVE  \A u \in Txn : Promise!Step(u)
<1> SUFFICES ASSUME NEW u \in Txn PROVE Promise!Step(u)
  OBVIOUS
<1> USE DEF clientVars, sessionVars, sweepVars, stopVars
<1>1. ASSUME server'[u] = server[u], op'[u] = op[u], answer'[u] = answer[u]
      PROVE  Promise!Step(u)
  BY <1>1 DEF told, Promise!Step
<1>2. CASE UNCHANGED vars
  BY <1>1, <1>2 DEF vars
<1>3. ASSUME NEW t \in Txn, TxnStep(t) PROVE Promise!Step(u)
  <2>1. CASE u = t
    BY <1>3, <2>1, TxnOutcome
  <2>2. CASE u # t
    <3>1. Untouched(u)
      BY <1>3, <2>2, OthersUntouched DEF IInv
    <3> QED
      BY <1>1, <3>1 DEF Untouched
  <2> QED
    BY <2>1, <2>2
<1>4. ASSUME NEW k \in Sweeps, SweepStarts(k) \/ SweepGoesOn(k) PROVE Promise!Step(u)
  <2>1. PICK stale \in SUBSET Txn : Sweep(k, stale)
    BY <1>4 DEF SweepStarts, SweepGoesOn, IInv, Typed
  <2>2. PICK now \in SUBSET stale : (\E C \in SUBSET now : Discard(now, C))
                                    /\ op' = op /\ answer' = answer
    BY <2>1 DEF Sweep
  <2> QED
    BY <2>2, DropOutcome
<1>5. CASE Terminate
  <2>1. (\E C \in SUBSET active : Discard(active, C)) /\ op' = op /\ answer' = answer
    BY <1>5 DEF Terminate
  <2>2. active \in SUBSET Txn
    BY DEF IInv, Typed
  <2> QED
    BY <2>1, <2>2, DropOutcome
<1>6. CASE ClosePools \/ PolicyChanges \/ HourPasses
  BY <1>1, <1>6 DEF ClosePools, PolicyChanges, HourPasses
<1> QED
  BY <1>2, <1>3, <1>4, <1>5, <1>6 DEF Next

\* The transaction manager implements Outcome: a transaction is decided once,
\* nothing is committed after a failure was reported, and a reported commit
\* or rollback has happened.
THEOREM TxnImplementsOutcome == Spec => ImplementsOutcome
<1>1. Init => Promise!OutcomeInit
  BY DEF Init, Promise!OutcomeInit, told
<1>2. IInv /\ IInv' /\ [Next]_vars => [Promise!OutcomeNext]_<<server, told>>
  <2> SUFFICES ASSUME IInv, IInv', [Next]_vars PROVE Promise!OutcomeNext
    OBVIOUS
  <2>1. server' \in [Txn -> Promise!Fate] /\ told' \in [Txn -> Promise!Answer]
    BY DEF IInv, Typed, told, Promise!Fate, Promise!Answer
  <2> QED
    BY <2>1, OutcomeStep DEF Promise!OutcomeNext
<1> QED
  BY <1>1, <1>2, TxnInvariant, PTL DEF Spec, ImplementsOutcome, Promise!OutcomeSpec

=============================================================================
