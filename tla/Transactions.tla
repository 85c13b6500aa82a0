---------------------------- MODULE Transactions ----------------------------
(***************************************************************************)
(* managers/transaction-manager.ts with runtime/lease.ts: explicit         *)
(* transactions on leased database sessions, the sweep of stale ones       *)
(* (server.ts, every five minutes) and rollbackAll at shutdown.            *)
(*                                                                         *)
(* JavaScript runs one callback at a time, so a step is the code between   *)
(* two awaits that really suspend: on the pool, the driver or the          *)
(* workspace configuration.  A PostgreSQL or MySQL session is leased and   *)
(* ends by closing the connection, at once; a SQL Server session can only  *)
(* be asked to roll back, which takes time and can fail.                   *)
(***************************************************************************)
EXTENDS Naturals, FiniteSets

CONSTANTS
  Txn,             (* the ids handed out by beginTransaction               *)
  SqlServer,       (* those on SQL Server                                  *)
  Policies,        (* contents of the access policy file                   *)
  Writable,        (* those that do not make the connection read-only      *)
  limit,           (* active and starting transactions (32)                *)
  Sweeps,          (* bound: sweeps that can be under way at once          *)
  Claims           (* bound: operations a client starts on a transaction   *)

ASSUME TransactionsAssumption ==
    /\ IsFiniteSet(Txn) /\ SqlServer \subseteq Txn
    /\ Writable \subseteq Policies /\ Policies # {}
    /\ limit \in Nat \ {0} /\ Claims \in Nat

Leased == Txn \ SqlServer

VARIABLES
  policy,          (* the policy file now                                  *)
  op,              (* what is under way on behalf of a client              *)
  answer,          (* the answer an ended operation gives                  *)
  claims,          (* operations started so far                            *)
  active,          (* this.transactions                                    *)
  pending,         (* this.pending                                         *)
  recorded,        (* active.policyRevision                                *)
  destroyed,       (* transactions with active.destroyed set               *)
  lease,           (* the client leased from the pool                      *)
  undoing,         (* SQL Server rollbacks in flight                       *)
  server,          (* the transaction in the database                      *)
  old,             (* begun more than an hour ago                          *)
  rest,            (* what a sweep still has to discard                    *)
  awaits,          (* the rollback a sweep waits for                       *)
  stage,           (* of the process: up, rolling back, closing pools      *)
  stopping         (* what rollbackAll took from the map                   *)

clientVars == <<op, answer, claims, active, pending, recorded>>
sessionVars == <<destroyed, lease, undoing, server>>
sweepVars == <<rest, awaits>>
stopVars == <<stage, stopping>>
vars == <<policy, clientVars, sessionVars, old, sweepVars, stopVars>>

(***************************************************************************)
(* new, acquire (waiting for the pool), unavailable (no session came),     *)
(* begin (BEGIN sent), idle, then per operation: authorize_execute, names  *)
(* (metadata lookups), execute, authorize_commit, commit, rollback; undo   *)
(* and undo_begin (an error waits for a SQL Server rollback) and over.     *)
(***************************************************************************)
Start == {"acquire", "begin", "undo_begin"}
Busy  == {"authorize_execute", "names", "execute", "authorize_commit",
          "commit", "rollback", "undo"}
Ops   == {"new", "unavailable", "idle", "over"} \cup Start \cup Busy

Init == /\ policy \in Policies
        /\ op = [t \in Txn |-> "new"]
        /\ answer = [t \in Txn |-> "nothing"]
        /\ claims = [t \in Txn |-> 0]
        /\ active = {} /\ pending = 0
        /\ recorded = [t \in Txn |-> policy]
        /\ destroyed = {}
        /\ lease = [t \in Txn |-> "none"]
        /\ undoing = {}
        /\ server = [t \in Txn |-> "none"]
        /\ old = {}
        /\ rest = [k \in Sweeps |-> {}]
        /\ awaits = [k \in Sweeps |-> {}]
        /\ stage = "up" /\ stopping = {}

-----------------------------------------------------------------------------
(***************************************************************************)
(* Ending sessions.                                                        *)
(***************************************************************************)
\* Giving the same client back to the pool twice throws in the drivers.
GiveBack(l) == IF l = "held" THEN "back" ELSE "twice"

\* Mutant: destroy does not look at its flag.
DiscardAgain(D, C) ==
    LET closed == D \ SqlServer IN
    /\ destroyed' = destroyed \cup D
    /\ lease' = [t \in Txn |-> IF t \in closed THEN GiveBack(lease[t]) ELSE lease[t]]
    /\ undoing' = undoing \cup (D \cap SqlServer)
    /\ C \subseteq {t \in closed : op[t] = "commit"}
    /\ server' = [t \in Txn |->
                    IF t \in closed /\ server[t] = "open"
                    THEN IF t \in C THEN "committed" ELSE "rolled_back"
                    ELSE server[t]]

\* discard, called for every member of D in one step.  A leased session is
\* closed, and the database rolls it back unless a COMMIT in flight (C) gets
\* there first; a SQL Server rollback is started.
Discard(D, C) ==
    LET ended  == D \ destroyed
        closed == ended \ SqlServer
    IN  /\ destroyed' = destroyed \cup ended
        /\ lease' = [t \in Txn |-> IF t \in closed THEN GiveBack(lease[t]) ELSE lease[t]]
        /\ undoing' = undoing \cup (ended \cap SqlServer)
        /\ C \subseteq {t \in closed : op[t] = "commit"}
        /\ server' = [t \in Txn |->
                        IF t \in closed /\ server[t] = "open"
                        THEN IF t \in C THEN "committed" ELSE "rolled_back"
                        ELSE server[t]]

\* A statement can only succeed on a session that is still there.
Usable(t) == IF t \in SqlServer THEN server[t] = "open" ELSE lease[t] = "held"

\* The catch blocks: discard, and once that is done leave the map (or the
\* pending count) and give the error to the caller.
Fail(t, verdict) ==
    /\ answer' = [answer EXCEPT ![t] = verdict]
    /\ \E C \in SUBSET {t} : Discard({t}, C)
    /\ IF t \in SqlServer \ destroyed
       THEN /\ op' = [op EXCEPT ![t] = IF @ = "begin" THEN "undo_begin" ELSE "undo"]
            /\ UNCHANGED <<active, pending>>
       ELSE /\ op' = [op EXCEPT ![t] = "over"]
            /\ active' = active \ {t}
            /\ pending' = IF op[t] \in Start THEN pending - 1 ELSE pending
    /\ UNCHANGED <<policy, claims, recorded, old, sweepVars, stopVars>>

-----------------------------------------------------------------------------
(***************************************************************************)
(* beginTransaction.                                                       *)
(***************************************************************************)
\* Mutant: the limit counts established transactions only.
BeginUncounted(t) ==
    /\ op[t] = "new"
    /\ policy \in Writable
    /\ Cardinality(active) < limit
    /\ op' = [op EXCEPT ![t] = "acquire"]
    /\ pending' = pending + 1
    /\ UNCHANGED <<policy, answer, claims, active, recorded, sessionVars, old,
                   sweepVars, stopVars>>

Begin(t) ==
    /\ op[t] = "new"
    /\ policy \in Writable
    /\ Cardinality(active) + pending < limit
    /\ op' = [op EXCEPT ![t] = "acquire"]
    /\ pending' = pending + 1
    /\ UNCHANGED <<policy, answer, claims, active, recorded, sessionVars, old,
                   sweepVars, stopVars>>

\* The pool, and for PostgreSQL and MySQL the lease, is there.  The policy
\* revision is recorded now, not when the policy was checked.
Acquired(t) ==
    /\ op[t] = "acquire"
    /\ op' = [op EXCEPT ![t] = "begin"]
    /\ lease' = [lease EXCEPT ![t] = IF t \in SqlServer THEN "none" ELSE "held"]
    /\ recorded' = [recorded EXCEPT ![t] = policy]
    /\ UNCHANGED <<policy, answer, claims, active, pending, destroyed, undoing, server,
                   old, sweepVars, stopVars>>

\* No pool or no lease; when only the deadline of acquireLease passed, the
\* pool may still hand the lease out later.
Unavailable(t) ==
    /\ op[t] = "acquire"
    /\ op' = [op EXCEPT ![t] = "unavailable"]
    /\ pending' = pending - 1
    /\ \E l \in {"none", "late"} : /\ t \in SqlServer => l = "none"
                                   /\ lease' = [lease EXCEPT ![t] = l]
    /\ UNCHANGED <<policy, answer, claims, active, recorded, destroyed, undoing, server,
                   old, sweepVars, stopVars>>

\* Mutant: a late lease is dropped.
LateLeaseKept(t) ==
    /\ lease[t] = "late"
    /\ lease' = [lease EXCEPT ![t] = "held"]
    /\ UNCHANGED <<policy, clientVars, destroyed, undoing, server, old, sweepVars, stopVars>>

LateLease(t) ==
    /\ lease[t] = "late"
    /\ lease' = [lease EXCEPT ![t] = "back"]
    /\ UNCHANGED <<policy, clientVars, destroyed, undoing, server, old, sweepVars, stopVars>>

Begun(t) ==
    /\ op[t] = "begin"
    /\ server' = [server EXCEPT ![t] = "open"]
    /\ op' = [op EXCEPT ![t] = "idle"]
    /\ active' = active \cup {t}
    /\ pending' = pending - 1
    /\ UNCHANGED <<policy, answer, claims, recorded, destroyed, lease, undoing, old,
                   sweepVars, stopVars>>

\* BEGIN fails or its deadline destroys the session.
BeginFails(t) == op[t] = "begin" /\ Fail(t, "failed")

-----------------------------------------------------------------------------
(***************************************************************************)
(* executeInTransaction and finish.                                        *)
(***************************************************************************)
ClaimTxn(t) == /\ op[t] = "idle" /\ t \in active
               /\ claims[t] < Claims
               /\ claims' = [claims EXCEPT ![t] = @ + 1]

Claim(t) ==
    /\ ClaimTxn(t)
    /\ \E first \in {"authorize_execute", "authorize_commit", "rollback"} :
         op' = [op EXCEPT ![t] = first]
    /\ UNCHANGED <<policy, answer, active, pending, recorded, sessionVars, old, sweepVars,
                   stopVars>>

Authorized(t) == policy = recorded[t] /\ policy \in Writable

\* authorize: the connection was found unchanged; the policy is compared in
\* the same step.  A statement without names to resolve runs at once.
Authorize(t) ==
    /\ Authorized(t)
    /\ \/ /\ op[t] = "authorize_execute"
          /\ \E next \in {"names", "execute"} : op' = [op EXCEPT ![t] = next]
       \/ /\ op[t] = "authorize_commit"
          /\ op' = [op EXCEPT ![t] = "commit"]
    /\ UNCHANGED <<policy, answer, claims, active, pending, recorded, sessionVars, old,
                   sweepVars, stopVars>>

\* assertQueryAccess resolved every name of the statement, on the session
\* itself, and found it allowed.
NamesAllowed(t) ==
    /\ op[t] = "names" /\ Usable(t)
    /\ op' = [op EXCEPT ![t] = "execute"]
    /\ UNCHANGED <<policy, answer, claims, active, pending, recorded, sessionVars, old,
                   sweepVars, stopVars>>

Executed(t) ==
    /\ op[t] = "execute" /\ Usable(t)
    /\ op' = [op EXCEPT ![t] = "idle"]
    /\ UNCHANGED <<policy, answer, claims, active, pending, recorded, sessionVars, old,
                   sweepVars, stopVars>>

\* Anything that goes wrong between the claim and the result, the deadline of
\* the statement included.
ExecuteFails(t) == /\ op[t] \in {"authorize_execute", "names", "execute"}
                   /\ Fail(t, "failed")

\* The connection or the policy changed, or the look-up failed.
CommitRefused(t) == op[t] = "authorize_commit" /\ Fail(t, "failed")

\* The COMMIT takes effect in the database, before its answer arrives.
ServerCommits(t) ==
    /\ op[t] = "commit" /\ server[t] = "open" /\ Usable(t)
    /\ server' = [server EXCEPT ![t] = "committed"]
    /\ UNCHANGED <<policy, clientVars, destroyed, lease, undoing, old, sweepVars, stopVars>>

\* The successful end of finish: the client is released, then the flag set.
Finished(t, verdict) ==
    /\ lease' = [lease EXCEPT ![t] = IF t \in SqlServer THEN "none" ELSE GiveBack(@)]
    /\ destroyed' = destroyed \cup {t}
    /\ active' = active \ {t}
    /\ op' = [op EXCEPT ![t] = "over"]
    /\ answer' = [answer EXCEPT ![t] = verdict]
    /\ UNCHANGED <<policy, claims, pending, recorded, undoing, old, sweepVars, stopVars>>

\* Mutant: finish does not await the COMMIT.
CommitNotAwaited(t) ==
    /\ op[t] = "commit"
    /\ t \in Leased => lease[t] = "held"
    /\ Finished(t, "committed")
    /\ UNCHANGED server

Committed(t) ==
    /\ op[t] = "commit" /\ server[t] = "committed"
    /\ t \in Leased => lease[t] = "held"
    /\ Finished(t, "committed")
    /\ UNCHANGED server

RolledBack(t) ==
    /\ op[t] = "rollback" /\ server[t] = "open" /\ Usable(t)
    /\ Finished(t, "rolled_back")
    /\ server' = [server EXCEPT ![t] = "rolled_back"]

\* COMMIT or ROLLBACK fails or its deadline destroys the session.
FinishFails(t) == op[t] \in {"commit", "rollback"} /\ Fail(t, "unknown")

-----------------------------------------------------------------------------
(***************************************************************************)
(* SQL Server rollbacks.                                                   *)
(***************************************************************************)
\* Mutant: the caller gets the error without waiting for the rollback, and
\* the transaction stays in the map.
UndoneKept(t) ==
    /\ op[t] \in {"undo", "undo_begin"} /\ t \notin undoing
    /\ op' = [op EXCEPT ![t] = IF @ = "undo" THEN "idle" ELSE "over"]
    /\ pending' = IF op[t] = "undo_begin" THEN pending - 1 ELSE pending
    /\ UNCHANGED <<policy, answer, claims, active, recorded, sessionVars, old, sweepVars,
                   stopVars>>

\* A rollback is over; its failure is logged, no more.
RollbackEnds(t) ==
    /\ t \in undoing
    /\ undoing' = undoing \ {t}
    /\ server' \in {server, [server EXCEPT ![t] = IF @ = "open" THEN "rolled_back" ELSE @]}
    /\ UNCHANGED <<policy, clientVars, destroyed, lease, old, sweepVars, stopVars>>

\* The catch block that waited for the rollback leaves the map or the count.
Undone(t) ==
    /\ op[t] \in {"undo", "undo_begin"} /\ t \notin undoing
    /\ op' = [op EXCEPT ![t] = "over"]
    /\ active' = active \ {t}
    /\ pending' = IF op[t] = "undo_begin" THEN pending - 1 ELSE pending
    /\ UNCHANGED <<policy, answer, claims, recorded, sessionVars, old, sweepVars, stopVars>>

-----------------------------------------------------------------------------
(***************************************************************************)
(* cleanupStaleTransactions: the stale transactions are picked once, then  *)
(* deleted and discarded one by one.  Discarding a leased one does not     *)
(* suspend; the sweep goes on until it waits for a SQL Server rollback.    *)
(* The order of the map is left open.                                      *)
(***************************************************************************)
Sweep(k, stale) ==
    \E now \in SUBSET stale :
      /\ awaits' = [awaits EXCEPT ![k] = (now \cap SqlServer) \ destroyed]
      /\ IF awaits'[k] = {} THEN now = stale ELSE Cardinality(awaits'[k]) = 1
      /\ rest' = [rest EXCEPT ![k] = stale \ now]
      /\ active' = active \ now
      /\ \E C \in SUBSET now : Discard(now, C)
      /\ UNCHANGED <<policy, op, answer, claims, pending, recorded, old, stopVars>>

SweepStarts(k) ==
    /\ rest[k] = {} /\ awaits[k] = {}
    /\ LET stale == {t \in active \cap old : op[t] = "idle"} IN
         stale # {} /\ Sweep(k, stale)

SweepGoesOn(k) ==
    /\ awaits[k] # {} /\ awaits[k] \cap undoing = {}
    /\ Sweep(k, rest[k])

-----------------------------------------------------------------------------
(***************************************************************************)
(* Shutdown (server.ts) up to the closing of the pools.                    *)
(***************************************************************************)
\* rollbackAll: take the map, discard everything in it at once.
Terminate ==
    /\ stage = "up"
    /\ stage' = "rolling_back"
    /\ stopping' = (active \cap SqlServer) \ destroyed
    /\ \E C \in SUBSET active : Discard(active, C)
    /\ active' = {}
    /\ UNCHANGED <<policy, op, answer, claims, pending, recorded, old, sweepVars>>

ClosePools ==
    /\ stage = "rolling_back"
    /\ stopping \cap undoing = {}
    /\ stage' = "closing"
    /\ UNCHANGED <<policy, clientVars, sessionVars, old, sweepVars, stopping>>

-----------------------------------------------------------------------------
(***************************************************************************)
(* The world: somebody edits the policy file, and time passes.             *)
(***************************************************************************)
PolicyChanges ==
    /\ \E p \in Policies \ {policy} : policy' = p
    /\ UNCHANGED <<clientVars, sessionVars, old, sweepVars, stopVars>>

\* Every operation is over long before, by its deadline or the driver's.
HourPasses ==
    /\ \A t \in Txn : op[t] \notin Start \cup Busy
    /\ undoing = {}
    /\ old' = old \cup {t \in Txn : op[t] = "idle"}
    /\ UNCHANGED <<policy, clientVars, sessionVars, sweepVars, stopVars>>

TxnStep(t) ==
    \/ Begin(t) \/ Acquired(t) \/ Unavailable(t) \/ LateLease(t) \/ Begun(t) \/ BeginFails(t)
    \/ Claim(t) \/ Authorize(t) \/ NamesAllowed(t) \/ Executed(t) \/ ExecuteFails(t)
    \/ CommitRefused(t) \/ ServerCommits(t) \/ Committed(t) \/ RolledBack(t) \/ FinishFails(t)
    \/ RollbackEnds(t) \/ Undone(t)

Next == \/ \E t \in Txn : TxnStep(t)
        \/ \E k \in Sweeps : SweepStarts(k) \/ SweepGoesOn(k)
        \/ Terminate \/ ClosePools \/ PolicyChanges \/ HourPasses

Spec == Init /\ [][Next]_vars

(***************************************************************************)
(* Deadlines end every driver call on a leased session, and the drivers'   *)
(* own request time-out those of SQL Server, so whatever was started ends; *)
(* an interval timer starts the sweep.  Clients need not do anything.      *)
(***************************************************************************)
Ends(t) ==
    \/ Acquired(t) \/ Unavailable(t) \/ LateLease(t) \/ Begun(t) \/ BeginFails(t)
    \/ Authorize(t) \/ NamesAllowed(t) \/ Executed(t) \/ ExecuteFails(t)
    \/ CommitRefused(t) \/ Committed(t) \/ RolledBack(t) \/ FinishFails(t)
    \/ RollbackEnds(t) \/ Undone(t)

Fairness == /\ WF_vars(HourPasses)
            /\ \A t \in Txn : WF_vars(Ends(t))
            /\ \A k \in Sweeps : WF_vars(SweepStarts(k)) /\ WF_vars(SweepGoesOn(k))

FairSpec == Spec /\ Fairness

-----------------------------------------------------------------------------
\* The manager's state is well formed.
TypeOK ==
    /\ policy \in Policies
    /\ op \in [Txn -> Ops]
    /\ answer \in [Txn -> {"nothing", "committed", "rolled_back", "failed", "unknown"}]
    /\ claims \in [Txn -> 0..Claims]
    /\ active \subseteq Txn /\ pending \in 0..limit
    /\ recorded \in [Txn -> Policies]
    /\ destroyed \subseteq Txn
    /\ lease \in [Txn -> {"none", "late", "held", "back", "twice"}]
    /\ undoing \subseteq SqlServer
    /\ server \in [Txn -> {"none", "open", "committed", "rolled_back"}]
    /\ old \subseteq Txn
    /\ rest \in [Sweeps -> SUBSET Txn] /\ awaits \in [Sweeps -> SUBSET SqlServer]
    /\ stage \in {"up", "rolling_back", "closing"}
    /\ stopping \subseteq SqlServer

\* A transaction a client can name and use has its session, and its database
\* transaction is open: sweeps, shutdown and error paths that run between the
\* client's calls never leave a dead transaction in the map.
IdleIsUsable == \A t \in active :
    op[t] = "idle" => Usable(t) /\ server[t] = "open" /\ t \notin destroyed

\* A leased session goes back to its pool once, whoever ends it: deadline,
\* catch block, sweep, rollbackAll, commit, or acquireLease for a late one.
ReturnedOnce == \A t \in Txn : lease[t] # "twice"

\* No session is forgotten: one that is leased is being started or is in the
\* map, where a client, the sweep and rollbackAll find it.
NoLostLease == \A t \in Txn : lease[t] = "held" => op[t] = "begin" \/ t \in active

\* The count of starting transactions is exact, and the limit bounds the
\* sessions leased plus those being waited for.
PendingExact == pending = Cardinality({t \in Txn : op[t] \in Start})
SessionLimit ==
    Cardinality({t \in Txn : op[t] = "acquire" \/ lease[t] = "held"}) <= limit

\* What the client has been told.
told == [t \in Txn |-> IF op[t] = "over" THEN answer[t] ELSE "nothing"]

\* The answers agree with the database.
Promise == INSTANCE Outcome
ImplementsOutcome == Promise!OutcomeSpec

\* Every leased session finally goes back, also when its client walks away,
\* BEGIN hangs or the lease comes after the deadline.
LeaseComesBack == \A t \in Leased : lease[t] = "held" ~> lease[t] # "held"

-----------------------------------------------------------------------------
(***************************************************************************)
(* What the documentation says and the code does not do.                   *)
(***************************************************************************)
\* The sweep discards idle transactions only ("cleans up idle transactions").
SweepSparesBusy == [][stage' = stage =>
    \A t \in active \ active' : op[t] \notin Busy \/ op'[t] = "over"]_vars

\* A failed query rolls its transaction back: none stays open once the error
\* was given and no rollback is in flight.
FailureRollsBack ==
    \A t \in Txn \ undoing : told[t] = "failed" => server[t] # "open"

\* Pools are closed after all transactions were rolled back.
PoolsCloseLast == stage = "closing" => \A t \in Txn : server[t] # "open"

=============================================================================
