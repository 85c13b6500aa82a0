--------------------------- MODULE QueryExecution ---------------------------
(***************************************************************************)
(* workspace-client.ts, executeQuery and assertQueryAccess: a query takes  *)
(* a slot of the gate, looks up the objects it names where the access      *)
(* policy asks for it, runs its statement, and gives the slot back on      *)
(* every way out.  The gate is the abstract one that QueryGate implements; *)
(* the adapters are those of SessionQuery, ProcessQuery and HttpQuery.     *)
(***************************************************************************)
EXTENDS SessionQuery, ProcessQuery, HttpQuery, Naturals, FiniteSets

CONSTANTS Uses,          (* the engines the queries go to                  *)
          maximum        (* slots of the gate                              *)

ASSUME ExecutionAssumption == /\ Uses \subseteq Engine
                              /\ IsFiniteSet(Query)
                              /\ maximum \in Nat \ {0}

VARIABLES held,          (* the queries that hold a slot                   *)
          stage,         (* where executeQuery stands                      *)
          reads          (* whether the query is to be read-only           *)

Gate == INSTANCE Permits WITH Caller <- Query

vars == <<callVars, sessionVars, processVars, httpVars, held, stage, reads>>

(***************************************************************************)
(* queued: waits for a slot.  checking: has a slot, the policy is asked.   *)
(* lookup: the policy's own query runs, in the slot of the query it is     *)
(* for.  main: the statement runs.  ended: the promise has settled.        *)
(***************************************************************************)
Stage == {"idle", "queued", "checking", "lookup", "main", "ended"}

Init == /\ SessionInit /\ ProcessInit /\ HttpInit
        /\ Gate!PermitsInit
        /\ stage = [q \in Query |-> "idle"]
        /\ reads \in [Query -> BOOLEAN]
        /\ engine \in [Query -> Uses]
        /\ readOnly = [q \in Query |-> FALSE]
        /\ at = [q \in Query |-> "off"]
        /\ due = [q \in Query |-> "none"]
        /\ answer = [q \in Query |-> "none"]
        /\ work = [q \in Query |-> "none"]

TypeOK == /\ CallTypeOK /\ SessionTypeOK /\ ProcessTypeOK /\ HttpTypeOK
          /\ held \subseteq Query
          /\ stage \in [Query -> Stage]
          /\ reads \in [Query -> BOOLEAN]

-----------------------------------------------------------------------------
To(q, s) == stage' = [stage EXCEPT ![q] = s]

adapterVars == <<callVars, sessionVars, processVars, httpVars>>

\* executeQuery calls gate.acquire.
Ask(q) == /\ stage[q] = "idle"
          /\ To(q, "queued")
          /\ UNCHANGED <<adapterVars, held, reads>>

\* The queue of the gate is full, or the wait took too long.
Refused(q) == /\ stage[q] = "queued"
              /\ To(q, "ended")
              /\ UNCHANGED <<adapterVars, held, reads>>

Enter(q) == /\ stage[q] = "queued"
            /\ Gate!Take(q)
            /\ To(q, "checking")
            /\ UNCHANGED <<adapterVars, reads>>

\* The policy refuses the query, or there is nothing more to check.
Denied(q) == /\ stage[q] = "checking"
             /\ Gate!GiveBack(q)
             /\ To(q, "ended")
             /\ UNCHANGED <<adapterVars, reads>>

\* authorizeQuery looks names up with a query of its own, always read-only.
LookUp(q) == /\ stage[q] = "checking"
             /\ To(q, "lookup")
             /\ Call(q, TRUE)
             /\ UNCHANGED <<engine, sessionVars, processVars, httpVars, held, reads>>

\* There is nothing to look up, or the looked-up names are allowed.
Run(q) == /\ \/ stage[q] = "checking"
             \/ stage[q] = "lookup" /\ at[q] = "settled" /\ answer[q] = "rows"
          /\ To(q, "main")
          /\ Call(q, reads[q])
          /\ UNCHANGED <<engine, sessionVars, processVars, httpVars, held, reads>>

\* finally: the answer or the error goes to the caller, the slot is free.
Return(q) == /\ stage[q] \in {"lookup", "main"} /\ at[q] = "settled"
             /\ Gate!GiveBack(q)
             /\ To(q, "ended")
             /\ UNCHANGED <<adapterVars, reads>>

\* The database comes to the end of the statement.
ServerEnds(q) == /\ work[q] = "running"
                 /\ \E w \in {"complete", "failed"} : SetWork(q, w)
                 /\ UNCHANGED <<engine, readOnly, at, due, answer, sessionVars,
                                processVars, httpVars, held, stage, reads>>

-----------------------------------------------------------------------------
clientVars == <<engine, readOnly, held, stage, reads>>

Client(q) == \/ Refused(q) \/ Enter(q) \/ Denied(q)
             \/ LookUp(q) \/ Run(q) \/ Return(q)
             \/ SessionStep(q) /\ UNCHANGED <<processVars, httpVars, clientVars>>
             \/ ProcessStep(q) /\ UNCHANGED <<sessionVars, httpVars, clientVars>>
             \/ HttpStep(q) /\ UNCHANGED <<sessionVars, processVars, clientVars>>

\* What nobody promises to happen.
Other(q) == \/ Ask(q) \/ ServerEnds(q)
            \/ LateLease(q) /\ UNCHANGED <<processVars, httpVars, clientVars>>
            \/ HttpElse(q) /\ UNCHANGED <<sessionVars, processVars, clientVars>>

Next == \E q \in Query : Client(q) \/ Other(q)

Spec == Init /\ [][Next]_vars

(***************************************************************************)
(* The client goes on unless it is on a round trip that may take for ever. *)
(* What it waits for otherwise comes: a lease or its refusal, Oracle's     *)
(* answers within callTimeout, the exit of a killed process.               *)
(***************************************************************************)
Fairness == \A q \in Query : WF_vars(Client(q) /\ ~OnRoundTrip(q))

FairSpec == Spec /\ Fairness

-----------------------------------------------------------------------------
(* Properties                                                              *)

\* A session that waits in a pool has neither an unfinished statement nor an
\* open transaction, whichever of result, limit, error and deadline ended the
\* query before; each lent session is in the hands of one query, and a query
\* that is over keeps none that the driver does not still cancel (the finally
\* blocks of workspace-client.ts and of runtime/sql-sessions.ts).
SessionsSound ==
    /\ idle \cap (open \cup busy \cup lent) = {}
    /\ lent = {conn[q] : q \in {r \in Query : conn[r] # NoSession}}
    /\ \A q, r \in Query : conn[q] = conn[r] /\ conn[q] # NoSession => q = r
    /\ \A q \in Query : stage[q] = "ended" /\ engine[q] # "mssql" => conn[q] = NoSession

\* A process runs only while its query holds a slot, so that no more run than
\* the gate has slots, and a DuckDB process that may write has the file alone;
\* a killed process counts until it is gone
\* (runtime/cli.ts settles on 'close'; duckdb.ts and executeQuery release
\* their gates after that).
ProcessesUnderGates ==
    /\ \A q \in Query : Live(q) => q \in held
    /\ Cardinality(held) <= maximum
    /\ \A q, r \in Query :
          Live(q) /\ Live(r) /\ engine[q] = "duckdb" /\ engine[r] = "duckdb" /\ q # r
             => readOnly[q] /\ readOnly[r]

\* The engines whose capped result means that the statement was stopped.
StopsAtCap == Engine \ {"mysql"}

\* The engines whose adapter answers when the statement is over, or says
\* that it may not be.
AnswersWhenOver == ProcessEngine \cup {"clickhouse"}

\* When a query is answered with all its rows the database has completed the
\* statement; a truncated result leaves no statement running, except where the
\* session is destroyed; and ClickHouse, SQLite and DuckDB answer while their
\* statement runs only with "cancellation could not be confirmed".
AnswerAgrees ==
    [][\A q \in Query :
          at[q] # "settled" /\ at'[q] = "settled" =>
             /\ answer'[q] = "rows" => work'[q] = "complete"
             /\ answer'[q] = "capped" /\ engine[q] \in StopsAtCap => work'[q] # "running"
             /\ answer'[q] # "unconfirmed" /\ engine[q] \in AnswersWhenOver
                   => work'[q] # "running"]_vars

\* A query that asks for a slot is answered and gives the slot back, although
\* its statement need never come to an end, nor its HTTP request to an answer;
\* the one thing that can keep it, and its slot with it, is a driver that never
\* answers BEGIN, ROLLBACK or cursor.close (workspace-client.ts:376, 398, 435
\* and 452, sql-sessions.ts:58: awaited without a deadline).
QueryEnds == \A q \in Query :
    stage[q] = "queued" ~> \/ stage[q] = "ended" /\ q \notin held
                           \/ []OnRoundTrip(q)

=============================================================================
