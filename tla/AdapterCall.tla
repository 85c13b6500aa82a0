----------------------------- MODULE AdapterCall -----------------------------
(***************************************************************************)
(* runtime/adapter.ts: what WorkspaceClient.executeQuery and its adapters  *)
(* share about one statement of a query.  execute is called, and settles   *)
(* its promise once; what the database does with the statement meanwhile,  *)
(* and possibly afterwards, is work.                                       *)
(***************************************************************************)
CONSTANT Query           (* tool calls in flight                           *)

VARIABLES engine,        (* the SQL dialect, which selects the adapter     *)
          readOnly,      (* readOnly, as execute computes it               *)
          at,            (* where execute stands                           *)
          due,           (* the outcome it will settle with after clean-up *)
          answer,        (* what its promise settled with                  *)
          work           (* the statement, on the side of the database     *)

callVars == <<engine, readOnly, at, due, answer, work>>

SessionEngine == {"postgres", "mysql", "mssql", "oracle"}
ProcessEngine == {"sqlite", "duckdb"}
Engine        == SessionEngine \cup ProcessEngine \cup {"clickhouse"}

(***************************************************************************)
(* rows: every row of the statement.  capped: the rows up to a limit, and  *)
(* truncated is set.  unconfirmed: an error which says that the server may *)
(* still be running the statement.                                         *)
(***************************************************************************)
Due    == {"none", "rows", "capped", "error"}
Answer == Due \cup {"unconfirmed"}
Work   == {"none", "running", "complete", "failed", "stopped"}

Place == {"off", "called", "leasing", "beginning", "reading", "closing",
          "rolling", "cancelling", "version", "locking", "process",
          "requesting", "settled"}

CallTypeOK == /\ engine \in [Query -> Engine]
              /\ readOnly \in [Query -> BOOLEAN]
              /\ at \in [Query -> Place]
              /\ due \in [Query -> Due]
              /\ answer \in [Query -> Answer]
              /\ work \in [Query -> Work]

-----------------------------------------------------------------------------
\* executeWithNativeTool looks up the adapter and calls its execute.
Call(q, ro) == /\ at' = [at EXCEPT ![q] = "called"]
               /\ readOnly' = [readOnly EXCEPT ![q] = ro]
               /\ due' = [due EXCEPT ![q] = "none"]
               /\ answer' = [answer EXCEPT ![q] = "none"]
               /\ work' = [work EXCEPT ![q] = "none"]

\* execute goes on to another await with the same outcome in prospect.
Go(q, place) == /\ at' = [at EXCEPT ![q] = place]
                /\ UNCHANGED <<due, answer>>

\* The outcome is known, but a clean-up is awaited first.
GoWith(q, place, d) == /\ at' = [at EXCEPT ![q] = place]
                       /\ due' = [due EXCEPT ![q] = d]
                       /\ UNCHANGED answer

\* The promise of execute resolves or rejects.
Settle(q, a) == /\ at' = [at EXCEPT ![q] = "settled"]
                /\ answer' = [answer EXCEPT ![q] = a]
                /\ UNCHANGED due

SetWork(q, w) == work' = [work EXCEPT ![q] = w]

\* A statement that is told to stop: it may have come to its end before.
StopWork(q) == SetWork(q, IF work[q] = "running" THEN "stopped" ELSE work[q])

=============================================================================
