---------------------------- MODULE SessionQuery ----------------------------
(***************************************************************************)
(* runtime/sql-sessions.ts and the adapters of WorkspaceClient for         *)
(* PostgreSQL, MySQL, SQL Server and Oracle: a statement runs on a session *)
(* leased from a pool, and the session goes back to the pool for the next  *)
(* query, or is destroyed, on every way out.                               *)
(*                                                                         *)
(* The pool is the driver's: it hands out an idle session or opens one up  *)
(* to its size.  mssql leases and returns the session itself.              *)
(***************************************************************************)
EXTENDS AdapterCall

CONSTANTS Session,       (* the physical sessions a pool may have          *)
          NoSession

ASSUME SessionAssumption == NoSession \notin Session

VARIABLES asked,         (* queries the pool still owes a session          *)
          conn,          (* the session each query works with              *)
          idle,          (* sessions that wait in the pool                 *)
          lent,          (* sessions the pool has lent                     *)
          open,          (* sessions with an open transaction              *)
          busy           (* sessions with an unfinished statement          *)

sessionVars == <<asked, conn, idle, lent, open, busy>>

SessionInit == /\ asked = {} /\ idle = {} /\ lent = {} /\ open = {} /\ busy = {}
               /\ conn = [q \in Query |-> NoSession]

SessionTypeOK == /\ asked \subseteq Query
                 /\ conn \in [Query -> Session \cup {NoSession}]
                 /\ idle \subseteq Session /\ lent \subseteq Session
                 /\ open \subseteq Session /\ busy \subseteq Session

-----------------------------------------------------------------------------
\* client.release(), conn.release(): the session goes back as it is.
Release(q) == /\ idle' = idle \cup {conn[q]}
              /\ lent' = lent \ {conn[q]}
              /\ conn' = [conn EXCEPT ![q] = NoSession]

\* client.release(true), conn.destroy(): the connection is closed.
Destroy(q) == /\ lent' = lent \ {conn[q]}
              /\ open' = open \ {conn[q]}
              /\ busy' = busy \ {conn[q]}
              /\ conn' = [conn EXCEPT ![q] = NoSession]
              /\ UNCHANGED idle

\* The statement is sent: the query reads its rows under a deadline.
Submit(q, s) == /\ Go(q, "reading")
                /\ busy' = busy \cup {s}
                /\ SetWork(q, "running")

-----------------------------------------------------------------------------
\* getPool throws, or the pool is asked for a session.
AskPool(q) == /\ engine[q] \in SessionEngine /\ at[q] = "called"
              /\ \/ Settle(q, "error") /\ UNCHANGED asked
                 \/ Go(q, "leasing") /\ asked' = asked \cup {q}
              /\ UNCHANGED <<work, conn, idle, lent, open, busy>>

\* A read starts with a transaction, where the engine has read-only ones.
NeedsBegin(q) == readOnly[q] /\ engine[q] # "mssql"

\* The pool lends a session to a query that waits for it.
Lend(q) == /\ q \in asked /\ at[q] = "leasing"
           /\ \E s \in Session \ lent :
                 /\ lent' = lent \cup {s}
                 /\ idle' = idle \ {s}
                 /\ conn' = [conn EXCEPT ![q] = s]
                 /\ IF NeedsBegin(q) THEN Go(q, "beginning") /\ UNCHANGED <<busy, work>>
                                     ELSE Submit(q, s)
           /\ asked' = asked \ {q}
           /\ UNCHANGED open

\* The pool has no session in time, or cannot connect.
LendFails(q) == /\ q \in asked
                /\ asked' = asked \ {q}
                /\ IF at[q] = "leasing" THEN Settle(q, "error")
                                        ELSE UNCHANGED <<at, due, answer>>
                /\ UNCHANGED <<work, conn, idle, lent, open, busy>>

\* acquireLease gives up; the pool still owes the session.
LeaseTimeout(q) == /\ engine[q] = "mysql" /\ at[q] = "leasing"
                   /\ Settle(q, "error")
                   /\ UNCHANGED <<work, sessionVars>>

\* acquireLease, or mssql with a request that was cancelled meanwhile, returns
\* the session that comes too late.
LateLease(q) == /\ q \in asked /\ at[q] # "leasing"
                /\ \E s \in Session \ lent : idle' = idle \cup {s}
                /\ asked' = asked \ {q}
                /\ UNCHANGED <<at, due, answer, work, conn, lent, open, busy>>

\* BEGIN READ ONLY, START TRANSACTION READ ONLY, SET TRANSACTION READ ONLY.
Begin(q) == /\ at[q] = "beginning"
            /\ open' = open \cup {conn[q]}
            /\ Submit(q, conn[q])
            /\ UNCHANGED <<asked, conn, idle, lent>>

BeginFails(q) == /\ at[q] = "beginning"
                 /\ IF engine[q] = "oracle"
                    THEN /\ GoWith(q, "closing", "error")
                         /\ UNCHANGED <<conn, idle, lent, open, busy>>
                    ELSE Settle(q, "error") /\ Destroy(q)
                 /\ UNCHANGED <<asked, work>>

-----------------------------------------------------------------------------
\* What follows the last row: clean-up, ROLLBACK, or the end.
ReadAll(q) ==
    /\ at[q] = "reading" /\ work[q] = "complete"
    /\ \/ /\ engine[q] \in {"postgres", "oracle"}
          /\ GoWith(q, "closing", "rows")
          /\ UNCHANGED <<conn, idle, lent, busy>>
       \/ /\ engine[q] = "mysql" /\ readOnly[q]
          /\ GoWith(q, "rolling", "rows")
          /\ busy' = busy \ {conn[q]}
          /\ UNCHANGED <<conn, idle, lent>>
       \/ /\ engine[q] = "mssql" \/ (engine[q] = "mysql" /\ ~readOnly[q])
          /\ Settle(q, "rows") /\ Release(q)
          /\ busy' = busy \ {conn[q]}
    /\ UNCHANGED <<asked, open, work>>

\* Mutant: a result that reached its limit leaves the MySQL session alive.
ReadCapKeeps(q) ==
    /\ at[q] = "reading" /\ work[q] \in {"running", "complete"}
    /\ \/ /\ engine[q] \in {"postgres", "oracle"}
          /\ GoWith(q, "closing", "capped")
          /\ UNCHANGED <<conn, idle, lent, open, busy>>
       \/ /\ engine[q] = "mysql"
          /\ Settle(q, "capped") /\ Release(q)
          /\ UNCHANGED <<open, busy>>
       \/ /\ engine[q] = "mssql"
          /\ GoWith(q, "cancelling", "capped")
          /\ UNCHANGED <<conn, idle, lent, open, busy>>
    /\ UNCHANGED <<asked, work>>

\* The collector has its rows or bytes: the rest of the result is not read.
ReadCap(q) ==
    /\ at[q] = "reading" /\ work[q] \in {"running", "complete"}
    /\ \/ /\ engine[q] \in {"postgres", "oracle"}
          /\ GoWith(q, "closing", "capped")
          /\ UNCHANGED <<conn, idle, lent, open, busy>>
       \/ /\ engine[q] = "mysql"
          /\ Settle(q, "capped") /\ Destroy(q)
       \/ /\ engine[q] = "mssql"
          /\ GoWith(q, "cancelling", "capped")
          /\ UNCHANGED <<conn, idle, lent, open, busy>>
    /\ UNCHANGED <<asked, work>>

\* The database reports an error, a value cannot be represented, a column
\* list is too long, the connection breaks, or Oracle's call times out.
ReadError(q) ==
    /\ at[q] = "reading"
    /\ \/ /\ engine[q] \in {"postgres", "oracle"}
          /\ GoWith(q, "closing", "error")
          /\ UNCHANGED <<conn, idle, lent, open, busy>>
       \/ /\ engine[q] = "mysql"
          /\ Settle(q, "error") /\ Destroy(q)
       \/ /\ engine[q] = "mssql" /\ work[q] = "failed"
          /\ Settle(q, "error") /\ Release(q)
          /\ busy' = busy \ {conn[q]}
          /\ UNCHANGED open
       \/ /\ engine[q] = "mssql"
          /\ GoWith(q, "cancelling", "error")
          /\ UNCHANGED <<conn, idle, lent, open, busy>>
    /\ UNCHANGED <<asked, work>>

\* The timer of withDeadline, or of readMysql: abort, and reject at once.  SQL
\* Server's covers the wait for a session as well.
Deadline(q) ==
    /\ \/ /\ engine[q] \in {"postgres", "mysql"} /\ at[q] = "reading"
          /\ Destroy(q)
       \/ /\ engine[q] = "mssql" /\ at[q] \in {"leasing", "reading", "cancelling"}
          /\ UNCHANGED <<conn, idle, lent, open, busy>>
    /\ Settle(q, "error")
    /\ UNCHANGED <<asked, work>>

-----------------------------------------------------------------------------
\* mssql is done with a cancelled request: it takes its session back.
Cancelled(q) == /\ engine[q] = "mssql" /\ at[q] \in {"cancelling", "settled"}
                /\ conn[q] # NoSession
                /\ Release(q)
                /\ busy' = busy \ {conn[q]}
                /\ StopWork(q)
                /\ IF at[q] = "cancelling" THEN Settle(q, due[q])
                                           ELSE UNCHANGED <<at, due, answer>>
                /\ UNCHANGED <<asked, open>>

\* cursor.close, then ROLLBACK, release or, after an error, destroy.
CloseCursor(q) ==
    /\ engine[q] = "postgres" /\ at[q] = "closing"
    /\ StopWork(q)
    /\ \/ /\ due[q] = "error"
          /\ Settle(q, "error") /\ Destroy(q)
       \/ /\ due[q] # "error" /\ readOnly[q]
          /\ Go(q, "rolling")
          /\ busy' = busy \ {conn[q]}
          /\ UNCHANGED <<conn, idle, lent, open>>
       \/ /\ due[q] # "error" /\ ~readOnly[q]
          /\ Settle(q, due[q]) /\ Release(q)
          /\ busy' = busy \ {conn[q]}
          /\ UNCHANGED open
    /\ UNCHANGED asked

CloseCursorFails(q) == /\ engine[q] = "postgres" /\ at[q] = "closing"
                       /\ Settle(q, "error") /\ Destroy(q)
                       /\ UNCHANGED <<asked, work>>

\* resultSet.close, which may throw, and conn.close, which ends the open
\* transaction; when that fails the pool drops the session.
CloseOracle(q) == /\ engine[q] = "oracle" /\ at[q] = "closing"
                  /\ \E a \in {due[q], "error"} : Settle(q, a)
                  /\ StopWork(q)
                  /\ \/ /\ Release(q)
                        /\ open' = open \ {conn[q]} /\ busy' = busy \ {conn[q]}
                     \/ Destroy(q)
                  /\ UNCHANGED asked

\* ROLLBACK ends the read-only transaction; a failure costs the session only.
Rollback(q) == /\ at[q] = "rolling"
               /\ Settle(q, due[q])
               /\ \/ Release(q) /\ open' = open \ {conn[q]} /\ UNCHANGED busy
                  \/ Destroy(q)
               /\ UNCHANGED <<asked, work>>

-----------------------------------------------------------------------------
(***************************************************************************)
(* The query awaits a round trip for which the code sets no limit: BEGIN,  *)
(* START TRANSACTION, ROLLBACK or cursor.close.  Oracle's have callTimeout *)
(* and SQL Server's are under withDeadline.                                *)
(***************************************************************************)
OnRoundTrip(q) == \/ engine[q] \in {"postgres", "mysql"} /\ at[q] \in {"beginning", "rolling"}
                  \/ engine[q] = "postgres" /\ at[q] = "closing"

\* The steps of execute, of its timers, and of the driver it waits for.
SessionStep(q) == \/ AskPool(q) \/ Lend(q) \/ LendFails(q) \/ LeaseTimeout(q)
                  \/ Begin(q) \/ BeginFails(q)
                  \/ ReadAll(q) \/ ReadCap(q) \/ ReadError(q) \/ Deadline(q)
                  \/ Cancelled(q) \/ CloseCursor(q) \/ CloseCursorFails(q)
                  \/ CloseOracle(q) \/ Rollback(q)

SessionNext(q) == SessionStep(q) \/ LateLease(q)

=============================================================================
