---------------------------- MODULE ProcessQuery ----------------------------
(***************************************************************************)
(* runtime/cli.ts and the adapters of SQLite and DuckDB: a statement runs  *)
(* in a command line process, whose output, error output, deadline and     *)
(* exit arrive in any order.  The promise settles when the process has     *)
(* closed, and DuckDB holds the gate of the database file until then.      *)
(*                                                                         *)
(* All DuckDB queries use one file; its gate is the abstract lock that     *)
(* ReadWriteGate implements.                                               *)
(***************************************************************************)
EXTENDS AdapterCall

VARIABLES proc,          (* the process of each query                      *)
          reading,       (* queries that share the file                    *)
          writing        (* the query that has the file alone              *)

processVars == <<proc, reading, writing>>

Lock == INSTANCE SharedLock WITH Holder <- Query, shared <- reading, exclusive <- writing

Proc == {"none", "alive", "killed", "exited"}

ProcessInit == /\ proc = [q \in Query |-> "none"]
               /\ Lock!LockInit

ProcessTypeOK == /\ proc \in [Query -> Proc]
                 /\ reading \subseteq Query /\ writing \subseteq Query

Live(q) == proc[q] \in {"alive", "killed"}

-----------------------------------------------------------------------------
\* spawn: a process, or an error event that stops what never started.
Spawn(q) == \/ /\ proc' = [proc EXCEPT ![q] = "alive"]
               /\ SetWork(q, "running")
               /\ Go(q, "process")
            \/ /\ proc' = [proc EXCEPT ![q] = "exited"]
               /\ SetWork(q, "failed")
               /\ GoWith(q, "process", "error")

\* SQLite refuses the call, or starts its process.
CallSqlite(q) == /\ engine[q] = "sqlite" /\ at[q] = "called"
                 /\ \/ Settle(q, "error") /\ UNCHANGED <<proc, work>>
                    \/ Spawn(q)
                 /\ UNCHANGED <<reading, writing>>

\* DuckDB refuses the call, or waits for checkVersion.
CallDuckdb(q) == /\ engine[q] = "duckdb" /\ at[q] = "called"
                 /\ Settle(q, "error") \/ Go(q, "version")
                 /\ UNCHANGED <<work, processVars>>

\* The command is missing or too old, or the file's gate is asked.
Version(q) == /\ at[q] = "version"
              /\ Settle(q, "error") \/ Go(q, "locking")
              /\ UNCHANGED <<work, processVars>>

\* Mutant: the option of the gate is passed without its negation.
LockedSwapped(q) == /\ at[q] = "locking"
                    /\ IF readOnly[q] THEN Lock!Exclude(q) ELSE Lock!Share(q)
                    /\ Spawn(q)

\* The gate admits the query to the file and the process starts.
Locked(q) == /\ at[q] = "locking"
             /\ IF readOnly[q] THEN Lock!Share(q) ELSE Lock!Exclude(q)
             /\ Spawn(q)

LockTimeout(q) == /\ at[q] = "locking"
                  /\ Settle(q, "error")
                  /\ UNCHANGED <<work, processVars>>

-----------------------------------------------------------------------------
Kill(q) == proc' = [proc EXCEPT ![q] = IF @ = "alive" THEN "killed" ELSE @]

\* The collector has its rows or bytes: the process is killed.
Capped(q) == /\ at[q] = "process" /\ due[q] = "none"
             /\ GoWith(q, "process", "capped")
             /\ Kill(q)
             /\ UNCHANGED <<work, reading, writing>>

\* Mutant: the failure is noted, the process is left alone.
StopSpares(q) == /\ at[q] = "process" /\ due[q] # "error"
                 /\ GoWith(q, "process", "error")
                 /\ UNCHANGED <<work, processVars>>

\* stop: bad output, an error on a pipe or the deadline, the first of them.
Stop(q) == /\ at[q] = "process" /\ due[q] # "error"
           /\ GoWith(q, "process", "error")
           /\ Kill(q)
           /\ UNCHANGED <<work, reading, writing>>

\* The process ends by itself when its statement has; killed, at once.
Exit(q) == /\ \/ proc[q] = "alive" /\ work[q] \in {"complete", "failed"} /\ UNCHANGED work
              \/ proc[q] = "killed" /\ StopWork(q)
           /\ proc' = [proc EXCEPT ![q] = "exited"]
           /\ UNCHANGED <<at, due, answer, reading, writing>>

\* The 'close' event settles the promise: a failure first, then the exit
\* code unless the output was capped, then error output and bad framing.
Close(q) == /\ at[q] = "process" /\ proc[q] = "exited"
            /\ \/ Settle(q, "error")
               \/ due[q] = "capped" /\ Settle(q, "capped")
               \/ due[q] = "none" /\ work[q] = "complete" /\ Settle(q, "rows")
            /\ proc' = [proc EXCEPT ![q] = "none"]
            /\ IF engine[q] = "duckdb" THEN Lock!Leave(q) ELSE UNCHANGED <<reading, writing>>
            /\ UNCHANGED work

-----------------------------------------------------------------------------
ProcessStep(q) == \/ CallSqlite(q) \/ CallDuckdb(q) \/ Version(q)
                  \/ Locked(q) \/ LockTimeout(q)
                  \/ Capped(q) \/ Stop(q) \/ Exit(q) \/ Close(q)

=============================================================================
