---------------------------- MODULE ReadWriteGate ----------------------------
(***************************************************************************)
(* runtime/concurrency.ts, class ReadWriteGate, with the map of gates kept *)
(* by runtime/duckdb.ts: the lock around one DuckDB file.  The lock is a   *)
(* chain of promises: a writer waits for the previous writer and for every *)
(* reader that has not finished, a reader for the previous writer only.    *)
(*                                                                         *)
(* Requests are numbered in the order in which they call acquire.  The     *)
(* gate of the file is dropped from the map when its last user leaves, and *)
(* the next request creates an empty one.                                  *)
(***************************************************************************)
EXTENDS Naturals, FiniteSets

CONSTANT Requests        (* bound: requests made during a behaviour       *)

ASSUME RequestsAssumption == Requests \in Nat

Ticket == 1..Requests
None   == 0              (* the promise that is resolved from the start   *)
Kind   == {"read", "write"}

(***************************************************************************)
(* waiting: suspended in acquire.  holding: the DuckDB process runs.       *)
(* expired: acquire timed out, the finally block of execute is due.        *)
(***************************************************************************)
State == {"absent", "waiting", "holding", "expired", "done"}

VARIABLES
  next,            (* requests made so far                                 *)
  kind,            (* whether a request writes                             *)
  state,           (* where a request stands                               *)
  settled,         (* requests whose wait promise is resolved              *)
  finished,        (* requests whose done promise is resolved (finish)     *)
  waitsWriter,     (* the writer promise a request's wait includes         *)
  waitsReaders,    (* the reader promises a writer's wait includes         *)
  writer,          (* this.writer: the last writer in the chain            *)
  readers,         (* this.readers: readers that have not finished         *)
  users            (* entry.users of the file's map entry; 0: no entry     *)

promises == <<settled, finished, waitsWriter, waitsReaders>>
rwVars == <<next, kind, state, settled, finished, waitsWriter, waitsReaders,
            writer, readers, users>>

Inside == {t \in Ticket : state[t] \in {"waiting", "holding", "expired"}}

RWInit == /\ next = 0
          /\ kind = [t \in Ticket |-> "read"]
          /\ state = [t \in Ticket |-> "absent"]
          /\ settled = {} /\ finished = {}
          /\ waitsWriter = [t \in Ticket |-> None]
          /\ waitsReaders = [t \in Ticket |-> {}]
          /\ writer = None /\ readers = {}
          /\ users = 0

\* Mutant: a writer that gave up no longer holds back those behind it.
WriterFinished(w) == w = None \/ w \in finished

\* this.writer = wait.then(() => done): both the wait and done are resolved.
WriterResolved(w) == w = None \/ (w \in settled /\ w \in finished)

Ready(t) == /\ WriterResolved(waitsWriter[t])
            /\ waitsReaders[t] \subseteq finished

CanSettle(t) == t \in 1..next /\ t \notin settled /\ Ready(t)

\* Timers are macrotasks: they fire when no promise reaction is pending.
Quiescent == \A t \in Ticket : ~CanSettle(t)

-----------------------------------------------------------------------------
\* wait = write ? Promise.all([this.writer, ...this.readers]) : this.writer
Wait(t, k) ==
    /\ waitsWriter' = [waitsWriter EXCEPT ![t] = writer]
    /\ waitsReaders' = [waitsReaders EXCEPT ![t] = IF k = "write" THEN readers ELSE {}]

\* Mutant: a reader waits for nobody while readers are in (reader preference).
EnterPrefersReaders(t, k) ==
    /\ t = next + 1
    /\ next' = t
    /\ kind' = [kind EXCEPT ![t] = k]
    /\ state' = [state EXCEPT ![t] = "waiting"]
    /\ waitsWriter' = [waitsWriter EXCEPT
                         ![t] = IF k = "read" /\ readers # {} THEN None ELSE writer]
    /\ waitsReaders' = [waitsReaders EXCEPT ![t] = IF k = "write" THEN readers ELSE {}]
    /\ writer' = IF k = "write" THEN t ELSE writer
    /\ readers' = IF k = "read" THEN readers \cup {t} ELSE readers
    /\ users' = users + 1
    /\ UNCHANGED <<settled, finished>>

\* execute takes the file's entry (a new gate when there is none), counts
\* itself in and calls acquire, which runs up to its await.
Enter(t, k) ==
    /\ t = next + 1
    /\ next' = t
    /\ kind' = [kind EXCEPT ![t] = k]
    /\ state' = [state EXCEPT ![t] = "waiting"]
    /\ Wait(t, k)
    /\ writer' = IF k = "write" THEN t ELSE writer
    /\ readers' = IF k = "read" THEN readers \cup {t} ELSE readers
    /\ users' = users + 1
    /\ UNCHANGED <<settled, finished>>

\* The wait of t resolves.  If t still waits it now holds the gate; if t has
\* timed out, only the chain behind it moves on.
Settle(t) ==
    /\ CanSettle(t)
    /\ settled' = settled \cup {t}
    /\ state' = IF state[t] = "waiting" THEN [state EXCEPT ![t] = "holding"] ELSE state
    /\ UNCHANGED <<next, kind, finished, waitsWriter, waitsReaders, writer, readers, users>>

\* release(): the request is no reader any more and its done promise resolves.
ReleaseGate(t) == /\ readers' = readers \ {t}
                  /\ finished' = finished \cup {t}

\* Mutant: acquire throws without releasing.
ExpireUnreleased(t) ==
    /\ state[t] = "waiting"
    /\ Quiescent
    /\ state' = [state EXCEPT ![t] = "expired"]
    /\ UNCHANGED <<next, kind, promises, readers, writer, users>>

\* The timer of t fires first: acquire releases and throws.
Expire(t) ==
    /\ state[t] = "waiting"
    /\ Quiescent
    /\ state' = [state EXCEPT ![t] = "expired"]
    /\ ReleaseGate(t)
    /\ UNCHANGED <<next, kind, settled, waitsWriter, waitsReaders, writer, users>>

\* Mutant: the map entry, and with it the gate, goes with any user.
DropGateEarly == writer' = None

\* The last user deletes the map entry; a later request finds a new gate.
DropGate == writer' = IF users = 1 THEN None ELSE writer

\* Mutant: the finally block does not run after a timed-out acquire.
LeaveForgotten(t) ==
    /\ state[t] = "expired"
    /\ state' = [state EXCEPT ![t] = "done"]
    /\ UNCHANGED <<next, kind, promises, readers, writer, users>>

\* The finally block of execute after a timed-out acquire.
LeaveExpired(t) ==
    /\ state[t] = "expired"
    /\ state' = [state EXCEPT ![t] = "done"]
    /\ users' = users - 1
    /\ DropGate
    /\ UNCHANGED <<next, kind, promises, readers>>

\* The DuckDB process is over: release, then the entry's user count.
Leave(t) ==
    /\ state[t] = "holding"
    /\ state' = [state EXCEPT ![t] = "done"]
    /\ ReleaseGate(t)
    /\ users' = users - 1
    /\ DropGate
    /\ UNCHANGED <<next, kind, settled, waitsWriter, waitsReaders>>

RWNext == \E t \in Ticket : \/ \E k \in Kind : Enter(t, k)
                            \/ Settle(t)
                            \/ Expire(t)
                            \/ LeaveExpired(t)
                            \/ Leave(t)

RWSpec == RWInit /\ [][RWNext]_rwVars

(***************************************************************************)
(* Promise reactions run, and runJsonCli ends every process at its         *)
(* deadline, so a holder leaves.  Timers get no fairness.                  *)
(***************************************************************************)
RWFairness == \A t \in Ticket : WF_rwVars(Settle(t)) /\ WF_rwVars(Leave(t))

-----------------------------------------------------------------------------
\* The gate's state is well formed.
RWTypeOK == /\ next \in 0..Requests
            /\ kind \in [Ticket -> Kind]
            /\ state \in [Ticket -> State]
            /\ settled \subseteq Ticket /\ finished \subseteq Ticket
            /\ waitsWriter \in [Ticket -> 0..Requests]
            /\ waitsReaders \in [Ticket -> SUBSET Ticket]
            /\ writer \in 0..Requests
            /\ readers \subseteq Ticket
            /\ users \in 0..Requests

Holding(k) == {t \in Ticket : state[t] = "holding" /\ kind[t] = k}

Conflict(s, t) == kind[s] = "write" \/ kind[t] = "write"

\* A process that writes the file runs alone, also when requests time out in
\* the middle of the chain and when the gate is dropped and created again.
Exclusion == \A s, t \in Ticket :
    s # t /\ state[s] = "holding" /\ state[t] = "holding" => ~Conflict(s, t)

\* Conflicting requests hold the gate in the order in which they came, so
\* later readers do not overtake a queued writer.
ArrivalOrder == \A s, t \in Ticket :
    s < t /\ Conflict(s, t) /\ state[t] = "holding" => s \in finished

\* The map entry lives exactly as long as somebody uses its gate.
EntryLifetime == users = Cardinality(Inside)

\* Every request gets the gate or gives up, without help from timers: the
\* chain of promises never stalls.
NoStall == \A t \in Ticket :
    state[t] = "waiting" ~> state[t] \in {"holding", "expired"}

\* The chain of promises implements a shared lock.
FileLock == INSTANCE SharedLock WITH
    Holder <- Ticket, shared <- Holding("read"), exclusive <- Holding("write")
ImplementsLock == FileLock!LockSpec

=============================================================================
