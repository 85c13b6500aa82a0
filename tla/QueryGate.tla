------------------------------ MODULE QueryGate ------------------------------
(***************************************************************************)
(* runtime/concurrency.ts, class QueryGate: the semaphore with a bounded   *)
(* FIFO queue in front of every query (WorkspaceClient), every artifact    *)
(* read (ResultArtifacts) and every compression.                           *)
(*                                                                         *)
(* A caller is one operation in flight.  JavaScript runs one callback at a *)
(* time, so each action below is one synchronous section of the code: from *)
(* the call of acquire to its await, a timer callback, the continuation    *)
(* after a grant, a call of the returned release function.                 *)
(***************************************************************************)
EXTENDS Naturals, Sequences, FiniteSets, SequencesExt

CONSTANTS Caller,        (* concurrent operations that use the gate       *)
          maximum,       (* slots: operations that may run together       *)
          queueLimit     (* waiters the queue may hold                    *)

ASSUME GateAssumption == /\ IsFiniteSet(Caller)
                         /\ maximum \in Nat \ {0}
                         /\ queueLimit \in Nat

VARIABLES active,        (* this.active                                   *)
          queue,         (* this.queue: waiters, each with an armed timer *)
          pc             (* where each caller stands                      *)

vars == <<active, queue, pc>>

(***************************************************************************)
(* idle: not using the gate.  waiting: suspended on its waiter's promise.  *)
(* granted: the promise is resolved, the continuation has not run.         *)
(* holding: between acquire and release.  released: release has run, the   *)
(* caller still has the closure.  failed: acquire threw.                   *)
(***************************************************************************)
PC == {"idle", "waiting", "granted", "holding", "released", "failed"}

\* The callers that own a slot of the gate.
SlotOwners == {c \in Caller : pc[c] \in {"granted", "holding"}}
Waiting    == {c \in Caller : pc[c] = "waiting"}

GateInit == /\ active = 0
            /\ queue = << >>
            /\ pc = [c \in Caller |-> "idle"]

-----------------------------------------------------------------------------
\* acquire finds a free slot.
AcquireNow(c) == /\ pc[c] = "idle"
                 /\ active < maximum
                 /\ active' = active + 1
                 /\ pc' = [pc EXCEPT ![c] = "holding"]
                 /\ UNCHANGED queue

\* acquire finds no slot and no room in the queue: it throws.
AcquireFull(c) == /\ pc[c] = "idle"
                  /\ active >= maximum
                  /\ Len(queue) >= queueLimit
                  /\ pc' = [pc EXCEPT ![c] = "failed"]
                  /\ UNCHANGED <<active, queue>>

\* acquire finds no slot: the waiter is queued and its timer armed.
AcquireWait(c) == /\ pc[c] = "idle"
                  /\ active >= maximum
                  /\ Len(queue) < queueLimit
                  /\ queue' = Append(queue, c)
                  /\ pc' = [pc EXCEPT ![c] = "waiting"]
                  /\ UNCHANGED active

\* Mutant: the timer rejects the waiter and leaves it in the queue.
TimeoutInQueue(c) == /\ pc[c] = "waiting"
                     /\ pc' = [pc EXCEPT ![c] = "failed"]
                     /\ UNCHANGED <<active, queue>>

\* The waiter's timer fires: it leaves the queue and acquire throws.  A
\* granted waiter has no timer any more (clearTimeout in release).
Timeout(c) == /\ pc[c] = "waiting"
              /\ \E i \in DOMAIN queue : /\ queue[i] = c
                                         /\ queue' = RemoveAt(queue, i)
              /\ pc' = [pc EXCEPT ![c] = "failed"]
              /\ UNCHANGED active

\* The awaited promise is resolved: acquire returns the release function.
Resume(c) == /\ pc[c] = "granted"
             /\ pc' = [pc EXCEPT ![c] = "holding"]
             /\ UNCHANGED <<active, queue>>

-----------------------------------------------------------------------------
\* Mutant: the freed slot is counted down although a waiter takes it over.
ReleaseCountsDown(c) ==
    /\ pc[c] = "holding"
    /\ active' = active - 1
    /\ IF queue = << >>
       THEN pc' = [pc EXCEPT ![c] = "released"] /\ UNCHANGED queue
       ELSE /\ queue' = Tail(queue)
            /\ pc' = [pc EXCEPT ![c] = "released", ![Head(queue)] = "granted"]

\* Mutant: the slot goes to the waiter that came last.
ReleaseToLast(c) ==
    /\ pc[c] = "holding"
    /\ \/ /\ queue # << >>
          /\ queue' = Front(queue)
          /\ pc' = [pc EXCEPT ![c] = "released", ![Last(queue)] = "granted"]
          /\ UNCHANGED active
       \/ /\ queue = << >>
          /\ active' = active - 1
          /\ pc' = [pc EXCEPT ![c] = "released"]
          /\ UNCHANGED queue

\* Mutant: a free slot is always returned to the pool, waiters stay queued.
ReleaseForgetsQueue(c) == /\ pc[c] = "holding"
                          /\ active' = active - 1
                          /\ pc' = [pc EXCEPT ![c] = "released"]
                          /\ UNCHANGED queue

\* First call of release: the slot passes to the first waiter, or is free.
Release(c) ==
    /\ pc[c] = "holding"
    /\ \/ /\ queue # << >>
          /\ queue' = Tail(queue)
          /\ pc' = [pc EXCEPT ![c] = "released", ![Head(queue)] = "granted"]
          /\ UNCHANGED active
       \/ /\ queue = << >>
          /\ active' = active - 1
          /\ pc' = [pc EXCEPT ![c] = "released"]
          /\ UNCHANGED queue

\* Mutant: release without its released flag gives the slot back again.
ReleaseTwice(c) == /\ pc[c] = "released"
                   /\ active' = IF active > 0 THEN active - 1 ELSE 0
                   /\ UNCHANGED <<queue, pc>>

\* A further call of release returns at once.
ReleaseAgain(c) == /\ pc[c] = "released"
                   /\ UNCHANGED vars

\* The operation is over; the caller stands for the next one.
Finish(c) == /\ pc[c] \in {"released", "failed"}
             /\ pc' = [pc EXCEPT ![c] = "idle"]
             /\ UNCHANGED <<active, queue>>

Acquire(c) == AcquireNow(c) \/ AcquireFull(c) \/ AcquireWait(c)

GateNext == \E c \in Caller : \/ Acquire(c)
                              \/ Timeout(c)
                              \/ Resume(c)
                              \/ Release(c)
                              \/ ReleaseAgain(c)
                              \/ Finish(c)

GateSpec == GateInit /\ [][GateNext]_vars

(***************************************************************************)
(* A resolved promise runs its continuation; and whoever has a slot gives  *)
(* it back.  The second is what the gate asks of its users: they release   *)
(* in a finally block, after an operation that has a deadline but for the  *)
(* round trips named by OnRoundTrip in SessionQuery, where a driver that   *)
(* never answers keeps the slot (QueryEnds in QueryExecution).  Timers are *)
(* given no fairness: progress must not depend on them.                    *)
(***************************************************************************)
GateFairness == \A c \in Caller : WF_vars(Resume(c)) /\ WF_vars(Release(c))

-----------------------------------------------------------------------------
\* The gate's state is well formed: counters and queue within their limits.
TypeOK == /\ active \in 0..maximum
          /\ queue \in Seq(Caller)
          /\ Len(queue) <= queueLimit
          /\ pc \in [Caller -> PC]

\* this.active is the number of callers that own a slot: no interleaving of
\* timeouts, grants and repeated releases loses a slot or frees one twice.
SlotAccounting == active = Cardinality(SlotOwners)

\* The queue holds each suspended caller once and nobody else, so a grant is
\* never spent on a caller that has gone away.
QueueIsWaiting == /\ ToSet(queue) = Waiting
                  /\ IsInjective(queue)

\* No caller waits while a slot is free; hence a caller that arrives later
\* cannot overtake the queue.
WorkConserving == queue # << >> => active = maximum

\* A queued caller is granted a slot or gives up, even when callers that
\* arrive later keep coming and no timer helps.
NoStarvation == \A c \in Caller : pc[c] = "waiting" ~> pc[c] \in {"granted", "failed"}

\* The gate implements the abstract permits: the slot owners are the holders.
Abstract == INSTANCE Permits WITH held <- SlotOwners
ImplementsPermits == Abstract!PermitsSpec

=============================================================================
