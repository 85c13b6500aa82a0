--------------------------- MODULE QueryGateProofs ---------------------------
(***************************************************************************)
(* Proofs about QueryGate for every set of callers and every limit.        *)
(***************************************************************************)
EXTENDS QueryGate, FiniteSetTheorems, SequenceTheorems, TLAPS

\* What removing one entry of the queue (Array.splice) leaves in place.
LEMMA RemoveAtEntries ==
  ASSUME NEW S, NEW s \in Seq(S), NEW i \in 1..Len(s)
  PROVE  /\ RemoveAt(s, i) \in Seq(S)
         /\ Len(RemoveAt(s, i)) = Len(s) - 1
         /\ \A j \in 1..(Len(s) - 1) :
               RemoveAt(s, i)[j] = IF j < i THEN s[j] ELSE s[j + 1]
  <1>1. /\ SubSeq(s, 1, i - 1) \in Seq(S)
        /\ Len(SubSeq(s, 1, i - 1)) = i - 1
        /\ \A j \in 1..(i - 1) : SubSeq(s, 1, i - 1)[j] = s[j]
    OBVIOUS
  <1>2. /\ SubSeq(s, i + 1, Len(s)) \in Seq(S)
        /\ Len(SubSeq(s, i + 1, Len(s))) = Len(s) - i
        /\ \A j \in 1..(Len(s) - i) : SubSeq(s, i + 1, Len(s))[j] = s[i + j]
    OBVIOUS
  <1> DEFINE u == SubSeq(s, 1, i - 1)
             v == SubSeq(s, i + 1, Len(s))
  <1>3. RemoveAt(s, i) = u \o v
    BY DEF RemoveAt
  <1>4. u \in Seq(S) /\ v \in Seq(S) /\ Len(u) = i - 1 /\ Len(v) = Len(s) - i
    BY <1>1, <1>2
  <1>5. \A j \in 1..(Len(s) - i) : v[j] = s[i + j]
    BY <1>2
  <1>6. \A j \in 1..(i - 1) : u[j] = s[j]
    BY <1>1
  <1> HIDE DEF u, v
  <1>7. /\ u \o v \in Seq(S)
        /\ Len(u \o v) = Len(s) - 1
        /\ \A j \in 1..(Len(s) - 1) : (u \o v)[j] = IF j < i THEN u[j] ELSE v[j - i + 1]
    <2>1. Len(u) \in Nat /\ Len(v) \in Nat /\ Len(s) \in Nat
      BY <1>4
    <2>2. /\ u \o v \in Seq(S)
          /\ Len(u \o v) = Len(u) + Len(v)
          /\ \A j \in 1..(Len(u) + Len(v)) :
                (u \o v)[j] = IF j <= Len(u) THEN u[j] ELSE v[j - Len(u)]
      BY <1>4, ConcatProperties, Zenon
    <2>3. ASSUME NEW j \in 1..(Len(s) - 1)
          PROVE  (u \o v)[j] = IF j < i THEN u[j] ELSE v[j - i + 1]
      <3>1. /\ j \in 1..(Len(u) + Len(v))
            /\ j <= Len(u) <=> j < i
            /\ j - Len(u) = j - i + 1
        BY <1>4, <2>1
      <3>2. QED
        BY <2>2, <3>1
    <2>4. QED
      BY <1>4, <2>1, <2>2, <2>3
  <1>8. ASSUME NEW j \in 1..(Len(s) - 1)
        PROVE  (u \o v)[j] = IF j < i THEN s[j] ELSE s[j + 1]
    <2>1. CASE j < i
      BY <1>6, <1>7, <2>1
    <2>2. CASE ~(j < i)
      BY <1>5, <1>7, <2>2
    <2>3. QED
      BY <2>1, <2>2
  <1>9. QED
    BY <1>3, <1>7, <1>8

\* An injective sequence loses exactly the removed entry from its set of
\* entries and stays injective.
LEMMA InjectiveRemoveAt ==
  ASSUME NEW S, NEW s \in Seq(S), NEW i \in 1..Len(s), IsInjective(s)
  PROVE  /\ ToSet(RemoveAt(s, i)) = ToSet(s) \ {s[i]}
         /\ IsInjective(RemoveAt(s, i))
  <1> DEFINE t == RemoveAt(s, i)
  <1>1. /\ t \in Seq(S)
        /\ Len(t) = Len(s) - 1
        /\ \A j \in 1..(Len(s) - 1) : t[j] = IF j < i THEN s[j] ELSE s[j + 1]
    BY RemoveAtEntries
  <1>2. DOMAIN t = 1..(Len(s) - 1) /\ DOMAIN s = 1..Len(s) /\ Len(s) \in Nat
    BY <1>1
  <1>3. \A j, k \in DOMAIN s : s[j] = s[k] => j = k
    BY DEF IsInjective
  <1> HIDE DEF t
  <1>4. IsInjective(t)
    <2> SUFFICES ASSUME NEW j \in DOMAIN t, NEW k \in DOMAIN t, t[j] = t[k]
                 PROVE  j = k
      BY DEF IsInjective
    <2> DEFINE before(n) == IF n < i THEN n ELSE n + 1
    <2>1. \A n \in DOMAIN t : before(n) \in DOMAIN s /\ t[n] = s[before(n)]
      BY <1>1, <1>2
    <2>2. before(j) = before(k)
      <3> HIDE DEF before
      <3> QED
        BY <2>1, <1>3
    <2> QED
      BY <2>2, <1>2
  <1>5. ASSUME NEW x \in ToSet(t) PROVE x \in ToSet(s) \ {s[i]}
    <2>1. PICK j \in 1..(Len(s) - 1) : x = t[j]
      BY <1>2, <1>5 DEF ToSet
    <2>2. CASE j < i
      <3>1. x = s[j] /\ j \in DOMAIN s /\ j # i /\ i \in DOMAIN s
        BY <1>1, <1>2, <2>1, <2>2
      <3>2. QED
        BY <1>3, <3>1 DEF ToSet
    <2>3. CASE ~(j < i)
      <3>1. x = s[j + 1] /\ j + 1 \in DOMAIN s /\ j + 1 # i
        BY <1>1, <1>2, <2>1, <2>3
      <3>2. QED
        BY <1>2, <1>3, <3>1 DEF ToSet
    <2>4. QED
      BY <2>2, <2>3
  <1>6. ASSUME NEW x \in ToSet(s) \ {s[i]} PROVE x \in ToSet(t)
    <2>1. PICK j \in 1..Len(s) : x = s[j] /\ j # i
      BY <1>2, <1>6 DEF ToSet
    <2>2. CASE j < i
      BY <1>1, <1>2, <2>1, <2>2 DEF ToSet
    <2>3. CASE j > i
      <3>1. x = t[j - 1] /\ j - 1 \in DOMAIN t
        BY <1>1, <1>2, <2>1, <2>3
      <3>2. QED
        BY <3>1 DEF ToSet
    <2>4. QED
      BY <2>1, <2>2, <2>3
  <1>7. QED
    BY <1>4, <1>5, <1>6 DEF t

\* Taking the first entry off an injective queue.
LEMMA InjectiveTail ==
  ASSUME NEW S, NEW s \in Seq(S), s # << >>, IsInjective(s)
  PROVE  /\ Head(s) \in S
         /\ Head(s) \in ToSet(s)
         /\ Tail(s) \in Seq(S)
         /\ Len(Tail(s)) = Len(s) - 1
         /\ ToSet(Tail(s)) = ToSet(s) \ {Head(s)}
         /\ IsInjective(Tail(s))
  <1>1. /\ Len(s) \in Nat \ {0}
        /\ DOMAIN s = 1..Len(s)
        /\ Head(s) = s[1]
        /\ Tail(s) \in Seq(S)
        /\ Len(Tail(s)) = Len(s) - 1
        /\ DOMAIN Tail(s) = 1..(Len(s) - 1)
        /\ \A j \in 1..(Len(s) - 1) : Tail(s)[j] = s[j + 1]
    OBVIOUS
  <1>2. \A j, k \in DOMAIN s : s[j] = s[k] => j = k
    BY DEF IsInjective
  <1>3. IsInjective(Tail(s))
    BY <1>1, <1>2 DEF IsInjective
  <1>4. Head(s) \in S /\ Head(s) \in ToSet(s)
    BY <1>1 DEF ToSet
  <1>5. ASSUME NEW x \in ToSet(s) \ {Head(s)} PROVE x \in ToSet(Tail(s))
    <2>1. PICK j \in 2..Len(s) : x = s[j]
      BY <1>1, <1>5 DEF ToSet
    <2>2. x = Tail(s)[j - 1] /\ j - 1 \in DOMAIN Tail(s)
      BY <1>1, <2>1
    <2>3. QED
      BY <2>2 DEF ToSet
  <1>6. ASSUME NEW x \in ToSet(Tail(s)) PROVE x \in ToSet(s) \ {Head(s)}
    <2>1. PICK j \in 1..(Len(s) - 1) : x = Tail(s)[j]
      BY <1>1, <1>6 DEF ToSet
    <2>2. x = s[j + 1] /\ j + 1 \in DOMAIN s /\ j + 1 # 1 /\ 1 \in DOMAIN s
      BY <1>1, <2>1
    <2>3. QED
      BY <1>1, <1>2, <2>2 DEF ToSet
  <1>7. QED
    BY <1>1, <1>3, <1>4, <1>5, <1>6

\* Queueing a caller that is not in the queue yet.
LEMMA InjectiveAppend ==
  ASSUME NEW S, NEW s \in Seq(S), NEW x \in S, IsInjective(s), x \notin ToSet(s)
  PROVE  /\ Append(s, x) \in Seq(S)
         /\ Len(Append(s, x)) = Len(s) + 1
         /\ ToSet(Append(s, x)) = ToSet(s) \cup {x}
         /\ IsInjective(Append(s, x))
  <1>1. /\ Len(s) \in Nat
        /\ DOMAIN s = 1..Len(s)
        /\ Append(s, x) \in Seq(S)
        /\ Len(Append(s, x)) = Len(s) + 1
        /\ DOMAIN Append(s, x) = 1..(Len(s) + 1)
        /\ \A j \in 1..Len(s) : Append(s, x)[j] = s[j]
        /\ Append(s, x)[Len(s) + 1] = x
    OBVIOUS
  <1>2. \A j, k \in DOMAIN s : s[j] = s[k] => j = k
    BY DEF IsInjective
  <1>3. \A j \in DOMAIN s : s[j] # x
    BY DEF ToSet
  <1>4. IsInjective(Append(s, x))
    BY <1>1, <1>2, <1>3 DEF IsInjective
  <1>5. ToSet(Append(s, x)) = ToSet(s) \cup {x}
    BY <1>1 DEF ToSet
  <1>6. QED
    BY <1>1, <1>4, <1>5

-----------------------------------------------------------------------------
(***************************************************************************)
(* The inductive invariant.  SlotAccounting alone is not inductive: that a *)
(* release hands its slot to somebody who still waits needs the queue to   *)
(* hold exactly the waiting callers, each once.                            *)
(***************************************************************************)
GateInv == TypeOK /\ SlotAccounting /\ QueueIsWaiting

LEMMA OwnersFinite == IsFiniteSet(SlotOwners)
  BY GateAssumption, FS_Subset DEF SlotOwners

\* GateInv holds initially.
LEMMA GateInvInit == GateInit => GateInv
  <1> SUFFICES ASSUME GateInit PROVE GateInv
    OBVIOUS
  <1>1. SlotOwners = {} /\ Waiting = {}
    BY DEF GateInit, SlotOwners, Waiting
  <1>2. ToSet(queue) = {} /\ IsInjective(queue)
    BY DEF GateInit, ToSet, IsInjective
  <1>3. TypeOK
    BY GateAssumption DEF GateInit, TypeOK, PC
  <1>4. SlotAccounting
    BY <1>1, FS_EmptySet DEF GateInit, SlotAccounting
  <1> QED
    BY <1>1, <1>2, <1>3, <1>4 DEF GateInv, QueueIsWaiting

\* GateInv is preserved by every step of the gate.
LEMMA GateInvStep == GateInv /\ [GateNext]_vars => GateInv'
  <1> SUFFICES ASSUME GateInv, [GateNext]_vars PROVE GateInv'
    OBVIOUS
  <1> USE DEF GateInv, TypeOK, PC
  <1>0. /\ IsFiniteSet(SlotOwners)
        /\ queue \in Seq(Caller)
        /\ IsInjective(queue)
        /\ ToSet(queue) = Waiting
        /\ active = Cardinality(SlotOwners)
        /\ maximum \in Nat \ {0} /\ queueLimit \in Nat
    BY OwnersFinite, GateAssumption DEF QueueIsWaiting, SlotAccounting
  <1>1. ASSUME NEW c \in Caller, AcquireNow(c) PROVE GateInv'
    <2>1. SlotOwners' = SlotOwners \cup {c} /\ c \notin SlotOwners /\ Waiting' = Waiting
      BY <1>1 DEF AcquireNow, SlotOwners, Waiting
    <2>2. Cardinality(SlotOwners') = active + 1
      BY <1>0, <2>1, FS_AddElement
    <2>3. TypeOK'
      BY <1>0, <1>1 DEF AcquireNow
    <2> QED
      BY <1>0, <1>1, <2>1, <2>2, <2>3 DEF AcquireNow, SlotAccounting, QueueIsWaiting
  <1>2. ASSUME NEW c \in Caller, AcquireFull(c) PROVE GateInv'
    <2>1. SlotOwners' = SlotOwners /\ Waiting' = Waiting
      BY <1>2 DEF AcquireFull, SlotOwners, Waiting
    <2>2. TypeOK'
      BY <1>2 DEF AcquireFull
    <2> QED
      BY <1>0, <1>2, <2>1, <2>2 DEF AcquireFull, SlotAccounting, QueueIsWaiting
  <1>3. ASSUME NEW c \in Caller, AcquireWait(c) PROVE GateInv'
    <2>1. SlotOwners' = SlotOwners /\ Waiting' = Waiting \cup {c} /\ c \notin Waiting
      BY <1>3 DEF AcquireWait, SlotOwners, Waiting
    <2>2. /\ queue' \in Seq(Caller)
          /\ Len(queue') = Len(queue) + 1
          /\ ToSet(queue') = ToSet(queue) \cup {c}
          /\ IsInjective(queue')
      BY <1>0, <1>3, <2>1, InjectiveAppend DEF AcquireWait
    <2>3. TypeOK'
      BY <1>0, <1>3, <2>2 DEF AcquireWait
    <2> QED
      BY <1>0, <1>3, <2>1, <2>2, <2>3 DEF AcquireWait, SlotAccounting, QueueIsWaiting
  <1>4. ASSUME NEW c \in Caller, Timeout(c) PROVE GateInv'
    <2>1. SlotOwners' = SlotOwners /\ Waiting' = Waiting \ {c}
      BY <1>4 DEF Timeout, SlotOwners, Waiting
    <2>2. PICK i \in 1..Len(queue) : queue[i] = c /\ queue' = RemoveAt(queue, i)
      BY <1>0, <1>4 DEF Timeout
    <2>3. /\ queue' \in Seq(Caller)
          /\ Len(queue') = Len(queue) - 1
          /\ ToSet(queue') = ToSet(queue) \ {c}
          /\ IsInjective(queue')
      BY <1>0, <2>2, RemoveAtEntries, InjectiveRemoveAt
    <2>4. TypeOK'
      BY <1>0, <1>4, <2>3 DEF Timeout
    <2> QED
      BY <1>0, <1>4, <2>1, <2>3, <2>4 DEF Timeout, SlotAccounting, QueueIsWaiting
  <1>5. ASSUME NEW c \in Caller, Resume(c) PROVE GateInv'
    <2>1. SlotOwners' = SlotOwners /\ Waiting' = Waiting
      BY <1>5 DEF Resume, SlotOwners, Waiting
    <2>2. TypeOK'
      BY <1>5 DEF Resume
    <2> QED
      BY <1>0, <1>5, <2>1, <2>2 DEF Resume, SlotAccounting, QueueIsWaiting
  <1>6. ASSUME NEW c \in Caller, Release(c), queue # << >> PROVE GateInv'
    <2> DEFINE n == Head(queue)
    <2>1. /\ n \in Waiting /\ n \in Caller
          /\ queue' = Tail(queue)
          /\ queue' \in Seq(Caller)
          /\ Len(queue') = Len(queue) - 1
          /\ ToSet(queue') = ToSet(queue) \ {n}
          /\ IsInjective(queue')
      <3>1. /\ Head(queue) \in Caller
            /\ Head(queue) \in ToSet(queue)
            /\ Tail(queue) \in Seq(Caller)
            /\ Len(Tail(queue)) = Len(queue) - 1
            /\ ToSet(Tail(queue)) = ToSet(queue) \ {Head(queue)}
            /\ IsInjective(Tail(queue))
        BY <1>0, <1>6, InjectiveTail
      <3>2. queue' = Tail(queue)
        BY <1>6 DEF Release
      <3> QED
        BY <1>0, <3>1, <3>2
    <2> HIDE DEF n
    <2>2. /\ pc[c] = "holding" /\ pc[n] = "waiting"
          /\ pc' = [pc EXCEPT ![c] = "released", ![n] = "granted"]
          /\ active' = active
      BY <1>6, <2>1 DEF Release, Waiting, n
    <2>3. /\ SlotOwners' = (SlotOwners \ {c}) \cup {n}
          /\ c \in SlotOwners /\ n \notin SlotOwners /\ c # n
          /\ Waiting' = Waiting \ {n}
      BY <2>1, <2>2 DEF SlotOwners, Waiting
    <2>4. Cardinality(SlotOwners') = active
      <3>1. IsFiniteSet(SlotOwners \ {c}) /\ Cardinality(SlotOwners \ {c}) = active - 1
        BY <1>0, <2>3, FS_RemoveElement
      <3>2. n \notin SlotOwners \ {c}
        BY <2>3
      <3>3. Cardinality((SlotOwners \ {c}) \cup {n}) = active - 1 + 1
        BY <3>1, <3>2, FS_AddElement
      <3> QED
        BY <2>3, <3>3
    <2>5. TypeOK'
      BY <1>0, <2>1, <2>2
    <2> QED
      BY <1>0, <2>1, <2>2, <2>3, <2>4, <2>5 DEF SlotAccounting, QueueIsWaiting
  <1>7. ASSUME NEW c \in Caller, Release(c), queue = << >> PROVE GateInv'
    <2>1. SlotOwners' = SlotOwners \ {c} /\ c \in SlotOwners /\ Waiting' = Waiting
      BY <1>7 DEF Release, SlotOwners, Waiting
    <2>2. Cardinality(SlotOwners') = active - 1
      BY <1>0, <2>1, FS_RemoveElement
    <2>3. active - 1 \in Nat
      BY <1>0, <2>1, <2>2, FS_RemoveElement, FS_CardinalityType, FS_EmptySet
    <2>4. TypeOK'
      BY <1>0, <1>7, <2>3 DEF Release
    <2> QED
      BY <1>0, <1>7, <2>1, <2>2, <2>4 DEF Release, SlotAccounting, QueueIsWaiting
  <1>8. ASSUME NEW c \in Caller, Finish(c) PROVE GateInv'
    <2>1. SlotOwners' = SlotOwners /\ Waiting' = Waiting
      BY <1>8 DEF Finish, SlotOwners, Waiting
    <2>2. TypeOK'
      BY <1>8 DEF Finish
    <2> QED
      BY <1>0, <1>8, <2>1, <2>2 DEF Finish, SlotAccounting, QueueIsWaiting
  <1>9. CASE UNCHANGED vars
    BY <1>9 DEF vars, SlotAccounting, QueueIsWaiting, SlotOwners, Waiting
  <1> QED
    BY <1>1, <1>2, <1>3, <1>4, <1>5, <1>6, <1>7, <1>8, <1>9
    DEF GateNext, Acquire, ReleaseAgain

\* GateInv is an invariant of the gate.
THEOREM GateInvariant == GateSpec => []GateInv
  BY GateInvInit, GateInvStep, PTL DEF GateSpec

\* The gate's counters and queue stay within their limits.
THEOREM GateTypeCorrect == GateSpec => []TypeOK
  BY GateInvariant, PTL DEF GateInv

\* No slot is lost and none is given out twice, whatever the order of
\* grants, timeouts and releases.
THEOREM GateSlotAccounting == GateSpec => []SlotAccounting
  BY GateInvariant, PTL DEF GateInv

\* The queue is exactly the set of callers that are still waiting.
THEOREM GateQueueIsWaiting == GateSpec => []QueueIsWaiting
  BY GateInvariant, PTL DEF GateInv

\* Nobody waits while a slot is free.
THEOREM GateWorkConserving == GateSpec => []WorkConserving
  <1>1. GateInit => WorkConserving
    BY DEF GateInit, WorkConserving
  <1>2. GateInv /\ WorkConserving /\ [GateNext]_vars => WorkConserving'
    <2> SUFFICES ASSUME GateInv, WorkConserving, [GateNext]_vars, queue' # << >>
                 PROVE  active' = maximum
      BY DEF WorkConserving
    <2> USE GateAssumption DEF GateInv, TypeOK, WorkConserving
    <2>1. ASSUME NEW c \in Caller, AcquireNow(c) PROVE active' = maximum
      BY <2>1 DEF AcquireNow
    <2>2. ASSUME NEW c \in Caller, AcquireFull(c) PROVE active' = maximum
      BY <2>2 DEF AcquireFull
    <2>3. ASSUME NEW c \in Caller, AcquireWait(c) PROVE active' = maximum
      BY <2>3 DEF AcquireWait
    <2>4. ASSUME NEW c \in Caller, Timeout(c) PROVE active' = maximum
      BY <2>4 DEF Timeout
    <2>5. ASSUME NEW c \in Caller, Release(c) PROVE active' = maximum
      BY <2>5 DEF Release
    <2>6. CASE UNCHANGED vars
      BY <2>6 DEF vars
    <2> QED
      BY <2>1, <2>2, <2>3, <2>4, <2>5, <2>6
      DEF GateNext, Acquire, Resume, ReleaseAgain, Finish
  <1> QED
    BY <1>1, <1>2, GateInvariant, PTL DEF GateSpec

\* The gate refines the abstract permits: acquisitions take a free permit,
\* a release gives it back or passes it to a waiter, all else stutters.
THEOREM GateImplementsPermits == GateSpec => ImplementsPermits
  <1>1. GateInit => Abstract!PermitsInit
    BY DEF GateInit, SlotOwners, Abstract!PermitsInit
  <1>2. GateInv /\ [GateNext]_vars => [Abstract!PermitsNext]_SlotOwners
    <2> SUFFICES ASSUME GateInv, [GateNext]_vars
                 PROVE  Abstract!PermitsNext \/ SlotOwners' = SlotOwners
      OBVIOUS
    <2> USE DEF GateInv, TypeOK, PC
    <2>1. ASSUME NEW c \in Caller, AcquireNow(c) PROVE Abstract!Take(c)
      <3>1. SlotOwners' = SlotOwners \cup {c} /\ c \notin SlotOwners
        BY <2>1 DEF AcquireNow, SlotOwners
      <3>2. Cardinality(SlotOwners) < maximum
        BY <2>1 DEF AcquireNow, SlotAccounting
      <3>3. Abstract!Cardinality(SlotOwners) = Cardinality(SlotOwners)
        BY DEF Abstract!Cardinality, Cardinality
      <3> QED
        BY <3>1, <3>2, <3>3 DEF Abstract!Take
    <2>2. ASSUME NEW c \in Caller, Release(c), queue = << >> PROVE Abstract!GiveBack(c)
      BY <2>2 DEF Release, SlotOwners, Abstract!GiveBack
    <2>3. ASSUME NEW c \in Caller, Release(c), queue # << >>
          PROVE  \E d \in Caller : Abstract!HandOver(c, d)
      <3>1. Head(queue) \in Waiting
        BY <2>3, InjectiveTail DEF QueueIsWaiting
      <3>2. Abstract!HandOver(c, Head(queue))
        BY <2>3, <3>1 DEF Release, Waiting, SlotOwners, Abstract!HandOver
      <3> QED
        BY <3>1, <3>2 DEF Waiting
    <2>4. ASSUME NEW c \in Caller,
                 \/ AcquireFull(c) \/ AcquireWait(c) \/ Timeout(c)
                 \/ Resume(c) \/ ReleaseAgain(c) \/ Finish(c)
          PROVE  SlotOwners' = SlotOwners
      BY <2>4 DEF AcquireFull, AcquireWait, Timeout, Resume, ReleaseAgain, Finish,
                  SlotOwners, vars
    <2>5. CASE UNCHANGED vars
      BY <2>5 DEF vars, SlotOwners
    <2> QED
      BY <2>1, <2>2, <2>3, <2>4, <2>5 DEF GateNext, Acquire, Abstract!PermitsNext
  <1> QED
    BY <1>1, <1>2, GateInvariant, PTL DEF GateSpec, ImplementsPermits, Abstract!PermitsSpec

=============================================================================
