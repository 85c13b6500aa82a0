------------------------- MODULE ReadWriteGateProofs -------------------------
(***************************************************************************)
(* Proofs about ReadWriteGate for any number of requests.                  *)
(***************************************************************************)
EXTENDS ReadWriteGate, FiniteSetTheorems, TLAPS

(***************************************************************************)
(* The inductive invariant, in named parts.  Exclusion says what holders   *)
(* may not do; to keep it, a step must know what a resolved wait promise   *)
(* stands for (Behind) and what a pending one will have seen (Covered).    *)
(***************************************************************************)

\* Where a request stands agrees with the promises it owns.
Lifecycle ==
  \A t \in Ticket :
    /\ state[t] = "absent" <=> t > next
    /\ state[t] = "absent" => t \notin settled /\ t \notin finished
    /\ state[t] = "waiting" => t \notin settled /\ t \notin finished
    /\ state[t] = "holding" => t \in settled /\ t \notin finished
    /\ state[t] \in {"expired", "done"} => t \in finished

\* The gate still knows every writer and every reader that has not finished.
Known ==
  /\ writer <= next
  /\ writer # None => kind[writer] = "write"
  /\ readers \subseteq 1..next
  /\ \A s \in readers : s \notin finished
  /\ \A s \in 1..next : s \notin finished =>
       IF kind[s] = "write" THEN s <= writer ELSE s \in readers

\* A pending wait includes every earlier conflicting request, directly or
\* through the writer it waits for.
Covered ==
  \A t \in 1..next :
    /\ waitsWriter[t] < t
    /\ waitsWriter[t] # None => kind[waitsWriter[t]] = "write"
    /\ \A s \in 1..(t - 1) : Conflict(s, t) /\ s \notin finished =>
         IF kind[s] = "write" THEN s <= waitsWriter[t] ELSE s \in waitsReaders[t]

\* A resolved wait has left no earlier conflicting request unfinished.
Behind ==
  \A t \in settled : \A s \in 1..(t - 1) : Conflict(s, t) => s \in finished

RWInv == RWTypeOK /\ Lifecycle /\ Known /\ Covered /\ Behind /\ EntryLifetime

LEMMA InsideFinite == IsFiniteSet(Inside)
  <1>1. IsFiniteSet(Ticket)
    BY RequestsAssumption, FS_Interval DEF Ticket
  <1> QED
    BY <1>1, FS_Subset DEF Inside

\* RWInv holds initially.
LEMMA RWInvInit == RWInit => RWInv
  <1> SUFFICES ASSUME RWInit PROVE RWInv
    OBVIOUS
  <1> USE RequestsAssumption DEF RWInit, Ticket, None
  <1>1. Inside = {}
    BY DEF Inside
  <1>2. EntryLifetime
    BY <1>1, FS_EmptySet DEF EntryLifetime
  <1>3. RWTypeOK
    BY DEF RWTypeOK, Kind, State
  <1>4. Lifecycle /\ Known /\ Covered /\ Behind
    BY DEF Lifecycle, Known, Covered, Behind
  <1> QED
    BY <1>2, <1>3, <1>4 DEF RWInv

\* A request that enters is covered by the gate's current chain.
LEMMA EnterStep ==
  ASSUME RWInv, NEW t \in Ticket, NEW k \in Kind, Enter(t, k)
  PROVE  RWInv'
  <1> USE RequestsAssumption DEF Ticket, None, RWInv
  <1>1. /\ next \in Nat /\ t = next + 1 /\ next' = t /\ t \in 1..Requests
        /\ kind' = [kind EXCEPT ![t] = k] /\ kind' \in [Ticket -> Kind]
        /\ \A s \in 1..next : kind'[s] = kind[s]
        /\ kind'[t] = k
        /\ state' = [state EXCEPT ![t] = "waiting"] /\ state' \in [Ticket -> State]
        /\ settled' = settled /\ finished' = finished
        /\ settled \subseteq 1..next /\ finished \subseteq 1..next
    BY DEF Enter, RWTypeOK, State, Lifecycle
  <1>2. Inside' = Inside \cup {t} /\ t \notin Inside
    <2>1. state[t] = "absent"
      BY <1>1 DEF Lifecycle, RWTypeOK
    <2>2. \A s \in Ticket : state'[s] = IF s = t THEN "waiting" ELSE state[s]
      BY <1>1 DEF RWTypeOK
    <2> QED
      BY <1>1, <2>1, <2>2 DEF Inside
  <1>3. EntryLifetime'
    BY <1>2, InsideFinite, FS_AddElement DEF EntryLifetime, Enter
  <1>4. Cardinality(Inside') <= Requests
    <2>1. Inside' \subseteq 1..Requests
      BY DEF Inside
    <2>2. IsFiniteSet(1..Requests) /\ Cardinality(1..Requests) = Requests
      <3>1. 1 \in Int /\ Requests \in Int /\ Requests >= 0
        OBVIOUS
      <3>2. Cardinality(1..Requests) = IF 1 > Requests THEN 0 ELSE Requests - 1 + 1
        BY <3>1, FS_Interval
      <3> QED
        BY <3>1, <3>2, FS_Interval
    <2> QED
      BY <2>1, <2>2, FS_Subset
  <1>5. RWTypeOK'
    <2>1. users' \in 0..Requests
      BY <1>3, <1>4 DEF EntryLifetime, Enter, RWTypeOK
    <2>2. waitsWriter' \in [Ticket -> 0..Requests] /\ waitsReaders' \in [Ticket -> SUBSET Ticket]
      BY DEF Enter, Wait, RWTypeOK
    <2>3. writer' \in 0..Requests /\ readers' \subseteq Ticket
      BY DEF Enter, RWTypeOK
    <2> QED
      BY <1>1, <2>1, <2>2, <2>3 DEF RWTypeOK
  <1>6. Lifecycle'
    BY <1>1 DEF Lifecycle, RWTypeOK
  <1>7. Known'
    <2>1. writer' = (IF k = "write" THEN t ELSE writer)
          /\ readers' = (IF k = "read" THEN readers \cup {t} ELSE readers)
      BY DEF Enter
    <2> QED
      BY <1>1, <2>1 DEF Known, RWTypeOK, Kind
  <1>8. Covered'
    <2>1. /\ \A s \in 1..next : waitsWriter'[s] = waitsWriter[s] /\ waitsReaders'[s] = waitsReaders[s]
          /\ waitsWriter'[t] = writer
          /\ waitsReaders'[t] = IF k = "write" THEN readers ELSE {}
      BY <1>1 DEF Enter, Wait, RWTypeOK
    <2>2. ASSUME NEW s \in 1..next
          PROVE  /\ waitsWriter'[s] < s
                 /\ waitsWriter'[s] # None => kind'[waitsWriter'[s]] = "write"
                 /\ \A r \in 1..(s - 1) : Conflict(r, s)' /\ r \notin finished' =>
                      IF kind'[r] = "write" THEN r <= waitsWriter'[s] ELSE r \in waitsReaders'[s]
      BY <1>1, <2>1 DEF Covered, RWTypeOK, Conflict
    <2>3. /\ waitsWriter'[t] < t
          /\ waitsWriter'[t] # None => kind'[waitsWriter'[t]] = "write"
      BY <1>1, <2>1 DEF Known, RWTypeOK
    <2>4. ASSUME NEW s \in 1..next, Conflict(s, t)', s \notin finished'
          PROVE  IF kind'[s] = "write" THEN s <= waitsWriter'[t] ELSE s \in waitsReaders'[t]
      BY <1>1, <2>1, <2>4 DEF Known, Conflict, Kind
    <2> QED
      BY <1>1, <2>2, <2>3, <2>4 DEF Covered
  <1>9. Behind'
    BY <1>1 DEF Behind, Conflict
  <1> QED
    BY <1>3, <1>5, <1>6, <1>7, <1>8, <1>9 DEF RWInv

\* When the wait of a request resolves, no earlier conflicting request is
\* unfinished: those it waits for directly are finished, and those before
\* the awaited writer were finished when that writer's wait resolved.
LEMMA SettleStep ==
  ASSUME RWInv, NEW t \in Ticket, Settle(t)
  PROVE  RWInv'
  <1> USE RequestsAssumption DEF Ticket, None, RWInv
  <1> DEFINE w == waitsWriter[t]
  <1>1. /\ t \in 1..next /\ t \notin settled /\ next \in Nat
        /\ w = None \/ (w \in settled /\ w \in finished)
        /\ waitsReaders[t] \subseteq finished
        /\ settled' = settled \cup {t}
        /\ UNCHANGED <<next, kind, finished, waitsWriter, waitsReaders, writer, readers, users>>
    BY DEF Settle, CanSettle, Ready, WriterResolved, RWTypeOK
  <1>2. ASSUME NEW s \in 1..(t - 1), Conflict(s, t) PROVE s \in finished
    <2> SUFFICES ASSUME s \notin finished PROVE FALSE
      OBVIOUS
    <2>1. kind[s] = "write" /\ s <= w
      BY <1>1, <1>2 DEF Covered
    <2>2. w \in settled /\ w \in finished /\ s < w
      BY <1>1, <2>1 DEF RWTypeOK
    <2>3. Conflict(s, w)
      BY <2>1 DEF Conflict
    <2> QED
      BY <2>2, <2>3 DEF Behind, RWTypeOK
  <1>3. Behind'
    BY <1>1, <1>2 DEF Behind, Conflict, RWTypeOK
  <1>4. /\ state' = (IF state[t] = "waiting" THEN [state EXCEPT ![t] = "holding"] ELSE state)
        /\ state' \in [Ticket -> State]
    BY DEF Settle, RWTypeOK, State
  <1>5. Inside' = Inside
    BY <1>4 DEF Inside, RWTypeOK
  <1>6. RWTypeOK' /\ EntryLifetime'
    BY <1>1, <1>4, <1>5 DEF RWTypeOK, EntryLifetime
  <1>7. Lifecycle'
    BY <1>1, <1>4 DEF Lifecycle, RWTypeOK, State
  <1>8. Known' /\ Covered'
    BY <1>1 DEF Known, Covered, Conflict
  <1> QED
    BY <1>3, <1>6, <1>7, <1>8 DEF RWInv

\* A request that times out finishes without ever having held the gate.
LEMMA ExpireStep ==
  ASSUME RWInv, NEW t \in Ticket, Expire(t)
  PROVE  RWInv'
  <1> USE RequestsAssumption DEF Ticket, None, RWInv
  <1>1. /\ state[t] = "waiting"
        /\ state' = [state EXCEPT ![t] = "expired"] /\ state' \in [Ticket -> State]
        /\ readers' = readers \ {t} /\ finished' = finished \cup {t}
        /\ UNCHANGED <<next, kind, settled, waitsWriter, waitsReaders, writer, users>>
    BY DEF Expire, ReleaseGate, RWTypeOK, State
  <1>2. Inside' = Inside
    BY <1>1 DEF Inside, RWTypeOK
  <1>3. RWTypeOK' /\ EntryLifetime'
    BY <1>1, <1>2 DEF RWTypeOK, EntryLifetime
  <1>4. Lifecycle'
    BY <1>1 DEF Lifecycle, RWTypeOK
  <1>5. Known' /\ Covered' /\ Behind'
    BY <1>1 DEF Known, Covered, Behind, Conflict
  <1> QED
    BY <1>3, <1>4, <1>5 DEF RWInv

\* The user count goes down with the request; with the last one gone every
\* request has finished, so an empty gate forgets nothing.
LEMMA DepartStep ==
  ASSUME RWInv, NEW t \in Ticket, state[t] \in {"holding", "expired"},
         state' = [state EXCEPT ![t] = "done"],
         readers' = readers \ {t}, finished' = finished \cup {t},
         users' = users - 1, DropGate,
         UNCHANGED <<next, kind, settled, waitsWriter, waitsReaders>>
  PROVE  RWInv'
  <1> USE RequestsAssumption DEF Ticket, None, RWInv
  <1>1. Inside' = Inside \ {t} /\ t \in Inside
    BY DEF Inside, RWTypeOK
  <1>2. Cardinality(Inside') = users - 1
    BY <1>1, InsideFinite, FS_RemoveElement DEF EntryLifetime
  <1>3. users - 1 \in Nat
    BY <1>1, <1>2, InsideFinite, FS_RemoveElement, FS_CardinalityType
  <1>4. EntryLifetime'
    BY <1>2 DEF EntryLifetime
  <1>5. RWTypeOK'
    BY <1>3 DEF RWTypeOK, State, DropGate
  <1>6. Lifecycle'
    BY DEF Lifecycle, RWTypeOK
  <1>7. Known'
    <2>1. CASE users = 1
      <3>1. Inside' = {}
        BY <1>1, <1>2, <2>1, InsideFinite, FS_RemoveElement, FS_EmptySet
      <3>2. \A s \in 1..next : s \in finished'
        BY <1>5, <1>6, <3>1 DEF Inside, Lifecycle, RWTypeOK, State
      <3> QED
        BY <2>1, <3>2 DEF Known, DropGate, RWTypeOK
    <2>2. CASE users # 1
      BY <2>2 DEF Known, DropGate
    <2> QED
      BY <2>1, <2>2
  <1>8. Covered' /\ Behind'
    BY DEF Covered, Behind, Conflict
  <1> QED
    BY <1>4, <1>5, <1>6, <1>7, <1>8 DEF RWInv

\* RWInv is preserved by every step.
LEMMA RWInvStep == RWInv /\ [RWNext]_rwVars => RWInv'
  <1> SUFFICES ASSUME RWInv, [RWNext]_rwVars PROVE RWInv'
    OBVIOUS
  <1>1. ASSUME NEW t \in Ticket, LeaveExpired(t) PROVE RWInv'
    <2>1. t \in finished /\ t \notin readers
      BY <1>1 DEF LeaveExpired, RWInv, Lifecycle, Known
    <2>2. readers' = readers \ {t} /\ finished' = finished \cup {t}
      BY <1>1, <2>1 DEF LeaveExpired, promises
    <2> QED
      BY <1>1, <2>2, DepartStep DEF LeaveExpired, promises
  <1>2. ASSUME NEW t \in Ticket, Leave(t) PROVE RWInv'
    BY <1>2, DepartStep DEF Leave, ReleaseGate
  <1>3. CASE UNCHANGED rwVars
    BY <1>3 DEF rwVars, RWInv, RWTypeOK, Lifecycle, Known, Covered, Behind, EntryLifetime,
                Inside, Conflict
  <1> QED
    BY <1>1, <1>2, <1>3, EnterStep, SettleStep, ExpireStep DEF RWNext

\* RWInv is an invariant of the gate.
THEOREM RWInvariant == RWSpec => []RWInv
  BY RWInvInit, RWInvStep, PTL DEF RWSpec

\* The gate's state is well formed.
THEOREM RWTypeCorrect == RWSpec => []RWTypeOK
  BY RWInvariant, PTL DEF RWInv

\* The map entry lives exactly as long as it has users.
THEOREM RWEntryLifetime == RWSpec => []EntryLifetime
  BY RWInvariant, PTL DEF RWInv

\* Conflicting requests hold the gate in arrival order.
THEOREM RWArrivalOrder == RWSpec => []ArrivalOrder
  <1>1. RWInv => ArrivalOrder
    BY DEF RWInv, RWTypeOK, ArrivalOrder, Lifecycle, Behind, Ticket
  <1> QED
    BY <1>1, RWInvariant, PTL

\* A writer holds the gate alone.
LEMMA HoldersCompatible == RWInv => Exclusion
  <1> SUFFICES ASSUME RWInv, NEW s \in Ticket, NEW t \in Ticket, s # t,
                      state[s] = "holding", state[t] = "holding", Conflict(s, t)
               PROVE  FALSE
    BY DEF Exclusion
  <1> USE RequestsAssumption DEF RWInv, RWTypeOK, Ticket
  <1>1. CASE s < t
    BY <1>1 DEF Lifecycle, Behind
  <1>2. CASE t < s
    BY <1>2 DEF Lifecycle, Behind, Conflict
  <1> QED
    BY <1>1, <1>2

\* A process that writes a file never runs beside another one.
THEOREM RWExclusion == RWSpec => []Exclusion
  BY HoldersCompatible, RWInvariant, PTL

\* The promise chain refines the shared lock: a wait that resolves takes the
\* lock for a request that still waits, a departing holder gives it back.
THEOREM RWImplementsLock == RWSpec => ImplementsLock
  <1> USE RequestsAssumption
  <1>1. RWInit => FileLock!LockInit
    BY DEF RWInit, Holding, FileLock!LockInit, Ticket
  <1>2. RWInv /\ RWInv' /\ [RWNext]_rwVars /\ Exclusion /\ Exclusion'
        => [FileLock!LockNext]_(FileLock!lockVars)
    <2> SUFFICES ASSUME RWInv, RWInv', [RWNext]_rwVars, Exclusion, Exclusion'
                 PROVE  \/ FileLock!LockNext
                        \/ Holding("read")' = Holding("read") /\ Holding("write")' = Holding("write")
      BY DEF FileLock!lockVars
    <2>0. /\ state \in [Ticket -> State] /\ kind \in [Ticket -> Kind]
          /\ Exclusion /\ Exclusion'
      BY DEF RWInv, RWTypeOK
    <2>1. ASSUME NEW t \in Ticket, NEW k \in Kind, Enter(t, k)
          PROVE  Holding("read")' = Holding("read") /\ Holding("write")' = Holding("write")
      <3>1. state[t] = "absent"
        BY <2>1 DEF Enter, RWInv, Lifecycle, RWTypeOK, Ticket
      <3> QED
        BY <2>0, <2>1, <3>1 DEF Enter, Holding
    <2>2. ASSUME NEW t \in Ticket, Settle(t), state[t] = "waiting"
          PROVE  FileLock!LockNext
      <3>1. state' = [state EXCEPT ![t] = "holding"] /\ kind' = kind
        BY <2>2 DEF Settle
      <3>2. CASE kind[t] = "read"
        <4>1. /\ Holding("read")' = Holding("read") \cup {t} /\ t \notin Holding("read")
              /\ Holding("write")' = Holding("write")
          BY <2>0, <2>2, <3>1, <3>2 DEF Holding
        <4>2. Holding("write") = {}
          BY <2>0, <2>2, <3>1, <3>2 DEF Holding, Exclusion, Conflict
        <4> QED
          BY <4>1, <4>2 DEF FileLock!LockNext, FileLock!Share
      <3>3. CASE kind[t] = "write"
        <4>1. /\ Holding("write")' = Holding("write") \cup {t}
              /\ Holding("read")' = Holding("read")
          BY <2>0, <2>2, <3>1, <3>3 DEF Holding
        <4>2. Holding("write") = {} /\ Holding("read") = {}
          BY <2>0, <2>2, <3>1, <3>3 DEF Holding, Exclusion, Conflict
        <4> QED
          BY <4>1, <4>2 DEF FileLock!LockNext, FileLock!Exclude
      <3> QED
        BY <2>0, <3>2, <3>3 DEF Kind
    <2>3. ASSUME NEW t \in Ticket, Settle(t), state[t] # "waiting"
          PROVE  Holding("read")' = Holding("read") /\ Holding("write")' = Holding("write")
      BY <2>3 DEF Settle, Holding
    <2>4. ASSUME NEW t \in Ticket, Expire(t) \/ LeaveExpired(t)
          PROVE  Holding("read")' = Holding("read") /\ Holding("write")' = Holding("write")
      BY <2>0, <2>4 DEF Expire, LeaveExpired, Holding
    <2>5. ASSUME NEW t \in Ticket, Leave(t) PROVE FileLock!LockNext
      <3>1. /\ Holding("read")' = Holding("read") \ {t}
            /\ Holding("write")' = Holding("write") \ {t}
            /\ t \in Holding("read") \cup Holding("write")
        BY <2>0, <2>5 DEF Leave, Holding, Kind
      <3> QED
        BY <3>1 DEF FileLock!LockNext, FileLock!Leave
    <2>6. CASE UNCHANGED rwVars
      BY <2>6 DEF rwVars, Holding
    <2> QED
      BY <2>1, <2>2, <2>3, <2>4, <2>5, <2>6 DEF RWNext
  <1> QED
    BY <1>1, <1>2, RWInvariant, RWExclusion, PTL DEF RWSpec, ImplementsLock, FileLock!LockSpec

=============================================================================
