------------------------ MODULE ResultArtifactsProofs ------------------------
(***************************************************************************)
(* Proofs about ResultArtifacts for every set of results and reads, every  *)
(* size and every limit.  Three actors work on the list and the directory  *)
(* (the chain of writes, the sweep and close); the invariant says who may  *)
(* be where: only the head of the chain is being written, what is being    *)
(* unlinked is no longer listed, and nothing moves once all has drained.   *)
(* The quota needs one more: the sum over the list, by induction over the  *)
(* places of a list, and the room reserved for the one being written.      *)
(***************************************************************************)
EXTENDS ResultArtifacts, SequenceTheorems, FiniteSetTheorems, WellFoundedInduction, TLAPS

Distinct(s) == \A i, j \in 1..Len(s) : s[i] = s[j] => i = j

\* Only the head of the chain is past waiting, and it alone unlinks.
Chain == /\ Distinct(writes) /\ waitingWrites = Len(writes)
         /\ \A w \in Result : w \in Range(writes) <=> write[w] \in {"queued"} \cup Writing
         /\ \A w \in Result : write[w] \in Writing => w = Head(writes)
         /\ removing["writer"] # {} => /\ writes # <<>>
                                       /\ write[Head(writes)] \in {"expire", "evict"}

\* The list, the directory and the unlinks under way.
Shelf == /\ Distinct(entries)
         /\ \A w \in Listed : write[w] = "stored" /\ w \in files
         /\ \A w \in Result : write[w] = "write" => w \in files
         /\ \A a \in {"writer", "sweep"} : \A w \in removing[a] :
              write[w] = "stored" /\ w \notin Listed
         /\ \A w \in files : \/ w \in Listed \/ write[w] = "write" \/ w \in lost
                             \/ w \in removing["writer"] \/ w \in removing["sweep"]

\* Who is inside the gate, and what cannot happen any more after the end.
Doors == /\ inside = {r \in Read : read[r] = "read"}
         /\ \A w \in Result : write[w] # "stored" => read[w] = "none"
         /\ gone => /\ closed /\ writes = <<>> /\ entries = <<>> /\ files = {}
                    /\ \A r \in Read : read[r] \notin {"gate", "read"}

IInv == TypeOK /\ Chain /\ Shelf /\ Doors

-----------------------------------------------------------------------------
\* The first element leaves a sequence without repetition.
LEMMA DropFirst ==
    ASSUME NEW S, NEW s \in Seq(S), s # <<>>, Distinct(s)
    PROVE  /\ Tail(s) \in Seq(S) /\ Distinct(Tail(s)) /\ Len(Tail(s)) = Len(s) - 1
           /\ Head(s) \in S /\ Head(s) \in Range(s)
           /\ Range(Tail(s)) = Range(s) \ {Head(s)}
<1>1. /\ Head(s) \in S /\ Tail(s) \in Seq(S) /\ Len(Tail(s)) = Len(s) - 1
      /\ \A i \in 1..Len(Tail(s)) : Tail(s)[i] = s[i + 1]
  BY HeadTailProperties
<1>2. Len(s) \in Nat \ {0} /\ Head(s) = s[1]
  BY EmptySeq
<1>3. Range(s) = {s[i] : i \in 1..Len(s)}
  BY RangeEquality
<1>4. Range(Tail(s)) = {Tail(s)[i] : i \in 1..Len(Tail(s))}
  BY <1>1, RangeEquality
<1>5. Distinct(Tail(s))
  BY <1>1, <1>2 DEF Distinct
<1>6. ASSUME NEW x PROVE x \in Range(Tail(s)) <=> x \in Range(s) \ {Head(s)}
  <2>1. ASSUME x \in Range(Tail(s)) PROVE x \in Range(s) \ {Head(s)}
    <3>1. PICK i \in 1..Len(Tail(s)) : x = Tail(s)[i]
      BY <1>4, <2>1
    <3>2. i + 1 \in 1..Len(s) /\ i + 1 # 1 /\ x = s[i + 1]
      BY <1>1, <1>2, <3>1
    <3> QED
      BY <1>2, <1>3, <3>2 DEF Distinct
  <2>2. ASSUME x \in Range(s), x # Head(s) PROVE x \in Range(Tail(s))
    <3>1. PICK i \in 1..Len(s) : x = s[i]
      BY <1>3, <2>2
    <3>2. i - 1 \in 1..Len(Tail(s)) /\ Tail(s)[i - 1] = s[(i - 1) + 1] /\ (i - 1) + 1 = i
      BY <1>1, <1>2, <2>2, <3>1
    <3> QED
      BY <1>4, <3>1, <3>2
  <2> QED
    BY <2>1, <2>2
<1>7. Head(s) \in Range(s)
  BY <1>2, <1>3
<1> QED
  BY <1>1, <1>5, <1>6, <1>7

\* A new element is appended to a sequence without repetition.
LEMMA AddLast ==
    ASSUME NEW S, NEW s \in Seq(S), NEW e \in S, e \notin Range(s), Distinct(s)
    PROVE  /\ Append(s, e) \in Seq(S) /\ Distinct(Append(s, e))
           /\ Len(Append(s, e)) = Len(s) + 1 /\ Append(s, e) # <<>>
           /\ Range(Append(s, e)) = Range(s) \cup {e}
           /\ Head(Append(s, e)) = IF s = <<>> THEN e ELSE Head(s)
<1>1. /\ Append(s, e) \in Seq(S) /\ Len(Append(s, e)) = Len(s) + 1 /\ Append(s, e) # <<>>
      /\ \A i \in 1..Len(s) : Append(s, e)[i] = s[i]
      /\ Append(s, e)[Len(s) + 1] = e
  BY AppendProperties
<1>2. Len(s) \in Nat
  BY LenProperties
<1>3. Range(s) = {s[i] : i \in 1..Len(s)}
  BY RangeEquality
<1>4. Range(Append(s, e)) = {Append(s, e)[i] : i \in 1..Len(Append(s, e))}
  BY <1>1, RangeEquality
<1>5. \A i \in 1..Len(Append(s, e)) : i \in 1..Len(s) \/ i = Len(s) + 1
  BY <1>1, <1>2
<1>6. \A i \in 1..Len(s) : i \in 1..Len(Append(s, e)) /\ s[i] # e
  BY <1>1, <1>2, <1>3
<1>7. Distinct(Append(s, e))
  BY <1>1, <1>5, <1>6 DEF Distinct
<1>8. Len(s) + 1 \in 1..Len(Append(s, e))
  BY <1>1, <1>2
<1>9. Range(Append(s, e)) = Range(s) \cup {e}
  BY <1>1, <1>3, <1>4, <1>5, <1>6, <1>8
<1>10. Head(Append(s, e)) = IF s = <<>> THEN e ELSE Head(s)
  BY HeadTailAppend
<1> QED
  BY <1>1, <1>7, <1>9, <1>10

-----------------------------------------------------------------------------
\* The normal form of reserve: an entry moves from the list to the unlink of
\* an actor, or that actor has nothing more to unlink.
Moves(a) == \/ entries # <<>> /\ RemoveOldest(a)
            \/ entries' = entries /\ removing' = [removing EXCEPT ![a] = {}]

LEMMA ReserveEffect ==
    ASSUME NEW w \in Result, NEW from, Reserve(w, from)
    PROVE  /\ Moves("writer")
           /\ \E p \in {"expire", "evict", "create"} :
                /\ write' = [write EXCEPT ![w] = p]
                /\ p = "create" => removing' = [removing EXCEPT !["writer"] = {}]
BY DEF Reserve, Moves, HeadExpired, Full

\* A result that is being written heads the chain, without repetition.
LEMMA HeadOfChain ==
    ASSUME TypeOK, Chain, NEW w \in Result, write[w] \in Writing
    PROVE  writes # <<>> /\ w = Head(writes)
<1>1. w \in Range(writes)
  BY DEF Chain
<1>2. Range(writes) = {writes[i] : i \in 1..Len(writes)}
  BY RangeEquality DEF TypeOK
<1>3. writes # <<>>
  <2> SUFFICES ASSUME writes = <<>> PROVE FALSE
    OBVIOUS
  <2>1. 1..Len(writes) = {}
    BY EmptySeq
  <2> QED
    BY <1>1, <1>2, <2>1
<1> QED
  BY <1>3 DEF Chain

\* What a move keeps well formed.
LEMMA MovesTyped ==
    ASSUME TypeOK, Shelf, NEW a \in {"writer", "sweep"}, Moves(a)
    PROVE  entries' \in Seq(Result) /\ removing' \in [{"writer", "sweep"} -> SUBSET Result]
<1>1. CASE entries # <<>> /\ RemoveOldest(a)
  <2>1. Head(entries) \in Result /\ Tail(entries) \in Seq(Result)
    BY <1>1, DropFirst DEF TypeOK, Shelf
  <2> QED
    BY <1>1, <2>1 DEF TypeOK, RemoveOldest
<1>2. CASE entries' = entries /\ removing' = [removing EXCEPT ![a] = {}]
  BY <1>2 DEF TypeOK
<1> QED
  BY <1>1, <1>2 DEF Moves

\* A step of a read moves that read, and its slot, and nothing else.
ReadStep(r) == Ask(r) \/ Checked(r) \/ Authorized(r) \/ Rechecked(r) \/ ReadEnds(r)

LEMMA ReadEffect ==
    ASSUME TypeOK, NEW r \in Read, ReadStep(r)
    PROVE  /\ UNCHANGED <<scopeVars, writeVars, storeVars, target, closeVars>>
           /\ \E p \in Reading : read' = [read EXCEPT ![r] = p]
<1>1. CASE CompareScope(r, "check", "authorize") \/ CompareScope(r, "recheck", "answered")
  <2>1. UNCHANGED <<scopeVars, writeVars, storeVars, target, closeVars>>
    BY <1>1 DEF CompareScope, ReadGoesOn
  <2>2. UNCHANGED read \/ \E p \in {"none", "authorize", "answered"} :
                            read' = [read EXCEPT ![r] = p]
    BY <1>1 DEF CompareScope, ReadGoesOn
  <2>3. read[r] \in Reading /\ read = [read EXCEPT ![r] = read[r]]
    BY DEF TypeOK
  <2> QED
    BY <2>1, <2>2, <2>3 DEF Reading
<1>2. CASE Ask(r) \/ Authorized(r) \/ ReadEnds(r)
  BY <1>2 DEF Ask, Authorized, ReadEnds, Enter, RowsRead, ReadFails, ReadGoesOn, Admitted,
              Reading
<1> QED
  BY <1>1, <1>2 DEF ReadStep, Checked, Rechecked

\* What the look-ups of a query record.
LEMMA RecordedIs ==
    ASSUME TypeOK, NEW w \in Result, at[w] + 1 <= Len(about[w])
    PROVE  /\ about[w][at[w] + 1] \in Connection
           /\ Recorded(w) \in [Result -> Scope]
           /\ \A v \in Result \ {w} : Recorded(w)[v] = source[v]
<1> DEFINE c == about[w][at[w] + 1]
<1>1. c \in Connection
  <2>1. about[w] \in Seq(Connection) /\ at[w] \in Nat
    BY ArtifactsAssumption DEF TypeOK, Read
  <2> QED
    BY <2>1
<1> HIDE DEF c
<1>2. PICK k \in Setting : k = known[c]
  BY <1>1 DEF TypeOK
<1>3. PICK old \in Scope : old = source[w]
  BY DEF TypeOK
<1>4. Recorded(w) = [source EXCEPT ![w] = [old EXCEPT !.settings = [old.settings EXCEPT ![c] = k]]]
  BY <1>2, <1>3 DEF Recorded, c
<1>5. [old EXCEPT !.settings = [old.settings EXCEPT ![c] = k]] \in Scope
  BY <1>1 DEF Scope
<1>6. source \in [Result -> Scope]
  BY DEF TypeOK
<1> QED
  BY <1>1, <1>4, <1>5, <1>6 DEF c

\* The next look-up of a query, the last one or not.
LookUp(w) == Connect(w) \/ Query(w)

LEMMA LookUpEffect ==
    ASSUME TypeOK, NEW w \in Result, LookUp(w)
    PROVE  /\ source' \in [Result -> Scope] /\ at' \in [Read -> Nat]
           /\ write[w] = "new"
           /\ \A v \in Result \ {w} : source'[v] = source[v]
           /\ \A v \in Read \ {w} : at'[v] = at[v]
           /\ \E p \in {"new", "query"} : write' = [write EXCEPT ![w] = p]
           /\ UNCHANGED <<scopeVars, size, writes, waitingWrites, storeVars, read, target, since,
                          inside, closeVars>>
<1>0. w \in Read /\ at \in [Read -> Nat] /\ Len(about[w]) \in Nat
  BY ArtifactsAssumption DEF TypeOK, Read
<1>1. CASE Connect(w)
  <2>1. at[w] + 1 <= Len(about[w]) /\ source' = Recorded(w) /\ at' = [at EXCEPT ![w] = at[w] + 1]
    BY <1>0, <1>1 DEF Connect
  <2>2. at' \in [Read -> Nat] /\ \A v \in Read \ {w} : at'[v] = at[v]
    BY <1>0, <2>1
  <2>3. write = [write EXCEPT ![w] = "new"] /\ write[w] = "new"
    BY <1>1 DEF Connect, TypeOK
  <2> QED
    BY <1>1, <2>1, <2>2, <2>3, RecordedIs DEF Connect
<1>2. CASE Query(w)
  <2>1. /\ at[w] + 1 <= Len(about[w]) /\ at' = [at EXCEPT ![w] = 0]
        /\ source' = [Recorded(w) EXCEPT ![w].policy = policy]
    BY <1>0, <1>2 DEF Query
  <2>2. at' \in [Read -> Nat] /\ \A v \in Read \ {w} : at'[v] = at[v]
    BY <1>0, <2>1
  <2>3. PICK f \in [Result -> Scope] : f = Recorded(w)
    BY <2>1, RecordedIs
  <2>4. [f[w] EXCEPT !.policy = policy] \in Scope
    BY DEF TypeOK, Scope
  <2>5. source' = [f EXCEPT ![w] = [f[w] EXCEPT !.policy = policy]]
    BY <2>1, <2>3
  <2>6. source' \in [Result -> Scope] /\ \A v \in Result \ {w} : source'[v] = source[v]
    BY <2>1, <2>3, <2>4, <2>5, RecordedIs
  <2> QED
    BY <1>2, <2>2, <2>6 DEF Query
<1> QED
  BY <1>1, <1>2 DEF LookUp

\* What a step of a read makes of its own place and history.
LEMMA ReadTyped ==
    ASSUME TypeOK, NEW r \in Read, ReadStep(r)
    PROVE  /\ at' \in [Read -> Nat] /\ since' \in [Reader -> SUBSET Connection]
           /\ \A q \in Read \ {r} : at'[q] = at[q]
<1>0. at \in [Read -> Nat] /\ since \in [Reader -> SUBSET Connection]
  BY DEF TypeOK
<1>1. at' = [at EXCEPT ![r] = 0] \/ at' = [at EXCEPT ![r] = at[r] + 1]
  BY DEF ReadStep, Ask, Checked, Authorized, Rechecked, CompareScope, ReadEnds, Enter, RowsRead,
         ReadFails, ReadGoesOn
<1>2. at' \in [Read -> Nat] /\ \A q \in Read \ {r} : at'[q] = at[q]
  BY <1>0, <1>1
<1>3. since' = since \/ Watch(r)
  BY DEF ReadStep, Ask, Checked, Authorized, Rechecked, CompareScope, ReadEnds, Enter, RowsRead,
         ReadFails
<1>4. since' \in [Reader -> SUBSET Connection]
  BY <1>0, <1>3 DEF Watch, Agreeing
<1> QED
  BY <1>2, <1>4

\* A finished write counts down within the bounds.
LEMMA NextWriteTyped ==
    ASSUME TypeOK, Chain, writes # <<>>, NextWrite
    PROVE  writes' \in Seq(Result) /\ waitingWrites' \in 0..maxWaiting
<1>1. writes' \in Seq(Result) /\ Len(writes) \in Nat \ {0}
  BY DropFirst, EmptySeq DEF TypeOK, Chain, NextWrite
<1>2. waitingWrites = Len(writes) /\ waitingWrites' = waitingWrites - 1
      /\ waitingWrites \in 0..maxWaiting
  BY DEF TypeOK, Chain, NextWrite
<1> QED
  BY <1>1, <1>2, ArtifactsAssumption

\* Every step keeps the state well formed.
LEMMA TypedStep == ASSUME IInv, [Next]_vars PROVE TypeOK'
<1> USE DEF IInv
<1> DEFINE A == {"writer", "sweep"}
<1>1. CASE UNCHANGED vars
  BY <1>1 DEF TypeOK, vars, writeVars, scopeVars, storeVars, readVars, closeVars
<1>2. ASSUME NEW w \in Result, Connect(w) \/ Query(w) \/ Save(w) PROVE TypeOK'
  <2>0. w \in Result
    BY <1>2
  <2>1. CASE LookUp(w)
    <3>1. write' \in [Result -> Written]
      BY <2>1, LookUpEffect DEF TypeOK, Written
    <3> QED
      BY <2>1, <3>1, LookUpEffect DEF TypeOK, scopeVars, storeVars, closeVars
  <2>2. CASE Save(w)
    <3>0. maxWaiting \in Nat
      BY ArtifactsAssumption
    <3>1. writes' \in Seq(Result) /\ waitingWrites' \in 0..maxWaiting
      <4>1. CASE closed \/ waitingWrites >= maxWaiting
        BY <2>2, <4>1 DEF TypeOK, Save
      <4>2. CASE ~(closed \/ waitingWrites >= maxWaiting)
        <5>1. writes' = Append(writes, w) /\ waitingWrites' = waitingWrites + 1
          BY <2>2, <4>2 DEF Save
        <5> QED
          BY <2>0, <3>0, <4>2, <5>1 DEF TypeOK
      <4> QED
        BY <4>1, <4>2
    <3>2. write' \in [Result -> Written] /\ size' \in [Result -> Sizes \cup {0}]
      <4>1. PICK n \in Sizes : size' = [size EXCEPT ![w] = n]
        BY <2>2 DEF Save
      <4>2. \E s \in {"queued", "failed"} : write' = [write EXCEPT ![w] = s]
        BY <2>2 DEF Save
      <4>3. size' \in [Result -> Sizes \cup {0}]
        BY <2>0, <4>1 DEF TypeOK
      <4>4. write' \in [Result -> Written]
        BY <2>0, <4>2 DEF TypeOK, Written
      <4> QED
        BY <4>3, <4>4
    <3> QED
      BY <2>2, <3>1, <3>2 DEF TypeOK, Save, scopeVars, storeVars, readVars, closeVars
  <2> QED
    BY <1>2, <2>1, <2>2 DEF LookUp
<1>3. ASSUME NEW w \in Result, StartWrite(w) PROVE TypeOK'
  <2>1. CASE size[w] > quota
    <3>1. writes' \in Seq(Result) /\ waitingWrites' \in 0..maxWaiting
      BY <1>3, <2>1, NextWriteTyped DEF StartWrite
    <3>2. write' \in [Result -> Written]
      BY <1>3, <2>1 DEF TypeOK, StartWrite, Written
    <3> QED
      BY <1>3, <2>1, <3>1, <3>2 DEF TypeOK, scopeVars, StartWrite, readVars, closeVars
  <2>2. CASE ~(size[w] > quota)
    <3>1. Reserve(w, "expire") /\ UNCHANGED <<writes, waitingWrites>>
      BY <1>3, <2>2 DEF StartWrite
    <3>2. Moves("writer") /\ \E p \in {"expire", "evict", "create"} :
                                write' = [write EXCEPT ![w] = p]
      BY <1>3, <3>1, ReserveEffect
    <3>3. entries' \in Seq(Result) /\ removing' \in [A -> SUBSET Result]
      BY <3>2, MovesTyped
    <3>4. write' \in [Result -> Written]
      BY <1>3, <3>2 DEF TypeOK, Written, Writing
    <3> QED
      BY <1>3, <3>1, <3>3, <3>4 DEF TypeOK, scopeVars, StartWrite, readVars, closeVars
  <2> QED
    BY <2>1, <2>2
<1>4. CASE WriterUnlinked
  <2>0. writes # <<>> /\ Head(writes) \in Result
    BY <1>4, DropFirst DEF WriterUnlinked, Unlinked, TypeOK, Chain
  <2>1. Reserve(Head(writes), write[Head(writes)])
    BY <1>4 DEF WriterUnlinked
  <2>2. Moves("writer") /\ \E p \in {"expire", "evict", "create"} :
                              write' = [write EXCEPT ![Head(writes)] = p]
    BY <2>0, <2>1, ReserveEffect
  <2>3. entries' \in Seq(Result) /\ removing' \in [A -> SUBSET Result]
    BY <2>2, MovesTyped
  <2>4. write' \in [Result -> Written]
    BY <2>0, <2>2 DEF TypeOK, Written, Writing
  <2>5. files' \subseteq Result /\ lost' \subseteq Result
    BY <1>4 DEF TypeOK, WriterUnlinked, Unlinked
  <2> QED
    BY <1>4, <2>3, <2>4, <2>5 DEF TypeOK, scopeVars, WriterUnlinked, readVars, closeVars
<1>5. ASSUME NEW w \in Result, Create(w) PROVE TypeOK'
  <2>1. write' \in [Result -> Written] /\ files' \subseteq Result
    BY <1>5 DEF TypeOK, Create, Written, Writing
  <2> QED
    BY <1>5, <2>1 DEF TypeOK, scopeVars, Create, readVars, closeVars
<1>6. ASSUME NEW w \in Result, WriteFails(w) PROVE TypeOK'
  <2>1. writes # <<>>
    BY <1>6, HeadOfChain DEF WriteFails, Writing
  <2>2. writes' \in Seq(Result) /\ waitingWrites' \in 0..maxWaiting
    BY <1>6, <2>1, NextWriteTyped DEF WriteFails
  <2>3. write' \in [Result -> Written] /\ lost' \subseteq Result
    BY <1>6 DEF TypeOK, WriteFails, Written
  <2> QED
    BY <1>6, <2>2, <2>3 DEF TypeOK, scopeVars, WriteFails, readVars, closeVars
<1>7. ASSUME NEW w \in Result, Store(w) PROVE TypeOK'
  <2>1. writes # <<>>
    BY <1>7, HeadOfChain DEF Store, Writing
  <2>2. writes' \in Seq(Result) /\ waitingWrites' \in 0..maxWaiting
    BY <1>7, <2>1, NextWriteTyped DEF Store
  <2>3. write' \in [Result -> Written] /\ read' \in [Read -> Reading]
    <3> HIDE DEF Read
    <3>1. Admitted \in Reading
      BY DEF Admitted, Reading
    <3> QED
      BY <1>7, <3>1 DEF TypeOK, Store, Written
  <2>4. entries' \in Seq(Result)
    BY <1>7 DEF TypeOK, Store
  <2> QED
    BY <1>7, <2>2, <2>3, <2>4 DEF TypeOK, scopeVars, Store, closeVars
<1>8. CASE SweepStarts \/ SweepUnlinked
  <2>1. Moves("sweep")
    BY <1>8 DEF SweepStarts, SweepUnlinked, Moves, HeadExpired
  <2>2. entries' \in Seq(Result) /\ removing' \in [A -> SUBSET Result]
    BY <2>1, MovesTyped
  <2>3. files' \subseteq Result /\ lost' \subseteq Result
    BY <1>8 DEF TypeOK, SweepStarts, SweepUnlinked, Unlinked
  <2> QED
    BY <1>8, <2>2, <2>3 DEF TypeOK, SweepStarts, SweepUnlinked, scopeVars, writeVars, readVars, closeVars
<1>9. CASE TimePasses
  <2>1. expired' \subseteq Result
    BY <1>9 DEF TypeOK, TimePasses
  <2> QED
    BY <1>9, <2>1 DEF TypeOK, TimePasses, scopeVars, writeVars, readVars, closeVars
<1>10. ASSUME NEW r \in Read,
              ReadStep(r)
       PROVE  TypeOK'
  <2>1. /\ UNCHANGED <<scopeVars, writeVars, storeVars, target, closeVars>>
        /\ \E p \in Reading : read' = [read EXCEPT ![r] = p]
    BY <1>10, ReadEffect
  <2>2. read' \in [Read -> Reading]
    BY <1>10, <2>1 DEF TypeOK
  <2>3. inside' \subseteq Read
    BY <1>10 DEF TypeOK, ReadStep, Ask, Checked, Authorized, Rechecked, CompareScope, ReadEnds,
                 Enter, RowsRead, ReadFails, ReadGate!Take, ReadGate!GiveBack
  <2> QED
    BY <1>10, <2>1, <2>2, <2>3, ReadTyped DEF TypeOK, scopeVars, writeVars, storeVars, closeVars
<1>11. CASE Close \/ RemoveDirectory
  <2>1. <<>> \in Seq(Result)
    BY EmptySeq
  <2> QED
    BY <1>11, <2>1 DEF TypeOK, Close, RemoveDirectory, scopeVars, writeVars, storeVars, readVars,
                       closeVars
<1>12. CASE PolicyEdited \/ Reloaded
  <2>1. policy' \in Policy /\ known' \in [Connection -> Setting] /\ edits' \in 0..Edits
    BY <1>12, ArtifactsAssumption DEF TypeOK, PolicyEdited, Reloaded
  <2>2. since' \in [Reader -> SUBSET Connection]
    <3>1. CASE PolicyEdited
      BY <3>1 DEF PolicyEdited, readVars, TypeOK
    <3>2. CASE Reloaded
      BY <3>2 DEF Reloaded, Agreeing, TypeOK
    <3> QED
      BY <1>12, <3>1, <3>2
  <2> QED
    BY <1>12, <2>1, <2>2 DEF TypeOK, PolicyEdited, Reloaded, writeVars, storeVars, readVars,
                             closeVars
<1> QED
  BY <1>1, <1>2, <1>3, <1>4, <1>5, <1>6, <1>7, <1>8, <1>9, <1>10, <1>11, <1>12
  DEF Next, WriteEnds, ReadStep

-----------------------------------------------------------------------------
\* The head of the chain ends its write, well or not.
LEMMA ChainAdvances ==
    ASSUME TypeOK, Chain, NEW w \in Result, writes # <<>>, w = Head(writes), NextWrite,
           NEW s \in {"stored", "failed"}, write' = [write EXCEPT ![w] = s],
           removing'["writer"] = {}
    PROVE  Chain'
<1>1. /\ Tail(writes) \in Seq(Result) /\ Distinct(Tail(writes))
      /\ Len(Tail(writes)) = Len(writes) - 1
      /\ Range(Tail(writes)) = Range(writes) \ {w}
  BY DropFirst DEF TypeOK, Chain
<1>2. writes' = Tail(writes) /\ waitingWrites' = waitingWrites - 1
  BY DEF NextWrite
<1>3. \A v \in Result : v # w => write'[v] = write[v] /\ write[v] \notin Writing
  BY DEF TypeOK, Chain
<1>4. write'[w] = s
  BY DEF TypeOK
<1>5. Distinct(writes') /\ waitingWrites' = Len(writes')
  BY <1>1, <1>2 DEF Chain
<1>6. \A v \in Result : v \in Range(writes') <=> write'[v] \in {"queued"} \cup Writing
  BY <1>1, <1>2, <1>3, <1>4 DEF Chain, Writing
<1>7. \A v \in Result : write'[v] \notin Writing
  BY <1>3, <1>4 DEF Writing
<1> QED
  BY <1>5, <1>6, <1>7 DEF Chain

\* The head of the chain goes on writing.
LEMMA ChainWrites ==
    ASSUME TypeOK, Chain, NEW w \in Result, writes # <<>>, w = Head(writes),
           write[w] \in {"queued"} \cup Writing,
           UNCHANGED <<writes, waitingWrites>>,
           NEW s \in Writing, write' = [write EXCEPT ![w] = s],
           removing'["writer"] # {} => s \in {"expire", "evict"}
    PROVE  Chain'
<1>1. \A v \in Result : v # w => write'[v] = write[v]
  BY DEF TypeOK
<1>2. write'[w] = s
  BY DEF TypeOK
<1>3. \A v \in Result : v \in Range(writes') <=> write'[v] \in {"queued"} \cup Writing
  BY <1>1, <1>2 DEF Chain
<1> QED
  BY <1>1, <1>2, <1>3 DEF Chain

\* The chain stays well formed.
LEMMA ChainStep == ASSUME IInv, [Next]_vars PROVE Chain'
<1> USE DEF IInv
<1>1. CASE UNCHANGED vars
  BY <1>1 DEF Chain, vars, writeVars, storeVars
<1>2. ASSUME NEW w \in Result, LookUp(w) PROVE Chain'
  <2>1. \A v \in Result : \/ write'[v] = write[v]
                          \/ write[v] = "new" /\ write'[v] = "query"
    BY <1>2, LookUpEffect DEF TypeOK
  <2>2. UNCHANGED <<writes, waitingWrites, removing>>
    BY <1>2, LookUpEffect DEF storeVars
  <2>3. writes # <<>> => Head(writes) \in Result
    BY DropFirst DEF TypeOK, Chain
  <2> QED
    BY <2>1, <2>2, <2>3 DEF Chain, Writing
<1>3. ASSUME NEW w \in Result, Save(w) PROVE Chain'
  <2>0. UNCHANGED removing /\ write[w] = "query" /\ w \notin Range(writes)
    BY <1>3 DEF Save, storeVars, Chain, Writing
  <2>00. writes # <<>> => Head(writes) \in Result
    BY DropFirst DEF TypeOK, Chain
  <2>1. CASE closed \/ waitingWrites >= maxWaiting
    <3>1. UNCHANGED <<writes, waitingWrites>> /\ write' = [write EXCEPT ![w] = "failed"]
      BY <1>3, <2>1 DEF Save
    <3>2. \A v \in Result : \/ write'[v] = write[v]
                            \/ write[v] = "query" /\ write'[v] = "failed"
      BY <2>0, <3>1 DEF TypeOK
    <3> QED
      BY <2>0, <2>00, <3>1, <3>2 DEF Chain, Writing
  <2>2. CASE ~(closed \/ waitingWrites >= maxWaiting)
    <3>1. /\ write' = [write EXCEPT ![w] = "queued"]
          /\ writes' = Append(writes, w) /\ waitingWrites' = waitingWrites + 1
      BY <1>3, <2>2 DEF Save
    <3>2. /\ Distinct(writes') /\ Len(writes') = Len(writes) + 1 /\ writes' # <<>>
          /\ Range(writes') = Range(writes) \cup {w}
          /\ Head(writes') = IF writes = <<>> THEN w ELSE Head(writes)
      BY <1>3, <2>0, <3>1, AddLast DEF TypeOK, Chain
    <3>3. \A v \in Result : write'[v] = IF v = w THEN "queued" ELSE write[v]
      BY <3>1 DEF TypeOK
    <3>4. \A v \in Result : write'[v] \in Writing => v = Head(writes')
      <4> SUFFICES ASSUME NEW v \in Result, write'[v] \in Writing PROVE v = Head(writes')
        OBVIOUS
      <4>1. write[v] \in Writing
        BY <3>3 DEF Writing
      <4> QED
        BY <4>1, <3>2, HeadOfChain
    <3>5. \A v \in Result : v \in Range(writes') <=> write'[v] \in {"queued"} \cup Writing
      BY <3>2, <3>3 DEF Chain
    <3>6. removing'["writer"] # {} =>
             writes' # <<>> /\ write'[Head(writes')] \in {"expire", "evict"}
      BY <2>0, <2>00, <3>2, <3>3 DEF Chain
    <3> QED
      BY <3>1, <3>2, <3>4, <3>5, <3>6 DEF Chain
  <2> QED
    BY <2>1, <2>2
<1>4. ASSUME NEW w \in Result, StartWrite(w) PROVE Chain'
  <2>1. writes # <<>> /\ w = Head(writes) /\ write[w] = "queued"
    BY <1>4 DEF StartWrite
  <2>2. removing["writer"] = {}
    BY <2>1 DEF Chain
  <2>3. CASE size[w] > quota
    BY <1>4, <2>1, <2>2, <2>3, ChainAdvances DEF StartWrite
  <2>4. CASE ~(size[w] > quota)
    <3>1. Reserve(w, "expire") /\ UNCHANGED <<writes, waitingWrites>>
      BY <1>4, <2>4 DEF StartWrite
    <3>2. PICK p \in {"expire", "evict", "create"} :
             /\ write' = [write EXCEPT ![w] = p]
             /\ p = "create" => removing' = [removing EXCEPT !["writer"] = {}]
      BY <1>4, <3>1, ReserveEffect
    <3>3. p = "create" => removing'["writer"] = {}
      BY <3>2 DEF TypeOK
    <3> QED
      BY <1>4, <2>1, <3>1, <3>2, <3>3, ChainWrites DEF Writing
  <2> QED
    BY <2>3, <2>4
<1>5. CASE WriterUnlinked
  <2> DEFINE w == Head(writes)
  <2>1. writes # <<>> /\ w \in Result /\ write[w] \in {"expire", "evict"}
    BY <1>5, DropFirst DEF WriterUnlinked, Unlinked, TypeOK, Chain
  <2>2. Reserve(w, write[w]) /\ UNCHANGED <<writes, waitingWrites>>
    BY <1>5 DEF WriterUnlinked
  <2> HIDE DEF w
  <2>3. PICK p \in {"expire", "evict", "create"} :
           /\ write' = [write EXCEPT ![w] = p]
           /\ p = "create" => removing' = [removing EXCEPT !["writer"] = {}]
    BY <2>1, <2>2, ReserveEffect
  <2>4. p = "create" => removing'["writer"] = {}
    BY <2>3 DEF TypeOK
  <2>5. w = Head(writes)
    BY DEF w
  <2> QED
    BY <2>1, <2>2, <2>3, <2>4, <2>5, ChainWrites DEF Writing
<1>6. ASSUME NEW w \in Result, Create(w) \/ WriteFails(w) \/ Store(w) PROVE Chain'
  <2>1. writes # <<>> /\ w = Head(writes) /\ write[w] \in {"create", "write"}
    BY <1>6, HeadOfChain DEF Create, WriteFails, Store, Writing
  <2>2. removing["writer"] = {} /\ removing' = removing
    BY <1>6, <2>1 DEF Chain, Create, WriteFails, Store
  <2>3. CASE Create(w)
    BY <1>6, <2>1, <2>2, <2>3, ChainWrites DEF Create, Writing
  <2>4. CASE WriteFails(w) \/ Store(w)
    BY <1>6, <2>1, <2>2, <2>4, ChainAdvances DEF WriteFails, Store
  <2> QED
    BY <1>6, <2>3, <2>4
<1>7. CASE SweepStarts \/ SweepUnlinked
  <2>1. removing'["writer"] = removing["writer"]
    BY <1>7 DEF TypeOK, SweepStarts, SweepUnlinked, RemoveOldest
  <2> QED
    BY <1>7, <2>1 DEF Chain, SweepStarts, SweepUnlinked, writeVars
<1>8. ASSUME NEW r \in Read, ReadStep(r) PROVE Chain'
  BY <1>8, ReadEffect DEF Chain, writeVars, storeVars
<1>9. CASE TimePasses \/ Close \/ RemoveDirectory \/ PolicyEdited \/ Reloaded
  BY <1>9 DEF Chain, TimePasses, Close, RemoveDirectory, PolicyEdited, Reloaded, writeVars, storeVars
<1> QED
  BY <1>1, <1>2, <1>3, <1>4, <1>5, <1>6, <1>7, <1>8, <1>9 DEF Next, WriteEnds, ReadStep, LookUp

-----------------------------------------------------------------------------
\* An actor ends one unlink, if it had one, and begins the next, if any.
LEMMA ShelfMoves ==
    ASSUME TypeOK, Shelf, NEW a \in {"writer", "sweep"}, Moves(a),
           Unlinked(a) \/ (removing[a] = {} /\ UNCHANGED <<files, lost>>),
           \A w \in Result : \A s \in {"stored", "write"} : write'[w] = s <=> write[w] = s
    PROVE  Shelf'
<1> DEFINE A == {"writer", "sweep"}
<1>1. \/ files' = files \ removing[a] /\ lost' = lost
      \/ files' = files /\ lost' = lost \cup (files \cap removing[a])
  BY DEF Unlinked
<1>3. \A w \in files' : w \in files /\ (w \in removing[a] => w \in lost')
  BY <1>1
<1>4. Listed \subseteq Result /\ \A w \in Listed : w \notin removing[a]
  BY RangeOfSeq DEF TypeOK, Shelf, Listed
<1>5. \A w \in lost : w \in lost'
  BY <1>1
<1>6. \A b \in A : removing[b] \subseteq Result
  BY DEF TypeOK
<1>9. \A w \in Result : write'[w] = "write" => w \in files'
  BY <1>1 DEF Shelf
<1>7. CASE entries # <<>> /\ RemoveOldest(a)
  <2> DEFINE h == Head(entries)
  <2>1. /\ Distinct(Tail(entries)) /\ h \in Listed
        /\ Range(Tail(entries)) = Listed \ {h}
    BY <1>7, DropFirst DEF TypeOK, Shelf, Listed
  <2>2. entries' = Tail(entries) /\ removing' = [removing EXCEPT ![a] = {h}]
    BY <1>7 DEF RemoveOldest
  <2> HIDE DEF h
  <2>3. Listed' = Listed \ {h}
    BY <2>1, <2>2 DEF Listed
  <2>4. removing'[a] = {h} /\ \A b \in A : b # a => removing'[b] = removing[b]
    BY <2>2 DEF TypeOK
  <2>5. \A w \in Listed' : write'[w] = "stored" /\ w \in files'
    BY <1>1, <1>4, <2>3 DEF Shelf
  <2>6. \A b \in A : \A w \in removing'[b] : write'[w] = "stored" /\ w \notin Listed'
    <3> SUFFICES ASSUME NEW b \in A, NEW w \in removing'[b]
                 PROVE  write'[w] = "stored" /\ w \notin Listed'
      OBVIOUS
    <3>1. CASE b = a
      BY <1>4, <2>1, <2>3, <2>4, <3>1 DEF Shelf
    <3>2. CASE b # a
      BY <1>6, <2>3, <2>4, <3>2 DEF Shelf
    <3> QED
      BY <3>1, <3>2
  <2>7. \A w \in files' : \/ w \in Listed' \/ write'[w] = "write" \/ w \in lost'
                          \/ w \in removing'["writer"] \/ w \in removing'["sweep"]
    <3> SUFFICES ASSUME NEW w \in files'
                 PROVE  \/ w \in Listed' \/ write'[w] = "write" \/ w \in lost'
                        \/ \E b \in A : w \in removing'[b]
      OBVIOUS
    <3>1. w \in files /\ w \in Result /\ (w \in removing[a] => w \in lost')
      BY <1>3 DEF TypeOK
    <3>2. w \in Listed \/ write[w] = "write" \/ w \in lost \/ \E b \in A : w \in removing[b]
      BY <3>1 DEF Shelf
    <3>3. CASE w \in Listed
      BY <2>3, <2>4, <3>3
    <3>4. CASE write[w] = "write"
      BY <3>1, <3>4
    <3>5. CASE w \in lost
      BY <1>5, <3>5
    <3>6. CASE \E b \in A : w \in removing[b]
      BY <2>4, <3>1, <3>6
    <3> QED
      BY <3>2, <3>3, <3>4, <3>5, <3>6
  <2>8. Distinct(entries')
    BY <2>1, <2>2
  <2> QED
    BY <1>9, <2>5, <2>6, <2>7, <2>8 DEF Shelf
<1>8. CASE entries' = entries /\ removing' = [removing EXCEPT ![a] = {}]
  <2>1. removing'[a] = {} /\ \A b \in A : b # a => removing'[b] = removing[b]
    BY <1>8 DEF TypeOK
  <2>2. Listed' = Listed
    BY <1>8 DEF Listed
  <2>3. \A w \in Listed' : write'[w] = "stored" /\ w \in files'
    BY <1>1, <1>4, <2>2 DEF Shelf
  <2>4. \A b \in A : \A w \in removing'[b] : write'[w] = "stored" /\ w \notin Listed'
    BY <1>6, <2>1, <2>2 DEF Shelf
  <2>5. \A w \in files' : \/ w \in Listed' \/ write'[w] = "write" \/ w \in lost'
                          \/ w \in removing'["writer"] \/ w \in removing'["sweep"]
    <3> SUFFICES ASSUME NEW w \in files'
                 PROVE  \/ w \in Listed' \/ write'[w] = "write" \/ w \in lost'
                        \/ \E b \in A : w \in removing'[b]
      OBVIOUS
    <3>1. w \in files /\ w \in Result /\ (w \in removing[a] => w \in lost')
      BY <1>3 DEF TypeOK
    <3>2. w \in Listed \/ write[w] = "write" \/ w \in lost \/ \E b \in A : w \in removing[b]
      BY <3>1 DEF Shelf
    <3> QED
      BY <1>5, <2>1, <2>2, <3>1, <3>2
  <2> QED
    BY <1>8, <1>9, <2>3, <2>4, <2>5 DEF Shelf
<1> QED
  BY <1>7, <1>8 DEF Moves

\* List and directory stay together.
LEMMA ShelfStep == ASSUME IInv, [Next]_vars PROVE Shelf'
<1> USE DEF IInv
<1>0. Listed \subseteq Result /\ \A a \in {"writer", "sweep"} : removing[a] \subseteq Result
  BY RangeOfSeq DEF TypeOK, Listed
<1>1. CASE UNCHANGED vars
  BY <1>1 DEF Shelf, Listed, vars, writeVars, storeVars
<1>2. ASSUME NEW w \in Result, LookUp(w) \/ Save(w) PROVE Shelf'
  <2>1. UNCHANGED storeVars /\ \E s \in {"new", "query", "queued", "failed"} :
           write' = [write EXCEPT ![w] = s]
    BY <1>2, LookUpEffect DEF Save
  <2>2. write[w] \in {"new", "query"}
    BY <1>2, LookUpEffect DEF Save
  <2>3. \A v \in Result : \A s \in {"stored", "write"} : write'[v] = s <=> write[v] = s
    BY <2>1, <2>2 DEF TypeOK
  <2> QED
    BY <1>0, <2>1, <2>3 DEF Shelf, Listed, storeVars, TypeOK
<1>3. ASSUME NEW w \in Result, StartWrite(w) PROVE Shelf'
  <2>1. writes # <<>> /\ w = Head(writes) /\ write[w] = "queued"
    BY <1>3 DEF StartWrite
  <2>2. removing["writer"] = {}
    BY <2>1 DEF Chain
  <2>3. CASE size[w] > quota
    <3>1. write' = [write EXCEPT ![w] = "failed"] /\ UNCHANGED <<entries, removing, files, lost>>
      BY <1>3, <2>3 DEF StartWrite
    <3>2. \A v \in Result : \A s \in {"stored", "write"} : write'[v] = s <=> write[v] = s
      BY <2>1, <3>1 DEF TypeOK
    <3> QED
      BY <1>0, <3>1, <3>2 DEF Shelf, Listed, TypeOK
  <2>4. CASE ~(size[w] > quota)
    <3>1. Reserve(w, "expire") /\ UNCHANGED <<files, lost>>
      BY <1>3, <2>4 DEF StartWrite
    <3>2. Moves("writer") /\ \E p \in {"expire", "evict", "create"} :
                                write' = [write EXCEPT ![w] = p]
      BY <1>3, <3>1, ReserveEffect
    <3>3. \A v \in Result : \A s \in {"stored", "write"} : write'[v] = s <=> write[v] = s
      BY <2>1, <3>2 DEF TypeOK
    <3> QED
      BY <2>2, <3>1, <3>2, <3>3, ShelfMoves
  <2> QED
    BY <2>3, <2>4
<1>4. CASE WriterUnlinked
  <2> DEFINE w == Head(writes)
  <2>1. writes # <<>> /\ w \in Result /\ write[w] \in {"expire", "evict"}
    BY <1>4, DropFirst DEF WriterUnlinked, Unlinked, TypeOK, Chain
  <2>2. Reserve(w, write[w]) /\ Unlinked("writer")
    BY <1>4 DEF WriterUnlinked
  <2> HIDE DEF w
  <2>3. Moves("writer") /\ \E p \in {"expire", "evict", "create"} :
                              write' = [write EXCEPT ![w] = p]
    BY <2>1, <2>2, ReserveEffect
  <2>4. \A v \in Result : \A s \in {"stored", "write"} : write'[v] = s <=> write[v] = s
    BY <2>1, <2>3 DEF TypeOK
  <2> QED
    BY <2>2, <2>3, <2>4, ShelfMoves
<1>5. ASSUME NEW w \in Result, Create(w) PROVE Shelf'
  <2>1. /\ write[w] = "create" /\ write' = [write EXCEPT ![w] = "write"]
        /\ files' = files \cup {w} /\ UNCHANGED <<entries, removing, lost>>
    BY <1>5 DEF Create
  <2>2. write'[w] = "write" /\ \A v \in Result : v # w => write'[v] = write[v]
    BY <2>1 DEF TypeOK
  <2>3. w \notin Listed /\ \A a \in {"writer", "sweep"} : w \notin removing[a]
    BY <2>1 DEF Shelf
  <2> QED
    BY <1>0, <2>1, <2>2, <2>3 DEF Shelf, Listed, TypeOK
<1>6. ASSUME NEW w \in Result, WriteFails(w) PROVE Shelf'
  <2>1. /\ write[w] \in {"create", "write"} /\ write' = [write EXCEPT ![w] = "failed"]
        /\ lost' = IF write[w] = "write" THEN lost \cup {w} ELSE lost
        /\ UNCHANGED <<entries, removing, files>>
    BY <1>6 DEF WriteFails
  <2>2. write'[w] = "failed" /\ \A v \in Result : v # w => write'[v] = write[v]
    BY <2>1 DEF TypeOK
  <2>3. w \notin Listed /\ \A a \in {"writer", "sweep"} : w \notin removing[a]
    BY <2>1 DEF Shelf
  <2> QED
    BY <1>0, <2>1, <2>2, <2>3 DEF Shelf, Listed, TypeOK
<1>7. ASSUME NEW w \in Result, Store(w) PROVE Shelf'
  <2>1. /\ write[w] = "write" /\ write' = [write EXCEPT ![w] = "stored"]
        /\ entries' = Append(entries, w) /\ UNCHANGED <<removing, files, lost>>
    BY <1>7 DEF Store
  <2>2. write'[w] = "stored" /\ \A v \in Result : v # w => write'[v] = write[v]
    BY <2>1 DEF TypeOK
  <2>3. w \notin Listed /\ \A a \in {"writer", "sweep"} : w \notin removing[a]
    BY <2>1 DEF Shelf
  <2>4. Distinct(entries') /\ Listed' = Listed \cup {w}
    BY <1>7, <2>1, <2>3, AddLast DEF TypeOK, Shelf, Listed
  <2>5. w \in files
    BY <2>1 DEF Shelf
  <2> QED
    BY <1>0, <2>1, <2>2, <2>3, <2>4, <2>5 DEF Shelf, TypeOK
<1>8. CASE SweepStarts \/ SweepUnlinked
  <2>1. Moves("sweep")
    BY <1>8 DEF SweepStarts, SweepUnlinked, Moves, HeadExpired
  <2>2. UNCHANGED write
    BY <1>8 DEF SweepStarts, SweepUnlinked, writeVars
  <2>3. Unlinked("sweep") \/ (removing["sweep"] = {} /\ UNCHANGED <<files, lost>>)
    BY <1>8 DEF SweepStarts, SweepUnlinked
  <2> QED
    BY <2>1, <2>2, <2>3, ShelfMoves
<1>9. ASSUME NEW r \in Read, ReadStep(r) PROVE Shelf'
  BY <1>9, ReadEffect DEF Shelf, Listed, writeVars, storeVars
<1>10. CASE RemoveDirectory
  <2>1. entries' = <<>> /\ files' = {} /\ UNCHANGED <<write, removing>>
    BY <1>10 DEF RemoveDirectory, writeVars
  <2>2. 1..Len(<<>>) = {}
    BY EmptySeq
  <2>3. Distinct(entries')
    BY <2>1, <2>2 DEF Distinct
  <2>4. Range(<<>>) = {}
    BY <2>2, EmptySeq DEF Range
  <2>5. \A w \in Result : write[w] # "write"
    BY <1>10, HeadOfChain DEF RemoveDirectory, Writing
  <2> QED
    BY <2>1, <2>3, <2>4, <2>5 DEF Shelf, Listed, TypeOK
<1>11. CASE TimePasses \/ Close \/ PolicyEdited \/ Reloaded
  BY <1>11 DEF Shelf, Listed, TimePasses, Close, PolicyEdited, Reloaded, writeVars, storeVars
<1> QED
  BY <1>1, <1>2, <1>3, <1>4, <1>5, <1>6, <1>7, <1>8, <1>9, <1>10, <1>11
  DEF Next, WriteEnds, ReadStep, LookUp

-----------------------------------------------------------------------------
\* Nothing moves behind the closed doors.
LEMMA DoorsStep == ASSUME IInv, [Next]_vars PROVE Doors'
<1> USE DEF IInv
<1>0. \A w \in Result : write[w] \in {"queued"} \cup Writing => writes # <<>>
  <2> SUFFICES ASSUME NEW w \in Result, write[w] \in {"queued"} \cup Writing, writes = <<>>
               PROVE  FALSE
    OBVIOUS
  <2>1. w \in Range(writes)
    BY DEF Chain
  <2>2. 1..Len(writes) = {} /\ DOMAIN writes = 1..Len(writes)
    BY EmptySeq
  <2> QED
    BY <2>1, <2>2 DEF Range
<1>00. Result \subseteq Read /\ \A w \in Result : w \notin Reader
  BY ArtifactsAssumption DEF Read
<1>1. CASE UNCHANGED vars
  BY <1>1 DEF Doors, vars, writeVars, storeVars, readVars, closeVars
<1>2. ASSUME NEW w \in Result, LookUp(w) PROVE Doors'
  <2>1. \E p \in {"new", "query"} : write' = [write EXCEPT ![w] = p]
    BY <1>2, LookUpEffect
  <2>2. write[w] = "new" /\ UNCHANGED <<writes, storeVars, read, inside, closeVars>>
    BY <1>2, LookUpEffect
  <2> QED
    BY <2>1, <2>2 DEF Doors, TypeOK, storeVars, closeVars
<1>3. ASSUME NEW w \in Result, Save(w) PROVE Doors'
  BY <1>3 DEF Doors, Save, TypeOK, storeVars, readVars, closeVars
<1>4. ASSUME NEW w \in Result, StartWrite(w) PROVE Doors'
  <2>1. ~gone /\ ~gone'
    BY <1>4 DEF StartWrite, Doors, closeVars
  <2>2. UNCHANGED readVars /\ \E s \in {"failed", "expire", "evict", "create"} :
                                write' = [write EXCEPT ![w] = s]
    BY <1>4 DEF StartWrite, Reserve
  <2>3. write[w] = "queued"
    BY <1>4 DEF StartWrite
  <2> QED
    BY <2>1, <2>2, <2>3 DEF Doors, TypeOK, readVars
<1>5. CASE WriterUnlinked
  <2>1. writes # <<>> /\ Head(writes) \in Result
        /\ write[Head(writes)] \in {"expire", "evict"}
    BY <1>5, DropFirst DEF WriterUnlinked, Unlinked, TypeOK, Chain
  <2>2. ~gone /\ ~gone' /\ UNCHANGED readVars
    BY <1>5, <2>1 DEF WriterUnlinked, Doors, closeVars
  <2>3. \E s \in {"expire", "evict", "create"} : write' = [write EXCEPT ![Head(writes)] = s]
    BY <1>5 DEF WriterUnlinked, Reserve
  <2> QED
    BY <2>1, <2>2, <2>3 DEF Doors, TypeOK, readVars
<1>6. ASSUME NEW w \in Result, Create(w) \/ WriteFails(w) PROVE Doors'
  <2>1. write[w] \in {"create", "write"}
    BY <1>6 DEF Create, WriteFails
  <2>2. ~gone /\ ~gone' /\ UNCHANGED readVars
    BY <1>0, <1>6, <2>1 DEF Create, WriteFails, Doors, Writing, closeVars
  <2>3. \E s \in {"write", "failed"} : write' = [write EXCEPT ![w] = s]
    BY <1>6 DEF Create, WriteFails
  <2> QED
    BY <2>1, <2>2, <2>3 DEF Doors, TypeOK, readVars
<1>7. ASSUME NEW w \in Result, Store(w) PROVE Doors'
  <2>1. write[w] = "write" /\ read[w] = "none"
    BY <1>7 DEF Store, Doors
  <2>2. ~gone /\ ~gone' /\ UNCHANGED inside
    BY <1>0, <1>7, <2>1 DEF Store, Doors, Writing, closeVars
  <2>3. /\ write' = [write EXCEPT ![w] = "stored"]
        /\ \E p \in {"none", "gate"} : read' = [read EXCEPT ![w] = p]
    BY <1>7 DEF Store, Admitted
  <2>4. \A r \in Read : read'[r] = "read" <=> read[r] = "read"
    BY <1>00, <2>1, <2>3 DEF TypeOK
  <2>5. \A v \in Result : write'[v] # "stored" => write[v] # "stored" /\ read'[v] = read[v]
    BY <1>00, <2>3 DEF TypeOK
  <2> QED
    BY <2>2, <2>4, <2>5 DEF Doors
<1>8. CASE SweepStarts \/ SweepUnlinked
  <2>1. UNCHANGED <<writeVars, readVars, closeVars>>
    BY <1>8 DEF SweepStarts, SweepUnlinked
  <2>2. gone => entries' = <<>> /\ files' = {}
    BY <1>8 DEF SweepStarts, SweepUnlinked, Unlinked, HeadExpired, Doors
  <2> QED
    BY <2>1, <2>2 DEF Doors, writeVars, readVars, closeVars
<1>9. ASSUME NEW r \in Read, ReadStep(r) PROVE Doors'
  <2>0. UNCHANGED <<writeVars, storeVars, closeVars>>
    BY <1>9, ReadEffect
  <2>1. PICK p \in Reading : read' = [read EXCEPT ![r] = p]
    BY <1>9, ReadEffect
  <2>2. r \in Reader \/ read[r] # "none"
    BY <1>9 DEF ReadStep, Ask, Checked, Authorized, Rechecked, CompareScope, ReadEnds, Enter,
                RowsRead, ReadFails, ReadGoesOn
  <2>3. \A v \in Result : write'[v] # "stored" => read'[v] = "none"
    BY <1>00, <2>0, <2>1, <2>2 DEF Doors, TypeOK, writeVars
  <2>4. inside' = IF p = "read" THEN inside \cup {r} ELSE inside \ {r}
    BY <1>9, <2>1 DEF ReadStep, Ask, Checked, Authorized, Rechecked, CompareScope, ReadEnds,
       Enter, RowsRead, ReadFails, ReadGoesOn, Admitted, Doors, TypeOK, ReadGate!Take,
       ReadGate!GiveBack
  <2>5. inside' = {q \in Read : read'[q] = "read"}
    BY <1>9, <2>1, <2>4 DEF Doors, TypeOK
  <2>6. closed => p \notin {"gate", "read"}
    BY <1>9, <2>1 DEF ReadStep, Ask, Checked, Authorized, Rechecked, CompareScope, ReadEnds,
       Enter, RowsRead, ReadFails, ReadGoesOn, Admitted, TypeOK
  <2>7. gone => \A q \in Read : read'[q] \notin {"gate", "read"}
    BY <2>1, <2>6 DEF Doors, TypeOK
  <2> QED
    BY <2>0, <2>3, <2>5, <2>7 DEF Doors, writeVars, storeVars, closeVars
<1>10. CASE RemoveDirectory
  BY <1>10 DEF RemoveDirectory, Doors, writeVars, readVars
<1>11. CASE TimePasses \/ Close \/ PolicyEdited \/ Reloaded
  BY <1>11 DEF Doors, TimePasses, Close, PolicyEdited, Reloaded, writeVars, storeVars, readVars,
               closeVars
<1> QED
  BY <1>1, <1>2, <1>3, <1>4, <1>5, <1>6, <1>7, <1>8, <1>9, <1>10, <1>11
  DEF Next, WriteEnds, ReadStep, LookUp

-----------------------------------------------------------------------------
\* The invariant holds in every reachable state.
THEOREM ArtInvariant == Spec => []IInv
<1>1. Init => IInv
  <2> SUFFICES ASSUME Init PROVE IInv
    OBVIOUS
  <2>1. <<>> \in Seq(Result) /\ Len(<<>>) = 0 /\ 1..Len(<<>>) = {}
    BY EmptySeq
  <2>2. Range(<<>>) = {} /\ Distinct(<<>>)
    BY <2>1 DEF Range, Distinct
  <2>3. TypeOK
    <3>1. waitingWrites \in 0..maxWaiting
      BY ArtifactsAssumption DEF Init
    <3>2. size \in [Result -> Sizes \cup {0}] /\ source \in [Result -> Scope]
      BY DEF Init, Scope
    <3>3. write \in [Result -> Written] /\ read \in [Read -> Reading]
      BY DEF Init, Written, Reading
    <3>4. /\ target \in [Read -> Result] /\ at \in [Read -> Nat] /\ edits \in 0..Edits
          /\ since \in [Reader -> SUBSET Connection]
      BY ArtifactsAssumption DEF Init
    <3> QED
      BY <2>1, <3>1, <3>2, <3>3, <3>4 DEF Init, TypeOK
  <2>4. Chain /\ Shelf
    BY <2>1, <2>2 DEF Init, Chain, Shelf, Listed, Writing
  <2>5. Doors
    BY DEF Init, Doors, Read
  <2> QED
    BY <2>3, <2>4, <2>5 DEF IInv
<1>2. IInv /\ [Next]_vars => IInv'
  BY TypedStep, ChainStep, ShelfStep, DoorsStep DEF IInv
<1> QED
  BY <1>1, <1>2, PTL DEF Spec

\* TypeOK: the state stays well formed, the count of waiting writes within
\* its limit.
THEOREM ArtTypeCorrect == Spec => []TypeOK
<1>1. IInv => TypeOK
  BY DEF IInv
<1> QED
  BY <1>1, ArtInvariant, PTL

\* FilesAccounted: chain of writes, sweep and close never make the list and
\* the directory disagree.
THEOREM ArtFilesAccounted == Spec => []FilesAccounted
<1>1. IInv => FilesAccounted
  BY DEF IInv, TypeOK, Shelf, FilesAccounted
<1> QED
  BY <1>1, ArtInvariant, PTL

\* DrainedClose: when close removes the directory nothing is being written or
\* read, and nothing is afterwards.
THEOREM ArtDrainedClose == Spec => []DrainedClose
<1>1. IInv => DrainedClose
  <2> SUFFICES ASSUME IInv, gone PROVE files = {} /\ inside = {} /\
                 \A w \in Result : write[w] \notin {"queued"} \cup Writing
    BY DEF DrainedClose
  <2>1. files = {} /\ inside = {} /\ writes = <<>>
    BY DEF IInv, Doors
  <2>2. 1..Len(<<>>) = {}
    BY EmptySeq
  <2>3. Range(writes) = {}
    BY <2>1, <2>2 DEF Range
  <2> QED
    BY <2>1, <2>3 DEF IInv, Chain
<1> QED
  BY <1>1, ArtInvariant, PTL

-----------------------------------------------------------------------------
(***************************************************************************)
(* The loop over the scopes.  While it runs its result stays stored, so    *)
(* the recorded scope stays too; the connections it has passed, and those  *)
(* that agree with the record now, are among those remembered.             *)
(***************************************************************************)
Loops(r) == read[r] \in {"check", "recheck"}

Scan == \A r \in Reader :
    /\ read[r] \in {"check", "authorize", "gate", "read", "recheck"} =>
           write[target[r]] = "stored"
    /\ Loops(r) => /\ at[r] < Len(about[target[r]])
                   /\ \A i \in 1..at[r] : about[target[r]][i] \in since[r]
                   /\ Agreeing(target[r], known) \subseteq since[r]

LEMMA ScanTypes ==
    ASSUME TypeOK, NEW r \in Reader
    PROVE  /\ r \in Read /\ target[r] \in Result /\ at[r] \in Nat
           /\ about[target[r]] \in Seq(Connection) /\ Len(about[target[r]]) \in Nat \ {0}
           /\ since[r] \subseteq Connection
<1>1. r \in Read /\ target[r] \in Result /\ at[r] \in Nat /\ since[r] \subseteq Connection
  BY DEF TypeOK, Read
<1>2. about[target[r]] \in Seq(Connection) /\ about[target[r]] # <<>>
  BY <1>1, ArtifactsAssumption
<1> QED
  BY <1>1, <1>2, EmptySeq

\* While nothing of a read and its result moves, the loop stands as it did.
LEMMA ScanStays ==
    ASSUME TypeOK, Scan, NEW r \in Reader, read'[r] = read[r], at'[r] = at[r],
           target' = target, since[r] \subseteq since'[r],
           write[target[r]] = "stored" => write'[target[r]] = "stored",
           write[target[r]] = "stored" =>
               Agreeing(target[r], known)' \subseteq since'[r] \cup Agreeing(target[r], known)
    PROVE  /\ read'[r] \in {"check", "authorize", "gate", "read", "recheck"} =>
                  write'[target'[r]] = "stored"
           /\ Loops(r)' => /\ at'[r] < Len(about[target'[r]])
                           /\ \A i \in 1..at'[r] : about[target'[r]][i] \in since'[r]
                           /\ Agreeing(target[r], known)' \subseteq since'[r]
<1>1. read'[r] \in {"check", "authorize", "gate", "read", "recheck"} =>
          write[target[r]] = "stored" /\ write'[target'[r]] = "stored"
  BY DEF Scan
<1>2. ASSUME Loops(r)'
      PROVE  /\ at'[r] < Len(about[target'[r]])
             /\ \A i \in 1..at'[r] : about[target'[r]][i] \in since'[r]
             /\ Agreeing(target[r], known)' \subseteq since'[r]
  <2>1. Loops(r) /\ write[target[r]] = "stored"
    BY <1>1, <1>2 DEF Loops
  <2> QED
    BY <2>1 DEF Scan
<1> QED
  BY <1>1, <1>2

\* The steps that touch no read, no place and no configuration.
LEMMA ScanKept ==
    ASSUME TypeOK, Scan, UNCHANGED <<read, at, target, since, known>>,
           \A w \in Result : write[w] = "stored" =>
               write'[w] = "stored" /\ source'[w] = source[w]
    PROVE  Scan'
<1> SUFFICES ASSUME NEW r \in Reader
             PROVE  /\ read'[r] \in {"check", "authorize", "gate", "read", "recheck"} =>
                           write'[target'[r]] = "stored"
                    /\ Loops(r)' => /\ at'[r] < Len(about[target'[r]])
                                    /\ \A i \in 1..at'[r] : about[target'[r]][i] \in since'[r]
                                    /\ Agreeing(target[r], known)' \subseteq since'[r]
  BY DEF Scan
<1>1. target[r] \in Result
  BY ScanTypes
<1>2. write[target[r]] = "stored" =>
          Agreeing(target[r], known)' \subseteq since'[r] \cup Agreeing(target[r], known)
  BY <1>1 DEF Agreeing
<1> QED
  BY <1>1, <1>2, ScanStays

\* A read moves on within its loop, into it or out of it.
LEMMA ScanReads ==
    ASSUME TypeOK, Scan, NEW q \in Read, ReadStep(q)
    PROVE  Scan'
<1>0. /\ UNCHANGED <<scopeVars, writeVars, storeVars, target, closeVars>>
      /\ \E p \in Reading : read' = [read EXCEPT ![q] = p]
  BY ReadEffect
<1>1. UNCHANGED <<known, write, source, target>>
  BY <1>0 DEF scopeVars, writeVars
<1>2. \A r \in Reader \ {q} : read'[r] = read[r] /\ at'[r] = at[r]
  BY <1>0, ReadTyped DEF TypeOK, Read
<1>3. \A r \in Reader \ {q} : since'[r] = since[r]
  BY DEF ReadStep, Ask, Checked, Authorized, Rechecked, CompareScope, ReadEnds, Enter, RowsRead,
         ReadFails, Watch, TypeOK
<1> SUFFICES ASSUME NEW r \in Reader
             PROVE  /\ read'[r] \in {"check", "authorize", "gate", "read", "recheck"} =>
                           write'[target'[r]] = "stored"
                    /\ Loops(r)' => /\ at'[r] < Len(about[target'[r]])
                                    /\ \A i \in 1..at'[r] : about[target'[r]][i] \in since'[r]
                                    /\ Agreeing(target[r], known)' \subseteq since'[r]
  BY DEF Scan
<1>5. /\ target[r] \in Result /\ r \in Read /\ at[r] \in Nat
      /\ Len(about[target[r]]) \in Nat \ {0}
  BY ScanTypes
<1>4. Agreeing(target[r], known)' = Agreeing(target[r], known)
  BY <1>1 DEF Agreeing
<1>6. CASE r # q
  BY <1>1, <1>2, <1>3, <1>4, <1>6, ScanStays
<1>7. CASE r = q /\ UNCHANGED <<read, since>> /\ Loops(r) /\ ScopeHeld(r)
             /\ at[r] + 1 < Len(about[target[r]]) /\ at' = [at EXCEPT ![r] = at[r] + 1]
  <2>1. at'[r] = at[r] + 1
    BY <1>5, <1>7 DEF TypeOK
  <2>2. about[target[r]][at[r] + 1] \in Agreeing(target[r], known)
    <3>1. about[target[r]][at[r] + 1] \in Connection
      BY <1>5, <1>7, ScanTypes
    <3> QED
      BY <1>7, <3>1 DEF ScopeHeld, Agreeing
  <2>3. \A i \in 1..at'[r] : about[target[r]][i] \in since[r]
    <3> SUFFICES ASSUME NEW i \in 1..at'[r] PROVE about[target[r]][i] \in since[r]
      OBVIOUS
    <3>1. i \in 1..at[r] \/ i = at[r] + 1
      BY <1>5, <2>1
    <3> QED
      BY <1>7, <2>2, <3>1 DEF Scan
  <2> QED
    BY <1>1, <1>7, <1>4, <2>1, <2>3 DEF Scan, Loops
<1>8. CASE r = q /\ read'[r] \in {"check", "recheck"} /\ at'[r] = 0 /\ Watch(r)
             /\ write[target[r]] = "stored"
  <2>1. since'[r] = Agreeing(target[r], known)
    BY <1>8 DEF Watch
  <2>2. \A i \in 1..at'[r] : FALSE
    BY <1>8
  <2> QED
    BY <1>1, <1>5, <1>8, <1>4, <2>1, <2>2
<1>9. CASE r = q /\ read'[r] \notin {"check", "recheck"}
             /\ (read'[r] \in {"authorize", "gate", "read"} => write[target[r]] = "stored")
  BY <1>1, <1>9 DEF Loops
<1>10. r = q => \/ /\ UNCHANGED <<read, since>> /\ Loops(r) /\ ScopeHeld(r)
                   /\ at[r] + 1 < Len(about[target[r]]) /\ at' = [at EXCEPT ![r] = at[r] + 1]
                \/ /\ read'[r] \in {"check", "recheck"} /\ at'[r] = 0 /\ Watch(r)
                   /\ write[target[r]] = "stored"
                \/ /\ read'[r] \notin {"check", "recheck"}
                   /\ read'[r] \in {"authorize", "gate", "read"} => write[target[r]] = "stored"
  <2> SUFFICES ASSUME r = q
               PROVE  \/ /\ UNCHANGED <<read, since>> /\ Loops(r) /\ ScopeHeld(r)
                         /\ at[r] + 1 < Len(about[target[r]])
                         /\ at' = [at EXCEPT ![r] = at[r] + 1]
                      \/ /\ read'[r] \in {"check", "recheck"} /\ at'[r] = 0 /\ Watch(r)
                         /\ write[target[r]] = "stored"
                      \/ /\ read'[r] \notin {"check", "recheck"}
                         /\ read'[r] \in {"authorize", "gate", "read"} =>
                                write[target[r]] = "stored"
    OBVIOUS
  <2>0. read \in [Read -> Reading] /\ at \in [Read -> Nat] /\ r \in Read
    BY <1>5 DEF TypeOK
  <2>1. CASE Ask(r)
    BY <2>0, <2>1 DEF Ask, ReadGoesOn
  <2>2. CASE RowsRead(r)
    BY <2>0, <2>2 DEF RowsRead, ReadGoesOn, Scan
  <2>3. CASE Checked(r) \/ Rechecked(r)
    <3>1. CASE UNCHANGED read
      BY <2>0, <2>3, <3>1 DEF Checked, Rechecked, CompareScope, ReadGoesOn, Loops
    <3>2. CASE read'[r] \in {"none", "authorize", "answered"}
      BY <2>0, <2>3, <3>2 DEF Checked, Rechecked, CompareScope, ReadGoesOn, Scan
    <3>3. UNCHANGED read \/ read'[r] \in {"none", "authorize", "answered"}
      BY <2>0, <2>3 DEF Checked, Rechecked, CompareScope, ReadGoesOn
    <3> QED
      BY <3>1, <3>2, <3>3
  <2>4. CASE Authorized(r) \/ Enter(r) \/ ReadFails(r)
    BY <2>0, <2>4 DEF Authorized, Enter, ReadFails, ReadGoesOn, Admitted, Scan
  <2> QED
    BY <2>1, <2>2, <2>3, <2>4 DEF ReadStep, ReadEnds
<1> QED
  BY <1>6, <1>7, <1>8, <1>9, <1>10

LEMMA ScanStep == ASSUME IInv, Scan, [Next]_vars PROVE Scan'
<1>0. TypeOK
  BY DEF IInv
<1>1. ASSUME NEW q \in Read, ReadStep(q) PROVE Scan'
  BY <1>0, <1>1, ScanReads
<1>2. ASSUME NEW w \in Result, LookUp(w) PROVE Scan'
  <2>1. UNCHANGED <<read, target, since, known>>
    BY <1>0, <1>2, LookUpEffect DEF scopeVars
  <2>2. \A v \in Result : write[v] = "stored" =>
            write'[v] = "stored" /\ source'[v] = source[v]
    BY <1>0, <1>2, LookUpEffect DEF TypeOK
  <2> SUFFICES ASSUME NEW r \in Reader
               PROVE  /\ read'[r] \in {"check", "authorize", "gate", "read", "recheck"} =>
                             write'[target'[r]] = "stored"
                      /\ Loops(r)' => /\ at'[r] < Len(about[target'[r]])
                                      /\ \A i \in 1..at'[r] :
                                            about[target'[r]][i] \in since'[r]
                                      /\ Agreeing(target[r], known)' \subseteq since'[r]
    BY DEF Scan
  <2>3. r # w /\ r \in Read /\ target[r] \in Result
    BY <1>0, ScanTypes, ArtifactsAssumption
  <2>4. at'[r] = at[r]
    BY <1>0, <1>2, <2>3, LookUpEffect
  <2>5. write[target[r]] = "stored" =>
            Agreeing(target[r], known)' \subseteq since'[r] \cup Agreeing(target[r], known)
    BY <2>1, <2>2, <2>3 DEF Agreeing
  <2> QED
    BY <1>0, <2>1, <2>2, <2>3, <2>4, <2>5, ScanStays
<1>3. ASSUME NEW w \in Result, Store(w) PROVE Scan'
  <2>1. UNCHANGED <<at, target, since, known, source>> /\ read' = [read EXCEPT ![w] = Admitted]
    BY <1>3 DEF Store, scopeVars
  <2>2. \A v \in Result : write[v] = "stored" => write'[v] = "stored"
    BY <1>0, <1>3 DEF Store, TypeOK
  <2> SUFFICES ASSUME NEW r \in Reader
               PROVE  /\ read'[r] \in {"check", "authorize", "gate", "read", "recheck"} =>
                             write'[target'[r]] = "stored"
                      /\ Loops(r)' => /\ at'[r] < Len(about[target'[r]])
                                      /\ \A i \in 1..at'[r] :
                                            about[target'[r]][i] \in since'[r]
                                      /\ Agreeing(target[r], known)' \subseteq since'[r]
    BY DEF Scan
  <2>3. r # w /\ r \in Read /\ target[r] \in Result
    BY <1>0, ScanTypes, ArtifactsAssumption
  <2>4. read'[r] = read[r]
    BY <1>0, <2>1, <2>3 DEF TypeOK
  <2>5. Agreeing(target[r], known)' \subseteq since'[r] \cup Agreeing(target[r], known)
    BY <2>1 DEF Agreeing
  <2> QED
    BY <1>0, <2>1, <2>2, <2>3, <2>4, <2>5, ScanStays
<1>4. CASE Reloaded
  <2>1. UNCHANGED <<read, at, target, source, write>>
    BY <1>4 DEF Reloaded, writeVars
  <2> SUFFICES ASSUME NEW r \in Reader
               PROVE  /\ read'[r] \in {"check", "authorize", "gate", "read", "recheck"} =>
                             write'[target'[r]] = "stored"
                      /\ Loops(r)' => /\ at'[r] < Len(about[target'[r]])
                                      /\ \A i \in 1..at'[r] :
                                            about[target'[r]][i] \in since'[r]
                                      /\ Agreeing(target[r], known)' \subseteq since'[r]
    BY DEF Scan
  <2>2. since'[r] = since[r] \cup Agreeing(target[r], known')
    BY <1>4 DEF Reloaded
  <2>3. Agreeing(target[r], known)' = Agreeing(target[r], known')
    BY <2>1 DEF Agreeing
  <2>4. Agreeing(target[r], known)' \subseteq since'[r] \cup Agreeing(target[r], known)
    BY <2>2, <2>3
  <2>5. since[r] \subseteq since'[r]
    BY <2>2
  <2> QED
    BY <1>0, <2>1, <2>4, <2>5, ScanStays
<1>5. CASE /\ UNCHANGED <<read, at, target, since, known, source>>
           /\ \A w \in Result : write[w] = "stored" => write'[w] = "stored"
  BY <1>0, <1>5, ScanKept
<1>6. ASSUME NEW w \in Result, Save(w) \/ StartWrite(w) \/ Create(w) \/ WriteFails(w)
      PROVE  Scan'
  <2>1. UNCHANGED <<read, at, target, since, known, source>>
    BY <1>6 DEF Save, StartWrite, Create, WriteFails, scopeVars, readVars
  <2>2. write[w] # "stored"
    BY <1>6 DEF Save, StartWrite, Create, WriteFails
  <2>3. \E p \in Written : write' = [write EXCEPT ![w] = p]
    BY <1>6 DEF Save, StartWrite, Reserve, Create, WriteFails, Written, Writing
  <2>4. \A v \in Result : write[v] = "stored" => write'[v] = "stored"
    BY <1>0, <2>2, <2>3 DEF TypeOK
  <2> QED
    BY <1>5, <2>1, <2>4
<1>7. CASE WriterUnlinked
  <2>1. UNCHANGED <<read, at, target, since, known, source>>
    BY <1>7 DEF WriterUnlinked, scopeVars, readVars
  <2>2. writes # <<>> /\ Head(writes) \in Result /\ write[Head(writes)] \in {"expire", "evict"}
    BY <1>7, DropFirst DEF WriterUnlinked, Unlinked, TypeOK, Chain, IInv
  <2>3. \E p \in {"expire", "evict", "create"} : write' = [write EXCEPT ![Head(writes)] = p]
    BY <1>7 DEF WriterUnlinked, Reserve
  <2>4. \A v \in Result : write[v] = "stored" => write'[v] = "stored"
    BY <1>0, <2>2, <2>3 DEF TypeOK
  <2> QED
    BY <1>5, <2>1, <2>4
<1>8. CASE SweepStarts \/ SweepUnlinked \/ TimePasses \/ Close \/ RemoveDirectory
           \/ PolicyEdited \/ UNCHANGED vars
  BY <1>5, <1>8 DEF SweepStarts, SweepUnlinked, TimePasses, Close, RemoveDirectory, PolicyEdited,
                    vars, scopeVars, writeVars, readVars
<1> QED
  BY <1>1, <1>2, <1>3, <1>4, <1>6, <1>7, <1>8 DEF Next, WriteEnds, ReadStep, LookUp

\* ScopesHeld: no rows are read or answered before the policy and every
\* connection of their result were compared since, for any number of
\* connections and whatever is edited between the comparisons.
THEOREM ArtScopesHeld == Spec => ScopesHeld
<1> DEFINE Held == \A r \in Reader :
             read'[r] \in {"authorize", "answered"} /\ read[r] # read'[r] =>
                 PolicyHeld(target[r]) /\ Range(about[target[r]]) \subseteq since[r]
<1>1. Init => Scan
  BY DEF Init, Scan, Loops, Read
<1>2. IInv /\ Scan /\ [Next]_vars => Scan'
  BY ScanStep
<1>3. IInv /\ Scan /\ [Next]_vars => [Held]_vars
  <2> SUFFICES ASSUME IInv, Scan, Next, NEW r \in Reader,
                      read'[r] \in {"authorize", "answered"}, read[r] # read'[r]
               PROVE  PolicyHeld(target[r]) /\ Range(about[target[r]]) \subseteq since[r]
    OBVIOUS
  <2>0. /\ TypeOK /\ r \in Read /\ read \in [Read -> Reading] /\ at[r] \in Nat
        /\ about[target[r]] \in Seq(Connection) /\ Len(about[target[r]]) \in Nat \ {0}
    BY ScanTypes DEF IInv, TypeOK
  <2>1. CASE \E q \in Read : ReadStep(q)
    <3>1. PICK q \in Read : ReadStep(q)
      BY <2>1
    <3>2. r = q
      BY <2>0, <3>1, ReadEffect
    <3>3. Checked(r) \/ Rechecked(r)
      BY <2>0, <3>1, <3>2 DEF ReadStep, Ask, Authorized, ReadEnds, Enter, RowsRead, ReadFails,
         ReadGoesOn, Admitted
    <3>4. Loops(r) /\ ScopeHeld(r) /\ at[r] + 1 >= Len(about[target[r]])
      BY <2>0, <3>3 DEF Checked, Rechecked, CompareScope, ReadGoesOn, Loops
    <3>5. at[r] + 1 = Len(about[target[r]])
      <4>1. at[r] < Len(about[target[r]])
        BY <3>4 DEF Scan
      <4> HIDE DEF Held
      <4> QED
        BY <2>0, <3>4, <4>1
    <3>6. about[target[r]][at[r] + 1] \in since[r]
      <4>1. about[target[r]][at[r] + 1] \in Connection
        BY <2>0, <3>5
      <4>2. about[target[r]][at[r] + 1] \in Agreeing(target[r], known)
        BY <3>4, <4>1 DEF ScopeHeld, Agreeing
      <4> QED
        BY <3>4, <4>2 DEF Scan
    <3>7. ASSUME NEW i \in 1..Len(about[target[r]]) PROVE about[target[r]][i] \in since[r]
      <4>1. i \in 1..at[r] \/ i = at[r] + 1
        BY <2>0, <3>5
      <4> QED
        BY <3>4, <3>6, <4>1 DEF Scan
    <3>8. Range(about[target[r]]) = {about[target[r]][i] : i \in 1..Len(about[target[r]])}
      BY <2>0, RangeEquality
    <3> QED
      BY <3>4, <3>7, <3>8 DEF ScopeHeld
  <2>2. CASE \E w \in Result : Store(w)
    <3>1. PICK w \in Result : read' = [read EXCEPT ![w] = Admitted]
      BY <2>2 DEF Store
    <3>2. w # r
      BY ArtifactsAssumption
    <3> QED
      BY <2>0, <3>1, <3>2
  <2>3. CASE UNCHANGED read
    BY <2>3
  <2> QED
    BY <2>1, <2>2, <2>3 DEF Next, ReadStep, WriteEnds, Connect, Query, Save, StartWrite, Create,
       WriteFails, WriterUnlinked, SweepStarts, SweepUnlinked, TimePasses, Close,
       RemoveDirectory, PolicyEdited, Reloaded, readVars
<1> QED
  BY <1>1, <1>2, <1>3, ArtInvariant, PTL DEF Spec, ScopesHeld

-----------------------------------------------------------------------------
\* Induction over the naturals, for a set of them.
LEMMA NatInduct ==
  ASSUME NEW S \in SUBSET Nat, 0 \in S, \A n \in S : n + 1 \in S
  PROVE  S = Nat
<1>1. SUFFICES ASSUME Nat \ S # {} PROVE FALSE
  OBVIOUS
<1>2. PICK x \in Nat \ S : \A y \in Nat \ S : ~(<<y, x>> \in OpToRel(<, Nat))
  BY <1>1, NatLessThanWellFounded, WFMin
<1>3. \A y \in Nat \ S : ~(y < x)
  BY <1>2 DEF OpToRel
<1>4. x \in Nat /\ x # 0 /\ x \notin S
  BY <1>2
<1>5. x - 1 \in Nat /\ x - 1 < x /\ (x - 1) + 1 = x
  BY <1>4
<1> QED
  BY <1>3, <1>4, <1>5

\* Induction over the subsets of a finite set.
LEMMA SubsetInduct ==
  ASSUME NEW D, IsFiniteSet(D), NEW P,
         \A t \in SUBSET D : (\A x \in t : t \ {x} \in P) => t \in P
  PROVE  SUBSET D \subseteq P
<1> DEFINE S == {n \in Nat : \A t \in SUBSET D : Cardinality(t) = n => t \in P}
<1>1. \A t \in SUBSET D : /\ IsFiniteSet(t) /\ Cardinality(t) \in Nat
                          /\ (Cardinality(t) = 0 <=> t = {})
                          /\ \A x \in t : Cardinality(t \ {x}) = Cardinality(t) - 1
  BY FS_Subset, FS_CardinalityType, FS_EmptySet, FS_RemoveElement
<1>2. 0 \in S
  BY <1>1
<1>3. ASSUME NEW n \in S PROVE n + 1 \in S
  <2>1. SUFFICES ASSUME NEW t \in SUBSET D, Cardinality(t) = n + 1
                 PROVE  t \in P
    OBVIOUS
  <2>2. \A x \in t : t \ {x} \in SUBSET D /\ Cardinality(t \ {x}) = n
    BY <1>1, <2>1
  <2> QED
    BY <2>2
<1>4. S = Nat
  <2> HIDE DEF S
  <2>1. S \in SUBSET Nat
    BY DEF S
  <2> QED
    BY <1>2, <1>3, <2>1, NatInduct
<1> QED
  BY <1>1, <1>4

-----------------------------------------------------------------------------
(***************************************************************************)
(* Sums over lists.  FoldSeq picks the places of a list in an order nobody *)
(* knows; the sum does not depend on it.                                   *)
(***************************************************************************)
Pick(t) == CHOOSE x \in t : TRUE

\* The sums of what z gives for the places of a list, by set of places.
Sums(z, s) == CHOOSE iter : iter = [t \in SUBSET (DOMAIN s) |->
                 IF t = {} THEN 0 ELSE LET x == CHOOSE x \in t : TRUE IN z[s[x]] + iter[t \ {x}]]

SumOf(z, s, d) == Sums(z, s)[d]
Parts(s) == SUBSET (DOMAIN s)
Weighs(z, s) == /\ Len(s) \in Nat /\ DOMAIN s = 1..Len(s)
                /\ \A i \in 1..Len(s) : z[s[i]] \in Nat

\* The places of a list are finite, and what is there weighs something.
LEMMA PlacesFinite ==
  ASSUME NEW z, NEW s, Weighs(z, s)
  PROVE  /\ IsFiniteSet(DOMAIN s) /\ DOMAIN s \subseteq Nat
         /\ \A i \in DOMAIN s : z[s[i]] \in Nat
<1>1. Len(s) \in Nat /\ DOMAIN s = 1..Len(s) /\ \A i \in 1..Len(s) : z[s[i]] \in Nat
  BY DEF Weighs
<1>2. 1 \in Int /\ Len(s) \in Int
  BY <1>1
<1>3. IsFiniteSet(DOMAIN s)
  BY <1>1, <1>2, FS_Interval
<1> QED
  BY <1>1, <1>3

\* They exist.
LEMMA SumsExist ==
  ASSUME NEW z, NEW s, Weighs(z, s), NEW d \in Parts(s)
  PROVE  /\ d = {} => SumOf(z, s, d) = 0
         /\ d # {} => /\ Pick(d) \in d
                      /\ SumOf(z, s, d) = z[s[Pick(d)]] + SumOf(z, s, d \ {Pick(d)})
<1> DEFINE D == 1..Len(s)
           A(k) == {t \in SUBSET D : Cardinality(t) <= k}
           Good(g, B) == \A t \in B : g[t] = IF t = {} THEN 0 ELSE z[s[Pick(t)]] + g[t \ {Pick(t)}]
           S == {k \in Nat : \E g \in [A(k) -> Nat] : Good(g, A(k))}
<1>1. DOMAIN s = D /\ Len(s) \in Nat /\ IsFiniteSet(D)
  <2>1. DOMAIN s = D /\ Len(s) \in Nat
    BY DEF Weighs
  <2>2. 1 \in Int /\ Len(s) \in Int
    BY <2>1
  <2> QED
    BY <2>1, <2>2, FS_Interval
<1>2. \A t \in SUBSET D : /\ IsFiniteSet(t) /\ Cardinality(t) \in Nat
                          /\ Cardinality(t) <= Cardinality(D)
                          /\ (Cardinality(t) = 0 <=> t = {})
                          /\ \A x \in t : Cardinality(t \ {x}) = Cardinality(t) - 1
  BY <1>1, FS_Subset, FS_CardinalityType, FS_EmptySet, FS_RemoveElement
<1>3. \A t \in SUBSET D : t # {} =>
         Pick(t) \in t /\ z[s[Pick(t)]] \in Nat /\ t \ {Pick(t)} \in SUBSET D
  BY DEF Pick, Weighs
<1>4. 0 \in S
  <2> DEFINE g == [t \in A(0) |-> 0]
  <2>1. \A t \in A(0) : t = {}
    BY <1>2
  <2>2. g \in [A(0) -> Nat] /\ Good(g, A(0))
    BY <2>1
  <2> QED
    BY <2>2
<1>5. ASSUME NEW k \in S PROVE k + 1 \in S
  <2>1. PICK g \in [A(k) -> Nat] : Good(g, A(k))
    OBVIOUS
  <2> DEFINE h == [t \in A(k + 1) |-> IF t \in A(k) THEN g[t]
                                      ELSE z[s[Pick(t)]] + g[t \ {Pick(t)}]]
  <2>2. \A t \in A(k + 1) : t # {} => t \ {Pick(t)} \in A(k)
    <3> SUFFICES ASSUME NEW t \in SUBSET D, Cardinality(t) <= k + 1, t # {}
                 PROVE  t \ {Pick(t)} \in SUBSET D /\ Cardinality(t \ {Pick(t)}) <= k
      OBVIOUS
    <3>1. Pick(t) \in t /\ t \ {Pick(t)} \in SUBSET D
      BY <1>3
    <3>2. Cardinality(t) \in Nat /\ Cardinality(t \ {Pick(t)}) = Cardinality(t) - 1 /\ k \in Nat
      BY <1>2, <3>1
    <3> HIDE DEF D
    <3> QED
      BY <3>1, <3>2
  <2>3. \A t \in A(k) : t \in A(k + 1)
    BY <1>2
  <2>4. \A t \in A(k + 1) : t \notin A(k) => t # {}
    BY <1>2
  <2>5. h \in [A(k + 1) -> Nat]
    BY <1>3, <2>2, <2>4
  <2>6. Good(h, A(k + 1))
    <3> SUFFICES ASSUME NEW t \in A(k + 1)
                 PROVE  h[t] = IF t = {} THEN 0 ELSE z[s[Pick(t)]] + h[t \ {Pick(t)}]
      OBVIOUS
    <3>1. h[t] = IF t \in A(k) THEN g[t] ELSE z[s[Pick(t)]] + g[t \ {Pick(t)}]
      OBVIOUS
    <3>2. t # {} => h[t \ {Pick(t)}] = g[t \ {Pick(t)}]
      BY <2>2, <2>3
    <3>3. t \in A(k) => g[t] = IF t = {} THEN 0 ELSE z[s[Pick(t)]] + g[t \ {Pick(t)}]
      BY <2>1
    <3> HIDE DEF h, A
    <3> QED
      BY <3>1, <3>2, <3>3, <2>4
  <2> HIDE DEF h, A, Good
  <2> QED
    BY <2>5, <2>6
<1>6. S = Nat
  <2> HIDE DEF S
  <2>1. S \in SUBSET Nat
    BY DEF S
  <2> QED
    BY <1>4, <1>5, <2>1, NatInduct
<1>7. PICK g \in [SUBSET D -> Nat] : Good(g, SUBSET D)
  <2>1. D \in SUBSET D /\ Cardinality(D) \in Nat
    BY <1>2
  <2>2. A(Cardinality(D)) = SUBSET D
    BY <1>2
  <2>3. Cardinality(D) \in S
    BY <1>6, <2>1
  <2> HIDE DEF A, Good
  <2> QED
    BY <2>2, <2>3
<1>8. g = [t \in SUBSET (DOMAIN s) |->
             IF t = {} THEN 0 ELSE LET x == CHOOSE x \in t : TRUE IN z[s[x]] + g[t \ {x}]]
  BY <1>1, <1>7 DEF Pick
<1>9. Sums(z, s) = [t \in SUBSET (DOMAIN s) |->
             IF t = {} THEN 0 ELSE LET x == CHOOSE x \in t : TRUE IN z[s[x]] + Sums(z, s)[t \ {x}]]
  BY <1>8 DEF Sums
<1> DEFINE T == Sums(z, s)
<1>10. \A t \in SUBSET D : T[t] = IF t = {} THEN 0 ELSE z[s[Pick(t)]] + T[t \ {Pick(t)}]
  BY <1>1, <1>9 DEF Pick
<1>11. d \in SUBSET D
  BY <1>1 DEF Parts
<1> HIDE DEF T, D
<1> QED
  BY <1>3, <1>10, <1>11 DEF T, SumOf

\* They are natural numbers.
LEMMA SumsNat ==
  ASSUME NEW z, NEW s, Weighs(z, s), NEW d \in Parts(s)
  PROVE  SumOf(z, s, d) \in Nat
<1> DEFINE D == DOMAIN s
           T(t) == SumOf(z, s, t)
           P == {t \in SUBSET D : T(t) \in Nat}
<1>1. IsFiniteSet(D) /\ \A i \in D : z[s[i]] \in Nat
  BY PlacesFinite
<1>2. ASSUME NEW t \in SUBSET D, \A x \in t : t \ {x} \in P
      PROVE  t \in P
  <2>0. t \in Parts(s)
    BY DEF Parts
  <2>1. CASE t = {}
    <3>1. T(t) = 0
      BY <2>0, <2>1, SumsExist
    <3> HIDE DEF T
    <3> QED
      BY <3>1
  <2>2. CASE t # {}
    <3>1. Pick(t) \in t /\ T(t) = z[s[Pick(t)]] + T(t \ {Pick(t)})
      BY <2>0, <2>2, SumsExist
    <3>2. T(t \ {Pick(t)}) \in Nat /\ z[s[Pick(t)]] \in Nat
      BY <1>1, <1>2, <3>1
    <3> HIDE DEF T
    <3> QED
      BY <3>1, <3>2
  <2> QED
    BY <2>1, <2>2
<1>3. SUBSET D \subseteq P
  <2> HIDE DEF P, D
  <2> QED
    BY <1>1, <1>2, SubsetInduct
<1> QED
  BY <1>3 DEF Parts

\* Any element may be taken out first.
LEMMA SumsAnyFirst ==
  ASSUME NEW z, NEW s, Weighs(z, s), NEW d \in Parts(s), NEW e \in d
  PROVE  SumOf(z, s, d) = z[s[e]] + SumOf(z, s, d \ {e})
<1> DEFINE D == DOMAIN s
           T(t) == SumOf(z, s, t)
           P == {t \in SUBSET D : \A y \in t : T(t) = z[s[y]] + T(t \ {y})}
<1>1. IsFiniteSet(D) /\ \A i \in D : z[s[i]] \in Nat
  BY PlacesFinite
<1> HIDE DEF P
<1>2. ASSUME NEW t \in SUBSET D PROVE T(t) \in Nat
  BY SumsNat DEF Parts
<1>3. ASSUME NEW t \in SUBSET D, t # {}
      PROVE  Pick(t) \in t /\ T(t) = z[s[Pick(t)]] + T(t \ {Pick(t)})
  <2>1. t \in Parts(s)
    BY DEF Parts
  <2> QED
    BY <1>3, <2>1, SumsExist
<1> USE DEF P
<1> HIDE DEF D, T
<1>4. ASSUME NEW t \in SUBSET D, \A x \in t : t \ {x} \in P
      PROVE  t \in P
  <2>1. SUFFICES ASSUME NEW y \in t PROVE T(t) = z[s[y]] + T(t \ {y})
    OBVIOUS
  <2> DEFINE x == Pick(t)
  <2>2. x \in t /\ T(t) = z[s[x]] + T(t \ {x})
    BY <1>3, <2>1
  <2>3. CASE x = y
    BY <2>2, <2>3
  <2>4. CASE x # y
    <3>1. T(t \ {x}) = z[s[y]] + T((t \ {x}) \ {y})
      BY <1>4, <2>1, <2>2, <2>4
    <3>2. T(t \ {y}) = z[s[x]] + T((t \ {y}) \ {x})
      BY <1>4, <2>1, <2>2, <2>4
    <3>3. /\ (t \ {x}) \ {y} = (t \ {y}) \ {x} /\ (t \ {y}) \ {x} \in SUBSET D
          /\ x \in D /\ y \in D
      BY <2>1, <2>2
    <3>4. T((t \ {y}) \ {x}) \in Nat /\ z[s[x]] \in Nat /\ z[s[y]] \in Nat
      BY <1>1, <1>2, <3>3
    <3>5. T(t \ {x}) = z[s[y]] + T((t \ {y}) \ {x})
      BY <3>1, <3>3
    <3> DEFINE u == T((t \ {y}) \ {x})
               a == z[s[x]]
               b == z[s[y]]
    <3>6. /\ T(t) = a + (b + u) /\ b + T(t \ {y}) = b + (a + u)
          /\ a \in Nat /\ b \in Nat /\ u \in Nat
      BY <2>2, <3>2, <3>4, <3>5
    <3> HIDE DEF x, u, a, b
    <3>7. a + (b + u) = b + (a + u)
      BY <3>6
    <3> QED
      BY <3>6, <3>7 DEF b
  <2> QED
    BY <2>3, <2>4
<1>5. SUBSET D \subseteq P
  <2> HIDE DEF P
  <2> QED
    BY <1>1, <1>4, SubsetInduct
<1> QED
  BY <1>5 DEF D, T, Parts

\* All of a list, and its places moved on by k.
Total(z, s) == SumOf(z, s, DOMAIN s)
Places(k, s) == {i + k : i \in DOMAIN s}

\* Equal weights at places moved on have the same sum.
LEMMA SameSums ==
  ASSUME NEW z, NEW s, NEW v, NEW u, NEW k \in Nat, Weighs(z, s), Weighs(v, u),
         \A i \in DOMAIN s : i + k \in DOMAIN u /\ v[u[i + k]] = z[s[i]]
  PROVE  Total(z, s) = SumOf(v, u, Places(k, s))
<1> DEFINE D == DOMAIN s
           F == DOMAIN u
           T(t) == SumOf(z, s, t)
           V(t) == SumOf(v, u, t)
           m(t) == {i + k : i \in t}
           P == {t \in SUBSET D : T(t) = V(m(t))}
<1>1. IsFiniteSet(D) /\ D \subseteq Nat /\ \A i \in D : i + k \in F /\ v[u[i + k]] = z[s[i]]
  BY PlacesFinite
<1> HIDE DEF P, m
<1>2. T({}) = 0 /\ V({}) = 0
  <2>1. {} \in Parts(s) /\ {} \in Parts(u)
    BY DEF Parts
  <2> QED
    BY <2>1, SumsExist
<1>3. ASSUME NEW t \in SUBSET D, NEW x \in t PROVE T(t) = z[s[x]] + T(t \ {x})
  <2>1. t \in Parts(s)
    BY DEF Parts
  <2> QED
    BY <2>1, SumsAnyFirst
<1>4. ASSUME NEW t \in SUBSET F, NEW x \in t PROVE V(t) = v[u[x]] + V(t \ {x})
  <2>1. t \in Parts(u)
    BY DEF Parts
  <2> QED
    BY <2>1, SumsAnyFirst
<1> USE DEF P, m
<1> HIDE DEF T, V, D, F
<1>5. ASSUME NEW t \in SUBSET D, \A x \in t : t \ {x} \in P
      PROVE  t \in P
  <2>1. CASE t = {}
    BY <1>2, <2>1
  <2>2. CASE t # {}
    <3>1. PICK x \in t : TRUE
      BY <2>2
    <3>2. m(t) \in SUBSET F /\ x + k \in m(t) /\ v[u[x + k]] = z[s[x]]
      BY <1>1, <3>1
    <3>3. m(t \ {x}) = m(t) \ {x + k}
      <4>1. t \subseteq Nat /\ x \in Nat
        BY <1>1, <3>1
      <4>2. \A i \in t : i + k = x + k => i = x
        BY <4>1
      <4> QED
        BY <4>2, <3>1
    <3>4. T(t) = z[s[x]] + T(t \ {x})
      BY <1>3, <3>1
    <3>5. V(m(t)) = v[u[x + k]] + V(m(t) \ {x + k})
      <4> HIDE DEF m
      <4> QED
        BY <1>4, <3>2
    <3>6. T(t \ {x}) = V(m(t \ {x}))
      BY <1>5, <3>1
    <3>7. T(t) = V(m(t))
      <4> HIDE DEF m
      <4> QED
        BY <3>2, <3>3, <3>4, <3>5, <3>6
    <3> QED
      BY <3>7
  <2> QED
    BY <2>1, <2>2
<1>6. SUBSET D \subseteq P
  <2> HIDE DEF P
  <2> QED
    BY <1>1, <1>5, SubsetInduct
<1>7. D \in P
  <2> HIDE DEF P
  <2> QED
    BY <1>6
<1>8. T(D) = V(m(D))
  BY <1>7
<1> QED
  BY <1>8 DEF T, V, D, Total, Places

\* Lists of things that weigh something.
LEMMA ListWeighs ==
  ASSUME NEW R, NEW z \in [R -> Nat], NEW s \in Seq(R)
  PROVE  Weighs(z, s)
BY DEF Weighs

\* Nothing adds up to nothing.
LEMMA TotalEmpty ==
  ASSUME NEW z
  PROVE  Total(z, <<>>) = 0
<1>1. Weighs(z, <<>>) /\ DOMAIN <<>> = {}
  BY DEF Weighs
<1> QED
  BY <1>1, SumsExist DEF Total, Parts

\* The first of a list and the rest.
LEMMA TotalTail ==
  ASSUME NEW R, NEW z \in [R -> Nat], NEW s \in Seq(R), s # <<>>
  PROVE  Total(z, s) = z[Head(s)] + Total(z, Tail(s)) /\ Total(z, Tail(s)) \in Nat
<1>1. /\ Tail(s) \in Seq(R) /\ Len(Tail(s)) = Len(s) - 1
      /\ \A i \in 1..Len(Tail(s)) : Tail(s)[i] = s[i + 1]
  BY HeadTailProperties
<1>2. Len(s) \in Nat \ {0} /\ Head(s) = s[1]
  BY EmptySeq
<1>3. DOMAIN s = 1..Len(s) /\ DOMAIN Tail(s) = 1..Len(Tail(s))
  BY <1>1
<1>4. Weighs(z, s) /\ Weighs(z, Tail(s))
  BY <1>1, ListWeighs
<1>5. \A i \in DOMAIN Tail(s) : i + 1 \in DOMAIN s /\ z[s[i + 1]] = z[Tail(s)[i]]
  BY <1>1, <1>2, <1>3
<1>6. Total(z, Tail(s)) = SumOf(z, s, Places(1, Tail(s)))
  <2> DEFINE u == Tail(s)
  <2>1. /\ Weighs(z, u) /\ Weighs(z, s)
        /\ \A i \in DOMAIN u : i + 1 \in DOMAIN s /\ z[s[i + 1]] = z[u[i]]
    BY <1>4, <1>5
  <2> HIDE DEF u
  <2>2. Total(z, u) = SumOf(z, s, Places(1, u))
    BY <2>1, SameSums
  <2> QED
    BY <2>2 DEF u
<1>7. Places(1, Tail(s)) = (DOMAIN s) \ {1}
  <2>1. \A j \in (1..Len(s)) \ {1} : j - 1 \in 1..Len(Tail(s)) /\ j = (j - 1) + 1
    BY <1>1, <1>2
  <2>2. \A i \in 1..Len(Tail(s)) : i + 1 \in 1..Len(s) /\ i + 1 # 1
    BY <1>1, <1>2
  <2> DEFINE L == 1..Len(s)
             M == 1..Len(Tail(s))
  <2> HIDE DEF L, M
  <2>3. Places(1, Tail(s)) = {i + 1 : i \in M}
    BY <1>3 DEF M, Places
  <2>4. {i + 1 : i \in M} = L \ {1}
    BY <2>1, <2>2 DEF L, M
  <2> QED
    BY <1>3, <2>3, <2>4 DEF L
<1>8. 1 \in DOMAIN s
  BY <1>2, <1>3
<1>9. SumOf(z, s, DOMAIN s) = z[s[1]] + SumOf(z, s, (DOMAIN s) \ {1})
  BY <1>4, <1>8, SumsAnyFirst DEF Parts
<1>10. Total(z, Tail(s)) \in Nat
  BY <1>4, SumsNat DEF Total, Parts
<1> QED
  BY <1>2, <1>6, <1>7, <1>9, <1>10 DEF Total

\* A list and one more at its end.
LEMMA TotalAppend ==
  ASSUME NEW R, NEW z \in [R -> Nat], NEW s \in Seq(R), NEW e \in R
  PROVE  Total(z, Append(s, e)) = Total(z, s) + z[e]
<1> DEFINE u == Append(s, e)
           n == Len(s) + 1
<1>1. u \in Seq(R) /\ Len(u) = n /\ u[n] = e /\ \A i \in 1..Len(s) : u[i] = s[i]
  BY AppendProperties
<1> HIDE DEF u
<1>2. Len(s) \in Nat /\ DOMAIN s = 1..Len(s) /\ DOMAIN u = 1..n
  BY <1>1, LenProperties
<1>3. Weighs(z, s) /\ Weighs(z, u)
  BY <1>1, ListWeighs
<1>4. \A i \in DOMAIN s : i + 0 \in DOMAIN u /\ z[u[i + 0]] = z[s[i]]
  BY <1>1, <1>2
<1>5. Total(z, s) = SumOf(z, u, Places(0, s))
  BY <1>3, <1>4, SameSums
<1>6. Places(0, s) = (DOMAIN u) \ {n}
  <2>1. \A i \in 1..Len(s) : i + 0 = i /\ i \in 1..n /\ i # n
    BY <1>2
  <2>2. \A i \in (1..n) \ {n} : i \in 1..Len(s) /\ i = i + 0
    BY <1>2
  <2> DEFINE L == 1..n
             M == 1..Len(s)
  <2> HIDE DEF L, M
  <2>3. Places(0, s) = {i + 0 : i \in M}
    BY <1>2 DEF M, Places
  <2>4. {i + 0 : i \in M} = L \ {n}
    BY <2>1, <2>2 DEF L, M
  <2> QED
    BY <1>2, <2>3, <2>4 DEF L
<1>7. n \in DOMAIN u
  BY <1>2
<1>8. Total(z, u) = z[u[n]] + SumOf(z, u, (DOMAIN u) \ {n})
  <2>1. DOMAIN u \in Parts(u)
    BY DEF Parts
  <2> HIDE DEF n
  <2>2. SumOf(z, u, DOMAIN u) = z[u[n]] + SumOf(z, u, (DOMAIN u) \ {n})
    BY <1>3, <1>7, <2>1, SumsAnyFirst
  <2> QED
    BY <2>2 DEF Total
<1>9. Total(z, s) \in Nat /\ z[e] \in Nat
  BY <1>3, SumsNat DEF Total, Parts
<1>10. Total(z, u) = Total(z, s) + z[e]
  <2>1. Total(z, u) = z[e] + Total(z, s)
    BY <1>1, <1>5, <1>6, <1>8
  <2> QED
    BY <1>9, <2>1
<1> QED
  BY <1>10 DEF u

\* Weights that agree on a list.
LEMMA TotalSame ==
  ASSUME NEW R, NEW z \in [R -> Nat], NEW v \in [R -> Nat], NEW s \in Seq(R),
         \A i \in DOMAIN s : v[s[i]] = z[s[i]]
  PROVE  Total(v, s) = Total(z, s)
<1>1. Weighs(z, s) /\ Weighs(v, s)
  BY ListWeighs
<1>2. \A i \in DOMAIN s : i + 0 \in DOMAIN s /\ v[s[i + 0]] = z[s[i]] /\ i + 0 = i
  BY <1>1, PlacesFinite
<1>3. Total(z, s) = SumOf(v, s, Places(0, s))
  BY <1>1, <1>2, SameSums
<1>4. Places(0, s) = DOMAIN s
  BY <1>2 DEF Places
<1> QED
  BY <1>3, <1>4 DEF Total

-----------------------------------------------------------------------------
(***************************************************************************)
(* The quota.  The room that reserve made is used only when the file is    *)
(* complete; until then the list may only shrink.                          *)
(***************************************************************************)
\* The result past its reservation, and the list without it.
Room ==
    /\ \A w \in Result : write[w] \in Writing => size[w] <= quota
    /\ Len(entries) <= maxEntries /\ used <= quota
    /\ \A w \in Result : write[w] \in {"create", "write"} =>
         Len(entries) + 1 <= maxEntries /\ used + size[w] <= quota

\* What the store counts is the sum of the sizes of what it lists.
LEMMA UsedIsTotal ==
    /\ used = Total(size, entries)
    /\ used' = Total(size', entries')
<1>1. used = Total(size, entries)
  BY DEF used, FoldSeq, FoldFunction, FoldFunctionOnSet, MapThenFoldSet, Total, SumOf, Sums
<1>2. used' = Total(size', entries')
  BY DEF used, FoldSeq, FoldFunction, FoldFunctionOnSet, MapThenFoldSet, Total, SumOf, Sums
<1> QED
  BY <1>1, <1>2

\* Sizes and their sum are numbers.
LEMMA SizesTyped ==
    ASSUME TypeOK
    PROVE  /\ size \in [Result -> Nat] /\ entries \in Seq(Result) /\ Len(entries) \in Nat
           /\ used \in Nat /\ quota \in Nat /\ maxEntries \in Nat \ {0}
<1>1. size \in [Result -> Nat] /\ entries \in Seq(Result) /\ Len(entries) \in Nat
  <2>1. Sizes \cup {0} \subseteq Nat
    BY ArtifactsAssumption
  <2>2. size \in [Result -> Sizes \cup {0}] /\ entries \in Seq(Result)
    BY DEF TypeOK
  <2> QED
    BY <2>1, <2>2
<1>2. Weighs(size, entries)
  BY <1>1, ListWeighs
<1>3. used \in Nat
  BY <1>2, UsedIsTotal, SumsNat DEF Total, Parts
<1> QED
  BY <1>1, <1>3, ArtifactsAssumption

\* A move makes the list no longer and no larger.
LEMMA MovesShrink ==
    ASSUME TypeOK, NEW a, Moves(a), size' = size
    PROVE  Len(entries') <= Len(entries) /\ used' <= used /\ used' \in Nat
<1>1. CASE entries # <<>> /\ RemoveOldest(a)
  <2>1. entries' = Tail(entries)
    BY <1>1 DEF RemoveOldest
  <2>2. Head(entries) \in Result /\ Len(Tail(entries)) = Len(entries) - 1
    BY <1>1, SizesTyped, HeadTailProperties
  <2>3. /\ Total(size, entries) = size[Head(entries)] + Total(size, Tail(entries))
        /\ Total(size, Tail(entries)) \in Nat
    BY <1>1, SizesTyped, TotalTail
  <2>4. size[Head(entries)] \in Nat /\ Len(entries) \in Nat
    BY <2>2, SizesTyped
  <2> QED
    BY <2>1, <2>2, <2>3, <2>4, UsedIsTotal
<1>2. CASE entries' = entries
  BY <1>2, UsedIsTotal, SizesTyped
<1> QED
  BY <1>1, <1>2 DEF Moves

\* While the list only shrinks and nothing new has made its reservation, the
\* room stays.
LEMMA RoomShrinks ==
    ASSUME TypeOK, Room, size' = size, Len(entries') \in Nat,
           Len(entries') <= Len(entries), used' <= used, used' \in Nat,
           \A w \in Result : write'[w] \in Writing => write[w] \in Writing \/ size[w] <= quota,
           \A w \in Result : write'[w] \in {"create", "write"} => write[w] \in {"create", "write"}
    PROVE  Room'
<1>1. /\ Len(entries) \in Nat /\ used \in Nat /\ quota \in Nat /\ maxEntries \in Nat
      /\ \A w \in Result : size[w] \in Nat
  BY SizesTyped
<1>2. \A w \in Result : write'[w] \in Writing => size'[w] <= quota
  BY DEF Room
<1>3. Len(entries') <= maxEntries /\ used' <= quota
  BY <1>1 DEF Room
<1>4. ASSUME NEW w \in Result, write'[w] \in {"create", "write"}
      PROVE  Len(entries') + 1 <= maxEntries /\ used' + size'[w] <= quota
  <2>1. Len(entries) + 1 <= maxEntries /\ used + size[w] <= quota
    BY <1>4 DEF Room
  <2> QED
    BY <1>1, <2>1
<1> QED
  BY <1>2, <1>3, <1>4 DEF Room

\* reserve: the oldest go, or there is room now.
LEMMA RoomReserved ==
    ASSUME IInv, Room, NEW w \in Result, NEW from, Reserve(w, from), size' = size,
           size[w] <= quota, \A v \in Result : write[v] \notin {"create", "write"}
    PROVE  Room'
<1>0. TypeOK
  BY DEF IInv
<1>1. Moves("writer")
  BY ReserveEffect
<1>2. Len(entries') <= Len(entries) /\ used' <= used /\ used' \in Nat
  BY <1>0, <1>1, MovesShrink
<1>3. Len(entries') \in Nat
  BY <1>0, <1>1, MovesTyped, LenProperties DEF IInv
<1>4. PICK p \in {"expire", "evict", "create"} : write' = [write EXCEPT ![w] = p]
  BY ReserveEffect
<1>5. \A v \in Result : write'[v] = IF v = w THEN p ELSE write[v]
  BY <1>0, <1>4 DEF TypeOK
<1>6. CASE p # "create"
  <2>1. \A v \in Result : write'[v] \notin {"create", "write"}
    BY <1>5, <1>6
  <2>2. \A v \in Result : write'[v] \in Writing => write[v] \in Writing \/ size[v] <= quota
    BY <1>5
  <2> QED
    BY <1>0, <1>2, <1>3, <2>1, <2>2, RoomShrinks
<1>7. CASE p = "create"
  <2>1. ~Full(w) /\ entries' = entries
    <3>1. write'[w] = "create"
      BY <1>5, <1>7
    <3>2. w \in DOMAIN write
      BY <1>0 DEF TypeOK
    <3> QED
      BY <3>1, <3>2 DEF Reserve
  <2>2. /\ Len(entries) \in Nat /\ used \in Nat /\ quota \in Nat /\ maxEntries \in Nat \ {0}
        /\ size[w] \in Nat
    BY <1>0, SizesTyped
  <2>3. used' = used
    BY <2>1, UsedIsTotal
  <2>4. Len(entries) + 1 <= maxEntries /\ used + size[w] <= quota
    <3>1. CASE entries = <<>>
      <4>1. used = 0 /\ Len(entries) = 0
        BY <3>1, UsedIsTotal, TotalEmpty, EmptySeq
      <4> QED
        BY <2>2, <4>1
    <3>2. CASE entries # <<>>
      BY <2>1, <2>2, <3>2 DEF Full
    <3> QED
      BY <3>1, <3>2
  <2>5. \A v \in Result : write'[v] \in {"create", "write"} => v = w
    BY <1>5
  <2>6. \A v \in Result : write'[v] \in Writing => size[v] <= quota
    BY <1>5 DEF Room
  <2> QED
    BY <2>1, <2>3, <2>4, <2>5, <2>6 DEF Room
<1> QED
  BY <1>6, <1>7

\* Every step keeps the room.
LEMMA RoomStep == ASSUME IInv, Room, [Next]_vars PROVE Room'
<1>0. TypeOK /\ Chain /\ Shelf
  BY DEF IInv
<1>1. CASE UNCHANGED <<size, entries>> /\ UNCHANGED write
  <2>1. used' = used
    BY <1>1, UsedIsTotal
  <2> QED
    BY <1>1, <2>1 DEF Room
<1>2. ASSUME NEW w \in Result, LookUp(w) PROVE Room'
  <2>1. /\ size' = size /\ entries' = entries
        /\ \E p \in {"new", "query"} : write' = [write EXCEPT ![w] = p]
    BY <1>0, <1>2, LookUpEffect DEF storeVars
  <2>2. \A v \in Result : write'[v] \in Writing => write[v] = write'[v]
    BY <1>0, <2>1 DEF TypeOK, Writing
  <2> QED
    BY <1>0, <2>1, <2>2, UsedIsTotal, SizesTyped, RoomShrinks DEF Writing
<1>3. ASSUME NEW w \in Result, Save(w) PROVE Room'
  <2>1. write[w] = "query" /\ entries' = entries
    BY <1>3 DEF Save, storeVars
  <2>2. \A v \in Result \ {w} : size'[v] = size[v] /\ write'[v] = write[v]
    BY <1>0, <1>3 DEF Save, TypeOK
  <2>3. write'[w] \notin Writing
    BY <1>0, <1>3 DEF Save, TypeOK, Writing
  <2>4. \A i \in DOMAIN entries : entries[i] \in Result \ {w}
    <3>1. \A i \in DOMAIN entries : entries[i] \in Listed /\ entries[i] \in Result
      BY <1>0 DEF TypeOK, Listed, Range
    <3> QED
      BY <1>0, <2>1, <3>1 DEF Shelf
  <2>5. size' \in [Result -> Nat] /\ size \in [Result -> Nat] /\ entries \in Seq(Result)
    <3>1. Sizes \cup {0} \subseteq Nat
      BY ArtifactsAssumption
    <3>2. size' \in [Result -> Sizes \cup {0}]
      BY TypedStep DEF TypeOK
    <3>3. size' \in [Result -> Nat]
      BY <3>1, <3>2
    <3> QED
      BY <1>0, <3>3, SizesTyped
  <2>6. Total(size', entries) = Total(size, entries)
    <3>1. \A i \in DOMAIN entries : size'[entries[i]] = size[entries[i]]
      BY <2>2, <2>4
    <3> QED
      BY <2>5, <3>1, TotalSame
  <2>7. used' = used
    BY <2>1, <2>6, UsedIsTotal
  <2> QED
    BY <2>1, <2>2, <2>3, <2>7 DEF Room, Writing
<1>4. ASSUME NEW w \in Result, StartWrite(w) PROVE Room'
  <2>1. write[w] = "queued" /\ w = Head(writes) /\ size' = size
    BY <1>4 DEF StartWrite
  <2>2. CASE size[w] > quota
    <3>1. write' = [write EXCEPT ![w] = "failed"] /\ entries' = entries
      BY <1>4, <2>2 DEF StartWrite
    <3>2. \A v \in Result : write'[v] \in Writing => write[v] = write'[v]
      BY <1>0, <3>1 DEF TypeOK, Writing
    <3> QED
      BY <1>0, <2>1, <3>1, <3>2, UsedIsTotal, SizesTyped, RoomShrinks DEF Writing
  <2>3. CASE ~(size[w] > quota)
    <3>1. Reserve(w, "expire")
      BY <1>4, <2>3 DEF StartWrite
    <3>2. size[w] <= quota
      BY <1>0, <2>3, SizesTyped
    <3>3. \A v \in Result : write[v] \notin {"create", "write"}
      BY <1>0, <2>1, HeadOfChain DEF Writing
    <3> QED
      BY <2>1, <3>1, <3>2, <3>3, RoomReserved
  <2> QED
    BY <2>2, <2>3
<1>5. CASE WriterUnlinked
  <2> DEFINE w == Head(writes)
  <2>1. w \in Result /\ write[w] \in {"expire", "evict"}
    BY <1>0, <1>5, DropFirst DEF WriterUnlinked, Unlinked, TypeOK, Chain
  <2>2. Reserve(w, write[w]) /\ size' = size
    BY <1>5 DEF WriterUnlinked
  <2>3. \A v \in Result : write[v] \notin {"create", "write"}
    BY <1>0, <2>1, HeadOfChain DEF Writing
  <2>4. size[w] <= quota
    BY <2>1 DEF Room, Writing
  <2> HIDE DEF w
  <2> QED
    BY <2>1, <2>2, <2>3, <2>4, RoomReserved
<1>6. ASSUME NEW w \in Result, Create(w) \/ WriteFails(w) PROVE Room'
  <2>1. size' = size /\ entries' = entries /\ write[w] \in {"create", "write"}
    BY <1>6 DEF Create, WriteFails
  <2>2. \A v \in Result : write'[v] \in Writing =>
           write[v] \in Writing /\ (write'[v] \in {"create", "write"} =>
                                       write[v] \in {"create", "write"})
    BY <1>0, <1>6, <2>1 DEF Create, WriteFails, TypeOK, Writing
  <2> QED
    BY <1>0, <2>1, <2>2, UsedIsTotal, SizesTyped, RoomShrinks DEF Writing
<1>7. ASSUME NEW w \in Result, Store(w) PROVE Room'
  <2>1. /\ write[w] = "write" /\ write' = [write EXCEPT ![w] = "stored"]
        /\ entries' = Append(entries, w) /\ size' = size
    BY <1>7 DEF Store
  <2>2. Len(entries') = Len(entries) + 1
    BY <1>0, <2>1, AppendProperties DEF TypeOK
  <2>3. used' = used + size[w]
    BY <1>0, <2>1, TotalAppend, UsedIsTotal, SizesTyped
  <2>4. \A v \in Result : write'[v] = IF v = w THEN "stored" ELSE write[v]
    BY <1>0, <2>1 DEF TypeOK
  <2>5. \A v \in Result : write[v] \in Writing => v = w
    BY <1>0, <2>1, HeadOfChain DEF Writing
  <2>6. \A v \in Result : write'[v] \notin Writing
    BY <2>4, <2>5 DEF Writing
  <2>7. Len(entries) + 1 <= maxEntries /\ used + size[w] <= quota
    BY <2>1 DEF Room
  <2> QED
    BY <2>2, <2>3, <2>6, <2>7 DEF Room, Writing
<1>8. CASE SweepStarts \/ SweepUnlinked
  <2>1. Moves("sweep") /\ UNCHANGED <<size, write>>
    BY <1>8 DEF SweepStarts, SweepUnlinked, Moves, HeadExpired, writeVars
  <2>2. Len(entries') <= Len(entries) /\ used' <= used /\ used' \in Nat
    BY <1>0, <2>1, MovesShrink
  <2>3. Len(entries') \in Nat
    BY <1>0, <2>1, MovesTyped, LenProperties
  <2> QED
    BY <1>0, <2>1, <2>2, <2>3, RoomShrinks
<1>9. CASE RemoveDirectory
  <2>1. entries' = <<>> /\ UNCHANGED <<size, write>>
    BY <1>9 DEF RemoveDirectory, writeVars
  <2>2. used' = 0 /\ Len(entries') = 0
    BY <2>1, UsedIsTotal, TotalEmpty, EmptySeq
  <2>3. Len(entries) \in Nat /\ used \in Nat
    BY <1>0, SizesTyped
  <2> QED
    BY <1>0, <2>1, <2>2, <2>3, RoomShrinks
<1>10. ASSUME NEW r \in Read, ReadStep(r) PROVE Room'
  BY <1>0, <1>1, <1>10, ReadEffect DEF writeVars, storeVars
<1>11. CASE TimePasses \/ Close \/ PolicyEdited \/ Reloaded
  BY <1>1, <1>11 DEF TimePasses, Close, PolicyEdited, Reloaded, writeVars, storeVars
<1>12. CASE UNCHANGED vars
  BY <1>1, <1>12 DEF vars, writeVars, storeVars
<1> QED
  BY <1>2, <1>3, <1>4, <1>5, <1>6, <1>7, <1>8, <1>9, <1>10, <1>11, <1>12
  DEF Next, WriteEnds, ReadStep, LookUp

\* QuotaKept: what is listed and what is on its way stay within both limits,
\* for every quota, every number of entries and every list of sizes.
THEOREM ArtQuotaKept == Spec => []QuotaKept
<1>1. Init => Room
  <2> SUFFICES ASSUME Init PROVE Room
    OBVIOUS
  <2>1. used = 0 /\ Len(entries) = 0 /\ \A w \in Result : write[w] = "new"
    BY UsedIsTotal, TotalEmpty, EmptySeq DEF Init
  <2>2. quota \in Nat /\ maxEntries \in Nat
    BY ArtifactsAssumption
  <2> QED
    BY <2>1, <2>2 DEF Room, Writing
<1>2. IInv /\ Room /\ [Next]_vars => Room'
  BY RoomStep
<1>3. IInv /\ Room => QuotaKept
  <2> SUFFICES ASSUME IInv, Room PROVE QuotaKept
    OBVIOUS
  <2> DEFINE coming == {w \in Result : write[w] \in {"create", "write"}}
  <2>1. Len(entries) \in Nat /\ used \in Nat
    BY SizesTyped DEF IInv
  <2>2. CASE coming = {}
    <3>1. Cardinality(coming) = 0
      BY <2>2, FS_EmptySet
    <3> HIDE DEF coming
    <3>2. Len(entries) + Cardinality(coming) <= maxEntries
      BY <2>1, <3>1 DEF Room
    <3>3. used + (IF coming = {} THEN 0 ELSE size[CHOOSE w \in coming : TRUE]) <= quota
      BY <2>1, <2>2 DEF Room
    <3> QED
      BY <3>2, <3>3 DEF QuotaKept, coming
  <2>3. CASE coming # {}
    <3> DEFINE v == CHOOSE w \in coming : TRUE
    <3>1. v \in coming
      BY <2>3
    <3>2. v \in Result /\ write[v] \in {"create", "write"}
      BY <3>1
    <3>3. coming = {v}
      BY <3>2, HeadOfChain DEF IInv, Writing
    <3>4. Cardinality(coming) = 1
      BY <3>3, FS_Singleton
    <3>5. Len(entries) + 1 <= maxEntries /\ used + size[v] <= quota
      BY <3>2 DEF Room
    <3> HIDE DEF coming
    <3>6. used + (IF coming = {} THEN 0 ELSE size[v]) <= quota
      BY <2>3, <3>5
    <3> QED
      BY <3>4, <3>5, <3>6 DEF QuotaKept, coming
  <2> QED
    BY <2>2, <2>3
<1> QED
  BY <1>1, <1>2, <1>3, ArtInvariant, PTL DEF Spec

=============================================================================
