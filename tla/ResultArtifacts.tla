--------------------------- MODULE ResultArtifacts ---------------------------
(***************************************************************************)
(* runtime/artifacts.ts and the handlers around it in server.ts: large     *)
(* results are written to private files one after the other, the oldest    *)
(* make room for the next, expired ones are swept, and reads, which go     *)
(* through a query gate, check the connection and the policy before and    *)
(* after.  A step is the code between two awaits of a file operation, the  *)
(* gate, a query or the look-up of one connection.                         *)
(***************************************************************************)
EXTENDS Naturals, Sequences, FiniteSets, SequencesExt

CONSTANTS
  Result,          (* queries whose result is too large to send inline     *)
  Reader,          (* read_result, read_result_cell and read_export calls  *)
  Connection,      (* saved connections                                    *)
  about,           (* the connections a result came from, as looked up     *)
  Setting,         (* settings a connection can have                       *)
  Policy,          (* contents of the policy file                          *)
  Sizes,           (* bytes a result can have                              *)
  quota,           (* bytes all artifacts may have (64 MiB)                *)
  maxEntries,      (* artifacts kept (32)                                  *)
  maxWaiting,      (* writes accepted and not finished (8)                 *)
  maximum,         (* reads at the same time (2)                           *)
  queueLimit,      (* reads waiting for their turn (8)                     *)
  Edits            (* bound: changes of the configuration                  *)

ASSUME ArtifactsAssumption ==
    /\ IsFiniteSet(Result) /\ IsFiniteSet(Reader) /\ Result \cap Reader = {}
    /\ Sizes # {} /\ Sizes \subseteq Nat
    /\ about \in [Result -> Seq(Connection) \ {<<>>}]
    /\ quota \in Nat
    /\ {maxEntries, maxWaiting, maximum} \subseteq Nat \ {0}
    /\ {queueLimit, Edits} \subseteq Nat

\* The query that stored a result also asks for its first page.
Read == Result \cup Reader

\* What a query records of the configuration.
Scope == [policy : Policy, settings : [Connection -> Setting]]

VARIABLES
  policy,          (* the policy file, read again whenever it is asked     *)
  known,           (* the settings the parser gives for a connection       *)
  edits,           (* changes of these so far                              *)
  source,          (* the scope a query recorded before it ran             *)
  size,            (* the bytes of a result                                *)
  write,           (* how far a result has got                             *)
  writes,          (* the chain of writes; its head is being written       *)
  waitingWrites,   (* this.waitingWrites                                   *)
  entries,         (* listed artifacts, oldest first                       *)
  expired,         (* those past their expiry time                         *)
  files,           (* files in the directory                               *)
  removing,        (* the file the writer and the sweep are unlinking      *)
  lost,            (* files a failed write or unlink left behind           *)
  read,            (* how far a read has got                               *)
  target,          (* the result it asks for                               *)
  at,              (* the connections it, or a query, has looked up        *)
  since,           (* history: the connections whose settings were those   *)
                   (* recorded at some time since a read's last await of   *)
                   (* another kind: since it was asked, or read its rows   *)
  inside,          (* reads that hold a slot of the gate                   *)
  closed,          (* close was called                                     *)
  gone             (* the directory has been removed                       *)

scopeVars == <<policy, known, edits>>
writeVars == <<source, size, write, writes, waitingWrites>>
storeVars == <<entries, expired, files, removing, lost>>
readVars == <<read, target, at, since, inside>>
closeVars == <<closed, gone>>
vars == <<scopeVars, writeVars, storeVars, readVars, closeVars>>

ReadGate == INSTANCE Permits WITH Caller <- Read, held <- inside

Listed == Range(entries)
Writing == {"expire", "evict", "create", "write"}
Written == {"new", "query", "queued", "stored", "failed"} \cup Writing
Reading == {"none", "check", "authorize", "gate", "read", "recheck", "answered"}

Init == /\ policy \in Policy /\ known \in [Connection -> Setting] /\ edits = 0
        /\ source = [w \in Result |-> [policy |-> policy, settings |-> known]]
        /\ size = [w \in Result |-> 0]
        /\ write = [w \in Result |-> "new"] /\ writes = <<>> /\ waitingWrites = 0
        /\ entries = <<>> /\ expired = {} /\ files = {}
        /\ removing = [a \in {"writer", "sweep"} |-> {}]
        /\ lost = {}
        /\ read = [r \in Read |-> "none"]
        /\ target \in {f \in [Read -> Result] : \A w \in Result : f[w] = w}
        /\ at = [r \in Read |-> 0] /\ since = [r \in Reader |-> {}]
        /\ inside = {}
        /\ closed = FALSE /\ gone = FALSE

-----------------------------------------------------------------------------
(***************************************************************************)
(* Making room.                                                            *)
(***************************************************************************)
used == FoldSeq(LAMBDA w, total : size[w] + total, 0, entries)

\* All entries live equally long, so the expired ones are the oldest.
HeadExpired == entries # <<>> /\ Head(entries) \in expired
Full(w) == entries # <<>> /\ (Len(entries) >= maxEntries \/ used + size[w] > quota)

\* Mutant: an entry leaves the list and its file stays.
RemoveOldestOnly(a) == entries' = Tail(entries) /\ UNCHANGED removing

\* remove up to its unlink: the oldest entry leaves the list.
RemoveOldest(a) == /\ entries' = Tail(entries)
                   /\ removing' = [removing EXCEPT ![a] = {Head(entries)}]

\* reserve up to its next unlink: past the expired entries, then past the
\* oldest ones until the result fits, then on to the file.
Reserve(w, from) ==
    \/ /\ from = "expire" /\ HeadExpired
       /\ write' = [write EXCEPT ![w] = "expire"]
       /\ RemoveOldest("writer")
    \/ /\ ~(from = "expire" /\ HeadExpired) /\ Full(w)
       /\ write' = [write EXCEPT ![w] = "evict"]
       /\ RemoveOldest("writer")
    \/ /\ ~(from = "expire" /\ HeadExpired) /\ ~Full(w)
       /\ write' = [write EXCEPT ![w] = "create"]
       /\ entries' = entries
       /\ removing' = [removing EXCEPT !["writer"] = {}]

\* The unlink of a is over.  If it failed the file stays, and nobody knows.
Unlinked(a) ==
    /\ removing[a] # {}
    /\ \/ files' = files \ removing[a] /\ lost' = lost
       \/ files' = files /\ lost' = lost \cup (files \cap removing[a])

WriterUnlinked ==
    /\ Unlinked("writer")
    /\ Reserve(Head(writes), write[Head(writes)])
    /\ UNCHANGED <<scopeVars, source, size, writes, waitingWrites, expired, readVars, closeVars>>

\* Mutant: the sweep leaves expired results until the store is full.
SweepStartsLate ==
    /\ ~closed /\ removing["sweep"] = {} /\ HeadExpired /\ Len(entries) >= maxEntries
    /\ RemoveOldest("sweep")
    /\ UNCHANGED <<scopeVars, writeVars, expired, files, lost, readVars, closeVars>>

\* expire, called by the timer, which close stops.
SweepStarts ==
    /\ ~closed /\ removing["sweep"] = {} /\ HeadExpired
    /\ RemoveOldest("sweep")
    /\ UNCHANGED <<scopeVars, writeVars, expired, files, lost, readVars, closeVars>>

SweepUnlinked ==
    /\ Unlinked("sweep")
    /\ IF HeadExpired THEN RemoveOldest("sweep")
       ELSE removing' = [removing EXCEPT !["sweep"] = {}] /\ entries' = entries
    /\ UNCHANGED <<scopeVars, writeVars, expired, readVars, closeVars>>

TimePasses ==
    /\ \E i \in DOMAIN entries : /\ entries[i] \notin expired
                                 /\ expired' = expired \cup {entries[j] : j \in 1..i}
    /\ UNCHANGED <<scopeVars, writeVars, entries, files, removing, lost, readVars, closeVars>>

-----------------------------------------------------------------------------
(***************************************************************************)
(* Storing a result.                                                       *)
(***************************************************************************)
\* The scope recorded for w takes what the parser gives for its next connection.
Recorded(w) == LET c == about[w][at[w] + 1]
               IN [source EXCEPT ![w].settings[c] = known[c]]

\* A connection is looked up, and another one after it.
Connect(w) ==
    /\ write[w] = "new" /\ at[w] + 1 < Len(about[w])
    /\ source' = Recorded(w)
    /\ at' = [at EXCEPT ![w] = @ + 1]
    /\ UNCHANGED <<scopeVars, size, write, writes, waitingWrites, storeVars, read, target,
                   since, inside, closeVars>>

\* The last one is: the scope is recorded, before the query runs.
Query(w) ==
    /\ write[w] = "new" /\ at[w] + 1 = Len(about[w])
    /\ write' = [write EXCEPT ![w] = "query"]
    /\ source' = [Recorded(w) EXCEPT ![w].policy = policy]
    /\ at' = [at EXCEPT ![w] = 0]
    /\ UNCHANGED <<scopeVars, size, writes, waitingWrites, storeVars, read, target, since,
                   inside, closeVars>>

\* save and write: refused, or appended to the chain.
Save(w) ==
    /\ write[w] = "query"
    /\ IF closed \/ waitingWrites >= maxWaiting
       THEN write' = [write EXCEPT ![w] = "failed"] /\ UNCHANGED <<writes, waitingWrites>>
       ELSE /\ write' = [write EXCEPT ![w] = "queued"]
            /\ writes' = Append(writes, w)
            /\ waitingWrites' = waitingWrites + 1
    /\ \E n \in Sizes : size' = [size EXCEPT ![w] = n]
    /\ UNCHANGED <<scopeVars, source, storeVars, readVars, closeVars>>

\* A write is over, well or not: the next one can begin.
NextWrite == writes' = Tail(writes) /\ waitingWrites' = waitingWrites - 1

\* Mutant: writes are not chained.
StartWriteAtOnce(w) ==
    /\ write[w] = "queued"
    /\ size[w] <= quota
    /\ Reserve(w, "expire")
    /\ UNCHANGED <<scopeVars, source, size, writes, waitingWrites, expired, files, lost, readVars,
                   closeVars>>

\* writeNow begins when all writes before it are over.
StartWrite(w) ==
    /\ writes # <<>> /\ w = Head(writes) /\ write[w] = "queued"
    /\ IF size[w] > quota
       THEN /\ write' = [write EXCEPT ![w] = "failed"]
            /\ NextWrite
            /\ UNCHANGED <<entries, removing>>
       ELSE Reserve(w, "expire") /\ UNCHANGED <<writes, waitingWrites>>
    /\ UNCHANGED <<scopeVars, source, size, expired, files, lost, readVars, closeVars>>

\* The file is there, empty.
Create(w) ==
    /\ write[w] = "create"
    /\ write' = [write EXCEPT ![w] = "write"]
    /\ files' = files \cup {w}
    /\ UNCHANGED <<scopeVars, source, size, writes, waitingWrites, entries, expired, removing,
                   lost, readVars, closeVars>>

\* Mutant: a write that fails does not settle the chain.
WriteFailsStuck(w) ==
    /\ write[w] \in {"create", "write"}
    /\ write' = [write EXCEPT ![w] = "failed"]
    /\ lost' = IF write[w] = "write" THEN lost \cup {w} ELSE lost
    /\ UNCHANGED <<scopeVars, source, size, writes, waitingWrites, entries, expired, files,
                   removing, readVars, closeVars>>

\* open, writeFile or close fails.  The chain goes on; a file that was created
\* stays.
WriteFails(w) ==
    /\ write[w] \in {"create", "write"}
    /\ write' = [write EXCEPT ![w] = "failed"]
    /\ NextWrite
    /\ lost' = IF write[w] = "write" THEN lost \cup {w} ELSE lost
    /\ UNCHANGED <<scopeVars, source, size, entries, expired, files, removing, readVars, closeVars>>

\* What a call of read (the class's) comes to at once: a full gate refuses.
Admitted == IF \/ closed
               \/ /\ Cardinality(inside) >= maximum
                  /\ Cardinality({r \in Read : read[r] = "gate"}) >= queueLimit
            THEN "none" ELSE "gate"

\* The file is complete: it is listed, and the query asks for its first page.
Store(w) ==
    /\ write[w] = "write"
    /\ write' = [write EXCEPT ![w] = "stored"]
    /\ NextWrite
    /\ entries' = Append(entries, w)
    /\ read' = [read EXCEPT ![w] = Admitted]
    /\ UNCHANGED <<scopeVars, source, size, expired, files, removing, lost, target, at, since,
                   inside, closeVars>>

-----------------------------------------------------------------------------
(***************************************************************************)
(* Reading it.                                                             *)
(***************************************************************************)
Available(w) == w \in Listed \ expired

\* The policy is the one recorded with the result.
PolicyHeld(w) == policy = source[w].policy

\* Those of all connections that have, in k, the settings recorded with w.
Agreeing(w, k) == {c \in Connection : k[c] = source[w].settings[c]}

ReadGoesOn(r, from, ok, next) ==
    /\ read[r] \in from
    /\ read' = [read EXCEPT ![r] = IF ok THEN next ELSE "none"]
    /\ at' = [at EXCEPT ![r] = 0]
    /\ UNCHANGED <<scopeVars, writeVars, storeVars, target, closeVars>>

\* From now on it is remembered which connections had the recorded settings.
Watch(r) == since' = [q \in Reader |-> IF q = r THEN Agreeing(target[r], known) ELSE since[q]]

\* source, and the comparison of the policy before the loop over the scopes.
Ask(r) == /\ r \in Reader
          /\ write[target[r]] = "stored"
          /\ ReadGoesOn(r, {"none", "answered"}, Available(target[r]) /\ PolicyHeld(target[r]),
                        "check")
          /\ Watch(r)
          /\ UNCHANGED inside

\* The look-up of the next connection is over: it and the policy are compared
\* with what was recorded.
ScopeHeld(r) == LET w == target[r]
                    c == about[w][at[r] + 1]
                IN PolicyHeld(w) /\ known[c] = source[w].settings[c]

\* One round of the loop of resultConnections.  The connections come from the
\* parser, which may answer from its cache.
CompareScope(r, from, next) ==
    /\ \/ /\ at[r] + 1 < Len(about[target[r]]) /\ ScopeHeld(r)
          /\ read[r] = from
          /\ at' = [at EXCEPT ![r] = @ + 1]
          /\ UNCHANGED <<scopeVars, writeVars, storeVars, read, target, closeVars>>
       \/ /\ at[r] + 1 >= Len(about[target[r]]) \/ ~ScopeHeld(r)
          /\ ReadGoesOn(r, {from}, ScopeHeld(r), next)
    /\ UNCHANGED <<since, inside>>

Checked(r) == CompareScope(r, "check", "authorize")

\* assertQueryAccess allows the query again, or there is none to ask about.
Authorized(r) == ReadGoesOn(r, {"authorize"}, TRUE, Admitted) /\ UNCHANGED <<since, inside>>

\* A look-up fails, the policy refuses, the wait is too long or the file
\* cannot be read.
ReadFails(r) == /\ ReadGoesOn(r, {"check", "authorize", "gate", "read", "recheck"}, FALSE, "none")
                /\ inside' = inside \ {r}
                /\ UNCHANGED since

\* The gate gives a slot; the entry is looked up before the slot is used.
Enter(r) ==
    /\ ReadGoesOn(r, {"gate"}, ~closed /\ Available(target[r]), "read")
    /\ IF read'[r] = "read" THEN ReadGate!Take(r)
       ELSE Cardinality(inside) < maximum /\ UNCHANGED inside
    /\ UNCHANGED since

\* The rows are read, each from the file opened anew; for a handle the policy
\* is compared before its connections are looked up again.
RowsRead(r) ==
    /\ target[r] \in files
    /\ ReadGoesOn(r, {"read"}, r \in Reader /\ PolicyHeld(target[r]), "recheck")
    /\ Watch(r)
    /\ ReadGate!GiveBack(r)

\* Mutant: of several connections, the first is compared again.
RecheckedFirst(r) == /\ ReadGoesOn(r, {"recheck"}, ScopeHeld(r), "answered")
                     /\ UNCHANGED <<since, inside>>

\* resultConnections once more.
Rechecked(r) == CompareScope(r, "recheck", "answered")

-----------------------------------------------------------------------------
(***************************************************************************)
(* close, and the operator who edits the configuration.                    *)
(***************************************************************************)
Close ==
    /\ ~closed
    /\ closed' = TRUE
    /\ UNCHANGED <<scopeVars, writeVars, storeVars, readVars, gone>>

\* Mutant: close awaits the writes only.
RemoveDirectoryBusy ==
    /\ closed /\ ~gone
    /\ writes = <<>>
    /\ gone' = TRUE
    /\ entries' = <<>> /\ files' = {}
    /\ UNCHANGED <<scopeVars, writeVars, expired, removing, lost, readVars, closed>>

\* The writes accepted before, then the reads, are awaited.
RemoveDirectory ==
    /\ closed /\ ~gone
    /\ writes = <<>>
    /\ \A r \in Read : read[r] \notin {"gate", "read"}
    /\ gone' = TRUE
    /\ entries' = <<>> /\ files' = {}
    /\ UNCHANGED <<scopeVars, writeVars, expired, removing, lost, readVars, closed>>

\* The policy file is edited.
PolicyEdited ==
    /\ edits < Edits
    /\ \E p \in Policy \ {policy} : policy' = p
    /\ edits' = edits + 1
    /\ UNCHANGED <<known, writeVars, storeVars, readVars, closeVars>>

\* The parser reads the connections of files that were edited.  When that is
\* depends on its cache and on who else asks (see Workspace).
Reloaded ==
    /\ edits < Edits
    /\ \E k \in [Connection -> Setting] \ {known} :
          /\ known' = k
          /\ since' = [r \in Reader |-> since[r] \cup Agreeing(target[r], k)]
    /\ edits' = edits + 1
    /\ UNCHANGED <<policy, writeVars, storeVars, read, target, at, inside, closeVars>>

WriteEnds(w) == \/ StartWrite(w) \/ Create(w) \/ Store(w) \/ WriteFails(w)
                \/ (writes # <<>> /\ w = Head(writes) /\ WriterUnlinked)
ReadEnds(r) == Enter(r) \/ RowsRead(r) \/ ReadFails(r)

Next == \/ \E w \in Result : Connect(w) \/ Query(w) \/ Save(w) \/ WriteEnds(w)
        \/ \E r \in Read : Ask(r) \/ Checked(r) \/ Authorized(r) \/ Rechecked(r) \/ ReadEnds(r)
        \/ SweepStarts \/ SweepUnlinked \/ TimePasses
        \/ Close \/ RemoveDirectory \/ PolicyEdited \/ Reloaded

Spec == Init /\ [][Next]_vars

\* File operations end, the gate's timer ends waiting, the sweep's timer fires.
Fairness == /\ \A w \in Result : WF_vars(WriteEnds(w))
            /\ \A r \in Read : WF_vars(ReadEnds(r))
            /\ WF_vars(SweepStarts) /\ WF_vars(SweepUnlinked) /\ WF_vars(RemoveDirectory)

FairSpec == Spec /\ Fairness

-----------------------------------------------------------------------------
\* The store's state is well formed.
TypeOK ==
    /\ policy \in Policy /\ known \in [Connection -> Setting] /\ edits \in 0..Edits
    /\ source \in [Result -> Scope]
    /\ size \in [Result -> Sizes \cup {0}]
    /\ write \in [Result -> Written]
    /\ writes \in Seq(Result) /\ waitingWrites \in 0..maxWaiting
    /\ entries \in Seq(Result)
    /\ expired \subseteq Result /\ files \subseteq Result /\ lost \subseteq Result
    /\ removing \in [{"writer", "sweep"} -> SUBSET Result]
    /\ read \in [Read -> Reading] /\ target \in [Read -> Result]
    /\ at \in [Read -> Nat] /\ since \in [Reader -> SUBSET Connection]
    /\ inside \subseteq Read
    /\ closed \in BOOLEAN /\ gone \in BOOLEAN

\* Listed results and the one being written stay within both limits, although
\* the room a write reserved is used only several awaits later.
QuotaKept == LET coming == {w \in Result : write[w] \in {"create", "write"}} IN
    /\ Len(entries) + Cardinality(coming) <= maxEntries
    /\ used + (IF coming = {} THEN 0 ELSE size[CHOOSE w \in coming : TRUE]) <= quota

\* The list and the directory agree, although three actors work on them: what
\* is listed has its complete file, and a file is listed, being written or
\* being unlinked, or it was left by a failed write or unlink.
FilesAccounted ==
    /\ \A w \in Listed : write[w] = "stored" /\ w \in files
    /\ files \subseteq UNION {Listed, {w \in Result : write[w] = "write"},
                              removing["writer"], removing["sweep"], lost}

\* "Shutdown drains active reads before deleting the private files" - and
\* writes: nothing is open when the directory goes, and no file comes after.
DrainedClose == gone => /\ files = {} /\ inside = {}
                        /\ \A w \in Result : write[w] \notin {"queued"} \cup Writing

\* "Handles also bind to the original connection configuration and application
\* policy revision" (docs-site/docs/guides/access.md:80), although each of
\* several connections takes an await of its own (server.ts:1396): before rows
\* are asked for, and again before they are answered, the policy is the
\* recorded one and every connection had its recorded settings, as far as the
\* parser knew them, at some time since the read was asked or the rows read.
ScopesHeld == [][\A r \in Reader :
    read'[r] \in {"authorize", "answered"} /\ read[r] # read'[r] =>
        PolicyHeld(target[r]) /\ Range(about[target[r]]) \subseteq since[r]]_vars

\* close finally removes the directory, whatever was queued or being read.
CloseEnds == closed ~> gone

\* The file of an expired result is finally deleted or known as lost.
ExpiredGoes == \A w \in Result : w \in expired ~> w \notin files \/ w \in lost

=============================================================================
