------------------------- MODULE SharedStateProofs --------------------------
(***************************************************************************)
(* Proofs about what the calls of the server keep between them in memory:  *)
(* the configuration (Workspace), the private notes (Notes) and the        *)
(* log-ins with AWS (IamAuth), for every set of calls, projects, contents, *)
(* scopes and connections.                                                 *)
(***************************************************************************)
EXTENDS Workspace, Notes, IamAuth, SequenceTheorems, TLAPS

\* What the files under a stat say, and a stat of a format that has no file.
FoundIn(signature) ==
    UNION {Read(q, signature[q].connections, signature[q].credentials) :
              q \in {r \in DOMAIN signature : signature[r].connections \in Sound}}
NoFile(signature) == \A q \in DOMAIN signature : signature[q].connections = Missing

\* What a parse will have found at its end, if no file is edited.
InSight(p) == UNION {Read(s.place, s.settings, disk[s.place].credentials) : s \in p.sees}
Ahead(p) == UNION {Read(q, disk[q].connections, disk[q].credentials) :
                      q \in {r \in p.left : disk[r].connections \in Sound}}
WillFind(p) == p.found \cup InSight(p) \cup Ahead(p)

\* A parse under way sees one file at a time and, as long as no file is
\* edited, finds what there is; who waits for it has taken down today's stat,
\* or that of the format which has no file.
ParseOK(p) ==
    /\ \A s, t \in p.sees : s = t
    /\ p.sees # {} => ~p.failed
    /\ p.clean /\ ~p.failed => WillFind(p) = Current(newFormat)
    /\ p.clean => \A c \in Loader : loading[c] = "waiting" =>
                      asked[c].signature = Signature \/ NoFile(asked[c].signature)

CacheOK(m) == m.clean => m.content = FoundIn(m.signature) \/ NoFile(m.signature)

WorkspaceInv ==
    /\ WorkspaceTypeOK
    /\ WaitsJoined
    /\ DOMAIN asked = Loader
    /\ \A c \in Loader : loading[c] = "waiting" => asked[c].configured \in Sound \cup {Missing}
    /\ \A p \in pending : ParseOK(p)
    /\ \A m \in cache : CacheOK(m)

-----------------------------------------------------------------------------
\* Reading is well typed.
LEMMA ReadType ==
  ASSUME NEW place \in Place \cup {"config"}, NEW v \in Sound, NEW credentials \in Contents
  PROVE  Read(place, v, credentials) \subseteq Connection
  <1>1. Sound \subseteq Version /\ Missing \in Contents
    BY WorkspaceAssumption DEF Contents
  <1>2. \A i \in holds[v] : i \in UNION {holds[w] : w \in Sound}
    OBVIOUS
  <1> QED
    BY <1>1, <1>2 DEF Read, Connection

LEMMA ConfiguredType ==
  ASSUME NEW v \in Sound \cup {Missing}
  PROVE  Configured(v) \subseteq Connection
  <1>1. Missing \in Contents
    BY DEF Contents
  <1>2. CASE v = Missing
    BY <1>2 DEF Configured
  <1>3. CASE v # Missing
    BY <1>1, <1>3, ReadType DEF Configured
  <1> QED
    BY <1>2, <1>3

\* Today's stat says what a parse of the detected format would find.
LEMMA SignatureFinds == FoundIn(Signature) = Current(newFormat)
  BY DEF FoundIn, Signature, Current

\* A format without its file has nothing to say.
LEMMA NothingToFind ==
  ASSUME NEW new \in BOOLEAN, ~Exists(new)
  PROVE  Current(new) = {}
  <1>1. Missing \notin Sound
    BY WorkspaceAssumption
  <1>2. \A q \in Places(new) : disk[q].connections \notin Sound
    BY <1>1 DEF Exists
  <1> QED
    BY <1>2 DEF Current

\* What depends on the files and the format alone.
LEMMA SameFiles ==
  ASSUME UNCHANGED <<disk, newFormat>>
  PROVE  /\ Signature' = Signature
         /\ Current(newFormat)' = Current(newFormat)
         /\ Exists(newFormat)' = Exists(newFormat)
         /\ \A p : WillFind(p)' = WillFind(p)
  <1>1. Places(newFormat)' = Places(newFormat)
    BY DEF Places, ProjectDirs
  <1>2. \A p : WillFind(p)' = WillFind(p)
    BY DEF WillFind, InSight, Ahead
  <1> QED
    BY <1>1, <1>2 DEF Signature, Current, Exists

\* Who is among what a parse will have found.
LEMMA WillFindMember ==
  ASSUME NEW p, NEW x
  PROVE  x \in WillFind(p) <=>
           \/ x \in p.found
           \/ \E s \in p.sees : x \in Read(s.place, s.settings, disk[s.place].credentials)
           \/ \E q \in p.left : /\ disk[q].connections \in Sound
                               /\ x \in Read(q, disk[q].connections, disk[q].credentials)
  <1>1. x \in InSight(p) <=>
           \E s \in p.sees : x \in Read(s.place, s.settings, disk[s.place].credentials)
    BY DEF InSight
  <1>2. x \in Ahead(p) <=>
           \E q \in p.left : /\ disk[q].connections \in Sound
                           /\ x \in Read(q, disk[q].connections, disk[q].credentials)
    BY DEF Ahead
  <1> QED
    BY <1>1, <1>2 DEF WillFind

\* At its start a parse has found nothing, at its end it will find no more.
LEMMA WillFindFirst ==
  ASSUME NEW p, p.found = {}, p.sees = {}
  PROVE  WillFind(p) = Ahead(p)
  BY DEF WillFind, InSight

LEMMA WillFindLast ==
  ASSUME NEW p, p.left = {}, p.sees = {}
  PROVE  WillFind(p) = p.found
  <1>1. \A x : x \in WillFind(p) <=> x \in p.found
    BY WillFindMember
  <1> QED
    BY <1>1

LEMMA WorkspaceInvInit == WorkspaceInit => WorkspaceInv
  <1> SUFFICES ASSUME WorkspaceInit
               PROVE  WorkspaceInv
    OBVIOUS
  <1>1. WorkspaceTypeOK
    <2>1. newFormat \in BOOLEAN
      BY DEF WorkspaceInit, DetectNewFormat
    <2> QED
      BY <2>1 DEF WorkspaceInit, WorkspaceTypeOK
  <1>2. WaitsJoined
    BY DEF WorkspaceInit, WaitsJoined
  <1> QED
    BY <1>1, <1>2 DEF WorkspaceInit, WorkspaceInv

\* Steps that only take calls on which do not wait, to where they do not wait.
LEMMA QuietKeeps ==
  ASSUME WorkspaceInv, loading' \in [Loader -> {"no", "waiting", "loaded", "failed"}],
         loaded' \in [Loader -> SUBSET Connection], configured' \in Contents,
         \A c \in Loader : (loading'[c] = "waiting") = (loading[c] = "waiting"),
         UNCHANGED <<disk, newFormat, cache, pending, joined, asked>>
  PROVE  WorkspaceInv'
  <1>1. WorkspaceTypeOK'
    BY DEF WorkspaceInv, WorkspaceTypeOK
  <1>2. WaitsJoined'
    BY DEF WorkspaceInv, WaitsJoined
  <1>3. \A p \in pending : ParseOK(p)'
    BY SameFiles DEF WorkspaceInv, ParseOK
  <1>4. \A m \in cache : CacheOK(m)'
    BY DEF WorkspaceInv, CacheOK
  <1> QED
    BY <1>1, <1>2, <1>3, <1>4 DEF WorkspaceInv

\* A call is given connections, or an error.
LEMMA GivenType ==
  ASSUME WorkspaceInv, NEW c \in Loader, loading[c] = "no",
         NEW own \in SUBSET Connection, NEW discovered \in SUBSET Connection,
         Given(c, own, discovered)
  PROVE  /\ loading' \in [Loader -> {"no", "waiting", "loaded", "failed"}]
         /\ loaded' \in [Loader -> SUBSET Connection]
         /\ \A d \in Loader : (loading'[d] = "waiting") = (loading[d] = "waiting")
  BY DEF WorkspaceInv, WorkspaceTypeOK, Given

LEMMA CachedKeeps ==
  ASSUME WorkspaceInv, NEW c \in Loader, Cached(c)
  PROVE  WorkspaceInv'
  <1>1. /\ loading[c] = "no" /\ configured \in Sound \cup {Missing}
        /\ UNCHANGED <<disk, configured, newFormat, cache, pending, joined, asked>>
    BY DEF Cached
  <1>2. configured' \in Contents /\ Configured(configured) \subseteq Connection
    BY <1>1, ConfiguredType DEF WorkspaceInv, WorkspaceTypeOK
  <1>3. PICK discovered \in SUBSET Connection : Given(c, Configured(configured), discovered)
    BY DEF Cached, WorkspaceInv, WorkspaceTypeOK
  <1> QED
    BY <1>1, <1>2, <1>3, GivenType, QuietKeeps

LEMMA ConfigFailsKeeps ==
  ASSUME WorkspaceInv, NEW c \in Loader, ConfigFails(c)
  PROVE  WorkspaceInv'
  BY QuietKeeps DEF ConfigFails, WorkspaceInv, WorkspaceTypeOK

LEMMA UsedKeeps ==
  ASSUME WorkspaceInv, NEW c \in Loader, Used(c)
  PROVE  WorkspaceInv'
  BY QuietKeeps DEF Used, WorkspaceInv, WorkspaceTypeOK

LEMMA EditConfigKeeps ==
  ASSUME WorkspaceInv, EditConfig
  PROVE  WorkspaceInv'
  BY QuietKeeps DEF EditConfig, WorkspaceInv, WorkspaceTypeOK

\* A call joins the parse under way, or starts one: the stat it has taken down
\* is today's, of the format that is detected then.
LEMMA LoadKeeps ==
  ASSUME WorkspaceInv, NEW c \in Loader, Load(c)
  PROVE  WorkspaceInv'
  <1> DEFINE mine == [signature |-> Signature, configured |-> configured]
  <1>1. /\ loading[c] = "no" /\ configured \in Sound \cup {Missing}
        /\ asked' = [asked EXCEPT ![c] = mine]
        /\ loading' = [loading EXCEPT ![c] = "waiting"]
        /\ joined' = Append(joined, c)
        /\ UNCHANGED <<disk, configured, cache, loaded>>
    BY DEF Load
  <1>2. /\ DOMAIN asked = Loader /\ loading \in [Loader -> {"no", "waiting", "loaded", "failed"}]
        /\ joined \in Seq(Loader)
    BY DEF WorkspaceInv, WorkspaceTypeOK
  <1>3. mine.signature = Signature /\ mine.configured = configured
    OBVIOUS
  <1> HIDE DEF mine
  <1>4. /\ DOMAIN asked' = Loader
        /\ asked'[c] = mine /\ \A d \in Loader \ {c} : asked'[d] = asked[d]
        /\ loading'[c] = "waiting" /\ \A d \in Loader \ {c} : loading'[d] = loading[d]
        /\ loading' \in [Loader -> {"no", "waiting", "loaded", "failed"}]
    BY <1>1, <1>2
  <1>5. /\ joined' \in Seq(Loader) /\ joined' # <<>>
        /\ {joined'[i] : i \in DOMAIN joined'} = {joined[i] : i \in DOMAIN joined} \cup {c}
    <2>1. DOMAIN joined' = DOMAIN joined \cup {Len(joined) + 1} /\ Len(joined) \in Nat
      BY <1>1, <1>2
    <2> QED
      BY <1>1, <1>2, <2>1
  <1>6. {d \in Loader : loading'[d] = "waiting"} = {joined'[i] : i \in DOMAIN joined'}
    BY <1>4, <1>5 DEF WorkspaceInv, WaitsJoined
  <1>7. \A d \in Loader : loading'[d] = "waiting" => asked'[d].configured \in Sound \cup {Missing}
    BY <1>1, <1>3, <1>4 DEF WorkspaceInv
  <1>8. \A m \in cache : CacheOK(m)'
    BY DEF WorkspaceInv, CacheOK
  <1>9. CASE pending = {} /\ StartParse
    <2>1. \A d \in Loader \ {c} : loading'[d] # "waiting"
      BY <1>2, <1>4, <1>9 DEF WorkspaceInv, WaitsJoined
    <2> DEFINE new == IF Exists(newFormat) \/ ~Exists(~newFormat) THEN newFormat ELSE ~newFormat
    <2>2. new \in BOOLEAN /\ newFormat \in BOOLEAN /\ newFormat' = new
      BY <1>9 DEF StartParse, WorkspaceInv, WorkspaceTypeOK
    <2>3. PICK p : p = [left |-> IF Exists(new) THEN Places(new) ELSE {}, sees |-> {},
                        found |-> {}, first |-> TRUE, failed |-> FALSE, clean |-> TRUE]
      OBVIOUS
    <2>4. newFormat' # newFormat => ~Exists(newFormat)
      BY <2>2
    <2>5. pending' = {p}
      BY <1>9, <2>3 DEF StartParse
    <2> HIDE DEF new
    <2>6. /\ p.left = IF Exists(new) THEN Places(new) ELSE {}
          /\ p.sees = {} /\ p.found = {} /\ p.clean /\ ~p.failed
      BY <2>3
    <2>7. p \in ParseState
      <3>1. Places(new) \subseteq Place
        BY WorkspaceAssumption DEF Places, ProjectDirs, Place
      <3> QED
        BY <2>3, <3>1 DEF ParseState
    <2>8. WorkspaceTypeOK'
      BY <1>1, <1>4, <1>5, <2>2, <2>5, <2>7 DEF WorkspaceInv, WorkspaceTypeOK
    <2>9. WillFind(p)' = Current(newFormat)'
      <3>1. WillFind(p)' = WillFind(p) /\ Current(newFormat)' = Current(new)
        BY <1>1, <2>2 DEF WillFind, InSight, Ahead, Current, Places, ProjectDirs
      <3>2. WillFind(p) = Current(new)
        <4>1. CASE Exists(new)
          BY <2>6, <4>1, WillFindFirst DEF Ahead, Current
        <4>2. CASE ~Exists(new)
          BY <2>2, <2>6, <4>2, NothingToFind, WillFindLast
        <4> QED
          BY <4>1, <4>2
      <3> QED
        BY <3>1, <3>2
    <2>10. \A q \in pending' : ParseOK(q)'
      <3>1. asked'[c].signature = Signature' \/ NoFile(asked'[c].signature)
        <4>1. CASE newFormat' = newFormat
          <5>1. Signature' = Signature
            BY <1>1, <4>1, SameFiles
          <5> QED
            BY <1>3, <1>4, <5>1
        <4>2. CASE newFormat' # newFormat
          <5>1. NoFile(Signature)
            BY <2>4, <4>2 DEF NoFile, Signature, Exists
          <5> QED
            BY <1>3, <1>4, <5>1
        <4> QED
          BY <4>1, <4>2
      <3>2. ASSUME NEW d \in Loader, loading'[d] = "waiting"
            PROVE  asked'[d].signature = Signature' \/ NoFile(asked'[d].signature)
        BY <2>1, <3>1, <3>2
      <3>3. ParseOK(p)'
        BY <2>6, <2>9, <3>2 DEF ParseOK, NoFile
      <3> QED
        BY <2>5, <3>3
    <2>11. WaitsJoined'
      BY <1>5, <1>6, <2>5 DEF WaitsJoined
    <2> QED
      BY <1>1, <1>4, <1>7, <1>8, <2>8, <2>10, <2>11 DEF WorkspaceInv
  <1>10. CASE pending # {} /\ UNCHANGED <<newFormat, pending>>
    <2>1. WorkspaceTypeOK'
      BY <1>1, <1>4, <1>5, <1>10 DEF WorkspaceInv, WorkspaceTypeOK
    <2>2. WaitsJoined'
      BY <1>5, <1>6, <1>10 DEF WaitsJoined
    <2>3. /\ Signature' = Signature /\ Current(newFormat)' = Current(newFormat)
          /\ \A p : WillFind(p)' = WillFind(p)
      BY <1>1, <1>10, SameFiles
    <2>4. ASSUME NEW p \in pending
          PROVE  ParseOK(p)'
      <3>1. ParseOK(p)
        BY DEF WorkspaceInv
      <3>2. p.clean => \A d \in Loader : loading'[d] = "waiting" =>
                           asked'[d].signature = Signature \/ NoFile(asked'[d].signature)
        BY <1>3, <1>4, <3>1 DEF ParseOK
      <3> QED
        BY <1>10, <2>3, <3>1, <3>2 DEF ParseOK, NoFile
    <2> QED
      BY <1>1, <1>4, <1>7, <1>8, <1>10, <2>1, <2>2, <2>4 DEF WorkspaceInv
  <1> QED
    BY <1>9, <1>10 DEF Load

\* A step of the parse under way leaves who waits, and what is cached, alone.
LEMMA ParseStepKeeps ==
  ASSUME WorkspaceInv, pending # {}, NEW q \in ParseState, pending' = {q},
         \A s, t \in q.sees : s = t, q.sees # {} => ~q.failed,
         q.clean /\ ~q.failed => WillFind(q) = Current(newFormat),
         NEW p \in pending, q.clean = p.clean,
         UNCHANGED <<disk, configured, newFormat, cache, joined, asked, loading, loaded>>
  PROVE  WorkspaceInv'
  <1>1. WorkspaceTypeOK'
    BY DEF WorkspaceInv, WorkspaceTypeOK
  <1>2. WaitsJoined'
    BY DEF WorkspaceInv, WaitsJoined
  <1>3. ParseOK(q)'
    <2>1. ParseOK(p)
      BY DEF WorkspaceInv
    <2> QED
      BY <2>1, SameFiles DEF ParseOK
  <1>4. \A m \in cache : CacheOK(m)'
    BY DEF WorkspaceInv, CacheOK
  <1> QED
    BY <1>1, <1>2, <1>3, <1>4 DEF WorkspaceInv

LEMMA ReadConnectionsKeeps ==
  ASSUME WorkspaceInv, ReadConnections
  PROVE  WorkspaceInv'
  <1>0. PICK p \in pending : \E place \in p.left :
          /\ p.sees = {} /\ ~p.failed
          /\ LET v == disk[place].connections IN
             pending' = {[p EXCEPT !.first = FALSE, !.left = p.left \ {place},
                             !.failed = v \notin Sound \cup {Missing},
                             !.sees = IF v \in Sound THEN {[place |-> place, settings |-> v]} ELSE {}]}
    BY DEF ReadConnections
  <1>1. PICK place \in p.left :
          /\ p.sees = {} /\ ~p.failed
          /\ LET v == disk[place].connections IN
             pending' = {[p EXCEPT !.first = FALSE, !.left = p.left \ {place},
                             !.failed = v \notin Sound \cup {Missing},
                             !.sees = IF v \in Sound THEN {[place |-> place, settings |-> v]} ELSE {}]}
    BY <1>0
  <1>2. PICK v : v = disk[place].connections
    OBVIOUS
  <1>3. PICK q : q = [p EXCEPT !.first = FALSE, !.left = p.left \ {place},
                         !.failed = v \notin Sound \cup {Missing},
                         !.sees = IF v \in Sound THEN {[place |-> place, settings |-> v]} ELSE {}]
    OBVIOUS
  <1>4. p \in ParseState /\ place \in Place
    BY DEF WorkspaceInv, WorkspaceTypeOK, ParseState
  <1>5. /\ q.left = p.left \ {place} /\ q.found = p.found /\ q.clean = p.clean
        /\ q.failed = (v \notin Sound \cup {Missing})
        /\ q.sees = IF v \in Sound THEN {[place |-> place, settings |-> v]} ELSE {}
    BY <1>3, <1>4 DEF ParseState
  <1>6. q \in ParseState
    <2>1. q.sees \subseteq [place : Place, settings : Sound]
      BY <1>4, <1>5
    <2>2. q.left \subseteq Place /\ q.found \subseteq Connection /\ q.failed \in BOOLEAN
      BY <1>4, <1>5 DEF ParseState
    <2>3. q = [p EXCEPT !.first = FALSE, !.left = q.left, !.failed = q.failed, !.sees = q.sees]
      BY <1>3, <1>4, <1>5 DEF ParseState
    <2> QED
      BY <1>4, <2>1, <2>2, <2>3 DEF ParseState
  <1>7. pending' = {q}
    BY <1>1, <1>2, <1>3
  <1>8. ASSUME ~q.failed
        PROVE  WillFind(q) = WillFind(p)
    <2>1. v = disk[place].connections /\ (v \in Sound \/ v = Missing)
      BY <1>2, <1>5, <1>8
    <2>2. ASSUME NEW x
          PROVE  x \in WillFind(q) <=> x \in WillFind(p)
      <3>1. CASE v \in Sound
        <4>1. q.sees = {[place |-> place, settings |-> v]}
          BY <1>5, <3>1
        <4>2. (\E s \in q.sees : x \in Read(s.place, s.settings, disk[s.place].credentials))
                 <=> x \in Read(place, v, disk[place].credentials)
          BY <4>1
        <4> QED
          BY <1>1, <1>5, <2>1, <3>1, <4>2, WillFindMember
      <3>2. CASE v = Missing
        <4>1. v \notin Sound
          BY <3>2, WorkspaceAssumption
        <4> QED
          BY <1>1, <1>5, <2>1, <4>1, WillFindMember
      <3> QED
        BY <2>1, <3>1, <3>2
    <2>3. \A x : x \in WillFind(q) <=> x \in WillFind(p)
      BY <2>2
    <2> QED
      BY <2>3
  <1>9. q.clean /\ ~q.failed => WillFind(q) = Current(newFormat)
    <2>1. p.clean => WillFind(p) = Current(newFormat)
      BY <1>1 DEF WorkspaceInv, ParseOK
    <2> QED
      BY <1>5, <1>8, <2>1
  <1>10. /\ \A s, t \in q.sees : s = t
         /\ q.sees # {} => ~q.failed
    BY <1>5
  <1>11. UNCHANGED <<disk, configured, newFormat, cache, joined, asked, loading, loaded>>
    BY DEF ReadConnections
  <1> QED
    BY <1>5, <1>6, <1>7, <1>9, <1>10, <1>11, ParseStepKeeps

LEMMA ReadCredentialsKeeps ==
  ASSUME WorkspaceInv, ReadCredentials
  PROVE  WorkspaceInv'
  <1>0. PICK p \in pending : \E s \in p.sees :
          LET new == Read(s.place, s.settings, disk[s.place].credentials) IN
          pending' = {[p EXCEPT !.sees = {}, !.found = p.found \cup new,
                          !.failed = Ids(p.found) \cap Ids(new) # {}]}
    BY DEF ReadCredentials
  <1>1. PICK s \in p.sees :
          LET new == Read(s.place, s.settings, disk[s.place].credentials) IN
          pending' = {[p EXCEPT !.sees = {}, !.found = p.found \cup new,
                          !.failed = Ids(p.found) \cap Ids(new) # {}]}
    BY <1>0
  <1>2. PICK new : new = Read(s.place, s.settings, disk[s.place].credentials)
    OBVIOUS
  <1>3. PICK q : q = [p EXCEPT !.sees = {}, !.found = p.found \cup new,
                          !.failed = Ids(p.found) \cap Ids(new) # {}]
    OBVIOUS
  <1>4. p \in ParseState /\ s.place \in Place /\ s.settings \in Sound
    BY DEF WorkspaceInv, WorkspaceTypeOK, ParseState
  <1>5. new \subseteq Connection
    <2>1. disk[s.place].credentials \in Contents
      BY <1>4 DEF WorkspaceInv, WorkspaceTypeOK
    <2> QED
      BY <1>2, <1>4, <2>1, ReadType
  <1>6. /\ q.left = p.left /\ q.found = p.found \cup new /\ q.clean = p.clean /\ q.sees = {}
        /\ q.failed = (Ids(p.found) \cap Ids(new) # {})
    BY <1>3, <1>4 DEF ParseState
  <1>7. q \in ParseState
    BY <1>3, <1>4, <1>5 DEF ParseState
  <1>8. pending' = {q}
    BY <1>1, <1>2, <1>3
  <1>9. WillFind(q) = WillFind(p)
    <2>1. \A t \in p.sees : t = s
      BY DEF WorkspaceInv, ParseOK
    <2>2. ASSUME NEW x
          PROVE  x \in WillFind(q) <=> x \in WillFind(p)
      BY <1>2, <1>6, <2>1, WillFindMember
    <2>3. \A x : x \in WillFind(q) <=> x \in WillFind(p)
      BY <2>2
    <2> QED
      BY <2>3
  <1>10. q.clean /\ ~q.failed => WillFind(q) = Current(newFormat)
    <2>1. p.clean /\ ~p.failed => WillFind(p) = Current(newFormat)
      BY DEF WorkspaceInv, ParseOK
    <2>2. ~p.failed
      BY DEF WorkspaceInv, ParseOK
    <2> QED
      BY <1>6, <1>9, <2>1, <2>2
  <1>11. UNCHANGED <<disk, configured, newFormat, cache, joined, asked, loading, loaded>>
    BY DEF ReadCredentials
  <1> QED
    BY <1>6, <1>7, <1>8, <1>10, <1>11, ParseStepKeeps

\* What the calls that waited are given.
LEMMA SettleKeeps ==
  ASSUME WorkspaceInv, Settle
  PROVE  WorkspaceInv'
  <1>1. PICK p \in pending :
    /\ (p.left = {} /\ p.sees = {}) \/ p.failed
    /\ IF p.failed
       THEN /\ loading' = [c \in Loader |-> IF loading[c] = "waiting" THEN "failed" ELSE loading[c]]
            /\ UNCHANGED <<cache, loaded>>
       ELSE /\ cache' = {[signature |-> asked[joined[Len(joined)]].signature,
                          content |-> p.found, clean |-> p.clean]}
            /\ LET own(c) == Configured(asked[c].configured)
                   ambiguous(c) == Ids(own(c)) \cap Ids(p.found) # {} IN
               /\ loading' = [c \in Loader |->
                      IF loading[c] # "waiting" THEN loading[c]
                      ELSE IF ambiguous(c) THEN "failed" ELSE "loaded"]
               /\ loaded' = [c \in Loader |->
                      IF loading[c] # "waiting" \/ ambiguous(c) THEN loaded[c]
                      ELSE own(c) \cup p.found]
    BY DEF Settle, ParseEnds
  <1>2. /\ pending' = {} /\ joined' = <<>> /\ asked' = [c \in Loader |-> NotAsked]
        /\ UNCHANGED <<disk, configured, newFormat>>
    BY DEF Settle, ParseEnds
  <1>3. /\ loading \in [Loader -> {"no", "waiting", "loaded", "failed"}]
        /\ loaded \in [Loader -> SUBSET Connection]
        /\ p.found \subseteq Connection /\ p.clean \in BOOLEAN
        /\ \A c \in Loader : loading[c] = "waiting" => Configured(asked[c].configured) \subseteq Connection
    BY ConfiguredType DEF WorkspaceInv, WorkspaceTypeOK, ParseState
  <1>4. /\ loading' \in [Loader -> {"no", "waiting", "loaded", "failed"}]
        /\ \A c \in Loader : loading'[c] # "waiting"
        /\ loaded' \in [Loader -> SUBSET Connection]
    BY <1>1, <1>3
  <1>5. joined \in Seq(Loader) /\ joined # <<>>
    BY DEF WorkspaceInv, WorkspaceTypeOK, WaitsJoined
  <1>6. Len(joined) \in DOMAIN joined /\ joined[Len(joined)] \in Loader
    BY <1>5
  <1>7. loading[joined[Len(joined)]] = "waiting"
    BY <1>6 DEF WorkspaceInv, WaitsJoined
  <1>8. \A m \in cache' : m.content \subseteq Connection /\ m.clean \in BOOLEAN /\ CacheOK(m)
    <2>1. CASE p.failed
      BY <1>1, <2>1 DEF WorkspaceInv, WorkspaceTypeOK
    <2>2. CASE ~p.failed
      <3>1. PICK m : m = [signature |-> asked[joined[Len(joined)]].signature,
                          content |-> p.found, clean |-> p.clean]
        OBVIOUS
      <3>2. cache' = {m}
        BY <1>1, <2>2, <3>1
      <3>3. /\ m.signature = asked[joined[Len(joined)]].signature
            /\ m.content = p.found /\ m.clean = p.clean
        BY <3>1
      <3>4. p.clean => p.found = FoundIn(Signature)
        <4>1. p.left = {} /\ p.sees = {}
          BY <1>1, <2>2
        <4>2. p.clean => WillFind(p) = Current(newFormat)
          BY <2>2 DEF WorkspaceInv, ParseOK
        <4> QED
          BY <4>1, <4>2, WillFindLast, SignatureFinds
      <3>5. p.clean => m.signature = Signature \/ NoFile(m.signature)
        BY <1>6, <1>7, <3>3 DEF WorkspaceInv, ParseOK
      <3>6. CacheOK(m)
        BY <3>3, <3>4, <3>5 DEF CacheOK
      <3> QED
        BY <1>3, <3>2, <3>3, <3>6
    <2> QED
      BY <2>1, <2>2
  <1>9. WorkspaceTypeOK'
    BY <1>2, <1>4, <1>8 DEF WorkspaceInv, WorkspaceTypeOK
  <1>10. WaitsJoined'
    BY <1>2, <1>4 DEF WaitsJoined
  <1>11. \A m \in cache' : CacheOK(m)'
    BY <1>8 DEF CacheOK
  <1> QED
    BY <1>2, <1>4, <1>9, <1>10, <1>11 DEF WorkspaceInv

\* A file changes: a parse under way is no longer clean.
LEMMA EditFileKeeps ==
  ASSUME WorkspaceInv, EditFile
  PROVE  WorkspaceInv'
  <1>1. /\ pending' = {[p EXCEPT !.clean = FALSE] : p \in pending}
        /\ UNCHANGED <<configured, newFormat, cache, joined, asked, loading, loaded>>
    BY DEF EditFile
  <1>2. disk' \in [Place -> [connections : Contents, credentials : Contents]]
    <2>1. disk \in [Place -> [connections : Contents, credentials : Contents]]
      BY DEF WorkspaceInv, WorkspaceTypeOK
    <2>2. PICK q \in Place, v \in Contents :
             \/ disk' = [disk EXCEPT ![q].connections = v]
             \/ disk' = [disk EXCEPT ![q].credentials = v]
      BY DEF EditFile
    <2> QED
      BY <2>1, <2>2
  <1>3. ASSUME NEW q \in pending'
        PROVE  q \in ParseState /\ ParseOK(q)'
    <2>1. PICK p \in pending : q = [p EXCEPT !.clean = FALSE]
      BY <1>1
    <2>2. p \in ParseState /\ ParseOK(p)
      BY DEF WorkspaceInv, WorkspaceTypeOK
    <2>3. q \in ParseState /\ q.clean = FALSE /\ q.sees = p.sees /\ q.failed = p.failed
      BY <2>1, <2>2 DEF ParseState
    <2> QED
      BY <2>2, <2>3 DEF ParseOK
  <1>4. WorkspaceTypeOK'
    BY <1>1, <1>2, <1>3 DEF WorkspaceInv, WorkspaceTypeOK
  <1>5. WaitsJoined'
    <2>1. pending' # {} <=> pending # {}
      BY <1>1
    <2> QED
      BY <1>1, <2>1 DEF WorkspaceInv, WaitsJoined
  <1>6. \A m \in cache : CacheOK(m)'
    BY DEF WorkspaceInv, CacheOK
  <1> QED
    BY <1>1, <1>3, <1>4, <1>5, <1>6 DEF WorkspaceInv

LEMMA WorkspaceRestartKeeps ==
  ASSUME WorkspaceInv, WorkspaceRestart
  PROVE  WorkspaceInv'
  <1>1. newFormat' \in BOOLEAN
    BY DEF WorkspaceRestart, DetectNewFormat
  <1>2. WorkspaceTypeOK'
    BY <1>1 DEF WorkspaceInv, WorkspaceTypeOK, WorkspaceRestart
  <1>3. WaitsJoined'
    BY DEF WorkspaceRestart, WaitsJoined
  <1> QED
    BY <1>2, <1>3 DEF WorkspaceInv, WorkspaceRestart

LEMMA WorkspaceInvNext == WorkspaceInv /\ [WorkspaceNext]_workspaceVars => WorkspaceInv'
  <1> SUFFICES ASSUME WorkspaceInv, [WorkspaceNext]_workspaceVars
               PROVE  WorkspaceInv'
    OBVIOUS
  <1>1. CASE UNCHANGED workspaceVars
    BY <1>1, QuietKeeps DEF workspaceVars, WorkspaceInv, WorkspaceTypeOK
  <1>2. ASSUME NEW c \in Loader, ConfigFails(c) \/ Cached(c) \/ Load(c) \/ Used(c)
        PROVE  WorkspaceInv'
    BY <1>2, ConfigFailsKeeps, CachedKeeps, LoadKeeps, UsedKeeps
  <1>3. CASE Parse
    BY <1>3, ReadConnectionsKeeps, ReadCredentialsKeeps, SettleKeeps DEF Parse
  <1>4. CASE EditFile \/ EditConfig \/ WorkspaceRestart
    BY <1>4, EditFileKeeps, EditConfigKeeps, WorkspaceRestartKeeps
  <1> QED
    BY <1>1, <1>2, <1>3, <1>4 DEF WorkspaceNext

\* Who waits will be told, for every set of calls.
THEOREM WaitsJoinedAlways == WorkspaceSpec => [](WorkspaceTypeOK /\ WaitsJoined)
  <1>1. WorkspaceInv => WorkspaceTypeOK /\ WaitsJoined
    BY DEF WorkspaceInv
  <1> QED
    BY WorkspaceInvInit, WorkspaceInvNext, <1>1, PTL DEF WorkspaceSpec

LEMMA WorkspaceInvFresh == WorkspaceInv => CacheFresh
  <1> SUFFICES ASSUME WorkspaceInv, NEW m \in cache, m.signature = Signature, m.clean,
                      Exists(newFormat)
               PROVE  m.content = Current(newFormat)
    BY DEF CacheFresh
  <1>1. ~NoFile(Signature)
    BY DEF NoFile, Signature, Exists
  <1> QED
    BY <1>1, SignatureFinds DEF WorkspaceInv, CacheOK

\* What was read while nobody edited is served for as long as the files are
\* the same, for every set of calls, projects and contents.
THEOREM CacheFreshAlways == WorkspaceSpec => []CacheFresh
  BY WorkspaceInvInit, WorkspaceInvNext, WorkspaceInvFresh, PTL DEF WorkspaceSpec

-----------------------------------------------------------------------------
\* Among the connections that are kept together no two have the same id.
Unique(connections) == \A x, y \in connections : x.id = y.id => x = y

IdsUnique ==
    /\ \A m \in cache : Unique(m.content)
    /\ \A p \in pending : ~p.failed => Unique(p.found)
    /\ \A c \in Loader : Unique(loaded[c])

LEMMA ReadUnique == \A place, settings, credentials : Unique(Read(place, settings, credentials))
  BY DEF Unique, Read

LEMMA ConfiguredUnique == \A v : Unique(Configured(v))
  <1>1. Unique({})
    BY DEF Unique
  <1> QED
    BY <1>1, ReadUnique DEF Configured

LEMMA JoinedUnique ==
  ASSUME NEW S, NEW T, Unique(S), Unique(T), Ids(S) \cap Ids(T) = {}
  PROVE  Unique(S \cup T)
  <1> SUFFICES ASSUME NEW x \in S \cup T, NEW y \in S \cup T, x.id = y.id
               PROVE  x = y
    BY DEF Unique
  <1>1. \A z \in S : z.id \in Ids(S)
    BY DEF Ids
  <1>2. \A z \in T : z.id \in Ids(T)
    BY DEF Ids
  <1> QED
    BY <1>1, <1>2 DEF Unique

LEMMA IdsUniqueInit == WorkspaceInit => IdsUnique
  BY DEF WorkspaceInit, IdsUnique, Unique

LEMMA GivenUnique ==
  ASSUME IdsUnique, WorkspaceTypeOK, NEW c \in Loader, NEW own, NEW discovered,
         Unique(own), Unique(discovered), Given(c, own, discovered)
  PROVE  \A d \in Loader : Unique(loaded'[d])
  <1>1. DOMAIN loaded = Loader
    BY DEF WorkspaceTypeOK
  <1>2. CASE Ids(own) \cap Ids(discovered) = {}
    <2>1. Unique(own \cup discovered)
      BY <1>2, JoinedUnique
    <2>2. loaded' = [loaded EXCEPT ![c] = own \cup discovered]
      BY <1>2 DEF Given
    <2> QED
      BY <1>1, <2>1, <2>2 DEF IdsUnique
  <1>3. CASE Ids(own) \cap Ids(discovered) # {}
    BY <1>3 DEF Given, IdsUnique
  <1> QED
    BY <1>2, <1>3

LEMMA ParseUnique ==
  ASSUME IdsUnique, WorkspaceInv, ReadConnections \/ ReadCredentials
  PROVE  IdsUnique'
  <1>1. CASE ReadConnections
    <2>1. PICK p \in pending : \E place \in p.left :
             /\ p.sees = {} /\ ~p.failed
             /\ LET v == disk[place].connections IN
                pending' = {[p EXCEPT !.first = FALSE, !.left = p.left \ {place},
                             !.failed = v \notin Sound \cup {Missing},
                             !.sees = IF v \in Sound THEN {[place |-> place, settings |-> v]} ELSE {}]}
      BY <1>1 DEF ReadConnections
    <2>2. p \in ParseState
      BY DEF WorkspaceInv, WorkspaceTypeOK
    <2>3. ~p.failed /\ \A q \in pending' : q.found = p.found
      BY <2>1, <2>2 DEF ParseState
    <2> QED
      BY <1>1, <2>3 DEF ReadConnections, IdsUnique
  <1>2. CASE ReadCredentials
    <2>1. PICK p \in pending : \E s \in p.sees :
             LET new == Read(s.place, s.settings, disk[s.place].credentials) IN
             pending' = {[p EXCEPT !.sees = {}, !.found = p.found \cup new,
                             !.failed = Ids(p.found) \cap Ids(new) # {}]}
      BY <1>2 DEF ReadCredentials
    <2>2. PICK s \in p.sees :
             LET new == Read(s.place, s.settings, disk[s.place].credentials) IN
             pending' = {[p EXCEPT !.sees = {}, !.found = p.found \cup new,
                             !.failed = Ids(p.found) \cap Ids(new) # {}]}
      BY <2>1
    <2>3. PICK new : new = Read(s.place, s.settings, disk[s.place].credentials)
      OBVIOUS
    <2>4. p \in ParseState /\ ~p.failed
      BY DEF WorkspaceInv, WorkspaceTypeOK, ParseOK
    <2>5. pending' = {[p EXCEPT !.sees = {}, !.found = p.found \cup new,
                          !.failed = Ids(p.found) \cap Ids(new) # {}]}
      BY <2>2, <2>3
    <2>6. \A q \in pending' : q.found = p.found \cup new /\ (~q.failed => Ids(p.found) \cap Ids(new) = {})
      BY <2>4, <2>5 DEF ParseState
    <2>7. Unique(new) /\ Unique(p.found)
      BY <2>3, <2>4, ReadUnique DEF IdsUnique
    <2>8. \A q \in pending' : ~q.failed => Unique(q.found)
      BY <2>6, <2>7, JoinedUnique
    <2> QED
      BY <1>2, <2>8 DEF ReadCredentials, IdsUnique
  <1> QED
    BY <1>1, <1>2

LEMMA SettleUnique ==
  ASSUME IdsUnique, WorkspaceInv, Settle
  PROVE  IdsUnique'
  <1>1. PICK p \in pending :
    IF p.failed
    THEN UNCHANGED <<cache, loaded>>
    ELSE /\ cache' = {[signature |-> asked[joined[Len(joined)]].signature,
                       content |-> p.found, clean |-> p.clean]}
         /\ LET own(c) == Configured(asked[c].configured)
                ambiguous(c) == Ids(own(c)) \cap Ids(p.found) # {} IN
            loaded' = [c \in Loader |->
                      IF loading[c] # "waiting" \/ ambiguous(c) THEN loaded[c]
                      ELSE own(c) \cup p.found]
    BY DEF Settle, ParseEnds
  <1>2. pending' = {}
    BY DEF Settle, ParseEnds
  <1>3. CASE p.failed
    BY <1>1, <1>2, <1>3 DEF IdsUnique
  <1>4. CASE ~p.failed
    <2>1. Unique(p.found)
      BY <1>4 DEF IdsUnique
    <2>2. ASSUME NEW c \in Loader
          PROVE  Unique(loaded'[c])
      <3> DEFINE own == Configured(asked[c].configured)
      <3>1. Unique(own)
        BY ConfiguredUnique
      <3>2. loaded'[c] = IF loading[c] # "waiting" \/ Ids(own) \cap Ids(p.found) # {}
                         THEN loaded[c] ELSE own \cup p.found
        BY <1>1, <1>4
      <3> HIDE DEF own
      <3>3. CASE Ids(own) \cap Ids(p.found) = {}
        BY <2>1, <3>1, <3>2, <3>3, JoinedUnique DEF IdsUnique
      <3>4. CASE Ids(own) \cap Ids(p.found) # {}
        BY <3>2, <3>4 DEF IdsUnique
      <3> QED
        BY <3>3, <3>4
    <2>3. \A m \in cache' : Unique(m.content)
      BY <1>1, <1>4, <2>1
    <2> QED
      BY <1>2, <2>2, <2>3 DEF IdsUnique
  <1> QED
    BY <1>3, <1>4

LEMMA IdsUniqueNext == IdsUnique /\ WorkspaceInv /\ [WorkspaceNext]_workspaceVars => IdsUnique'
  <1> SUFFICES ASSUME IdsUnique, WorkspaceInv, [WorkspaceNext]_workspaceVars
               PROVE  IdsUnique'
    OBVIOUS
  <1>0. WorkspaceTypeOK /\ DOMAIN loaded = Loader
    BY DEF WorkspaceInv, WorkspaceTypeOK
  <1>1. CASE UNCHANGED <<cache, pending, loaded>>
    BY <1>1 DEF IdsUnique
  <1>2. ASSUME NEW c \in Loader, ConfigFails(c)
        PROVE  IdsUnique'
    BY <1>1, <1>2 DEF ConfigFails
  <1>3. ASSUME NEW c \in Loader, Cached(c)
        PROVE  IdsUnique'
    <2>1. PICK discovered : Unique(discovered) /\ Given(c, Configured(configured), discovered)
      <3>1. Unique({})
        BY DEF Unique
      <3> QED
        BY <1>3, <3>1 DEF Cached, IdsUnique
    <2>2. \A d \in Loader : Unique(loaded'[d])
      BY <1>0, <2>1, GivenUnique, ConfiguredUnique
    <2> QED
      BY <1>3, <2>2 DEF Cached, IdsUnique
  <1>4. ASSUME NEW c \in Loader, Load(c)
        PROVE  IdsUnique'
    <2>1. CASE StartParse
      <3>1. \A q \in pending' : q.found = {}
        BY <2>1 DEF StartParse
      <3>2. Unique({})
        BY DEF Unique
      <3> QED
        BY <1>4, <3>1, <3>2 DEF Load, IdsUnique
    <2>2. CASE UNCHANGED pending
      BY <1>1, <1>4, <2>2 DEF Load
    <2> QED
      BY <1>4, <2>1, <2>2 DEF Load
  <1>5. ASSUME NEW c \in Loader, Used(c)
        PROVE  IdsUnique'
    BY <1>0, <1>5 DEF Used, IdsUnique, Unique
  <1>6. CASE Parse
    BY <1>6, ParseUnique, SettleUnique DEF Parse
  <1>7. CASE EditFile
    <2>1. ASSUME NEW q \in pending'
          PROVE  ~q.failed => Unique(q.found)
      <3>1. PICK p \in pending : q = [p EXCEPT !.clean = FALSE]
        BY <1>7 DEF EditFile
      <3>2. p \in ParseState
        BY <1>0 DEF WorkspaceTypeOK
      <3>3. q.found = p.found /\ q.failed = p.failed
        BY <3>1, <3>2 DEF ParseState
      <3> QED
        BY <3>3 DEF IdsUnique
    <2> QED
      BY <1>7, <2>1 DEF EditFile, IdsUnique
  <1>8. CASE EditConfig
    BY <1>1, <1>8 DEF EditConfig
  <1>9. CASE WorkspaceRestart
    BY <1>9 DEF WorkspaceRestart, IdsUnique, Unique
  <1> QED
    BY <1>1, <1>2, <1>3, <1>4, <1>5, <1>6, <1>7, <1>8, <1>9 DEF WorkspaceNext, workspaceVars

-----------------------------------------------------------------------------
\* Retained keeps a part of the list, in a list.
LEMMA RetainedLemma ==
    ASSUME NEW S, NEW list \in Seq(S)
    PROVE  /\ Retained(list) \in Seq(S)
           /\ Elements(Retained(list)) \subseteq Elements(list)
<1>1. maxInsights \in Nat \ {0}
  BY NotesAssumption
<1>2. CASE Len(list) <= maxInsights
  BY <1>2 DEF Retained
<1>3. CASE ~(Len(list) <= maxInsights)
  <2> DEFINE first == Len(list) - maxInsights + 1
  <2>1. first \in 1..Len(list) /\ Len(list) \in Nat
    BY <1>1, <1>3
  <2>2. Retained(list) = SubSeq(list, first, Len(list))
    BY <1>3 DEF Retained
  <2>3. SubSeq(list, first, Len(list)) = [i \in 1..(Len(list) - first + 1) |-> list[first + i - 1]]
    BY <2>1
  <2>4. \A i \in 1..(Len(list) - first + 1) : first + i - 1 \in 1..Len(list)
    BY <2>1
  <2>5. Retained(list) \in Seq(S)
    BY <2>1, <2>2, <2>3, <2>4
  <2>6. Elements(Retained(list)) \subseteq Elements(list)
    BY <2>1, <2>2, <2>3, <2>4 DEF Elements
  <2> QED
    BY <2>5, <2>6
<1> QED
  BY <1>2, <1>3

\* Elements of a list one longer.
LEMMA AppendLemma ==
    ASSUME NEW S, NEW list \in Seq(S), NEW e \in S
    PROVE  /\ Append(list, e) \in Seq(S)
           /\ Elements(Append(list, e)) = Elements(list) \cup {e}
<1>1. DOMAIN Append(list, e) = DOMAIN list \cup {Len(list) + 1}
  OBVIOUS
<1> QED
  BY <1>1 DEF Elements

\* What was kept for a scope is a part of its file.
LEMMA FiledLemma ==
    ASSUME NotesTypeOK, NEW s
    PROVE  /\ Filed(s) \in Seq(NoteCall)
           /\ \A c \in Elements(Filed(s)) : s \in DOMAIN files /\ c \in Elements(files[s])
<1>1. CASE s \in DOMAIN files
  <2>1. files[s] \in Seq(NoteCall)
    BY <1>1 DEF NotesTypeOK
  <2> QED
    BY <1>1, <2>1, RetainedLemma DEF Filed
<1>2. CASE s \notin DOMAIN files
  BY <1>2 DEF Filed, Elements
<1> QED
  BY <1>1, <1>2

-----------------------------------------------------------------------------
\* What the list, the directory it is written to and the calls under way have
\* in common, in a directory that no failed refresh spoilt.
StoresApart ==
    /\ \A s \in DOMAIN files \ spoilt : \A c \in Elements(files[s]) : s \in during[c]
    /\ store \notin spoilt =>
         /\ \A c \in Elements(insights) : store \in during[c]
         /\ \A c \in NoteCall : noting[c] = "fresh" => store \in during[c]

\* Beside it: who is in a list is done, the list in memory is that of the
\* scope last seen, and a call under way has seen today's scope.
InList(c) == c \in Elements(insights) \/ \E s \in DOMAIN files : c \in Elements(files[s])
NotesInv ==
  /\ NotesTypeOK
  /\ StoresApart
  /\ \A c \in NoteCall : InList(c) => noting[c] = "done"
  /\ store \notin spoilt => store = notesScope
  /\ \A c \in NoteCall : noting[c] = "fresh" => scope \in during[c]

LEMMA NotesInvInit == NotesInit => NotesInv
  BY DEF NotesInit, NotesInv, NotesTypeOK, StoresApart, InList, Elements

\* A call that has not appended is in no list.
LEMMA NotInList ==
  ASSUME NotesInv, NEW c \in NoteCall, noting[c] # "done"
  PROVE  /\ c \notin Elements(insights)
         /\ \A s \in DOMAIN files : c \notin Elements(files[s])
  BY DEF NotesInv, InList

\* A call looks at the scope: the list of a new scope holds what its file holds.
LEMMA NotesInvRefresh ==
  ASSUME NotesInv, NEW c \in NoteCall, Refresh(c)
  PROVE  NotesInv'
  <1> USE DEF Refresh, Enters, NotesInv
  <1>1. noting[c] = "no" /\ scope \in Scope
    BY DEF NotesTypeOK
  <1>2. /\ c \notin Elements(insights)
        /\ \A s \in DOMAIN files : c \notin Elements(files[s])
    BY <1>1, NotInList
  <1>3. /\ \A d \in NoteCall : during'[d] = IF d = c THEN {scope} ELSE during[d]
        /\ \A d \in NoteCall : noting'[d] = IF d = c THEN "fresh" ELSE noting[d]
    BY DEF NotesTypeOK
  <1>4. /\ Filed(scope) \in Seq(NoteCall)
        /\ \A d \in Elements(Filed(scope)) : scope \in DOMAIN files /\ d \in Elements(files[scope])
    BY FiledLemma
  <1>5. NotesTypeOK'
    BY <1>1, <1>4 DEF NotesTypeOK
  <1>6. \A l \in Seq(NoteCall) : Elements(l) \subseteq NoteCall
    BY DEF Elements
  <1>7. \A s \in DOMAIN files : Elements(files[s]) \subseteq NoteCall
    BY <1>6 DEF NotesTypeOK
  <1>8. (\A s \in DOMAIN files \ spoilt : \A d \in Elements(files[s]) : s \in during[d])'
    BY <1>2, <1>3, <1>7 DEF StoresApart
  <1>9. CASE scope = notesScope
    <2>1. (store = notesScope /\ insights' = insights) \/ store \in spoilt
      BY <1>9
    <2>2. Elements(insights) \subseteq NoteCall
      BY <1>6 DEF NotesTypeOK
    <2>3. StoresApart'
      BY <1>2, <1>3, <1>8, <1>9, <2>2 DEF StoresApart, Elements
    <2> QED
      BY <1>2, <1>3, <1>5, <1>9, <2>3 DEF InList, Elements
  <1>10. CASE scope # notesScope
    <2>1. insights' = Filed(scope) /\ store' = scope /\ notesScope' = scope
      BY <1>10
    <2>2. \A d \in Elements(insights') : scope \in DOMAIN files /\ d \in Elements(files[scope])
      BY <1>4, <2>1
    <2>3. (store \notin spoilt =>
             /\ \A d \in Elements(insights) : store \in during[d]
             /\ \A d \in NoteCall : noting[d] = "fresh" => store \in during[d])'
      BY <1>3, <1>8, <2>1, <2>2 DEF Elements
    <2>4. StoresApart'
      BY <1>8, <2>3 DEF StoresApart
    <2>5. \A d \in NoteCall : InList(d)' => noting'[d] = "done"
      BY <1>2, <1>3, <2>2 DEF InList, Elements
    <2> QED
      BY <1>3, <1>5, <2>1, <2>4, <2>5
  <1> QED
    BY <1>9, <1>10

\* A refresh that fails spoils the directory that is still written to.
LEMMA NotesInvRefreshFails ==
  ASSUME NotesInv, NEW c \in NoteCall, RefreshFails(c)
  PROVE  NotesInv'
  <1> USE DEF RefreshFails, Fails, NotesInv
  <1>1. /\ c \notin Elements(insights)
        /\ \A s \in DOMAIN files : c \notin Elements(files[s])
    BY NotInList
  <1>2. /\ \A d \in NoteCall : during'[d] = IF d = c THEN {} ELSE during[d]
        /\ \A d \in NoteCall : noting'[d] = IF d = c THEN "failed" ELSE noting[d]
        /\ store' \in {store, scope} /\ store' \in spoilt' /\ spoilt \subseteq spoilt'
    BY DEF NotesTypeOK
  <1>3. NotesTypeOK'
    BY DEF NotesTypeOK
  <1>4. \A s \in DOMAIN files : Elements(files[s]) \subseteq NoteCall
    BY DEF NotesTypeOK, Elements
  <1>5. StoresApart'
    BY <1>1, <1>2, <1>4 DEF StoresApart, Elements
  <1> QED
    BY <1>1, <1>2, <1>3, <1>5 DEF InList, Elements

\* A call that fails is in no list.
LEMMA NotesInvRefused ==
  ASSUME NotesInv, NEW c \in NoteCall, NoteRefused(c)
  PROVE  NotesInv'
  <1> USE DEF NoteRefused, Fails, NotesInv
  <1>1. /\ c \notin Elements(insights)
        /\ \A s \in DOMAIN files : c \notin Elements(files[s])
    BY NotInList
  <1>2. /\ \A d \in NoteCall : during'[d] = IF d = c THEN {} ELSE during[d]
        /\ \A d \in NoteCall : noting'[d] = IF d = c THEN "failed" ELSE noting[d]
    BY DEF NotesTypeOK
  <1>3. NotesTypeOK'
    BY DEF NotesTypeOK
  <1>4. /\ \A s \in DOMAIN files : Elements(files[s]) \subseteq NoteCall
        /\ Elements(insights) \subseteq NoteCall
    BY DEF NotesTypeOK, Elements
  <1>5. StoresApart'
    BY <1>1, <1>2, <1>4 DEF StoresApart, Elements
  <1> QED
    BY <1>1, <1>2, <1>3, <1>5 DEF InList, Elements

\* A call appends in a scope that was there since it looked.
LEMMA NotesInvAppend ==
  ASSUME NotesInv, NEW c \in NoteCall, AppendInsight(c)
  PROVE  NotesInv'
  <1> USE DEF AppendInsight, NotesInv
  <1>1. /\ Append(insights, c) \in Seq(NoteCall)
        /\ Elements(Append(insights, c)) = Elements(insights) \cup {c}
    BY AppendLemma DEF NotesTypeOK
  <1>2. insights' \in Seq(NoteCall) /\ Elements(insights') \subseteq Elements(insights) \cup {c}
    BY <1>1, RetainedLemma
  <1>3. \A d \in NoteCall : noting'[d] = IF d = c THEN "done" ELSE noting[d]
    BY DEF NotesTypeOK
  <1>4. /\ DOMAIN files' \subseteq DOMAIN files \cup {store}
        /\ \A s \in DOMAIN files' : \/ s = store /\ files'[s] = insights'
                                    \/ s \in DOMAIN files /\ files'[s] = files[s]
    OBVIOUS
  <1>5. NotesTypeOK'
    BY <1>2, <1>4 DEF NotesTypeOK
  <1>6. store \notin spoilt => \A d \in Elements(insights') : store \in during[d]
    BY <1>2 DEF StoresApart
  <1>7. \A s \in DOMAIN files' \ spoilt : \A d \in Elements(files'[s]) : s \in during[d]
    <2> SUFFICES ASSUME NEW s \in DOMAIN files' \ spoilt, NEW d \in Elements(files'[s])
                 PROVE  s \in during[d]
      OBVIOUS
    <2>1. CASE s = store /\ files'[s] = insights'
      BY <1>6, <2>1
    <2>2. CASE s \in DOMAIN files /\ files'[s] = files[s]
      BY <2>2 DEF StoresApart
    <2> QED
      BY <1>4, <2>1, <2>2
  <1>8. StoresApart'
    BY <1>3, <1>6, <1>7 DEF StoresApart, Elements
  <1>9. \A d \in NoteCall : InList(d)' => noting'[d] = "done"
    <2> SUFFICES ASSUME NEW d \in NoteCall, InList(d)'
                 PROVE  noting'[d] = "done"
      OBVIOUS
    <2>1. CASE d \in Elements(insights')
      BY <1>2, <1>3, <2>1 DEF InList
    <2>2. CASE \E s \in DOMAIN files' : d \in Elements(files'[s])
      BY <1>2, <1>3, <1>4, <2>2 DEF InList
    <2> QED
      BY <2>1, <2>2 DEF InList, Elements
  <1> QED
    BY <1>3, <1>5, <1>8, <1>9

\* A call that shows the list changes no list.
LEMMA NotesInvList ==
  ASSUME NotesInv, NEW c \in NoteCall, ListInsights(c)
  PROVE  NotesInv'
  <1> USE DEF ListInsights, NotesInv
  <1>1. \A d \in NoteCall : noting'[d] = IF d = c THEN "done" ELSE noting[d]
    BY DEF NotesTypeOK
  <1>2. NotesTypeOK'
    BY DEF NotesTypeOK
  <1>3. StoresApart'
    BY <1>1 DEF StoresApart, Elements
  <1> QED
    BY <1>1, <1>2, <1>3 DEF InList, Elements

\* A new scope is added to what calls under way have seen.
LEMMA NotesInvScope ==
  ASSUME NotesInv, ScopeChanges
  PROVE  NotesInv'
  <1> USE DEF ScopeChanges, ScopeBecomes, NotesInv
  <1>1. PICK s \in Scope : ScopeBecomes(s)
    OBVIOUS
  <1>2. \A d \in NoteCall : during'[d] = IF noting[d] = "fresh" THEN during[d] \cup {s} ELSE during[d]
    BY <1>1
  <1>3. NotesTypeOK'
    BY <1>1, <1>2 DEF NotesTypeOK
  <1>4. /\ \A t \in DOMAIN files : Elements(files[t]) \subseteq NoteCall
        /\ Elements(insights) \subseteq NoteCall
    BY DEF NotesTypeOK, Elements
  <1>5. StoresApart'
    BY <1>2, <1>4 DEF StoresApart, Elements
  <1> QED
    BY <1>1, <1>2, <1>3, <1>5 DEF InList, Elements

\* After a restart no call is under way, and the list is that of a file.
LEMMA NotesInvRestart ==
  ASSUME NotesInv, NotesRestart
  PROVE  NotesInv'
  <1> USE DEF NotesRestart, NotesInv
  <1>1. /\ Filed(scope') \in Seq(NoteCall)
        /\ \A d \in Elements(Filed(scope')) :
              scope' \in DOMAIN files /\ d \in Elements(files[scope'])
    BY FiledLemma
  <1>2. /\ insights' \in Seq(NoteCall)
        /\ \A d \in Elements(insights') :
              scope' \in DOMAIN files /\ d \in Elements(files[scope'])
    <2>1. CASE insights' = Filed(scope')
      BY <1>1, <2>1
    <2>2. CASE insights' = <<>>
      <3>1. Elements(<<>>) = {} /\ <<>> \in Seq(NoteCall)
        BY DEF Elements
      <3> QED
        BY <2>2, <3>1
    <2> QED
      BY <2>1, <2>2
  <1>3. \A d \in NoteCall : noting'[d] = IF noting[d] = "fresh" THEN "failed" ELSE noting[d]
    OBVIOUS
  <1>4. NotesTypeOK'
    BY <1>2, <1>3 DEF NotesTypeOK
  <1>5. StoresApart'
    <2>1. scope' \in DOMAIN files \ spoilt =>
             \A d \in Elements(files[scope']) : scope' \in during[d]
      BY DEF StoresApart
    <2>2. scope' \notin spoilt => \A d \in Elements(insights') : scope' \in during[d]
      BY <1>2, <2>1
    <2>3. (\A s \in DOMAIN files \ spoilt : \A d \in Elements(files[s]) : s \in during[d])'
      BY DEF StoresApart, Elements
    <2> QED
      BY <1>3, <2>2, <2>3 DEF StoresApart, Elements
  <1>6. \A d \in NoteCall : InList(d)' => noting'[d] = "done"
    <2> SUFFICES ASSUME NEW d \in NoteCall, InList(d)'
                 PROVE  InList(d)
      BY <1>3
    <2> QED
      BY <1>2 DEF InList, Elements
  <1> QED
    BY <1>3, <1>4, <1>5, <1>6

LEMMA NotesInvNext == NotesInv /\ [NotesNext]_notesVars => NotesInv'
  <1> SUFFICES ASSUME NotesInv, [NotesNext]_notesVars
               PROVE  NotesInv'
    OBVIOUS
  <1>1. CASE UNCHANGED notesVars
    BY <1>1 DEF notesVars, NotesInv, NotesTypeOK, StoresApart, InList, Elements
  <1>2. ASSUME NEW c \in NoteCall, Refresh(c)
        PROVE  NotesInv'
    BY <1>2, NotesInvRefresh
  <1>3. ASSUME NEW c \in NoteCall, RefreshFails(c)
        PROVE  NotesInv'
    BY <1>3, NotesInvRefreshFails
  <1>4. ASSUME NEW c \in NoteCall, NoteRefused(c)
        PROVE  NotesInv'
    BY <1>4, NotesInvRefused
  <1>5. ASSUME NEW c \in NoteCall, AppendInsight(c)
        PROVE  NotesInv'
    BY <1>5, NotesInvAppend
  <1>6. ASSUME NEW c \in NoteCall, ListInsights(c)
        PROVE  NotesInv'
    BY <1>6, NotesInvList
  <1>7. CASE ScopeChanges
    BY <1>7, NotesInvScope
  <1>8. CASE NotesRestart
    BY <1>8, NotesInvRestart
  <1> QED
    BY <1>1, <1>2, <1>3, <1>4, <1>5, <1>6, <1>7, <1>8 DEF NotesNext

\* Until a refresh fails, insights stay in the scopes that were there while
\* their call ran; after it, all files but those written to then are as before,
\* for every set of calls, of scopes and every limit.
LEMMA NotesInvApart == NotesInv => ApartUnlessFailed
  <1> SUFFICES ASSUME NotesInv
               PROVE  ApartUnlessFailed
    OBVIOUS
  <1> USE DEF NotesInv, StoresApart
  <1>1. ASSUME spoilt = {}
        PROVE  NotesApart
    <2>1. \A s \in DOMAIN files : \A c \in Elements(files[s]) : s \in during[c]
      BY <1>1
    <2>2. \A c \in NoteCall : noting[c] = "fresh" =>
             \A d \in Elements(insights) : store \in during[c] /\ store \in during[d]
      BY <1>1
    <2> QED
      BY <2>1, <2>2 DEF NotesApart
  <1> QED
    BY <1>1 DEF ApartUnlessFailed

THEOREM ApartUnlessFailedAlways == NotesSpec => [](NotesTypeOK /\ ApartUnlessFailed)
  <1>1. NotesInv => NotesTypeOK /\ ApartUnlessFailed
    BY NotesInvApart DEF NotesInv
  <1> QED
    BY NotesInvInit, NotesInvNext, <1>1, PTL DEF NotesSpec

-----------------------------------------------------------------------------
\* The user the connection logs in as, once it is known.
KnownUsers(k) == IF settingsOf[k].users # {} THEN settingsOf[k].users ELSE users[ProfileOf(k)]
Once(S) == \A x, y \in S : x = y

\* A cached token is for its key, and dropped in time.
TokensOK == \A t \in Targets : \A e \in tokens[t] :
    e.token.target = t /\ e.expires <= e.token.signed + CliTimeout + TokenTtl

\* How far a call may have got: no time-out is missed, and the token it holds
\* is for the connection and the user it asks for.
LoginOK(c) ==
    LET l == login[c] IN
    /\ Once(l.iam) /\ Once(l.user)
    /\ l.step = "no" => l.iam = {}
    /\ l.step \in {"identity", "mint", "signed"} => l.since <= now /\ now <= l.since + CliTimeout
    /\ l.step = "signed" => \A k \in l.iam, u \in l.user, t \in l.token :
                              t.target = Target(k, u) /\ l.since <= t.signed
    /\ l.step = "connect" =>
         /\ now <= l.since + ConnectTimeout
         /\ l.user # {}
         /\ \A k \in l.iam : poolUser[k] # {}
         /\ \A k \in l.iam, u \in l.user, t \in l.token :
               t.target = Target(k, u) /\ l.since < t.signed + CliTimeout + TokenTtl

\* As long as the user of a connection is recorded, or the identity behind its
\* profile did not change during a look-up, whoever knows the user knows the
\* same.
Agrees(k) ==
    OneUser(k) =>
        /\ poolUser[k] \subseteq KnownUsers(k)
        /\ \A c \in Client : k \in login[c].iam =>
              IF login[c].step = "identity"
              THEN settingsOf[k].users = {} /\ users[ProfileOf(k)] \subseteq {identity[ProfileOf(k)]}
              ELSE login[c].user \subseteq KnownUsers(k)

IamInv == /\ IamTypeOK
          /\ \A p \in Profile : Once(users[p])
          /\ TokensOK
          /\ \A c \in Client : LoginOK(c)
          /\ \A k \in Iam : Agrees(k)

\* What the constants are.
LEMMA IamConstants ==
  /\ TokenTtl \in Nat \ {0} /\ Lifetime \in Nat \ {0} /\ CliTimeout \in Nat \ {0}
  /\ ConnectTimeout \in Nat \ {0}
  /\ \A k \in Iam : /\ ProfileOf(k) \in Profile
                    /\ settingsOf[k].users \subseteq User /\ Once(settingsOf[k].users)
                    /\ \A u \in User : Target(k, u) \in Targets
  BY IamAssumption DEF ProfileOf, Once, Targets

LEMMA KnownOnce ==
  ASSUME IamInv, NEW k \in Iam
  PROVE  Once(KnownUsers(k)) /\ KnownUsers(k) \subseteq User
  BY IamConstants DEF IamInv, IamTypeOK, KnownUsers, Once

LEMMA IamInvInit == IamInit => IamInv
  <1> SUFFICES ASSUME IamInit
               PROVE  IamInv
    OBVIOUS
  <1>1. IamTypeOK
    BY DEF IamInit, IamTypeOK, Login, Idle
  <1>2. \A p \in Profile : Once(users[p])
    BY DEF IamInit, Once
  <1>3. TokensOK
    BY DEF IamInit, TokensOK
  <1>4. \A c \in Client : LoginOK(c)
    BY DEF IamInit, LoginOK, Idle, Once
  <1>5. \A k \in Iam : Agrees(k)
    BY DEF IamInit, Agrees, OneUser, Idle
  <1> QED
    BY <1>1, <1>2, <1>3, <1>4, <1>5 DEF IamInv

\* A token at hand makes a pool or begins a log-in; the caches may have grown.
LEMMA HaveKeeps ==
  ASSUME IamInv, NEW c \in Client, NEW k \in Iam, NEW u \in User, NEW t \in Token,
         Have(c, k, u, t), UNCHANGED <<now, identity, switched>>,
         users' \in [Profile -> SUBSET User], \A p \in Profile : Once(users'[p]),
         tokens' \in [Targets -> SUBSET CacheEntry], TokensOK',
         t.target = Target(k, u), now < t.signed + CliTimeout + TokenTtl,
         OneUser(k) => u \in KnownUsers(k)',
         \A j \in Iam : OneUser(j) =>
             /\ KnownUsers(j) \subseteq KnownUsers(j)'
             /\ \A d \in Client \ {c} : j \in login[d].iam /\ login[d].step = "identity" =>
                   users'[ProfileOf(j)] \subseteq {identity[ProfileOf(j)]}
  PROVE  IamInv'
  <1> DEFINE connect == [step |-> "connect", iam |-> {k}, user |-> {u}, token |-> {t}, since |-> now]
  <1>1. now \in Nat /\ connect \in Login /\ Idle \in Login
    BY DEF IamInv, IamTypeOK, Login, Idle
  <1>2. \/ /\ poolUser[k] = {} /\ poolUser' = [poolUser EXCEPT ![k] = {u}]
           /\ login' = [login EXCEPT ![c] = Idle]
        \/ /\ poolUser[k] # {} /\ poolUser' = poolUser
           /\ login' = [login EXCEPT ![c] = connect]
    BY DEF Have
  <1> HIDE DEF connect
  <1>3. /\ \A d \in Client \ {c} : login'[d] = login[d]
        /\ \/ login'[c] = Idle
           \/ login'[c] = connect /\ poolUser[k] # {}
        /\ \A j \in Iam : poolUser'[j] = poolUser[j] \/ (j = k /\ poolUser'[j] = {u})
        /\ \A j \in Iam : poolUser[j] # {} => poolUser'[j] # {}
    <2>1. poolUser \in [Iam -> SUBSET User] /\ login \in [Client -> Login]
      BY DEF IamInv, IamTypeOK
    <2>2. \A d \in Client \ {c} : login'[d] = login[d]
      BY <1>2, <2>1
    <2>3. login'[c] = Idle \/ (login'[c] = connect /\ poolUser[k] # {})
      <3>1. CASE login' = [login EXCEPT ![c] = Idle]
        <4>1. login'[c] = Idle
          BY <2>1, <3>1, Zenon
        <4> QED
          BY <4>1
      <3>2. CASE poolUser[k] # {} /\ login' = [login EXCEPT ![c] = connect]
        BY <2>1, <3>2
      <3> QED
        BY <1>2, <3>1, <3>2
    <2>4. ASSUME NEW j \in Iam
          PROVE  /\ poolUser'[j] = poolUser[j] \/ (j = k /\ poolUser'[j] = {u})
                 /\ poolUser[j] # {} => poolUser'[j] # {}
      <3>1. CASE poolUser[k] = {} /\ poolUser' = [poolUser EXCEPT ![k] = {u}]
        <4>1. poolUser'[j] = IF j = k THEN {u} ELSE poolUser[j]
          BY <2>1, <3>1
        <4> QED
          BY <3>1, <4>1
      <3>2. CASE poolUser' = poolUser
        BY <3>2
      <3> QED
        BY <1>2, <3>1, <3>2
    <2> QED
      BY <2>2, <2>3, <2>4
  <1>4. IamTypeOK'
    BY <1>1, <1>2 DEF IamInv, IamTypeOK
  <1>5. ASSUME NEW d \in Client
        PROVE  LoginOK(d)'
    <2>1. CASE d # c
      <3>1. login'[d] = login[d] /\ LoginOK(d) /\ now' = now
        BY <1>3, <2>1 DEF IamInv
      <3>2. login[d].iam \subseteq Iam
        BY DEF IamInv, IamTypeOK, Login
      <3>3. \A j \in login[d].iam : poolUser[j] # {} => poolUser'[j] # {}
        BY <1>3, <3>2
      <3> QED
        BY <3>1, <3>3 DEF LoginOK
    <2>2. CASE d = c /\ login'[c] = Idle
      BY <2>2 DEF LoginOK, Idle, Once
    <2>3. CASE d = c /\ login'[c] = connect /\ poolUser[k] # {}
      <3>1. now <= now + ConnectTimeout
        BY <1>1, IamConstants
      <3>2. poolUser'[k] # {}
        BY <1>3, <2>3
      <3> QED
        BY <2>3, <3>1, <3>2 DEF LoginOK, Once, connect
    <2> QED
      BY <1>3, <2>1, <2>2, <2>3
  <1>6. ASSUME NEW j \in Iam
        PROVE  Agrees(j)'
    <2> SUFFICES ASSUME OneUser(j)
                 PROVE  /\ poolUser'[j] \subseteq KnownUsers(j)'
                        /\ \A d \in Client : j \in login'[d].iam =>
                              IF login'[d].step = "identity"
                              THEN /\ settingsOf[j].users = {}
                                   /\ users'[ProfileOf(j)] \subseteq {identity'[ProfileOf(j)]}
                              ELSE login'[d].user \subseteq KnownUsers(j)'
      BY DEF Agrees, OneUser
    <2>1. Agrees(j) /\ KnownUsers(j) \subseteq KnownUsers(j)'
      BY DEF IamInv
    <2>2. poolUser'[j] \subseteq KnownUsers(j)'
      BY <1>3, <2>1 DEF Agrees, OneUser
    <2>3. ASSUME NEW d \in Client, j \in login'[d].iam
          PROVE  IF login'[d].step = "identity"
                 THEN /\ settingsOf[j].users = {}
                      /\ users'[ProfileOf(j)] \subseteq {identity'[ProfileOf(j)]}
                 ELSE login'[d].user \subseteq KnownUsers(j)'
      <3>1. CASE d # c
        <4>1. login'[d] = login[d]
          BY <1>3, <3>1
        <4> QED
          BY <2>1, <2>3, <3>1, <4>1 DEF Agrees, OneUser
      <3>2. CASE d = c
        <4>1. login'[c] = connect /\ j = k
          BY <1>3, <2>3, <3>2 DEF Idle, connect
        <4> QED
          BY <3>2, <4>1 DEF connect
      <3> QED
        BY <3>1, <3>2
    <2> QED
      BY <2>2, <2>3
  <1> QED
    BY <1>4, <1>5, <1>6 DEF IamInv

\* The same for a call that knows its user and finds a token, or asks for one.
LEMMA WantTokenKeeps ==
  ASSUME IamInv, NEW c \in Client, NEW k \in Iam, NEW u \in User,
         WantToken(c, k, u), UNCHANGED <<now, identity, tokens, switched>>,
         users' \in [Profile -> SUBSET User], \A p \in Profile : Once(users'[p]),
         OneUser(k) => u \in KnownUsers(k)',
         \A j \in Iam : OneUser(j) =>
             /\ KnownUsers(j) \subseteq KnownUsers(j)'
             /\ \A d \in Client \ {c} : j \in login[d].iam /\ login[d].step = "identity" =>
                   users'[ProfileOf(j)] \subseteq {identity[ProfileOf(j)]}
  PROVE  IamInv'
  <1>1. tokens' \in [Targets -> SUBSET CacheEntry] /\ TokensOK'
    BY DEF IamInv, IamTypeOK, TokensOK
  <1>2. ASSUME NEW e \in tokens[Target(k, u)], e.expires > now, Have(c, k, u, e.token)
        PROVE  IamInv'
    <2>1. Target(k, u) \in Targets
      BY IamConstants
    <2>2. /\ e.token \in Token /\ e.token.signed \in Nat /\ e.expires \in Nat
          /\ e.token.target = Target(k, u)
          /\ e.expires <= e.token.signed + CliTimeout + TokenTtl
      BY <2>1 DEF IamInv, IamTypeOK, TokensOK, CacheEntry, Token
    <2>3. now < e.token.signed + CliTimeout + TokenTtl
      BY <1>2, <2>2, IamConstants DEF IamInv, IamTypeOK
    <2> QED
      BY <1>1, <1>2, <2>2, <2>3, HaveKeeps
  <1> DEFINE mint == [step |-> "mint", iam |-> {k}, user |-> {u}, token |-> {}, since |-> now]
  <1>3. CASE login' = [login EXCEPT ![c] = mint] /\ UNCHANGED poolUser
    <2>1. /\ now \in Nat /\ mint \in Login
          /\ login \in [Client -> Login]
      BY DEF IamInv, IamTypeOK, Login
    <2> HIDE DEF mint
    <2>2. login'[c] = mint /\ \A d \in Client \ {c} : login'[d] = login[d]
      BY <1>3, <2>1
    <2>3. IamTypeOK'
      BY <1>1, <1>3, <2>1 DEF IamInv, IamTypeOK
    <2>4. ASSUME NEW d \in Client
          PROVE  LoginOK(d)'
      <3>1. CASE d # c
        BY <1>3, <2>2, <3>1 DEF IamInv, LoginOK
      <3>2. CASE d = c
        <4>1. now <= now /\ now <= now + CliTimeout
          BY <2>1, IamConstants
        <4> QED
          BY <2>2, <3>2, <4>1 DEF LoginOK, Once, mint
      <3> QED
        BY <3>1, <3>2
    <2>5. ASSUME NEW j \in Iam, OneUser(j), NEW d \in Client, j \in login'[d].iam
          PROVE  IF login'[d].step = "identity"
                 THEN /\ settingsOf[j].users = {}
                      /\ users'[ProfileOf(j)] \subseteq {identity'[ProfileOf(j)]}
                 ELSE login'[d].user \subseteq KnownUsers(j)'
      <3>1. Agrees(j) /\ KnownUsers(j) \subseteq KnownUsers(j)'
        BY <2>5 DEF IamInv
      <3>2. CASE d # c
        <4>1. login'[d] = login[d]
          BY <2>2, <3>2
        <4> QED
          BY <2>5, <3>1, <3>2, <4>1 DEF Agrees, OneUser
      <3>3. CASE d = c
        BY <2>2, <2>5, <3>3 DEF mint
      <3> QED
        BY <3>2, <3>3
    <2>6. ASSUME NEW j \in Iam
          PROVE  Agrees(j)'
      <3>1. OneUser(j) => poolUser'[j] \subseteq KnownUsers(j)'
        BY <1>3 DEF IamInv, Agrees, OneUser
      <3> QED
        BY <2>5, <3>1 DEF Agrees, OneUser
    <2> QED
      BY <1>1, <2>3, <2>4, <2>6 DEF IamInv
  <1> QED
    BY <1>2, <1>3 DEF WantToken

\* A call finds the user of its connection, or asks who we are.
LEMMA ResolveKeeps ==
  ASSUME IamInv, NEW c \in Client, NEW k \in Iam, Resolve(c, k)
  PROVE  IamInv'
  <1> DEFINE known == IF settingsOf[k].users # {} THEN settingsOf[k].users ELSE users[ProfileOf(k)]
             ask == [step |-> "identity", iam |-> {k}, user |-> {}, token |-> {}, since |-> now]
  <1>1. UNCHANGED <<now, identity, users, tokens, switched>>
    BY DEF Resolve
  <1>2. \A j \in Iam : KnownUsers(j)' = KnownUsers(j)
    BY <1>1 DEF KnownUsers
  <1>3. /\ users' \in [Profile -> SUBSET User] /\ \A p \in Profile : Once(users'[p])
        /\ tokens' \in [Targets -> SUBSET CacheEntry] /\ TokensOK'
    BY <1>1 DEF IamInv, IamTypeOK, TokensOK
  <1>4. ASSUME NEW u \in known, WantToken(c, k, u)
        PROVE  IamInv'
    <2>1. u \in KnownUsers(k) /\ u \in User
      BY <1>4, KnownOnce DEF KnownUsers
    <2>2. ASSUME NEW j \in Iam, OneUser(j)
          PROVE  /\ KnownUsers(j) \subseteq KnownUsers(j)'
                 /\ \A d \in Client \ {c} : j \in login[d].iam /\ login[d].step = "identity" =>
                       users'[ProfileOf(j)] \subseteq {identity[ProfileOf(j)]}
      BY <1>1, <1>2, <2>2 DEF IamInv, Agrees, OneUser
    <2> QED
      BY <1>1, <1>2, <1>3, <1>4, <2>1, <2>2, WantTokenKeeps
  <1>5. CASE known = {} /\ login' = [login EXCEPT ![c] = ask] /\ UNCHANGED poolUser
    <2>1. /\ now \in Nat /\ ask \in Login
          /\ login \in [Client -> Login]
      BY DEF IamInv, IamTypeOK, Login
    <2>2. settingsOf[k].users = {} /\ users[ProfileOf(k)] = {}
      BY <1>5
    <2> HIDE DEF ask, known
    <2>3. login'[c] = ask /\ \A d \in Client \ {c} : login'[d] = login[d]
      BY <1>5, <2>1
    <2>4. IamTypeOK'
      BY <1>1, <1>5, <2>1 DEF IamInv, IamTypeOK
    <2>5. ASSUME NEW d \in Client
          PROVE  LoginOK(d)'
      <3>1. CASE d # c
        BY <1>1, <1>5, <2>3, <3>1 DEF IamInv, LoginOK
      <3>2. CASE d = c
        <4>1. now <= now /\ now <= now + CliTimeout
          BY <2>1, IamConstants
        <4> QED
          BY <1>1, <2>3, <3>2, <4>1 DEF LoginOK, Once, ask
      <3> QED
        BY <3>1, <3>2
    <2>6. ASSUME NEW j \in Iam
          PROVE  Agrees(j)'
      <3>1. Agrees(j)
        BY DEF IamInv
      <3>2. \A d \in Client : j \in login'[d].iam =>
               \/ j \in login[d].iam /\ login'[d] = login[d]
               \/ j = k /\ login'[d].step = "identity"
        BY <2>3 DEF ask
      <3> QED
        BY <1>1, <1>2, <1>5, <2>2, <3>1, <3>2 DEF Agrees, OneUser
    <2> QED
      BY <1>3, <2>4, <2>5, <2>6 DEF IamInv
  <1> QED
    BY <1>4, <1>5 DEF Resolve

\* The CLI tells who we are; the identity did not change, or the profile is
\* known to have switched.
LEMMA IdentifiedKeeps ==
  ASSUME IamInv, NEW c \in Client, Identified(c)
  PROVE  IamInv'
  <1>1. PICK k \in login[c].iam : LET u == identity[ProfileOf(k)] IN
           users' = [users EXCEPT ![ProfileOf(k)] = {u}] /\ WantToken(c, k, u)
    BY DEF Identified
  <1> DEFINE u == identity[ProfileOf(k)]
  <1>2. login[c].step = "identity" /\ UNCHANGED <<now, identity, tokens, switched>>
    BY DEF Identified
  <1>3. k \in Iam /\ ProfileOf(k) \in Profile /\ u \in User
    BY IamConstants DEF IamInv, IamTypeOK, Login
  <1>4. users' = [users EXCEPT ![ProfileOf(k)] = {u}] /\ WantToken(c, k, u)
    BY <1>1
  <1> HIDE DEF u
  <1>5. \A p \in Profile : users'[p] = IF p = ProfileOf(k) THEN {u} ELSE users[p]
    BY <1>3, <1>4 DEF IamInv, IamTypeOK
  <1>6. /\ users' \in [Profile -> SUBSET User]
        /\ \A p \in Profile : Once(users'[p])
    BY <1>3, <1>4, <1>5 DEF IamInv, IamTypeOK, Once
  <1>7. OneUser(k) =>
           /\ settingsOf[k].users = {}
           /\ users[ProfileOf(k)] \subseteq {u}
    BY <1>1, <1>2, <1>3 DEF IamInv, Agrees, OneUser, u
  <1>8. OneUser(k) => u \in KnownUsers(k)'
    BY <1>3, <1>5, <1>7 DEF KnownUsers
  <1>9. ASSUME NEW j \in Iam, OneUser(j)
        PROVE  /\ KnownUsers(j) \subseteq KnownUsers(j)'
               /\ \A d \in Client \ {c} : j \in login[d].iam /\ login[d].step = "identity" =>
                     users'[ProfileOf(j)] \subseteq {identity[ProfileOf(j)]}
    <2>1. ProfileOf(j) \in Profile
      BY IamConstants
    <2>2. CASE ProfileOf(j) = ProfileOf(k)
      <3>1. users'[ProfileOf(j)] = {u} /\ u = identity[ProfileOf(j)]
        BY <1>5, <2>1, <2>2 DEF u
      <3>2. CASE settingsOf[j].users # {}
        BY <3>1, <3>2 DEF KnownUsers
      <3>3. CASE settingsOf[j].users = {}
        <4>1. OneUser(k)
          BY <1>9, <2>2, <3>3 DEF OneUser
        <4>2. users[ProfileOf(j)] \subseteq {u}
          BY <1>7, <2>2, <4>1
        <4> QED
          BY <3>1, <3>3, <4>2 DEF KnownUsers
      <3> QED
        BY <3>2, <3>3
    <2>3. CASE ProfileOf(j) # ProfileOf(k)
      <3>1. users'[ProfileOf(j)] = users[ProfileOf(j)] /\ Agrees(j)
        BY <1>5, <2>1, <2>3 DEF IamInv
      <3> QED
        BY <1>9, <3>1 DEF KnownUsers, Agrees, OneUser
    <2> QED
      BY <2>2, <2>3
  <1> QED
    BY <1>2, <1>3, <1>4, <1>6, <1>8, <1>9, WantTokenKeeps

\* The CLI signs a token for what the call asks for.
LEMMA SignsKeeps ==
  ASSUME IamInv, NEW c \in Client, Signs(c)
  PROVE  IamInv'
  <1>1. PICK k \in login[c].iam, u \in login[c].user :
           login' = [login EXCEPT ![c].step = "signed",
                                  ![c].token = {[target |-> Target(k, u), signed |-> now]}]
    BY DEF Signs
  <1>2. login[c].step = "mint" /\ UNCHANGED <<now, identity, users, tokens, poolUser, switched>>
    BY DEF Signs
  <1>3. /\ login \in [Client -> Login] /\ login[c] \in Login /\ now \in Nat
        /\ k \in Iam /\ u \in User /\ Target(k, u) \in Targets
    BY IamConstants DEF IamInv, IamTypeOK, Login
  <1> DEFINE signed == [login[c] EXCEPT !.step = "signed",
                                        !.token = {[target |-> Target(k, u), signed |-> now]}]
  <1>4. /\ signed \in Login /\ signed.step = "signed"
        /\ signed.iam = login[c].iam /\ signed.user = login[c].user /\ signed.since = login[c].since
        /\ signed.token = {[target |-> Target(k, u), signed |-> now]}
    <2>1. [target |-> Target(k, u), signed |-> now] \in Token
      BY <1>3 DEF Token
    <2> QED
      BY <1>3, <2>1 DEF Login
  <1>5. login' = [login EXCEPT ![c] = signed]
    BY <1>1, <1>3 DEF Login
  <1> HIDE DEF signed
  <1>6. login'[c] = signed /\ \A d \in Client \ {c} : login'[d] = login[d]
    BY <1>3, <1>5
  <1>7. IamTypeOK'
    BY <1>2, <1>3, <1>4, <1>5 DEF IamInv, IamTypeOK
  <1>8. ASSUME NEW d \in Client
        PROVE  LoginOK(d)'
    <2>1. CASE d # c
      BY <1>2, <1>6, <2>1 DEF IamInv, LoginOK
    <2>2. CASE d = c
      <3>1. LoginOK(c)
        BY DEF IamInv
      <3>2. /\ Once(login[c].iam) /\ Once(login[c].user)
            /\ login[c].since <= now /\ now <= login[c].since + CliTimeout
        BY <1>2, <3>1 DEF LoginOK
      <3>3. \A j \in login[c].iam, v \in login[c].user : j = k /\ v = u
        BY <3>2 DEF Once
      <3> QED
        BY <1>2, <1>4, <1>6, <2>2, <3>2, <3>3 DEF LoginOK
    <2> QED
      BY <2>1, <2>2
  <1>9. ASSUME NEW j \in Iam
        PROVE  Agrees(j)'
    <2>1. Agrees(j) /\ KnownUsers(j)' = KnownUsers(j)
      BY <1>2 DEF IamInv, KnownUsers
    <2>2. \A d \in Client : /\ login'[d].iam = login[d].iam /\ login'[d].user = login[d].user
                           /\ (login'[d].step = "identity") = (login[d].step = "identity")
      BY <1>2, <1>4, <1>6
    <2>3. OneUser(j) => poolUser[j] \subseteq KnownUsers(j)'
      BY <2>1 DEF Agrees, OneUser
    <2>4. ASSUME OneUser(j), NEW d \in Client, j \in login'[d].iam
          PROVE  IF login'[d].step = "identity"
                 THEN /\ settingsOf[j].users = {}
                      /\ users'[ProfileOf(j)] \subseteq {identity'[ProfileOf(j)]}
                 ELSE login'[d].user \subseteq KnownUsers(j)'
      <3>1. j \in login[d].iam
        BY <2>2, <2>4
      <3> QED
        BY <1>2, <2>1, <2>2, <2>4, <3>1 DEF Agrees, OneUser
    <2> QED
      BY <1>2, <2>3, <2>4 DEF Agrees, OneUser
  <1>10. TokensOK' /\ \A p \in Profile : Once(users'[p])
    BY <1>2 DEF IamInv, TokensOK
  <1> QED
    BY <1>7, <1>8, <1>9, <1>10 DEF IamInv

\* The CLI ends in time: the cached token will be dropped in time.
LEMMA MintedKeeps ==
  ASSUME IamInv, NEW c \in Client, Minted(c)
  PROVE  IamInv'
  <1>1. PICK k \in login[c].iam, u \in login[c].user, t \in login[c].token :
           /\ tokens' = [tokens EXCEPT ![Target(k, u)] = {[token |-> t, expires |-> now + TokenTtl]}]
           /\ Have(c, k, u, t)
    BY DEF Minted, CacheFor
  <1>2. login[c].step = "signed" /\ UNCHANGED <<now, identity, users, switched>>
    BY DEF Minted, CacheFor
  <1>3. /\ login[c] \in Login /\ login[c].since \in Nat /\ now \in Nat
        /\ k \in Iam /\ u \in User /\ t \in Token /\ t.signed \in Nat
        /\ Target(k, u) \in Targets
    BY IamConstants DEF IamInv, IamTypeOK, Login, Token
  <1>4. /\ now <= login[c].since + CliTimeout
        /\ t.target = Target(k, u) /\ login[c].since <= t.signed
    BY <1>2 DEF IamInv, LoginOK
  <1>5. now < t.signed + CliTimeout + TokenTtl /\ now + TokenTtl <= t.signed + CliTimeout + TokenTtl
    BY <1>3, <1>4, IamConstants
  <1> DEFINE entry == [token |-> t, expires |-> now + TokenTtl]
  <1>6. /\ entry \in CacheEntry /\ entry.token = t
        /\ entry.expires <= t.signed + CliTimeout + TokenTtl
    BY <1>3, <1>5, IamConstants DEF CacheEntry
  <1>7. tokens' = [tokens EXCEPT ![Target(k, u)] = {entry}]
    BY <1>1
  <1> HIDE DEF entry
  <1>8. /\ tokens' \in [Targets -> SUBSET CacheEntry]
        /\ \A x \in Targets : tokens'[x] = IF x = Target(k, u) THEN {entry} ELSE tokens[x]
    BY <1>3, <1>6, <1>7 DEF IamInv, IamTypeOK
  <1>9. TokensOK'
    <2>1. TokensOK
      BY DEF IamInv
    <2> QED
      BY <1>4, <1>6, <1>8, <2>1 DEF TokensOK
  <1>10. \A j \in Iam : KnownUsers(j)' = KnownUsers(j)
    BY <1>2 DEF KnownUsers
  <1>11. OneUser(k) => u \in KnownUsers(k)'
    BY <1>2, <1>3, <1>10 DEF IamInv, Agrees, OneUser
  <1>12. users' \in [Profile -> SUBSET User] /\ \A p \in Profile : Once(users'[p])
    BY <1>2 DEF IamInv, IamTypeOK
  <1>13. ASSUME NEW j \in Iam, OneUser(j)
         PROVE  /\ KnownUsers(j) \subseteq KnownUsers(j)'
                /\ \A d \in Client \ {c} : j \in login[d].iam /\ login[d].step = "identity" =>
                      users'[ProfileOf(j)] \subseteq {identity[ProfileOf(j)]}
    BY <1>2, <1>10, <1>13 DEF IamInv, Agrees, OneUser
  <1> QED
    BY <1>1, <1>2, <1>3, <1>4, <1>5, <1>8, <1>9, <1>11, <1>12, <1>13, HaveKeeps

\* A call that is done with its log-in holds nothing.
LEMMA IdleKeeps ==
  ASSUME IamInv, NEW c \in Client, login' = [login EXCEPT ![c] = Idle],
         UNCHANGED <<now, identity, users, tokens, poolUser, switched>>
  PROVE  IamInv'
  <1>1. login \in [Client -> Login] /\ Idle \in Login
    BY DEF IamInv, IamTypeOK, Login, Idle
  <1>2. login'[c] = Idle
    BY <1>1, Zenon
  <1>3. \A d \in Client \ {c} : login'[d] = login[d]
    BY <1>1
  <1>4. IamTypeOK'
    BY <1>1 DEF IamInv, IamTypeOK
  <1>5. ASSUME NEW d \in Client
        PROVE  LoginOK(d)'
    <2>1. CASE d # c
      BY <1>3, <2>1 DEF IamInv, LoginOK
    <2>2. CASE d = c
      BY <1>2, <2>2 DEF LoginOK, Idle, Once
    <2> QED
      BY <2>1, <2>2
  <1>6. ASSUME NEW j \in Iam
        PROVE  Agrees(j)'
    <2>1. Agrees(j) /\ KnownUsers(j)' = KnownUsers(j)
      BY DEF IamInv, KnownUsers
    <2>2. \A d \in Client : j \in login'[d].iam => j \in login[d].iam /\ login'[d] = login[d]
      BY <1>2, <1>3 DEF Idle
    <2> QED
      BY <2>1, <2>2 DEF Agrees, OneUser
  <1>7. TokensOK' /\ \A p \in Profile : Once(users'[p])
    BY DEF IamInv, TokensOK
  <1> QED
    BY <1>4, <1>5, <1>6, <1>7 DEF IamInv

\* Time passes only as far as the time-outs allow.
LEMMA TickKeeps ==
  ASSUME IamInv, Tick
  PROVE  IamInv'
  <1>1. /\ now \in Nat /\ now' = now + 1
        /\ UNCHANGED <<identity, users, tokens, poolUser, login, switched>>
    BY DEF IamInv, IamTypeOK, Tick
  <1>2. IamTypeOK'
    BY <1>1 DEF IamInv, IamTypeOK
  <1>3. ASSUME NEW d \in Client
        PROVE  LoginOK(d)'
    <2>1. LoginOK(d) /\ login[d].since \in Nat
      BY DEF IamInv, IamTypeOK, Login
    <2>2. /\ login[d].step \in {"identity", "mint", "signed"} => now < login[d].since + CliTimeout
          /\ login[d].step = "connect" => now < login[d].since + ConnectTimeout
      BY DEF Tick
    <2>3. /\ login[d].step \in {"identity", "mint", "signed"} =>
                login[d].since <= now' /\ now' <= login[d].since + CliTimeout
          /\ login[d].step = "connect" => now' <= login[d].since + ConnectTimeout
      BY <1>1, <2>1, <2>2, IamConstants DEF LoginOK
    <2> QED
      BY <1>1, <2>1, <2>3 DEF LoginOK
  <1>4. ASSUME NEW j \in Iam
        PROVE  Agrees(j)'
    BY <1>1 DEF IamInv, Agrees, OneUser, KnownUsers
  <1>5. TokensOK' /\ \A p \in Profile : Once(users'[p])
    BY <1>1 DEF IamInv, TokensOK
  <1> QED
    BY <1>2, <1>3, <1>4, <1>5 DEF IamInv

\* Whoever is asking while the identity changes is told of in switched.
LEMMA SwitchKeeps ==
  ASSUME IamInv, NEW p \in Profile, SwitchIdentity(p)
  PROVE  IamInv'
  <1>1. PICK u \in User : identity' = [identity EXCEPT ![p] = u]
    BY DEF SwitchIdentity
  <1>2. /\ UNCHANGED <<now, users, tokens, poolUser, login>>
        /\ switched' = switched \cup
             {ProfileOf(k) : k \in {j \in Iam : /\ ProfileOf(j) = p
                                                /\ \E c \in Client : /\ login[c].step = "identity"
                                                                     /\ j \in login[c].iam}}
    BY DEF SwitchIdentity
  <1>3. IamTypeOK'
    BY <1>1, <1>2, IamConstants DEF IamInv, IamTypeOK
  <1>4. ASSUME NEW d \in Client
        PROVE  LoginOK(d)'
    BY <1>2 DEF IamInv, LoginOK
  <1>5. ASSUME NEW j \in Iam, OneUser(j)'
        PROVE  Agrees(j)'
    <2>1. Agrees(j) /\ KnownUsers(j)' = KnownUsers(j) /\ OneUser(j)
      BY <1>2, <1>5 DEF IamInv, KnownUsers, OneUser
    <2>2. ASSUME NEW d \in Client, j \in login[d].iam, login[d].step = "identity"
          PROVE  identity'[ProfileOf(j)] = identity[ProfileOf(j)]
      <3>1. settingsOf[j].users = {}
        BY <2>1, <2>2 DEF Agrees
      <3>2. ProfileOf(j) # p
        BY <1>2, <1>5, <2>2, <3>1 DEF OneUser
      <3> QED
        BY <1>1, <3>2, IamConstants DEF IamInv, IamTypeOK
    <2> QED
      BY <1>2, <2>1, <2>2 DEF Agrees, OneUser
  <1>6. \A j \in Iam : Agrees(j)'
    BY <1>5 DEF Agrees, OneUser
  <1>7. TokensOK' /\ \A q \in Profile : Once(users'[q])
    BY <1>2 DEF IamInv, TokensOK
  <1> QED
    BY <1>3, <1>4, <1>6, <1>7 DEF IamInv

\* A new process knows nothing.
LEMMA IamRestartKeeps ==
  ASSUME IamInv, IamRestart
  PROVE  IamInv'
  <1>1. IamTypeOK'
    BY DEF IamInv, IamTypeOK, IamRestart, Login, Idle
  <1>2. \A d \in Client : LoginOK(d)'
    BY DEF IamRestart, LoginOK, Idle, Once
  <1>3. \A j \in Iam : Agrees(j)'
    BY DEF IamRestart, Agrees, OneUser, Idle
  <1>4. TokensOK' /\ \A p \in Profile : Once(users'[p])
    BY DEF IamRestart, TokensOK, Once
  <1> QED
    BY <1>1, <1>2, <1>3, <1>4 DEF IamInv

LEMMA IamInvNext == IamInv /\ [IamNext]_iamVars => IamInv'
  <1> SUFFICES ASSUME IamInv, [IamNext]_iamVars
               PROVE  IamInv'
    OBVIOUS
  <1>1. CASE UNCHANGED iamVars
    BY <1>1 DEF iamVars, IamInv, IamTypeOK, TokensOK, LoginOK, Agrees, OneUser, KnownUsers
  <1>2. ASSUME NEW c \in Client, NEW k \in Iam, Resolve(c, k)
        PROVE  IamInv'
    BY <1>2, ResolveKeeps
  <1>3. ASSUME NEW c \in Client, Identified(c) \/ Signs(c) \/ Minted(c)
        PROVE  IamInv'
    BY <1>3, IdentifiedKeeps, SignsKeeps, MintedKeeps
  <1>4. ASSUME NEW c \in Client, CliFails(c) \/ LoggedIn(c)
        PROVE  IamInv'
    BY <1>4, IdleKeeps DEF CliFails, LoggedIn
  <1>5. CASE Tick
    BY <1>5, TickKeeps
  <1>6. ASSUME NEW p \in Profile, SwitchIdentity(p)
        PROVE  IamInv'
    BY <1>6, SwitchKeeps
  <1>7. CASE IamRestart
    BY <1>7, IamRestartKeeps
  <1> QED
    BY <1>1, <1>2, <1>3, <1>4, <1>5, <1>6, <1>7 DEF IamNext

\* A token that logs in is not older than the limits make it.
LEMMA TokenLiveStep == IamInv => TokenLive
  <1> SUFFICES ASSUME IamInv, NEW c \in Client, login[c].step = "connect",
                      NEW k \in login[c].iam, NEW t \in login[c].token
               PROVE  /\ now < t.signed + TokenTtl + CliTimeout + ConnectTimeout
                      /\ LimitsFit => now < t.signed + Lifetime
                      /\ \E u \in User : /\ t.target = Target(k, u)
                                         /\ OneUser(k) => u \in poolUser[k]
    BY DEF TokenLive
  <1>1. /\ login[c] \in Login /\ k \in Iam /\ login[c].since \in Nat
        /\ now \in Nat /\ t \in Token /\ t.signed \in Nat
    BY DEF IamInv, IamTypeOK, Login, Token
  <1>2. LoginOK(c) /\ Agrees(k)
    BY <1>1 DEF IamInv
  <1>3. PICK u \in login[c].user : TRUE
    BY <1>2 DEF LoginOK
  <1>4. /\ t.target = Target(k, u) /\ now <= login[c].since + ConnectTimeout
        /\ login[c].since < t.signed + CliTimeout + TokenTtl
        /\ poolUser[k] # {} /\ u \in User
    BY <1>1, <1>2, <1>3 DEF LoginOK, Login
  <1>5. now < t.signed + TokenTtl + CliTimeout + ConnectTimeout
    BY <1>1, <1>4, IamConstants
  <1>6. LimitsFit => now < t.signed + Lifetime
    BY <1>1, <1>5, IamConstants DEF LimitsFit
  <1>7. ASSUME OneUser(k)
        PROVE  u \in poolUser[k]
    <2>1. u \in KnownUsers(k) /\ poolUser[k] \subseteq KnownUsers(k)
      BY <1>2, <1>7 DEF Agrees
    <2> QED
      BY <1>1, <1>4, <2>1, KnownOnce DEF Once
  <1> QED
    BY <1>4, <1>5, <1>6, <1>7

\* What a driver logs in with is a token for its host and profile, no older
\* than the cache, the CLI and the log-in may take together, and for the user
\* of its pool where the connection records the user or the identity did not
\* change during a look-up: for every set of calls and connections and any
\* time limits.
THEOREM TokenLiveAlways == IamSpec => [](IamTypeOK /\ TokenLive)
  <1>1. IamInv => IamTypeOK /\ TokenLive
    BY TokenLiveStep DEF IamInv
  <1> QED
    BY IamInvInit, IamInvNext, <1>1, PTL DEF IamSpec

=============================================================================
