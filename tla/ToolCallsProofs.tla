--------------------------- MODULE ToolCallsProofs ---------------------------
(***************************************************************************)
(* Proofs about the tool calls: that they keep the invariants of the parts *)
(* they are built from; that the policy means the same in JavaScript and   *)
(* in SQL; that an id stands for one database; that whatever a database    *)
(* does for a call was allowed while the call ran; and that                *)
(* compare_schemas tells what there is to tell.                            *)
(***************************************************************************)
EXTENDS ToolCalls, SharedStateProofs

-----------------------------------------------------------------------------
\* Together: each step of the calls is one of the workspace's, of the notes'
\* and of the log-ins', or leaves them alone.
ToolInv == WorkspaceInv /\ NotesInv /\ IamInv /\ policy \in Policies

LEMMA ScopeType == WorkspaceTypeOK /\ policy \in Policies => ScopeNow \in Scope
  <1> SUFFICES ASSUME WorkspaceTypeOK, policy \in Policies
               PROVE  ScopeNow \in Scope
    OBVIOUS
  <1>1. Places(newFormat) \subseteq Place
    BY WorkspaceAssumption DEF Places, ProjectDirs, Place
  <1>2. Signature \in [Places(newFormat) -> [connections : Contents, credentials : Contents]]
    BY <1>1 DEF Signature, WorkspaceTypeOK
  <1>3. configured \in Contents
    BY DEF WorkspaceTypeOK
  <1> QED
    BY <1>1, <1>2, <1>3, ToolAssumption DEF ScopeNow

LEMMA PolicyStep == policy \in Policies /\ [ToolNext]_toolVars => policy' \in Policies
  BY DEF ToolNext, toolVars, Ask, CallStep, Loads, Connected, Filtered, Writable, Offered, Revision, Permit,
         Narrowed, LookedUp, Trust, Execute, Explain, List, Listed, LoadSchemas, Compare, Noted,
         Kept, OpensSession, CallFails, Same, Others, Parses, FilesChange, PolicyChanges,
         IdentityChanges, TimePasses, Restart

LEMMA WorkspaceStep == [ToolNext]_toolVars => [WorkspaceNext]_workspaceVars
  <1> SUFFICES ASSUME [ToolNext]_toolVars
               PROVE  [WorkspaceNext]_workspaceVars
    OBVIOUS
  <1>1. CASE UNCHANGED toolVars
    BY <1>1 DEF toolVars
  <1>2. ASSUME NEW c \in Loader, Ask(c)
        PROVE  [WorkspaceNext]_workspaceVars
    BY <1>2 DEF Ask
  <1>3. ASSUME NEW c \in Loader, Loads(c) \/ Connected(c) \/ Filtered(c) \/ CallFails(c)
        PROVE  [WorkspaceNext]_workspaceVars
    BY <1>3 DEF Loads, Connected, Filtered, CallFails, WorkspaceNext
  <1>4. ASSUME NEW c \in Loader,
               \/ Writable(c) \/ Offered(c) \/ Revision(c)
               \/ Permit(c) \/ Narrowed(c) \/ LookedUp(c) \/ Trust(c)
               \/ Execute(c) \/ Explain(c) \/ List(c) \/ Listed(c) \/ LoadSchemas(c) \/ Compare(c)
               \/ Noted(c) \/ Kept(c) \/ OpensSession(c)
        PROVE  [WorkspaceNext]_workspaceVars
    BY <1>4 DEF Writable, Offered, Revision, Permit, Narrowed, LookedUp, Trust, Execute, Explain, List,
                Listed, LoadSchemas, Compare, Noted, Kept, OpensSession, Same
  <1>5. CASE Parses \/ FilesChange \/ Restart
    BY <1>5 DEF Parses, FilesChange, Restart, WorkspaceNext
  <1>6. CASE \/ \E p \in Policies : PolicyChanges(p)
             \/ IdentityChanges \/ TimePasses
    BY <1>6 DEF PolicyChanges, IdentityChanges, TimePasses
  <1> QED
    BY <1>1, <1>2, <1>3, <1>4, <1>5, <1>6 DEF ToolNext, CallStep

LEMMA IamStep == [ToolNext]_toolVars => [IamNext]_iamVars
  <1> SUFFICES ASSUME [ToolNext]_toolVars
               PROVE  [IamNext]_iamVars
    OBVIOUS
  <1> USE ToolAssumption
  <1>1. CASE UNCHANGED toolVars
    BY <1>1 DEF toolVars
  <1>2. ASSUME NEW c \in Loader, OpensSession(c)
        PROVE  [IamNext]_iamVars
    BY <1>2 DEF OpensSession, IamNext
  <1>3. ASSUME NEW c \in Loader, CallFails(c)
        PROVE  [IamNext]_iamVars
    BY <1>3 DEF CallFails, IamNext
  <1>4. ASSUME NEW c \in Loader,
               \/ Ask(c) \/ Loads(c) \/ Connected(c) \/ Filtered(c)
               \/ Writable(c) \/ Offered(c) \/ Revision(c)
               \/ Permit(c) \/ Narrowed(c) \/ LookedUp(c) \/ Trust(c) \/ Execute(c) \/ Explain(c)
               \/ List(c) \/ Listed(c) \/ LoadSchemas(c) \/ Compare(c) \/ Noted(c) \/ Kept(c)
        PROVE  [IamNext]_iamVars
    BY <1>4 DEF Ask, Loads, Connected, Filtered, Writable, Offered, Revision, Permit, Narrowed, LookedUp,
                Trust, Execute, Explain, List, Listed, LoadSchemas, Compare, Noted, Kept, Same
  <1>5. CASE IdentityChanges \/ TimePasses \/ Restart
    BY <1>5 DEF IdentityChanges, TimePasses, Restart, IamNext
  <1>6. CASE Parses \/ FilesChange \/ \E p \in Policies : PolicyChanges(p)
    BY <1>6 DEF Parses, FilesChange, PolicyChanges
  <1> QED
    BY <1>1, <1>2, <1>3, <1>4, <1>5, <1>6 DEF ToolNext, CallStep

\* The scope follows the files, the configuration and the policy.
LEMMA NotesStep ==
  ASSUME [ToolNext]_toolVars, WorkspaceTypeOK', policy' \in Policies
  PROVE  [NotesNext]_notesVars
  <1> USE ToolAssumption
  <1>1. (ScopeNow \in Scope)'
    <2>1. (WorkspaceTypeOK /\ policy \in Policies)'
      OBVIOUS
    <2> QED
      BY <2>1, ScopeType, PTL
  <1>2. CASE UNCHANGED toolVars
    BY <1>2 DEF toolVars
  <1>3. ASSUME ScopeBecomes(ScopeNow'),
               UNCHANGED <<files, notesScope, store, insights, noting, spoilt>>
        PROVE  [NotesNext]_notesVars
    BY <1>1, <1>3 DEF NotesNext, ScopeChanges
  <1>4. ASSUME NEW c \in Loader, Loads(c)
        PROVE  [NotesNext]_notesVars
    BY <1>3, <1>4 DEF Loads
  <1>5. ASSUME NEW c \in Loader, Noted(c) \/ Kept(c) \/ CallFails(c)
        PROVE  [NotesNext]_notesVars
    BY <1>5 DEF Noted, Kept, CallFails, NotesNext
  <1>6. ASSUME NEW c \in Loader,
               \/ Ask(c) \/ Connected(c) \/ Filtered(c)
               \/ Writable(c) \/ Offered(c) \/ Revision(c) \/ Permit(c)
               \/ Narrowed(c) \/ LookedUp(c) \/ Trust(c) \/ Execute(c) \/ Explain(c) \/ List(c)
               \/ Listed(c) \/ LoadSchemas(c) \/ Compare(c) \/ OpensSession(c)
        PROVE  [NotesNext]_notesVars
    BY <1>6 DEF Ask, Connected, Filtered, Writable, Offered, Revision, Permit, Narrowed, LookedUp, Trust,
                Execute, Explain, List, Listed, LoadSchemas, Compare, OpensSession, Same
  <1>7. CASE FilesChange \/ \E p \in Policies : PolicyChanges(p)
    BY <1>3, <1>7 DEF FilesChange, PolicyChanges
  <1>8. CASE Restart
    BY <1>8 DEF Restart, NotesNext
  <1>9. CASE Parses \/ IdentityChanges \/ TimePasses
    BY <1>9 DEF Parses, IdentityChanges, TimePasses
  <1> QED
    BY <1>2, <1>4, <1>5, <1>6, <1>7, <1>8, <1>9 DEF ToolNext, CallStep

LEMMA ToolInvInit == ToolInit => ToolInv
  BY WorkspaceInvInit, NotesInvInit, IamInvInit DEF ToolInit, ToolInv

LEMMA ToolInvNext == ToolInv /\ [ToolNext]_toolVars => ToolInv'
  <1> SUFFICES ASSUME ToolInv, [ToolNext]_toolVars
               PROVE  ToolInv'
    OBVIOUS
  <1>1. WorkspaceInv'
    BY WorkspaceStep, WorkspaceInvNext DEF ToolInv
  <1>2. policy' \in Policies
    BY PolicyStep DEF ToolInv
  <1>3. NotesInv'
    BY <1>1, <1>2, NotesStep, NotesInvNext DEF ToolInv, WorkspaceInv
  <1>4. IamInv'
    BY IamStep, IamInvNext DEF ToolInv
  <1> QED
    BY <1>1, <1>2, <1>3, <1>4 DEF ToolInv

\* What holds of the workspace, the notes and the log-ins holds for the tool
\* calls that use them together.
THEOREM ToolCallsKeep == ToolSpec => [](WaitsJoined /\ CacheFresh /\ ApartUnlessFailed /\ TokenLive)
  <1>1. ToolInv => WaitsJoined /\ CacheFresh /\ ApartUnlessFailed /\ TokenLive
    BY WorkspaceInvFresh, NotesInvApart, TokenLiveStep DEF ToolInv, WorkspaceInv, NotesInv
  <1> QED
    BY ToolInvInit, ToolInvNext, <1>1, PTL DEF ToolSpec

-----------------------------------------------------------------------------
\* Names of up to three parts, and the three forms a policy may write.
LEMMA OneAndTwo ==
  ASSUME NEW Name, NEW x \in Name, NEW y \in Name, NEW z \in Name
  PROVE  <<x>> \o <<y, z>> = <<x, y, z>>
  <1> DEFINE s == <<x>>
             t == <<y, z>>
             u == <<x, y, z>>
  <1>1. /\ s \in Seq(Name) /\ t \in Seq(Name) /\ u \in Seq(Name)
        /\ Len(s) = 1 /\ Len(t) = 2 /\ Len(u) = 3
    OBVIOUS
  <1>2. s \o t \in Seq(Name) /\ Len(s \o t) = 3
    BY <1>1
  <1>3. \A i \in 1..3 : (s \o t)[i] = u[i]
    <2>1. (s \o t)[1] = x /\ (s \o t)[2] = y /\ (s \o t)[3] = z
      BY <1>1
    <2> QED
      BY <2>1
  <1> QED
    BY <1>1, <1>2, <1>3, SeqEqual

LEMMA Ranges == 1..3 = {1, 2, 3} /\ 2..3 = {2, 3}
  OBVIOUS

\* The three forms of a name, in JavaScript and in SQL.
LEMMA Forms ==
  ASSUME NEW Name, NEW c, NEW row, row.schema \in Name, row.name \in Name, c.database \in Name,
         row.schema # "", c.database # ""
  PROVE  /\ Bare(row) = <<row.name>>
         /\ Qualified(row) = <<row.schema, row.name>>
         /\ InDatabase(c, row) = <<c.database, row.schema, row.name>>
  <1>1. Bare(row) = <<row.name>> /\ Qualified(row) = <<row.schema, row.name>>
    BY DEF Bare, Qualified
  <1>2. <<c.database>> \o <<row.schema, row.name>> = <<c.database, row.schema, row.name>>
    BY OneAndTwo
  <1> QED
    BY <1>1, <1>2 DEF InDatabase

\* Where a row has a schema and a database, the SQL predicate and the filter
\* in JavaScript let the same names through, whatever the policy says, but for
\* SQLite's functions, whose schema the predicate leaves out.
THEOREM SamePredicate ==
  ASSUME NEW Name, NEW p, NEW c, NEW row, NEW kind, NEW bare \in BOOLEAN,
         row.schema \in Name, row.name \in Name, c.database \in Name,
         row.schema # "", c.database # "", kind = "table" \/ c.dialect # "sqlite"
  PROVE  AllowsResolved(p, c, row, kind, bare)
            <=> IdentityPredicate(p, c, row, c.database, kind, bare)
  <1> DEFINE n == <<row.name>>
             q == <<row.schema, row.name>>
             d == <<c.database, row.schema, row.name>>
             rules == RulesOf(p, c, c.database)
             given == kind = "function" => \E r \in rules : r.allowFunctions # {}
             ok(r) == /\ \A list \in r.schemas : Includes(list, <<row.schema>>)
                      /\ \A list \in Allow(r, kind) : \/ Includes(list, q) \/ Includes(list, d)
                                                      \/ bare /\ Includes(list, n)
                      /\ \A list \in Deny(r, kind) : /\ ~Includes(list, n) /\ ~Includes(list, q)
                                                     /\ ~Includes(list, d)
  <1>1. Bare(row) = n /\ Qualified(row) = q /\ InDatabase(c, row) = d
    BY Forms
  <1>2. AllowsResolved(p, c, row, kind, bare) <=> (given /\ \A r \in rules : ok(r))
    <2> HIDE DEF n, q, d
    <2> QED
      BY <1>1 DEF AllowsResolved
  <1>3. IdentityPredicate(p, c, row, c.database, kind, bare) <=> (given /\ \A r \in rules : ok(r))
    <2> DEFINE all == <<n, q, d>>
               allowed == IF bare THEN 1..3 ELSE 2..3
    <2>1. all[1] = n /\ all[2] = q /\ all[3] = d
      <3> HIDE DEF n, q, d
      <3> QED
        OBVIOUS
    <2>2. 1..3 = {1, 2, 3} /\ 2..3 = {2, 3}
      BY Ranges
    <2>3. allowed = IF bare THEN {1, 2, 3} ELSE {2, 3}
      BY <2>2
    <2>4. IdentityPredicate(p, c, row, c.database, kind, bare) <=>
             /\ given
             /\ \A r \in rules :
                  /\ \A list \in r.schemas : Includes(list, <<row.schema>>)
                  /\ \A list \in Allow(r, kind) : \E i \in allowed : Includes(list, all[i])
                  /\ \A list \in Deny(r, kind) : \A i \in 1..3 : ~Includes(list, all[i])
      BY DEF IdentityPredicate
    <2> HIDE DEF all, allowed, n, q, d
    <2>5. \A list : (\E i \in allowed : Includes(list, all[i])) <=>
                       (Includes(list, q) \/ Includes(list, d) \/ (bare /\ Includes(list, n)))
      BY <2>1, <2>3
    <2>6. \A list : (\A i \in 1..3 : ~Includes(list, all[i])) <=>
                       (~Includes(list, n) /\ ~Includes(list, q) /\ ~Includes(list, d))
      BY <2>1, <2>2
    <2> QED
      BY <2>4, <2>5, <2>6
  <1> HIDE DEF n, q, d, rules, given, ok
  <1> QED
    BY <1>2, <1>3

\* In an instance whose databases, tables and functions have names and schemas,
\* and no SQLite, the two always agree.
THEOREM RulesMeanTheSame ==
  ASSUME NEW Name,
         \A id \in DOMAIN describes :
            /\ describes[id].database \in Name \ {""} /\ describes[id].dialect # "sqlite"
            /\ \A row \in TablesOf(describes[id].database) \cup Routine :
                  row.schema \in Name \ {""} /\ row.name \in Name
  PROVE  PredicatesAgree
  <1> DEFINE agree(k, row, kind) == \A bare \in BOOLEAN :
                 AllowsResolved(policy, k, row, kind, bare)
                    <=> IdentityPredicate(policy, k, row, k.database, kind, bare)
             k(id) == Saved([id |-> id], {})
  <1>1. \A id \in DOMAIN describes :
           k(id).database = describes[id].database /\ k(id).dialect = describes[id].dialect
    BY DEF Saved
  <1>2. ASSUME NEW id \in DOMAIN describes, NEW kind,
               NEW row \in TablesOf(describes[id].database) \cup Routine
        PROVE  agree(k(id), row, kind)
    <2> HIDE DEF k
    <2>1. /\ k(id).database \in Name /\ k(id).database # "" /\ k(id).dialect # "sqlite"
          /\ row.schema \in Name /\ row.schema # "" /\ row.name \in Name
      BY <1>1
    <2> QED
      BY <2>1, SamePredicate
  <1>3. SUFFICES ASSUME NEW id \in DOMAIN describes
                 PROVE  /\ \A row \in TablesOf(k(id).database) : agree(k(id), row, "table")
                        /\ \A row \in Routine : agree(k(id), row, "function")
    BY DEF PredicatesAgree
  <1> HIDE DEF agree, k
  <1> QED
    BY <1>1, <1>2

-----------------------------------------------------------------------------
\* A connection a call was given is a saved one, or one for another database
\* whose id no saved one has.
IsTarget(k) ==
    /\ Unique(k.among) /\ k.among \subseteq Connection
    /\ \E e \in k.among :
          \/ k = Saved(e, k.among)
          \/ /\ \E database : k = WithDatabase(Saved(e, k.among), database)
             /\ \A saved \in k.among : saved.id # Append(e.id, k.database)

Targets1 == \A c \in Loader : \A i \in DOMAIN conns[c] : IsTarget(conns[c][i])
ConnsTyped == DOMAIN conns = Loader

\* The end and what precedes it are told by the whole.
LEMMA EndsAlike ==
  ASSUME NEW s, NEW t, \E S : s \in Seq(S), \E T : t \in Seq(T)
  PROVE  \A x, y : Append(s, x) = Append(t, y) => s = t /\ x = y
  <1>0. PICK S, T : s \in Seq(S) /\ t \in Seq(T)
    OBVIOUS
  <1> SUFFICES ASSUME NEW x, NEW y, Append(s, x) = Append(t, y)
               PROVE  s = t /\ x = y
    OBVIOUS
  <1>1. PICK U : U = S \cup T \cup {x, y}
    OBVIOUS
  <1>2. Len(s) \in Nat /\ s = [n \in 1..Len(s) |-> s[n]] /\ \A n \in 1..Len(s) : s[n] \in U
    BY <1>0, <1>1
  <1>3. Len(t) \in Nat /\ t = [n \in 1..Len(t) |-> t[n]] /\ \A n \in 1..Len(t) : t[n] \in U
    BY <1>0, <1>1
  <1>4. s \in Seq(U) /\ t \in Seq(U) /\ x \in U /\ y \in U
    BY <1>0, <1>1, <1>2, <1>3
  <1>5. Len(Append(s, x)) = Len(s) + 1 /\ Len(Append(t, y)) = Len(t) + 1
    BY <1>4
  <1>6. Len(s) = Len(t)
    <2>1. Len(Append(s, x)) = Len(Append(t, y))
      OBVIOUS
    <2>2. Len(s) + 1 = Len(t) + 1
      BY <1>5, <2>1
    <2>3. ASSUME NEW m \in Nat, NEW n \in Nat, m + 1 = n + 1
          PROVE  m = n
      BY <2>3
    <2>4. Len(s) \in Nat /\ Len(t) \in Nat
      BY <1>2, <1>3
    <2> QED
      BY <2>2, <2>3, <2>4
  <1>7. Append(s, x)[Len(s) + 1] = x /\ Append(t, y)[Len(t) + 1] = y
    BY <1>4
  <1>8. \A n \in 1..Len(s) : Append(s, x)[n] = s[n] /\ Append(t, y)[n] = t[n]
    BY <1>4, <1>6
  <1> QED
    BY <1>2, <1>3, <1>6, <1>7, <1>8

LEMMA SavedIs ==
  ASSUME NEW e, NEW all
  PROVE  /\ Saved(e, all).id = e.id /\ Saved(e, all).among = all /\ Saved(e, all).entry = e
         /\ Saved(e, all).dialect = describes[e.id].dialect
         /\ Saved(e, all).baseId = e.id
  BY DEF Saved

LEMMA WithDatabaseIs ==
  ASSUME NEW e, NEW all, NEW database
  PROVE  LET k == WithDatabase(Saved(e, all), database)
         IN /\ k.id = Append(e.id, database) /\ k.database = database /\ k.among = all /\ k.entry = e
            /\ k.dialect = describes[e.id].dialect
  BY DEF Saved, WithDatabase

LEMMA IdIsSeq ==
  ASSUME NEW e \in Connection
  PROVE  e.id \in DOMAIN describes /\ \E S : e.id \in Seq(S)
  <1>1. PICK v \in Sound : e.id \in holds[v]
    BY DEF Connection
  <1> QED
    BY <1>1, ToolAssumption

\* Two targets with the same id among the same connections are the same.
LEMMA SameTarget ==
  ASSUME NEW k, NEW l, IsTarget(k), IsTarget(l), k.id = l.id, k.among = l.among
  PROVE  k = l
  <1>1. PICK e \in k.among :
          \/ k = Saved(e, k.among)
          \/ /\ \E database : k = WithDatabase(Saved(e, k.among), database)
             /\ \A saved \in k.among : saved.id # Append(e.id, k.database)
    BY DEF IsTarget
  <1>2. PICK f \in k.among :
          \/ l = Saved(f, k.among)
          \/ /\ \E database : l = WithDatabase(Saved(f, k.among), database)
             /\ \A saved \in k.among : saved.id # Append(f.id, l.database)
    BY DEF IsTarget
  <1>3. Unique(k.among) /\ e \in Connection /\ f \in Connection
    BY DEF IsTarget
  <1>4. CASE k = Saved(e, k.among) /\ l = Saved(f, k.among)
    <2>1. e.id = f.id
      BY <1>4, SavedIs
    <2> QED
      BY <1>3, <1>4, <2>1 DEF Unique
  <1>5. ASSUME NEW database, k = WithDatabase(Saved(e, k.among), database),
               NEW other, l = WithDatabase(Saved(f, k.among), other)
        PROVE  k = l
    <2>1. Append(e.id, database) = Append(f.id, other)
      BY <1>5, WithDatabaseIs
    <2>2. e.id = f.id /\ database = other
      <3>1. PICK s, u : s = e.id /\ u = f.id
        OBVIOUS
      <3>2. (\E S : s \in Seq(S)) /\ (\E T : u \in Seq(T))
        BY <1>3, <3>1, IdIsSeq
      <3>3. \A x, y : Append(s, x) = Append(u, y) => s = u /\ x = y
        BY <3>2, EndsAlike
      <3> QED
        BY <2>1, <3>1, <3>3
    <2> QED
      BY <1>3, <1>5, <2>2 DEF Unique
  <1>6. ASSUME NEW database, k = WithDatabase(Saved(e, k.among), database), l = Saved(f, k.among),
               \A saved \in k.among : saved.id # Append(e.id, k.database)
        PROVE  FALSE
    BY <1>6, SavedIs, WithDatabaseIs
  <1>7. ASSUME NEW database, l = WithDatabase(Saved(f, k.among), database), k = Saved(e, k.among),
               \A saved \in k.among : saved.id # Append(f.id, l.database)
        PROVE  FALSE
    BY <1>7, SavedIs, WithDatabaseIs
  <1> QED
    BY <1>1, <1>2, <1>4, <1>5, <1>6, <1>7

\* What the selection gives.
LEMMA SelectGives ==
  ASSUME NEW S, NEW connectionId, NEW database, NEW k \in Select(S, connectionId, database)
  PROVE  \E saved \in S : \/ k = saved
                          \/ /\ \E d : k = WithDatabase(saved, d) /\ \A s \in S : s.id # Append(saved.id, d)
  <1> DEFINE override == DatabaseOverride(S, connectionId)
             selection == IF database # {} THEN {<<d>> : d \in database}
                          ELSE IF override # <<>> THEN {override} ELSE {}
  <1>1. k \in UNION {IF selection = {} THEN {c}
                     ELSE UNION {Override(S, c, s[1]) : s \in selection} :
                         c \in Match(S, BaseId(S, connectionId))}
    BY DEF Select
  <1> HIDE DEF override, selection
  <1>2. PICK c \in Match(S, BaseId(S, connectionId)) :
           k \in IF selection = {} THEN {c} ELSE UNION {Override(S, c, s[1]) : s \in selection}
    BY <1>1
  <1>3. c \in S
    BY <1>2 DEF Match
  <1>4. CASE selection = {}
    BY <1>2, <1>3, <1>4
  <1>5. CASE selection # {}
    <2>1. PICK s \in selection : k \in Override(S, c, s[1])
      BY <1>2, <1>5
    <2>2. k = WithDatabase(c, s[1]) /\ \A saved \in S : saved.id # Append(c.id, s[1])
      BY <2>1 DEF Override
    <2> QED
      BY <1>3, <2>2
  <1> QED
    BY <1>4, <1>5

LEMMA GivenIsTarget ==
  ASSUME WorkspaceTypeOK, IdsUnique, NEW c \in Loader, NEW connectionId, NEW database,
         NEW k \in Select(Connections(c), connectionId, database)
  PROVE  IsTarget(k)
  <1>1. Unique(loaded[c]) /\ loaded[c] \subseteq Connection
    BY DEF WorkspaceTypeOK, IdsUnique
  <1>2. PICK saved \in Connections(c) :
           \/ k = saved
           \/ \E d : k = WithDatabase(saved, d) /\ \A s \in Connections(c) : s.id # Append(saved.id, d)
    BY SelectGives
  <1>3. PICK e \in loaded[c] : saved = Saved(e, loaded[c])
    BY DEF Connections
  <1>4. CASE k = saved
    <2>1. k.among = loaded[c]
      BY <1>3, <1>4, SavedIs
    <2> QED
      BY <1>1, <1>3, <1>4, <2>1 DEF IsTarget
  <1>5. ASSUME NEW d, k = WithDatabase(saved, d), \A s \in Connections(c) : s.id # Append(saved.id, d)
        PROVE  IsTarget(k)
    <2>1. k.among = loaded[c] /\ k.database = d /\ saved.id = e.id
      BY <1>3, <1>5, SavedIs, WithDatabaseIs
    <2>2. \A f \in loaded[c] : f.id # Append(e.id, d)
      <3>1. \A f \in loaded[c] : Saved(f, loaded[c]) \in Connections(c)
        BY DEF Connections
      <3> QED
        BY <1>5, <2>1, <3>1, SavedIs
    <2> QED
      BY <1>1, <1>3, <1>5, <2>1, <2>2 DEF IsTarget
  <1> QED
    BY <1>2, <1>4, <1>5

LEMMA HoldingIs ==
  ASSUME NEW given, NEW i, NEW value
  PROVE  /\ \A j \in DOMAIN Holding(given, i, value) :
               Holding(given, i, value)[j] = IF j \in DOMAIN given THEN given[j] ELSE value
         /\ DOMAIN Holding(given, i, value) = DOMAIN given \cup {i}
         /\ \A j \in DOMAIN given : Holding(given, i, value)[j] = given[j]
         /\ i \notin DOMAIN given => Holding(given, i, value)[i] = value
  BY DEF Holding

\* Only the selection gives a call a connection.
LEMMA ConnsStep ==
  ASSUME [ToolNext]_toolVars
  PROVE  \/ UNCHANGED conns
         \/ \E c \in Loader : Connected(c)
  <1>1. CASE UNCHANGED toolVars
    BY <1>1 DEF toolVars, callVars
  <1>2. ASSUME NEW c \in Loader, \/ Ask(c) \/ Loads(c) \/ Filtered(c) \/ Writable(c) \/ Offered(c)
                                 \/ Revision(c) \/ Permit(c) \/ Narrowed(c) \/ LookedUp(c) \/ Trust(c)
                                 \/ Execute(c) \/ Explain(c) \/ List(c) \/ Listed(c) \/ LoadSchemas(c)
                                 \/ Compare(c) \/ Noted(c) \/ Kept(c) \/ OpensSession(c) \/ CallFails(c)
        PROVE  UNCHANGED conns
    BY <1>2 DEF Ask, Loads, Filtered, Writable, Offered, Revision, Permit, Narrowed, LookedUp, Trust,
                Execute, Explain, List, Listed, LoadSchemas, Compare, Noted, Kept, OpensSession,
                CallFails, Same
  <1>3. CASE \/ Parses \/ FilesChange \/ IdentityChanges \/ TimePasses \/ Restart
             \/ \E p \in Policies : PolicyChanges(p)
    BY <1>3 DEF Parses, FilesChange, IdentityChanges, TimePasses, Restart, PolicyChanges, callVars
  <1> QED
    BY <1>1, <1>2, <1>3 DEF ToolNext, CallStep

TargetInv == ToolInv /\ IdsUnique /\ ConnsTyped /\ Targets1

LEMMA TargetInvInit == ToolInit => TargetInv
  <1>1. ToolInit => IdsUnique /\ ToolInv
    BY IdsUniqueInit, ToolInvInit DEF ToolInit
  <1>2. ToolInit => ConnsTyped /\ Targets1
    BY DEF ToolInit, ConnsTyped, Targets1
  <1> QED
    BY <1>1, <1>2 DEF TargetInv

LEMMA TargetInvNext == TargetInv /\ [ToolNext]_toolVars => TargetInv'
  <1> SUFFICES ASSUME TargetInv, [ToolNext]_toolVars
               PROVE  TargetInv'
    OBVIOUS
  <1>1. ToolInv' /\ IdsUnique'
    BY ToolInvNext, WorkspaceStep, IdsUniqueNext DEF TargetInv, ToolInv
  <1>2. CASE UNCHANGED conns
    BY <1>1, <1>2 DEF TargetInv, ConnsTyped, Targets1
  <1>3. ASSUME NEW c \in Loader, Connected(c)
        PROVE  ConnsTyped' /\ Targets1'
    <2>1. WorkspaceTypeOK /\ IdsUnique /\ DOMAIN conns = Loader
      BY DEF TargetInv, ToolInv, WorkspaceInv, ConnsTyped
    <2>0. PICK step : step = Head(todo[c])
      OBVIOUS
    <2>9. PICK k \in {l \in Select(Connections(c), step.connectionId, step.database) :
                      IsConnectionAllowed(settings.allowed, l)} :
             conns' = [conns EXCEPT ![c] = Holding(conns[c], step.on, k)]
      BY <1>3, <2>0 DEF Connected
    <2>10. PICK connectionId, database, i :
             connectionId = step.connectionId /\ database = step.database /\ i = step.on
      OBVIOUS
    <2>2. /\ k \in Select(Connections(c), connectionId, database)
          /\ conns' = [conns EXCEPT ![c] = Holding(conns[c], i, k)]
      BY <2>9, <2>10
    <2>3. IsTarget(k)
      BY <2>1, <2>2, GivenIsTarget
    <2>4. DOMAIN conns' = Loader /\ conns'[c] = Holding(conns[c], i, k)
          /\ \A d \in Loader \ {c} : conns'[d] = conns[d]
      BY <2>1, <2>2
    <2>5. \A j \in DOMAIN conns'[c] : IsTarget(conns'[c][j])
      <3> SUFFICES ASSUME NEW j \in DOMAIN conns'[c]
                   PROVE  IsTarget(conns'[c][j])
        OBVIOUS
      <3>1. PICK before, after : before = conns[c] /\ after = Holding(before, i, k)
        OBVIOUS
      <3>2. conns'[c] = after /\ j \in DOMAIN after
        BY <2>4, <3>1
      <3>3. after[j] = IF j \in DOMAIN before THEN before[j] ELSE k
        BY <3>1, <3>2 DEF Holding
      <3>4. \A n \in DOMAIN before : IsTarget(before[n])
        BY <3>1 DEF TargetInv, Targets1
      <3> QED
        BY <2>3, <3>2, <3>3, <3>4
    <2> QED
      BY <2>4, <2>5 DEF TargetInv, Targets1, ConnsTyped
  <1> QED
    BY <1>1, <1>2, <1>3, ConnsStep DEF TargetInv

\* An id is that of one target, for every workspace and every selection.
THEOREM IdsNameOneTargetAlways == ToolSpec => []IdsNameOneTarget
  <1>1. TargetInv => IdsNameOneTarget
    BY SameTarget DEF TargetInv, Targets1, IdsNameOneTarget
  <1> QED
    BY TargetInvInit, TargetInvNext, <1>1, PTL DEF ToolSpec

-----------------------------------------------------------------------------
\* What the steps of a handler rely on, and which earlier step sees to it: a
\* connection, the tables listed of it, a policy there was, that a statement
\* stays in reach, and that each name in it is permitted.
Conn(i) == [kind |-> "conn", on |-> i]
Tables(i) == [kind |-> "tables", on |-> i]
Under(p) == [kind |-> "under", policy |-> p]
Reach(i, q) == [kind |-> "reach", on |-> i, query |-> q]
Names(i, q) == [kind |-> "names", on |-> i, query |-> q]

OnConnection == {"writable", "permit", "narrow", "look_up", "trust", "execute", "explain",
                 "list", "listed", "load", "load_rest"}
Harmless(q) == ~q.writes /\ References(q) = {}

Needs(step) ==
    (IF step.op \in OnConnection THEN {Conn(step.on)} ELSE {})
    \cup (IF step.op \in {"look_up", "listed"} THEN {Under(step.under)} ELSE {})
    \cup (IF step.op \in {"execute", "explain"} /\ ~Harmless(step.query)
          THEN {Reach(step.on, step.query), Names(step.on, step.query)} ELSE {})
    \cup (IF step.op = "compare" THEN {Conn(1), Conn(2), Tables(1), Tables(2)} ELSE {})

Provides(step, need) ==
    \/ step.op = "connect" /\ need = Conn(step.on)
    \/ step.op \in {"list", "listed"} /\ need = Tables(step.on)
    \/ step.op = "permit" /\ need \in {Reach(step.on, step.query), Names(step.on, step.query)}
    \/ /\ step.op = "narrow" /\ need.kind \in {"reach", "names"} /\ need.on = step.on
       /\ ~need.query.writes
       /\ References(need.query) \subseteq {[kind |-> "table", parts |-> step.table]}
    \/ /\ step.op = "look_up" /\ need.kind = "names" /\ need.on = step.on
       /\ References(need.query) \subseteq step.refs

IsSeq(s) == \E S : s \in Seq(S)

\* Every step finds what it relies on: it is among what there is, or a step
\* before provides it.
Ready(there, s) == \A n \in DOMAIN s : \A need \in Needs(s[n]) :
    need \in there \/ \E m \in 1..(n - 1) : Provides(s[m], need)

Gives(s, need) == \E m \in DOMAIN s : Provides(s[m], need)

-----------------------------------------------------------------------------
\* Two lists of steps, one after the other.
LEMMA Joined ==
  ASSUME NEW s, NEW t, IsSeq(s), IsSeq(t)
  PROVE  /\ IsSeq(s \o t) /\ Len(s) \in Nat /\ Len(t) \in Nat
         /\ DOMAIN s = 1..Len(s) /\ DOMAIN t = 1..Len(t)
         /\ DOMAIN (s \o t) = 1..(Len(s) + Len(t))
         /\ \A n \in 1..Len(s) : (s \o t)[n] = s[n]
         /\ \A n \in 1..Len(t) : (s \o t)[Len(s) + n] = t[n]
  <1>1. PICK S, T : s \in Seq(S) /\ t \in Seq(T)
    BY DEF IsSeq
  <1>2. PICK U : U = S \cup T
    OBVIOUS
  <1>3. s \in Seq(U) /\ t \in Seq(U)
    <2>1. Len(s) \in Nat /\ DOMAIN s = 1..Len(s) /\ \A n \in 1..Len(s) : s[n] \in U
      BY <1>1, <1>2
    <2>2. Len(t) \in Nat /\ DOMAIN t = 1..Len(t) /\ \A n \in 1..Len(t) : t[n] \in U
      BY <1>1, <1>2
    <2>3. s = [n \in 1..Len(s) |-> s[n]] /\ t = [n \in 1..Len(t) |-> t[n]]
      BY <1>1
    <2>4. s \in Seq(U)
      BY <2>1, <2>3
    <2> QED
      BY <2>2, <2>3, <2>4
  <1>4. s \o t \in Seq(U)
    BY <1>3
  <1>5. IsSeq(s \o t)
    BY <1>4 DEF IsSeq
  <1> QED
    BY <1>3, <1>5

LEMMA Rest ==
  ASSUME NEW s, IsSeq(s), s # <<>>
  PROVE  /\ IsSeq(Tail(s)) /\ Len(s) \in Nat /\ Len(s) >= 1 /\ Len(Tail(s)) = Len(s) - 1
         /\ DOMAIN s = 1..Len(s) /\ Head(s) = s[1]
         /\ \A n \in 1..(Len(s) - 1) : Tail(s)[n] = s[n + 1]
  <1>1. PICK S : s \in Seq(S)
    BY DEF IsSeq
  <1>2. Tail(s) \in Seq(S)
    BY <1>1
  <1>3. IsSeq(Tail(s))
    BY <1>2 DEF IsSeq
  <1> QED
    BY <1>1, <1>3

LEMMA OneStep ==
  ASSUME NEW step
  PROVE  IsSeq(<<step>>) /\ DOMAIN <<step>> = {1} /\ <<step>>[1] = step
  <1>1. <<step>> \in Seq({step}) /\ Len(<<step>>) = 1
    OBVIOUS
  <1>2. DOMAIN <<step>> = 1..1 /\ 1..1 = {1}
    BY <1>1
  <1>3. IsSeq(<<step>>)
    BY <1>1 DEF IsSeq
  <1>4. <<step>>[1] = step
    OBVIOUS
  <1> QED
    BY <1>2, <1>3, <1>4

LEMMA NoStep == IsSeq(<<>>) /\ \A there : Ready(there, <<>>)
  <1>1. <<>> \in Seq({}) /\ DOMAIN <<>> = {}
    OBVIOUS
  <1> QED
    BY <1>1 DEF IsSeq, Ready

\* A list is ready after another one when what the other gives is counted.
LEMMA ReadyJoined ==
  ASSUME NEW s, NEW t, IsSeq(s), IsSeq(t), NEW there, NEW after, Ready(there, s), Ready(after, t),
         \A need \in after : need \in there \/ Gives(s, need)
  PROVE  IsSeq(s \o t) /\ Ready(there, s \o t)
  <1> DEFINE u == s \o t
  <1>1. /\ IsSeq(u) /\ Len(s) \in Nat /\ Len(t) \in Nat
        /\ DOMAIN s = 1..Len(s) /\ DOMAIN t = 1..Len(t) /\ DOMAIN u = 1..(Len(s) + Len(t))
        /\ \A n \in 1..Len(s) : u[n] = s[n]
        /\ \A n \in 1..Len(t) : u[Len(s) + n] = t[n]
    BY Joined
  <1> HIDE DEF u
  <1>2. ASSUME NEW n \in DOMAIN u, NEW need \in Needs(u[n])
        PROVE  need \in there \/ \E m \in 1..(n - 1) : Provides(u[m], need)
    <2>1. CASE n \in 1..Len(s)
      <3>1. need \in there \/ \E m \in 1..(n - 1) : Provides(s[m], need)
        BY <1>1, <2>1 DEF Ready
      <3>2. \A m \in 1..(n - 1) : u[m] = s[m]
        BY <1>1, <2>1
      <3> QED
        BY <3>1, <3>2
    <2>2. CASE n \notin 1..Len(s)
      <3>1. PICK j \in 1..Len(t) : n = Len(s) + j /\ u[n] = t[j]
        <4>1. n - Len(s) \in 1..Len(t) /\ n = Len(s) + (n - Len(s))
          BY <1>1, <2>2
        <4> QED
          BY <1>1, <4>1
      <3>2. need \in after \/ \E m \in 1..(j - 1) : Provides(t[m], need)
        BY <1>1, <3>1 DEF Ready
      <3>3. ASSUME NEW m \in 1..(j - 1), Provides(t[m], need)
            PROVE  \E l \in 1..(n - 1) : Provides(u[l], need)
        <4>1. Len(s) + m \in 1..(n - 1) /\ u[Len(s) + m] = t[m]
          BY <1>1, <3>1
        <4> QED
          BY <3>3, <4>1
      <3>4. ASSUME Gives(s, need)
            PROVE  \E l \in 1..(n - 1) : Provides(u[l], need)
        <4>1. PICK m \in 1..Len(s) : Provides(s[m], need)
          BY <1>1, <3>4 DEF Gives
        <4>2. m \in 1..(n - 1) /\ u[m] = s[m]
          BY <1>1, <3>1
        <4> QED
          BY <4>1, <4>2
      <3> QED
        BY <3>2, <3>3, <3>4
    <2> QED
      BY <2>1, <2>2
  <1>3. Ready(there, u)
    BY <1>2 DEF Ready
  <1> QED
    BY <1>1, <1>3 DEF u

\* The first step gives way to others: what it provides must be there by then,
\* or they provide it.
LEMMA ReadyReplaced ==
  ASSUME NEW s, IsSeq(s), s # <<>>, NEW there, Ready(there, s),
         NEW pre, IsSeq(pre), NEW now2, Ready(now2, pre),
         \A need \in there : need \in now2,
         \A n \in DOMAIN s : \A need \in Needs(s[n]) :
            Provides(Head(s), need) => need \in now2 \/ Gives(pre, need)
  PROVE  IsSeq(pre \o Tail(s)) /\ Ready(now2, pre \o Tail(s))
  <1>1. /\ IsSeq(Tail(s)) /\ Len(s) \in Nat /\ Len(s) >= 1 /\ Len(Tail(s)) = Len(s) - 1
        /\ DOMAIN s = 1..Len(s) /\ Head(s) = s[1]
        /\ \A n \in 1..(Len(s) - 1) : Tail(s)[n] = s[n + 1]
    BY Rest
  <1> DEFINE after == {need \in UNION {Needs(s[n]) : n \in DOMAIN s} : need \in now2 \/ Gives(pre, need)}
  <1>2. Ready(after, Tail(s))
    <2>0. DOMAIN Tail(s) = 1..(Len(s) - 1)
      BY <1>1, Joined
    <2>1. ASSUME NEW n \in DOMAIN Tail(s), NEW need \in Needs(Tail(s)[n])
          PROVE  need \in after \/ \E m \in 1..(n - 1) : Provides(Tail(s)[m], need)
      <3>1. n + 1 \in DOMAIN s /\ n \in 1..(Len(s) - 1) /\ Tail(s)[n] = s[n + 1]
        BY <1>1, <2>0
      <3>2. need \in UNION {Needs(s[j]) : j \in DOMAIN s}
        BY <3>1
      <3>3. need \in there \/ \E m \in 1..n : Provides(s[m], need)
        <4>1. need \in there \/ \E m \in 1..((n + 1) - 1) : Provides(s[m], need)
          BY <3>1 DEF Ready
        <4>2. (n + 1) - 1 = n
          BY <3>1
        <4> QED
          BY <4>1, <4>2
      <3>4. CASE need \in there
        BY <3>2, <3>4
      <3>5. ASSUME NEW m \in 1..n, Provides(s[m], need)
            PROVE  need \in after \/ \E l \in 1..(n - 1) : Provides(Tail(s)[l], need)
        <4>1. CASE m = 1
          <5>1. Provides(Head(s), need)
            BY <1>1, <3>5, <4>1
          <5>2. need \in now2 \/ Gives(pre, need)
            BY <3>1, <5>1
          <5> QED
            BY <3>2, <5>2
        <4>2. CASE m # 1
          <5>1. m - 1 \in 1..(n - 1) /\ m - 1 \in 1..(Len(s) - 1) /\ (m - 1) + 1 = m
            BY <1>1, <3>1, <4>2
          <5>2. Tail(s)[m - 1] = s[m]
            BY <1>1, <5>1
          <5> QED
            BY <3>5, <5>1, <5>2
        <4> QED
          BY <4>1, <4>2
      <3> QED
        BY <3>3, <3>4, <3>5
    <2> HIDE DEF after
    <2> QED
      BY <2>1 DEF Ready
  <1>3. \A need \in after : need \in now2 \/ Gives(pre, need)
    OBVIOUS
  <1> HIDE DEF after
  <1> QED
    BY <1>1, <1>2, <1>3, ReadyJoined

-----------------------------------------------------------------------------
\* The parts that handlers are made of.
LEMMA OneReady ==
  ASSUME NEW step, NEW there, \A need \in Needs(step) : need \in there
  PROVE  IsSeq(<<step>>) /\ Ready(there, <<step>>)
  BY OneStep DEF Ready

LEMMA TwoSteps ==
  ASSUME NEW s, NEW t
  PROVE  IsSeq(<<s, t>>) /\ DOMAIN <<s, t>> = {1, 2} /\ <<s, t>>[1] = s /\ <<s, t>>[2] = t
  <1>1. <<s, t>> \in Seq({s, t}) /\ Len(<<s, t>>) = 2
    OBVIOUS
  <1>2. DOMAIN <<s, t>> = 1..2 /\ 1..2 = {1, 2}
    BY <1>1
  <1>3. IsSeq(<<s, t>>)
    BY <1>1 DEF IsSeq
  <1> QED
    BY <1>2, <1>3

LEMMA TrustedReady ==
  ASSUME NEW i, NEW q, NEW there, Conn(i) \in there,
         Harmless(q) \/ (Reach(i, q) \in there /\ Names(i, q) \in there)
  PROVE  IsSeq(Trusted(i, q)) /\ Ready(there, Trusted(i, q))
  <1> DEFINE s == With("trust", i, q)
             t == With("execute", i, q)
  <1>1. Needs(s) = {Conn(i)}
    BY DEF Needs, With, OnConnection
  <1>2. \A need \in Needs(t) : need \in there
    BY DEF Needs, With, OnConnection
  <1>3. Trusted(i, q) = <<s, t>>
    BY DEF Trusted
  <1> HIDE DEF s, t
  <1>4. /\ IsSeq(<<s, t>>) /\ DOMAIN <<s, t>> = {1, 2}
        /\ <<s, t>>[1] = s /\ <<s, t>>[2] = t
    BY TwoSteps
  <1> QED
    BY <1>1, <1>2, <1>3, <1>4 DEF Ready

LEMMA PermittingReady ==
  ASSUME NEW i, NEW q, NEW readOnly, NEW there, Conn(i) \in there
  PROVE  /\ IsSeq(Permitting(i, q, readOnly)) /\ Ready(there, Permitting(i, q, readOnly))
         /\ Gives(Permitting(i, q, readOnly), Reach(i, q))
         /\ Gives(Permitting(i, q, readOnly), Names(i, q))
  <1> DEFINE s == [op |-> "permit", on |-> i, query |-> q, readOnly |-> readOnly]
  <1>1. Needs(s) = {Conn(i)} /\ Provides(s, Reach(i, q)) /\ Provides(s, Names(i, q))
    BY DEF Needs, OnConnection, Provides
  <1>2. Permitting(i, q, readOnly) = <<s>>
    BY DEF Permitting
  <1> HIDE DEF s
  <1>3. IsSeq(<<s>>) /\ Ready(there, <<s>>)
    BY <1>1, OneReady
  <1>4. DOMAIN <<s>> = {1} /\ <<s>>[1] = s
    BY OneStep
  <1> QED
    BY <1>1, <1>2, <1>3, <1>4 DEF Gives

LEMMA StatementReady ==
  ASSUME NEW i, NEW q, NEW op \in {"execute", "explain"}, NEW there, Conn(i) \in there,
         Harmless(q) \/ (Reach(i, q) \in there /\ Names(i, q) \in there)
  PROVE  IsSeq(<<With(op, i, q)>>) /\ Ready(there, <<With(op, i, q)>>)
  <1>1. \A need \in Needs(With(op, i, q)) : need \in there
    BY DEF Needs, With, OnConnection
  <1> QED
    BY <1>1, OneReady

LEMMA CheckedReady ==
  ASSUME NEW i, NEW q, NEW readOnly, NEW op \in {"execute", "explain"}, NEW there, Conn(i) \in there
  PROVE  /\ IsSeq(Permitting(i, q, readOnly) \o <<With(op, i, q)>>)
         /\ Ready(there, Permitting(i, q, readOnly) \o <<With(op, i, q)>>)
  <1> DEFINE after == {Conn(i), Reach(i, q), Names(i, q)}
  <1>1. IsSeq(<<With(op, i, q)>>) /\ Ready(after, <<With(op, i, q)>>)
    <2>1. Conn(i) \in after /\ Reach(i, q) \in after /\ Names(i, q) \in after
      OBVIOUS
    <2> HIDE DEF after
    <2> QED
      BY <2>1, StatementReady
  <1>2. /\ IsSeq(Permitting(i, q, readOnly)) /\ Ready(there, Permitting(i, q, readOnly))
        /\ \A need \in after : need \in there \/ Gives(Permitting(i, q, readOnly), need)
    BY PermittingReady
  <1> HIDE DEF after
  <1> QED
    BY <1>1, <1>2, ReadyJoined

LEMMA QueryReady ==
  ASSUME NEW i, NEW q, NEW readOnly, NEW there, Conn(i) \in there
  PROVE  IsSeq(Query(i, q, readOnly)) /\ Ready(there, Query(i, q, readOnly))
  BY CheckedReady DEF Query

LEMMA CatalogQueryHarmless == Harmless(CatalogQuery)
  BY DEF Harmless, CatalogQuery, Describes, References

LEMMA DescribesReads ==
  ASSUME NEW table
  PROVE  /\ ~Describes(table).writes
         /\ References(Describes(table)) = {[kind |-> "table", parts |-> table]}
  BY DEF Describes, References

LEMMA NarrowReady ==
  ASSUME NEW i, NEW table, NEW there, Conn(i) \in there
  PROVE  /\ IsSeq(Narrow(i, table)) /\ Ready(there, Narrow(i, table))
         /\ Gives(Narrow(i, table), Reach(i, Describes(table)))
         /\ Gives(Narrow(i, table), Names(i, Describes(table)))
  <1> DEFINE s == [op |-> "narrow", on |-> i, table |-> table]
  <1>1. /\ Needs(s) = {Conn(i)} /\ Provides(s, Reach(i, Describes(table)))
        /\ Provides(s, Names(i, Describes(table)))
    BY DescribesReads DEF Needs, OnConnection, Provides, Reach, Names
  <1>2. Narrow(i, table) = <<s>>
    BY DEF Narrow
  <1> HIDE DEF s
  <1>3. IsSeq(<<s>>) /\ Ready(there, <<s>>)
    BY <1>1, OneReady
  <1>4. DOMAIN <<s>> = {1} /\ <<s>>[1] = s
    BY OneStep
  <1> QED
    BY <1>1, <1>2, <1>3, <1>4 DEF Gives

LEMMA GivesJoined ==
  ASSUME NEW s, NEW t, IsSeq(s), IsSeq(t), NEW need, Gives(s, need) \/ Gives(t, need)
  PROVE  Gives(s \o t, need)
  <1>1. /\ Len(s) \in Nat /\ Len(t) \in Nat
        /\ DOMAIN s = 1..Len(s) /\ DOMAIN t = 1..Len(t) /\ DOMAIN (s \o t) = 1..(Len(s) + Len(t))
        /\ \A n \in 1..Len(s) : (s \o t)[n] = s[n]
        /\ \A n \in 1..Len(t) : (s \o t)[Len(s) + n] = t[n]
    BY Joined
  <1>2. ASSUME NEW n \in DOMAIN s, Provides(s[n], need)
        PROVE  Gives(s \o t, need)
    BY <1>1, <1>2 DEF Gives
  <1>3. ASSUME NEW n \in DOMAIN t, Provides(t[n], need)
        PROVE  Gives(s \o t, need)
    <2>1. Len(s) + n \in DOMAIN (s \o t)
      BY <1>1, <1>3
    <2> QED
      BY <1>1, <1>3, <2>1 DEF Gives
  <1> QED
    BY <1>2, <1>3 DEF Gives

LEMMA TableStatsReady ==
  ASSUME NEW i, NEW table, NEW there, Conn(i) \in there
  PROVE  /\ IsSeq(Narrow(i, table) \o Trusted(i, Describes(table)))
         /\ Ready(there, Narrow(i, table) \o Trusted(i, Describes(table)))
         /\ Gives(Narrow(i, table) \o Trusted(i, Describes(table)), Reach(i, Describes(table)))
         /\ Gives(Narrow(i, table) \o Trusted(i, Describes(table)), Names(i, Describes(table)))
  <1> DEFINE after == {Conn(i), Reach(i, Describes(table)), Names(i, Describes(table))}
  <1>1. IsSeq(Trusted(i, Describes(table))) /\ Ready(after, Trusted(i, Describes(table)))
    BY TrustedReady
  <1>2. /\ IsSeq(Narrow(i, table)) /\ Ready(there, Narrow(i, table))
        /\ \A need \in after : need \in there \/ Gives(Narrow(i, table), need)
    BY NarrowReady
  <1>3. \A need \in after \ {Conn(i)} : Gives(Narrow(i, table), need)
    BY NarrowReady
  <1> HIDE DEF after
  <1>4. /\ IsSeq(Narrow(i, table) \o Trusted(i, Describes(table)))
        /\ Ready(there, Narrow(i, table) \o Trusted(i, Describes(table)))
    BY <1>1, <1>2, ReadyJoined
  <1> QED
    BY <1>1, <1>2, <1>4, NarrowReady, GivesJoined

LEMMA TableSchemaReady ==
  ASSUME NEW i, NEW table, NEW there, Conn(i) \in there
  PROVE  IsSeq(GetTableSchema(i, table)) /\ Ready(there, GetTableSchema(i, table))
  <1> DEFINE after == {Conn(i), Reach(i, Describes(table)), Names(i, Describes(table))}
             first == Narrow(i, table) \o Trusted(i, Describes(table))
  <1>1. IsSeq(Trusted(i, Describes(table))) /\ Ready(after, Trusted(i, Describes(table)))
    BY TrustedReady
  <1>2. IsSeq(first) /\ Ready(there, first) /\ \A need \in after : need \in there \/ Gives(first, need)
    BY TableStatsReady
  <1>3. GetTableSchema(i, table) = first \o Trusted(i, Describes(table))
    BY DEF GetTableSchema
  <1> HIDE DEF after, first
  <1> QED
    BY <1>1, <1>2, <1>3, ReadyJoined

-----------------------------------------------------------------------------
\* The handlers: what a list of steps relies on of its own, beginning with the
\* selection of the connection, and what is ready once that is made.
Whole(s) == IsSeq(s) /\ Ready({}, s) /\ Gives(s, Conn(1))
Later(s) == IsSeq(s) /\ Ready({Conn(1)}, s)

LEMMA ReadyMore ==
  ASSUME NEW s, NEW there, NEW more, Ready(there, s), \A need \in there : need \in more
  PROVE  Ready(more, s)
  BY DEF Ready

LEMMA WholeJoined ==
  ASSUME NEW s, NEW t, Whole(s), Later(t)
  PROVE  Whole(s \o t)
  <1>1. /\ IsSeq(s) /\ IsSeq(t) /\ Ready({}, s) /\ Ready({Conn(1)}, t)
        /\ \A need \in {Conn(1)} : need \in {} \/ Gives(s, need)
    BY DEF Whole, Later
  <1>2. IsSeq(s \o t) /\ Ready({}, s \o t)
    BY <1>1, ReadyJoined
  <1>3. Gives(s \o t, Conn(1))
    BY <1>1, GivesJoined
  <1> QED
    BY <1>2, <1>3 DEF Whole

LEMMA ConnectGives ==
  ASSUME NEW i, NEW connectionId, NEW database, NEW there
  PROVE  /\ IsSeq(Connect(i, connectionId, database)) /\ Ready(there, Connect(i, connectionId, database))
         /\ Gives(Connect(i, connectionId, database), Conn(i))
  <1> DEFINE s == [op |-> "connect", on |-> i, connectionId |-> connectionId, database |-> database]
  <1>1. (\A need \in Needs(s) : need \in there) /\ Provides(s, Conn(i))
    BY DEF Needs, OnConnection, Provides
  <1>2. Connect(i, connectionId, database) = <<s>>
    BY DEF Connect
  <1> HIDE DEF s
  <1> QED
    BY <1>1, <1>2, OneReady, OneStep DEF Gives

LEMMA SelectedWhole == \A a : Whole(Selected(a))
  BY ConnectGives DEF Selected, Whole

\* Steps that rely on the first connection at most.
LEMMA StepReady ==
  ASSUME NEW op \in {"writable", "offered", "revision", "databases", "filter", "note", "append",
                     "show", "list"},
         NEW i, NEW there, op \in {"writable", "list"} => Conn(i) \in there
  PROVE  IsSeq(<<Step(op, i)>>) /\ Ready(there, <<Step(op, i)>>)
  <1>1. \A need \in Needs(Step(op, i)) : need \in there
    BY DEF Needs, Step, OnConnection
  <1> QED
    BY <1>1, OneReady

LEMMA SourceLater == \A n : Later(Source(n))
  <1> SUFFICES ASSUME NEW n
               PROVE  IsSeq(<<Step("revision", n)>>) /\ Ready({Conn(1)}, <<Step("revision", n)>>)
    BY DEF Later, Source
  <1> QED
    BY StepReady

LEMMA StepLater ==
  ASSUME NEW op \in {"writable", "offered", "revision", "databases", "append", "list"}
  PROVE  Later(<<Step(op, 1)>>)
  <1>1. Conn(1) \in {Conn(1)}
    OBVIOUS
  <1>2. IsSeq(<<Step(op, 1)>>) /\ Ready({Conn(1)}, <<Step(op, 1)>>)
    BY <1>1, StepReady
  <1> QED
    BY <1>2 DEF Later

LEMMA PartsLater ==
  ASSUME NEW q, NEW readOnly, NEW table
  PROVE  /\ Later(Trusted(1, CatalogQuery)) /\ Later(Query(1, q, readOnly))
         /\ Later(Narrow(1, table) \o Trusted(1, Describes(table)))
         /\ Later(GetTableSchema(1, table)) /\ Later(ListTables(1))
         /\ Later(Permitting(1, q, readOnly) \o <<With("explain", 1, q)>>)
  <1>1. PICK there : there = {Conn(1)}
    OBVIOUS
  <1>2. Conn(1) \in there
    BY <1>1
  <1>3. IsSeq(Trusted(1, CatalogQuery)) /\ Ready(there, Trusted(1, CatalogQuery))
    BY <1>2, TrustedReady, CatalogQueryHarmless
  <1>4. IsSeq(Query(1, q, readOnly)) /\ Ready(there, Query(1, q, readOnly))
    BY <1>2, QueryReady
  <1>5. /\ IsSeq(Narrow(1, table) \o Trusted(1, Describes(table)))
        /\ Ready(there, Narrow(1, table) \o Trusted(1, Describes(table)))
    BY <1>2, TableStatsReady
  <1>6. IsSeq(GetTableSchema(1, table)) /\ Ready(there, GetTableSchema(1, table))
    BY <1>2, TableSchemaReady
  <1>7. /\ IsSeq(Permitting(1, q, readOnly) \o <<With("explain", 1, q)>>)
        /\ Ready(there, Permitting(1, q, readOnly) \o <<With("explain", 1, q)>>)
    BY <1>2, CheckedReady
  <1>8. Later(ListTables(1))
    BY StepLater DEF ListTables
  <1> QED
    BY <1>1, <1>3, <1>4, <1>5, <1>6, <1>7, <1>8 DEF Later

LEMMA WholeReady ==
  ASSUME NEW s, Whole(s)
  PROVE  IsSeq(s) /\ Ready({}, s)
  BY DEF Whole

LEMMA Associates ==
  ASSUME NEW s, NEW t, NEW u, IsSeq(s), IsSeq(t), IsSeq(u)
  PROVE  (s \o t) \o u = s \o (t \o u)
  <1>1. PICK S, T, U : s \in Seq(S) /\ t \in Seq(T) /\ u \in Seq(U)
    BY DEF IsSeq
  <1>2. PICK V : V = S \cup T \cup U
    OBVIOUS
  <1>3. ASSUME NEW X \in {S, T, U}, NEW x \in Seq(X)
        PROVE  x \in Seq(V)
    <2>1. Len(x) \in Nat /\ x = [n \in 1..Len(x) |-> x[n]] /\ \A n \in 1..Len(x) : x[n] \in V
      BY <1>2, <1>3
    <2> QED
      BY <2>1
  <1>4. s \in Seq(V) /\ t \in Seq(V) /\ u \in Seq(V)
    BY <1>1, <1>3
  <1> QED
    BY <1>4, ConcatAssociative

\* Three steps in a row after the first ones.
LEMMA WholeTwice ==
  ASSUME NEW s, NEW t, NEW u, Whole(s), IsSeq(t), IsSeq(u), Later(t \o u)
  PROVE  Whole((s \o t) \o u)
  <1>1. IsSeq(s)
    BY DEF Whole
  <1>2. (s \o t) \o u = s \o (t \o u)
    BY <1>1, Associates
  <1> QED
    BY <1>2, WholeJoined

LEMMA ThreeSteps ==
  ASSUME NEW s, NEW t, NEW u
  PROVE  /\ IsSeq(<<s, t, u>>) /\ DOMAIN <<s, t, u>> = {1, 2, 3}
         /\ <<s, t, u>>[1] = s /\ <<s, t, u>>[2] = t /\ <<s, t, u>>[3] = u
  <1>1. <<s, t, u>> \in Seq({s, t, u}) /\ Len(<<s, t, u>>) = 3
    OBVIOUS
  <1>2. DOMAIN <<s, t, u>> = 1..3 /\ 1..3 = {1, 2, 3}
    BY <1>1
  <1>3. IsSeq(<<s, t, u>>)
    BY <1>1 DEF IsSeq
  <1> QED
    BY <1>2, <1>3

LEMMA SelectedHandlers ==
  ASSUME NEW a
  PROVE  /\ Whole(handleGetConnectionInfo(a)) /\ Whole(handleListDatabases(a))
         /\ Whole(handleListTables(a)) /\ Whole(getTableStats(a))
         /\ Whole(handleGetTableSchema(a)) /\ Whole(handleGetDatabaseStats(a))
         /\ Whole(handleTestConnection(a)) /\ Whole(handleGetPoolStats(a))
         /\ Whole(handleExecuteQuery(a)) /\ Whole(handleExportData(a))
         /\ Whole(handleExplainQuery(a))
  <1>1. Whole(Selected(a)) /\ Whole(Selected(a) \o Source(1))
    BY SelectedWhole, SourceLater, WholeJoined
  <1>2. Whole(handleGetConnectionInfo(a)) /\ Whole(handleGetPoolStats(a))
    BY <1>1 DEF handleGetConnectionInfo, handleGetPoolStats
  <1>3. Whole(handleListDatabases(a))
    <2>1. Whole((Selected(a) \o Source(1)) \o Trusted(1, CatalogQuery))
      BY <1>1, PartsLater, WholeJoined
    <2>2. Later(<<Step("databases", 1)>>)
      BY StepLater
    <2> QED
      BY <2>1, <2>2, WholeJoined DEF handleListDatabases
  <1>4. Whole(handleListTables(a)) /\ Whole((Selected(a) \o Source(1)) \o ListTables(1))
    BY <1>1, PartsLater, WholeJoined DEF handleListTables
  <1>5. Whole(getTableStats(a))
    <2>1. Later(Narrow(1, a.table) \o Trusted(1, Describes(a.table)))
      BY PartsLater
    <2>2. IsSeq(Narrow(1, a.table)) /\ IsSeq(Trusted(1, Describes(a.table)))
      <3>1. PICK there : there = {Conn(1), Reach(1, Describes(a.table)), Names(1, Describes(a.table))}
        OBVIOUS
      <3>2. /\ Conn(1) \in there /\ Reach(1, Describes(a.table)) \in there
            /\ Names(1, Describes(a.table)) \in there
        BY <3>1
      <3> QED
        BY <3>2, NarrowReady, TrustedReady
    <2> QED
      BY <1>1, <2>1, <2>2, WholeTwice DEF getTableStats
  <1>6. Whole(handleGetTableSchema(a))
    BY <1>1, PartsLater, WholeJoined DEF handleGetTableSchema
  <1>7. Whole(handleGetDatabaseStats(a))
    BY <1>4, PartsLater, WholeJoined DEF handleGetDatabaseStats
  <1>8. Whole(handleTestConnection(a))
    BY <1>1, PartsLater, WholeJoined DEF handleTestConnection
  <1>9. Whole(handleExecuteQuery(a)) /\ Whole(handleExportData(a))
    BY <1>1, PartsLater, WholeJoined DEF handleExecuteQuery, handleExportData
  <1>10. Whole(handleExplainQuery(a))
    <2>1. Later(Permitting(1, a.query, TRUE) \o <<With("explain", 1, a.query)>>)
      BY PartsLater
    <2>2. IsSeq(Permitting(1, a.query, TRUE)) /\ IsSeq(<<With("explain", 1, a.query)>>)
      <3>1. Conn(1) \in {Conn(1)}
        OBVIOUS
      <3> QED
        BY <3>1, PermittingReady, OneStep
    <2> QED
      BY <1>1, <2>1, <2>2, WholeTwice DEF handleExplainQuery
  <1> QED
    BY <1>2, <1>3, <1>4, <1>5, <1>6, <1>7, <1>8, <1>9, <1>10

LEMMA WriteHandlers ==
  ASSUME NEW a
  PROVE  /\ Whole(handleWriteQuery(a)) /\ Whole(handleCreateTable(a)) /\ Whole(handleAlterTable(a))
         /\ Whole(handleDropTable(a)) /\ Whole(handleBeginTransaction(a))
  <1>1. Whole(Write(a))
    <2>1. Later(<<Step("writable", 1)>>)
      BY StepLater
    <2> QED
      BY <2>1, SelectedWhole, WholeJoined DEF Write
  <1>2. Whole(handleWriteQuery(a)) /\ Whole(handleCreateTable(a)) /\ Whole(handleAlterTable(a))
    BY <1>1, PartsLater, WholeJoined DEF handleWriteQuery, handleCreateTable, handleAlterTable
  <1>3. Whole(handleDropTable(a))
    <2>1. Whole(Write(a) \o GetTableSchema(1, a.table))
      BY <1>1, PartsLater, WholeJoined
    <2> QED
      BY <2>1, PartsLater, WholeJoined DEF handleDropTable
  <1> QED
    BY <1>1, <1>2, <1>3 DEF handleBeginTransaction

LEMMA ResourceHandlers ==
  ASSUME NEW a, a.tool \in {"connection", "tables", "schema"}
  PROVE  Whole(ReadResource(a))
  <1>1. Whole(Selected(a)) /\ Later(<<Step("offered", 1)>>)
    BY SelectedWhole, StepLater
  <1>2. CASE a.tool = "connection"
    BY <1>1, <1>2, WholeJoined DEF ReadResource
  <1>3. CASE a.tool = "tables"
    <2>1. /\ IsSeq(<<Step("offered", 1)>>) /\ IsSeq(Source(1)) /\ IsSeq(ListTables(1))
          /\ IsSeq(Selected(a))
      BY <1>1, SourceLater, PartsLater DEF Later, Whole
    <2>2. Whole(((Selected(a) \o <<Step("offered", 1)>>) \o Source(1)) \o ListTables(1))
      BY <1>1, SourceLater, PartsLater, WholeJoined
    <2>3. ((Selected(a) \o <<Step("offered", 1)>>) \o Source(1)) \o ListTables(1)
            = Selected(a) \o ((<<Step("offered", 1)>> \o Source(1)) \o ListTables(1))
      <3>1. IsSeq(<<Step("offered", 1)>> \o Source(1))
        BY <2>1, Joined
      <3>2. (Selected(a) \o <<Step("offered", 1)>>) \o Source(1)
               = Selected(a) \o (<<Step("offered", 1)>> \o Source(1))
        BY <2>1, Associates
      <3>3. (Selected(a) \o (<<Step("offered", 1)>> \o Source(1))) \o ListTables(1)
               = Selected(a) \o ((<<Step("offered", 1)>> \o Source(1)) \o ListTables(1))
        BY <2>1, <3>1, Associates
      <3> QED
        BY <3>2, <3>3
    <2> QED
      BY <1>3, <2>2, <2>3 DEF ReadResource
  <1>4. CASE a.tool = "schema"
    <2>1. /\ IsSeq(Source(1)) /\ IsSeq(GetTableSchema(1, a.table)) /\ IsSeq(Selected(a))
      BY <1>1, SourceLater, PartsLater DEF Later, Whole
    <2>2. Whole((Selected(a) \o Source(1)) \o GetTableSchema(1, a.table))
      BY <1>1, SourceLater, PartsLater, WholeJoined
    <2>3. ReadResource(a) = Selected(a) \o (Source(1) \o GetTableSchema(1, a.table))
      BY <1>4 DEF ReadResource
    <2>4. ReadResource(a) = (Selected(a) \o Source(1)) \o GetTableSchema(1, a.table)
      BY <2>1, <2>3, Associates
    <2> QED
      BY <2>2, <2>4
  <1> QED
    BY <1>2, <1>3, <1>4

LEMMA CompareReady == \A a : IsSeq(handleCompareSchemas(a)) /\ Ready({}, handleCompareSchemas(a))
  <1> SUFFICES ASSUME NEW a
               PROVE  IsSeq(handleCompareSchemas(a)) /\ Ready({}, handleCompareSchemas(a))
    OBVIOUS
  <1> DEFINE first == (Selected(a) \o Connect(2, a.targetId, {})) \o Source(2)
             lists == (first \o ListTables(1)) \o ListTables(2)
             last == <<Step("load", 1), Step("load", 2), Step("compare", 2)>>
             after == {Conn(1), Conn(2), Tables(1), Tables(2)}
  <1>1. Whole(first) /\ Gives(first, Conn(2))
    <2>1. Whole(Selected(a)) /\ Later(Connect(2, a.targetId, {}))
      BY SelectedWhole, ConnectGives DEF Later
    <2>2. Gives(Selected(a) \o Connect(2, a.targetId, {}), Conn(2))
      BY <2>1, ConnectGives, GivesJoined DEF Later, Whole
    <2>3. Whole(Selected(a) \o Connect(2, a.targetId, {}))
      BY <2>1, WholeJoined
    <2>4. Later(Source(2))
      BY SourceLater
    <2> QED
      BY <2>2, <2>3, <2>4, WholeJoined, GivesJoined DEF Whole, Later
  <1>2. \A i : Gives(ListTables(i), Tables(i))
    <2>1. \A i : Provides(Step("list", i), Tables(i))
      BY DEF Provides, Step
    <2> QED
      BY <2>1, OneStep DEF ListTables, Gives
  <1> HIDE DEF first
  <1>3. /\ Whole(first \o ListTables(1))
        /\ \A need \in {Conn(2), Tables(1)} : Gives(first \o ListTables(1), need)
    <2>1. Later(ListTables(1))
      BY PartsLater
    <2> QED
      BY <1>1, <1>2, <2>1, WholeJoined, GivesJoined DEF Whole, Later
  <1>4. IsSeq(lists) /\ Ready({}, lists) /\ \A need \in after : Gives(lists, need)
    <2>1. PICK two : two = {Conn(2)}
      OBVIOUS
    <2>2. IsSeq(ListTables(2)) /\ Ready(two, ListTables(2))
      BY <2>1, StepReady DEF ListTables
    <2>3. IsSeq(first \o ListTables(1)) /\ Ready({}, first \o ListTables(1))
      BY <1>3 DEF Whole
    <2>4. \A need \in two : need \in {} \/ Gives(first \o ListTables(1), need)
      BY <1>3, <2>1
    <2>5. IsSeq(lists) /\ Ready({}, lists)
      BY <2>2, <2>3, <2>4, ReadyJoined
    <2>6. Gives(first \o ListTables(1), Conn(1))
      BY <1>3 DEF Whole
    <2> QED
      BY <1>2, <1>3, <2>2, <2>3, <2>5, <2>6, GivesJoined
  <1>5. IsSeq(last) /\ Ready(after, last)
    <2>1. \A i : Needs(Step("load", i)) = {Conn(i)}
      BY DEF Needs, Step, OnConnection
    <2>2. Needs(Step("compare", 2)) = after
      BY DEF Needs, Step, OnConnection
    <2>3. Conn(1) \in after /\ Conn(2) \in after
      OBVIOUS
    <2> HIDE DEF after
    <2> QED
      BY <2>1, <2>2, <2>3, ThreeSteps DEF Ready
  <1> HIDE DEF after, lists, last
  <1>6. IsSeq(lists \o last) /\ Ready({}, lists \o last)
    BY <1>4, <1>5, ReadyJoined
  <1> QED
    BY <1>6 DEF handleCompareSchemas, first, lists, last

LEMMA OtherHandlers ==
  ASSUME NEW a
  PROVE  /\ IsSeq(handleListConnections(a)) /\ Ready({}, handleListConnections(a))
         /\ IsSeq(handleListInsights(a)) /\ Ready({}, handleListInsights(a))
         /\ IsSeq(handleAppendInsight(a)) /\ Ready({}, handleAppendInsight(a))
  <1>1. IsSeq(handleListConnections(a)) /\ Ready({}, handleListConnections(a))
    BY StepReady DEF handleListConnections
  <1>2. IsSeq(handleListInsights(a)) /\ Ready({}, handleListInsights(a))
    <2>1. \A op \in {"note", "filter", "show"} : Needs(Step(op, 0)) = {}
      BY DEF Needs, Step, OnConnection
    <2> QED
      BY <2>1, ThreeSteps DEF handleListInsights, Ready
  <1>3. IsSeq(handleAppendInsight(a)) /\ Ready({}, handleAppendInsight(a))
    <2>1. \A op \in {"note", "append"} : IsSeq(<<Step(op, 0)>>) /\ Ready({}, <<Step(op, 0)>>)
      BY StepReady
    <2>2. IsSeq(Selected(a)) /\ Ready({}, Selected(a))
      BY SelectedWhole DEF Whole
    <2>3. IsSeq(<<Step("note", 0)>> \o Selected(a)) /\ Ready({}, <<Step("note", 0)>> \o Selected(a))
      BY <2>1, <2>2, ReadyJoined
    <2>4. /\ IsSeq((<<Step("note", 0)>> \o Selected(a)) \o <<Step("append", 0)>>)
          /\ Ready({}, (<<Step("note", 0)>> \o Selected(a)) \o <<Step("append", 0)>>)
      BY <2>1, <2>3, ReadyJoined
    <2> QED
      BY <2>4 DEF handleAppendInsight
  <1> QED
    BY <1>1, <1>2, <1>3

\* Every handler begins with what the rest of it relies on.
LEMMA HandlerReady ==
  ASSUME NEW a, a.tool \in Tool
  PROVE  IsSeq(Handler(a)) /\ Ready({}, Handler(a))
  <1>1. CASE a.tool \in {"list_connections", "connections", "list_insights", "append_insight"}
    BY <1>1, OtherHandlers DEF Handler, Resource
  <1>2. CASE a.tool = "compare_schemas"
    BY <1>2, CompareReady DEF Handler, Resource
  <1>3. CASE a.tool \in {"connection", "tables", "schema"}
    <2>1. Whole(ReadResource(a))
      BY <1>3, ResourceHandlers
    <2> QED
      BY <1>3, <2>1, WholeReady DEF Handler, Resource
  <1>4. CASE a.tool \in {"write_query", "create_table", "alter_table", "drop_table", "begin_transaction"}
    <2>1. Whole(Handler(a))
      BY <1>4, WriteHandlers DEF Handler, Resource
    <2> QED
      BY <2>1, WholeReady
  <1>5. CASE a.tool \in {"get_connection_info", "list_databases", "list_tables", "get_table_stats",
                         "get_table_schema", "get_database_stats", "test_connection", "get_pool_stats",
                         "execute_query", "export_data", "explain_query"}
    <2>1. Whole(Handler(a))
      BY <1>5, SelectedHandlers DEF Handler, Resource
    <2> QED
      BY <2>1, WholeReady
  <1>6. DOMAIN WriteOperation = {"write_query", "create_table", "alter_table"}
    BY DEF WriteOperation
  <1> QED
    BY <1>1, <1>2, <1>3, <1>4, <1>5, <1>6 DEF Tool, DATABASE_TOOLS, Reading, Resource

-----------------------------------------------------------------------------
\* What a call has seen to, by its connections and the policies there were.
MayReach(c, k, q) ==
    /\ q.writes => ~settings.readOnly /\ \E p \in seen[c] : ~IsReadOnly(p, k)
    /\ (\E ref \in References(q) : Foreign(k, ref.parts, ref.kind))
          => \E p \in seen[c] : ~IsDatabaseScoped(p, k)
MayName(c, k, q) == \A ref \in References(q) : \A row \in Rows(k, ref) :
    \E p \in seen[c] : IsDatabaseScoped(p, k) => Permits(p, k, row, ref.kind, Len(ref.parts) = 1)

Holds(c, need) ==
    /\ need.kind \in {"conn", "reach", "names"} => need.on \in DOMAIN conns[c]
    /\ need.kind = "reach" => MayReach(c, conns[c][need.on], need.query)
    /\ need.kind = "names" => MayName(c, conns[c][need.on], need.query)
    /\ need.kind = "tables" => need.on \in DOMAIN listed[c]
    /\ need.kind = "under" => need.policy \in seen[c]

Prepared(c) == \E there : Ready(there, todo[c]) /\ \A need \in there : Holds(c, need)

ConnOK(c, k) == k.dialect # "sqlite" /\ \E p \in seen[c] : AllowsDatabase(p, k, k.database)

RunAllowed(c, r) ==
    /\ \E p \in seen[c] : AllowsDatabase(p, r.conn, r.conn.database)
    /\ r.writes => /\ ~settings.readOnly
                   /\ \E p \in seen[c] : ~IsReadOnly(p, r.conn)
    /\ r.foreign => \E p \in seen[c] : ~IsDatabaseScoped(p, r.conn)
    /\ \A o \in r.rows : \E p \in seen[c] :
          IsDatabaseScoped(p, r.conn) => Permits(p, r.conn, o.row, o.kind, o.bare)

CallInv(c) ==
    /\ IsSeq(todo[c])
    /\ outcome[c] = "new" => conns[c] = <<>> /\ listed[c] = <<>> /\ ran[c] = {}
    /\ outcome[c] = "running" => policy \in seen[c] /\ todo[c] # <<>>
    /\ Prepared(c)
    /\ \A i \in DOMAIN conns[c] : ConnOK(c, conns[c][i])
    /\ \A r \in ran[c] : RunAllowed(c, r)

Lists == /\ DOMAIN outcome = Loader /\ DOMAIN todo = Loader /\ DOMAIN conns = Loader
         /\ DOMAIN listed = Loader /\ DOMAIN diff = Loader /\ DOMAIN seen = Loader
         /\ DOMAIN ran = Loader

-----------------------------------------------------------------------------
\* What holds goes on to hold.
LEMMA HoldsGrows ==
  ASSUME NEW c, NEW need, Holds(c, need), \A p \in seen[c] : p \in seen'[c],
         \A i \in DOMAIN conns[c] : i \in DOMAIN conns'[c] /\ conns'[c][i] = conns[c][i],
         \A i \in DOMAIN listed[c] : i \in DOMAIN listed'[c],
         UNCHANGED <<settings, catalog>>
  PROVE  Holds(c, need)'
  <1>1. ASSUME NEW k, NEW q, MayReach(c, k, q)
        PROVE  MayReach(c, k, q)'
    BY <1>1 DEF MayReach
  <1>2. ASSUME NEW k, NEW q, MayName(c, k, q)
        PROVE  MayName(c, k, q)'
    <2>1. \A ref : Rows(k, ref)' = Rows(k, ref)
      BY DEF Rows, TablesOf
    <2> QED
      BY <1>2, <2>1 DEF MayName
  <1>3. need.kind = "reach" => MayReach(c, conns[c][need.on], need.query)'
    BY <1>1 DEF Holds
  <1>4. need.kind = "names" => MayName(c, conns[c][need.on], need.query)'
    BY <1>2 DEF Holds
  <1>5. need.kind \in {"conn", "reach", "names"} => conns'[c][need.on] = conns[c][need.on]
    BY DEF Holds
  <1>6. need.kind = "reach" => MayReach(c, conns[c][need.on], need.query)'
    BY <1>3
  <1> QED
    BY <1>3, <1>4, <1>5 DEF Holds, MayReach, MayName

LEMMA RunAllowedGrows ==
  ASSUME NEW c, NEW r, RunAllowed(c, r), \A p \in seen[c] : p \in seen'[c], UNCHANGED settings
  PROVE  RunAllowed(c, r)'
  BY DEF RunAllowed

LEMMA ConnGrows ==
  ASSUME NEW c, NEW k, ConnOK(c, k), \A p \in seen[c] : p \in seen'[c]
  PROVE  ConnOK(c, k)'
  BY DEF ConnOK

\* The first step gives way to others.
LEMMA StepPrepared ==
  ASSUME NEW c, IsSeq(todo[c]), todo[c] # <<>>, Prepared(c),
         \A need : Holds(c, need) => Holds(c, need)',
         NEW pre, IsSeq(pre), NEW there, Ready(there, pre), \A need \in there : Holds(c, need)',
         \A need : Provides(Head(todo[c]), need) => Holds(c, need)' \/ Gives(pre, need),
         todo'[c] = pre \o Tail(todo[c])
  PROVE  IsSeq(todo[c])' /\ Prepared(c)'
  <1>1. PICK before : Ready(before, todo[c]) /\ \A need \in before : Holds(c, need)
    BY DEF Prepared
  <1>2. PICK all : all = before \cup there \cup UNION {Needs(todo[c][n]) : n \in DOMAIN todo[c]}
    OBVIOUS
  <1>3. PICK after : after = {need \in all : Holds(c, need)'}
    OBVIOUS
  <1>4. \A need \in before : need \in after
    BY <1>1, <1>2, <1>3
  <1>5. Ready(after, pre)
    BY <1>2, <1>3, ReadyMore
  <1>6. \A n \in DOMAIN todo[c] : \A need \in Needs(todo[c][n]) : Provides(Head(todo[c]), need) =>
           need \in after \/ Gives(pre, need)
    BY <1>2, <1>3
  <1>7. IsSeq(pre \o Tail(todo[c])) /\ Ready(after, pre \o Tail(todo[c]))
    BY <1>1, <1>4, <1>5, <1>6, ReadyReplaced
  <1>8. \A need \in after : Holds(c, need)'
    BY <1>3
  <1> QED
    BY <1>7, <1>8 DEF Prepared

\* Nothing happens to a call.
LEMMA CallSame ==
  ASSUME NEW c \in Loader, CallInv(c), UNCHANGED <<settings, catalog>>,
         outcome[c] = "running" => policy' = policy \/ policy' \in seen'[c],
         \A p \in seen[c] : p \in seen'[c],
         outcome'[c] = outcome[c], todo'[c] = todo[c], conns'[c] = conns[c],
         listed'[c] = listed[c], ran'[c] = ran[c]
  PROVE  CallInv(c)'
  <1>1. \A need : Holds(c, need) => Holds(c, need)'
    BY HoldsGrows
  <1>2. Prepared(c)'
    BY <1>1 DEF CallInv, Prepared
  <1>3. \A r \in ran'[c] : RunAllowed(c, r)'
    BY RunAllowedGrows DEF CallInv
  <1>4. \A i \in DOMAIN conns[c] : ConnOK(c, conns[c][i])'
    BY ConnGrows DEF CallInv
  <1> QED
    BY <1>2, <1>3, <1>4 DEF CallInv, ConnOK

\* A call goes on with other steps.
LEMMA Moved ==
  ASSUME NEW c \in Loader, Lists, CallInv(c), outcome[c] = "running",
         UNCHANGED <<policy, settings, catalog, seen>>,
         \A i \in DOMAIN conns[c] : i \in DOMAIN conns'[c] /\ conns'[c][i] = conns[c][i],
         \A i \in DOMAIN listed[c] : i \in DOMAIN listed'[c],
         \A i \in DOMAIN conns'[c] : ConnOK(c, conns'[c][i]),
         \A r \in ran'[c] : RunAllowed(c, r),
         NEW pre, IsSeq(pre), Goes(c, pre \o Tail(todo[c])),
         NEW there, Ready(there, pre), \A need \in there : Holds(c, need)',
         \A need : Provides(Head(todo[c]), need) => Holds(c, need)' \/ Gives(pre, need)
  PROVE  CallInv(c)'
  <1>1. /\ todo'[c] = pre \o Tail(todo[c])
        /\ outcome'[c] = IF pre \o Tail(todo[c]) = <<>> THEN "answered" ELSE "running"
    BY DEF Lists, Goes
  <1>2. \A need : Holds(c, need) => Holds(c, need)'
    BY HoldsGrows
  <1>3. IsSeq(todo[c])' /\ Prepared(c)'
    BY <1>1, <1>2, StepPrepared DEF CallInv
  <1>4. outcome'[c] # "new" /\ (outcome'[c] = "running" => policy' \in seen'[c] /\ todo'[c] # <<>>)
    BY <1>1 DEF CallInv
  <1>5. \A i \in DOMAIN conns'[c] : ConnOK(c, conns[c][i])'
    BY DEF ConnOK
  <1>6. \A r \in ran'[c] : RunAllowed(c, r)'
    BY RunAllowedGrows
  <1> QED
    BY <1>3, <1>4, <1>5, <1>6 DEF CallInv

LEMMA MovedOn ==
  ASSUME NEW c \in Loader, Lists, CallInv(c), outcome[c] = "running",
         UNCHANGED <<policy, settings, catalog, seen>>,
         \A i \in DOMAIN conns[c] : i \in DOMAIN conns'[c] /\ conns'[c][i] = conns[c][i],
         \A i \in DOMAIN listed[c] : i \in DOMAIN listed'[c],
         \A i \in DOMAIN conns'[c] : ConnOK(c, conns'[c][i]),
         \A r \in ran'[c] : RunAllowed(c, r),
         Advances(c),
         \A need : Provides(Head(todo[c]), need) => Holds(c, need)'
  PROVE  CallInv(c)'
  <1>1. IsSeq(todo[c]) /\ todo[c] # <<>>
    BY DEF CallInv
  <1>2. IsSeq(Tail(todo[c]))
    BY <1>1, Rest
  <1>3. PICK S : Tail(todo[c]) \in Seq(S)
    BY <1>2 DEF IsSeq
  <1>4. <<>> \o Tail(todo[c]) = Tail(todo[c])
    BY <1>3
  <1>5. Goes(c, <<>> \o Tail(todo[c]))
    BY <1>4 DEF Advances
  <1>6. PICK pre, there : pre = <<>> /\ there = {}
    OBVIOUS
  <1>7. IsSeq(pre) /\ Ready(there, pre) /\ Goes(c, pre \o Tail(todo[c]))
    BY <1>5, <1>6, NoStep
  <1>8. \A need \in there : Holds(c, need)'
    BY <1>6
  <1> QED
    BY <1>7, <1>8, Moved

\* A call ends.
LEMMA Ended ==
  ASSUME NEW c \in Loader, Lists, CallInv(c), outcome'[c] \notin {"new", "running"}, todo'[c] = <<>>,
         UNCHANGED <<settings, catalog>>, conns'[c] = conns[c], ran'[c] = ran[c],
         \A p \in seen[c] : p \in seen'[c]
  PROVE  CallInv(c)'
  <1>1. IsSeq(todo'[c]) /\ Ready({}, todo'[c])
    BY NoStep
  <1>4. Prepared(c)'
    <2>1. \A need \in {} : Holds(c, need)'
      OBVIOUS
    <2> QED
      BY <1>1, <2>1 DEF Prepared
  <1>2. \A r \in ran'[c] : RunAllowed(c, r)'
    BY RunAllowedGrows DEF CallInv
  <1>3. \A i \in DOMAIN conns[c] : ConnOK(c, conns[c][i])'
    BY ConnGrows DEF CallInv
  <1> QED
    BY <1>1, <1>2, <1>3, <1>4 DEF CallInv, ConnOK

-----------------------------------------------------------------------------
\* The connections of the configuration but SQLite's: listTables asks for those
\* tables under no database, while the policy's rules are read under its name.
NoSqlite == \A id \in DOMAIN describes : describes[id].dialect # "sqlite"

\* What the first step relies on holds.
LEMMA HeadHolds ==
  ASSUME NEW c, CallInv(c), outcome[c] = "running", NEW need \in Needs(Head(todo[c]))
  PROVE  Holds(c, need)
  <1>1. IsSeq(todo[c]) /\ todo[c] # <<>> /\ Prepared(c)
    BY DEF CallInv
  <1>2. 1 \in DOMAIN todo[c] /\ Head(todo[c]) = todo[c][1]
    BY <1>1, Rest
  <1>3. PICK there : Ready(there, todo[c]) /\ \A n \in there : Holds(c, n)
    BY <1>1 DEF Prepared
  <1>4. need \in there \/ \E m \in 1..(1 - 1) : Provides(todo[c][m], need)
    BY <1>2, <1>3 DEF Ready
  <1>5. 1..(1 - 1) = {}
    OBVIOUS
  <1> QED
    BY <1>3, <1>4, <1>5

LEMMA OnConnectionHolds ==
  ASSUME NEW c, CallInv(c), outcome[c] = "running", Head(todo[c]).op \in OnConnection
  PROVE  Head(todo[c]).on \in DOMAIN conns[c] /\ Holds(c, Conn(Head(todo[c]).on))
  <1>1. Conn(Head(todo[c]).on) \in Needs(Head(todo[c]))
    BY DEF Needs
  <1>2. Holds(c, Conn(Head(todo[c]).on))
    BY <1>1, HeadHolds
  <1> QED
    BY <1>2 DEF Holds, Conn

LEMMA ProvidesNothing ==
  ASSUME NEW step, step.op \notin {"connect", "list", "listed", "permit", "narrow", "look_up"}
  PROVE  \A need : ~Provides(step, need)
  BY DEF Provides

\* A step that only goes on.
LEMMA PassedOn ==
  ASSUME NEW c \in Loader, Lists, CallInv(c), outcome[c] = "running",
         UNCHANGED <<policy, settings, catalog, seen, conns, listed, ran>>, Advances(c),
         \A need : Provides(Head(todo[c]), need) => Holds(c, need)
  PROVE  CallInv(c)'
  <1>1. \A need : Holds(c, need) => Holds(c, need)'
    BY HoldsGrows
  <1>2. /\ \A i \in DOMAIN conns'[c] : ConnOK(c, conns'[c][i])
        /\ \A r \in ran'[c] : RunAllowed(c, r)
    BY DEF CallInv
  <1>3. /\ \A i \in DOMAIN conns[c] : i \in DOMAIN conns'[c] /\ conns'[c][i] = conns[c][i]
        /\ \A i \in DOMAIN listed[c] : i \in DOMAIN listed'[c]
        /\ \A need : Provides(Head(todo[c]), need) => Holds(c, need)'
    BY <1>1
  <1> QED
    BY <1>2, <1>3, MovedOn

\* A step that gives way to others, which rely on what there is.
LEMMA GaveWay ==
  ASSUME NEW c \in Loader, Lists, CallInv(c), outcome[c] = "running",
         UNCHANGED <<policy, settings, catalog, seen, conns, listed, ran>>,
         NEW pre, IsSeq(pre), Goes(c, pre \o Tail(todo[c])),
         NEW there, Ready(there, pre), \A need \in there : Holds(c, need),
         \A need : Provides(Head(todo[c]), need) => Holds(c, need) \/ Gives(pre, need)
  PROVE  CallInv(c)'
  <1>1. \A need : Holds(c, need) => Holds(c, need)'
    BY HoldsGrows
  <1>2. /\ \A i \in DOMAIN conns'[c] : ConnOK(c, conns'[c][i])
        /\ \A r \in ran'[c] : RunAllowed(c, r)
    BY DEF CallInv
  <1>3. /\ \A i \in DOMAIN conns[c] : i \in DOMAIN conns'[c] /\ conns'[c][i] = conns[c][i]
        /\ \A i \in DOMAIN listed[c] : i \in DOMAIN listed'[c]
        /\ \A need : Provides(Head(todo[c]), need) => Holds(c, need)' \/ Gives(pre, need)
        /\ \A need \in there : Holds(c, need)'
    BY <1>1
  <1> QED
    BY <1>2, <1>3, Moved

-----------------------------------------------------------------------------
\* Step by step: what a call is prepared for and what was done for it stay in
\* order.  These steps only go on.
LEMMA PlainSteps ==
  ASSUME NEW c \in Loader, Lists, CallInv(c),
         Filtered(c) \/ Writable(c) \/ Offered(c) \/ Revision(c) \/ Compare(c) \/ Kept(c)
  PROVE  CallInv(c)'
  <1>1. /\ outcome[c] = "running" /\ Advances(c)
        /\ UNCHANGED <<policy, settings, catalog, seen, conns, listed, ran>>
        /\ Head(todo[c]).op \in {"filter", "writable", "offered", "revision", "databases", "compare",
                                 "append", "show"}
    BY DEF Filtered, Writable, Offered, Revision, Compare, Kept, Running, Same, Others
  <1>2. \A need : ~Provides(Head(todo[c]), need)
    BY <1>1, ProvidesNothing
  <1> QED
    BY <1>1, <1>2, PassedOn

LEMMA LoadsSame ==
  ASSUME NEW c \in Loader, NEW d \in Loader, CallInv(d), Loads(c)
  PROVE  CallInv(d)'
  BY CallSame DEF Loads, Others

LEMMA FailsStep ==
  ASSUME NEW c \in Loader, Lists, CallInv(c), CallFails(c)
  PROVE  CallInv(c)'
  <1>1. outcome'[c] = "failed" /\ todo'[c] = <<>>
    BY DEF CallFails, Ends, Lists
  <1> QED
    BY <1>1, Ended DEF CallFails, Others

LEMMA NotedStep ==
  ASSUME NEW c \in Loader, Lists, CallInv(c), Noted(c)
  PROVE  CallInv(c)'
  <1>1. /\ outcome[c] = "running" /\ Head(todo[c]).op = "note"
        /\ UNCHANGED <<policy, settings, catalog, seen, conns, listed, ran>>
    BY DEF Noted, Running, Others
  <1>2. CASE Advances(c)
    BY <1>1, <1>2, ProvidesNothing, PassedOn
  <1>3. CASE Ends(c)
    <2>1. outcome'[c] = "failed" /\ todo'[c] = <<>>
      BY <1>3 DEF Ends, Lists
    <2> QED
      BY <1>1, <2>1, Ended
  <1> QED
    BY <1>2, <1>3 DEF Noted

LEMMA SessionStep ==
  ASSUME NEW c \in Loader, Lists, CallInv(c), OpensSession(c)
  PROVE  CallInv(c)'
  <1>1. /\ outcome[c] = "running" /\ Head(todo[c]).op = "session"
        /\ UNCHANGED <<policy, settings, catalog, seen, conns, listed, ran>>
    BY DEF OpensSession, Running, Others
  <1>2. CASE Advances(c)
    BY <1>1, <1>2, ProvidesNothing, PassedOn
  <1>3. CASE UNCHANGED <<todo, outcome>>
    BY <1>1, <1>3, CallSame
  <1> QED
    BY <1>2, <1>3 DEF OpensSession

LEMMA ConnectedStep ==
  ASSUME NEW c \in Loader, Lists, CallInv(c), Connected(c), NoSqlite, WorkspaceTypeOK, IdsUnique
  PROVE  CallInv(c)'
  <1>1. /\ outcome[c] = "running" /\ Head(todo[c]).op = "connect" /\ Advances(c)
        /\ UNCHANGED <<policy, settings, catalog, seen, listed, ran>>
    BY DEF Connected, Running, Others
  <1>2. PICK step : step = Head(todo[c])
    OBVIOUS
  <1>3. PICK k \in {l \in Select(Connections(c), step.connectionId, step.database) :
                      IsConnectionAllowed(settings.allowed, l)} :
             /\ AllowsDatabase(policy, k, k.database)
             /\ conns' = [conns EXCEPT ![c] = Holding(conns[c], step.on, k)]
    BY <1>2 DEF Connected
  <1>4. ConnOK(c, k)
    <2>1. IsTarget(k)
      <3>1. PICK connectionId, database : connectionId = step.connectionId /\ database = step.database
        OBVIOUS
      <3>2. k \in Select(Connections(c), connectionId, database)
        BY <1>3, <3>1
      <3> QED
        BY <3>2, GivenIsTarget
    <2>2. k.dialect # "sqlite"
      <3>1. PICK e \in k.among : \/ k = Saved(e, k.among)
                                 \/ \E database : k = WithDatabase(Saved(e, k.among), database)
        BY <2>1 DEF IsTarget
      <3>2. k.dialect = describes[e.id].dialect
        BY <3>1, SavedIs, WithDatabaseIs
      <3>3. e \in Connection
        BY <2>1, <3>1 DEF IsTarget
      <3> QED
        BY <3>2, <3>3, IdIsSeq DEF NoSqlite
    <2>3. policy \in seen[c]
      BY <1>1 DEF CallInv
    <2> QED
      BY <1>3, <2>2, <2>3 DEF ConnOK
  <1>5. PICK before, after, i : before = conns[c] /\ i = step.on /\ after = Holding(before, i, k)
    OBVIOUS
  <1>6. conns'[c] = after
    BY <1>3, <1>5 DEF Lists
  <1>7. /\ \A j \in DOMAIN before : j \in DOMAIN after /\ after[j] = before[j]
        /\ i \in DOMAIN after
        /\ \A j \in DOMAIN after : after[j] = IF j \in DOMAIN before THEN before[j] ELSE k
    BY <1>5 DEF Holding
  <1>8. \A j \in DOMAIN before : ConnOK(c, before[j])
    BY <1>5 DEF CallInv
  <1>9. \A j \in DOMAIN after : ConnOK(c, after[j])
    BY <1>4, <1>7, <1>8
  <1>10. \A need : Provides(Head(todo[c]), need) => Holds(c, need)'
    <2>1. \A need : Provides(Head(todo[c]), need) => need = Conn(i)
      BY <1>1, <1>2, <1>5 DEF Provides
    <2>2. Holds(c, Conn(i))'
      BY <1>6, <1>7 DEF Holds, Conn
    <2> QED
      BY <2>1, <2>2
  <1>11. \A r \in ran'[c] : RunAllowed(c, r)
    BY <1>1 DEF CallInv
  <1>12. /\ \A j \in DOMAIN conns[c] : j \in DOMAIN conns'[c] /\ conns'[c][j] = conns[c][j]
         /\ \A j \in DOMAIN conns'[c] : ConnOK(c, conns'[c][j])
         /\ \A j \in DOMAIN listed[c] : j \in DOMAIN listed'[c]
    BY <1>1, <1>5, <1>6, <1>7, <1>9
  <1> QED
    BY <1>1, <1>10, <1>11, <1>12, MovedOn

-----------------------------------------------------------------------------
\* Whether a session is needed first does not matter to what follows.
LEMMA SessionReady ==
  ASSUME NEW k, NEW there
  PROVE  IsSeq(Session(k)) /\ Ready(there, Session(k))
  <1>1. \A x : Needs([op |-> "session", iam |-> x]) = {}
    BY DEF Needs, OnConnection
  <1>2. CASE k.id \in Iam
    BY <1>1, <1>2, OneReady DEF Session
  <1>3. CASE k.id \notin Iam
    BY <1>3, NoStep DEF Session
  <1> QED
    BY <1>2, <1>3

\* Without rules for tables every table is permitted.
LEMMA NoTableRules ==
  ASSUME NEW p, NEW k, NEW row, NEW bare, ~HasTableRestrictions(p, k)
  PROVE  Permits(p, k, row, "table", bare)
  <1>1. \A r \in RulesOf(p, k, k.database) : r.schemas = {} /\ r.allowTables = {} /\ r.denyTables = {}
    BY DEF HasTableRestrictions
  <1>2. \A r \in RulesOf(p, k, k.database) :
           Allow(r, "table") = {} /\ Deny(r, "table") = {} /\ r.schemas = {}
    BY <1>1 DEF Allow, Deny
  <1>3. AllowsResolved(p, k, row, "table", bare)
    BY <1>2 DEF AllowsResolved
  <1>4. IdentityPredicate(p, k, row, k.database, "table", bare)
    BY <1>2 DEF IdentityPredicate
  <1> QED
    BY <1>3, <1>4 DEF Permits

LEMMA TrustStep ==
  ASSUME NEW c \in Loader, Lists, CallInv(c), Trust(c)
  PROVE  CallInv(c)'
  <1>1. PICK k : k = conns[c][Head(todo[c]).on]
    OBVIOUS
  <1>2. /\ outcome[c] = "running" /\ Head(todo[c]).op = "trust" /\ Goes(c, Session(k) \o Tail(todo[c]))
        /\ UNCHANGED <<policy, settings, catalog, seen, conns, listed, ran>>
    BY <1>1 DEF Trust, Running, Same, Others
  <1>3. PICK pre, there : pre = Session(k) /\ there = {}
    OBVIOUS
  <1>4. /\ IsSeq(pre) /\ Ready(there, pre) /\ Goes(c, pre \o Tail(todo[c]))
        /\ \A need \in there : Holds(c, need)
    BY <1>2, <1>3, SessionReady
  <1>5. \A need : ~Provides(Head(todo[c]), need)
    BY <1>2, ProvidesNothing
  <1> QED
    BY <1>2, <1>4, <1>5, GaveWay

\* The look-up stands before what it is for.
LEMMA CheckingReady ==
  ASSUME NEW c \in Loader, NEW k, NEW i, NEW refs, Holds(c, Conn(i)), policy \in seen[c]
  PROVE  /\ IsSeq(Session(k) \o LookUp(i, refs))
         /\ Ready({Conn(i), Under(policy)}, Session(k) \o LookUp(i, refs))
         /\ \A need \in {Conn(i), Under(policy)} : Holds(c, need)
         /\ \A q : References(q) \subseteq refs => Gives(Session(k) \o LookUp(i, refs), Names(i, q))
  <1> DEFINE s == [op |-> "look_up", on |-> i, refs |-> refs, under |-> policy]
  <1>1. PICK there : there = {Conn(i), Under(policy)}
    OBVIOUS
  <1>2. \A need \in Needs(s) : need \in there
    BY <1>1 DEF Needs, OnConnection
  <1>3. \A q : References(q) \subseteq refs => Provides(s, Names(i, q))
    BY DEF Provides, Names
  <1>4. LookUp(i, refs) = <<s>>
    BY DEF LookUp
  <1> HIDE DEF s
  <1>5. IsSeq(<<s>>) /\ Ready(there, <<s>>) /\ DOMAIN <<s>> = {1} /\ <<s>>[1] = s
    BY <1>2, OneReady, OneStep
  <1>6. /\ IsSeq(Session(k)) /\ Ready(there, Session(k))
        /\ \A need \in there : need \in there \/ Gives(Session(k), need)
    BY SessionReady
  <1>7. IsSeq(Session(k) \o <<s>>) /\ Ready(there, Session(k) \o <<s>>)
    BY <1>5, <1>6, ReadyJoined
  <1>8. \A q : References(q) \subseteq refs => Gives(<<s>>, Names(i, q))
    BY <1>3, <1>5 DEF Gives
  <1>9. \A q : References(q) \subseteq refs => Gives(Session(k) \o <<s>>, Names(i, q))
    BY <1>5, <1>6, <1>8, GivesJoined
  <1>10. Holds(c, Under(policy))
    BY DEF Holds, Under
  <1> QED
    BY <1>1, <1>4, <1>7, <1>9, <1>10

LEMMA PermitStep ==
  ASSUME NEW c \in Loader, Lists, CallInv(c), Permit(c)
  PROVE  CallInv(c)'
  <1>1. PICK step : step = Head(todo[c])
    OBVIOUS
  <1>2. PICK k, i, q : k = conns[c][step.on] /\ i = step.on /\ q = step.query
    OBVIOUS
  <1>3. PICK refs : refs = IF IsDatabaseScoped(policy, k) THEN References(q) ELSE {}
    OBVIOUS
  <1>4. PICK pre : pre = IF refs = {} THEN <<>> ELSE Session(k) \o LookUp(i, refs)
    OBVIOUS
  <1>5. /\ outcome[c] = "running" /\ step.op = "permit"
        /\ AssertQuery(policy, k, q, step.readOnly \/ settings.readOnly)
        /\ Goes(c, pre \o Tail(todo[c]))
        /\ UNCHANGED <<policy, settings, catalog, seen, conns, listed, ran>>
    BY <1>1, <1>2, <1>3, <1>4 DEF Permit, Running, Same, Others, Checking
  <1>6. i \in DOMAIN conns[c] /\ Holds(c, Conn(i)) /\ policy \in seen[c]
    BY <1>1, <1>2, <1>5, OnConnectionHolds DEF OnConnection, CallInv
  <1>7. Holds(c, Reach(i, q))
    <2>1. q.writes => ~settings.readOnly /\ ~IsReadOnly(policy, k)
      BY <1>5 DEF AssertQuery, ReadStatement
    <2>2. (\E ref \in References(q) : Foreign(k, ref.parts, ref.kind)) => ~IsDatabaseScoped(policy, k)
      <3> SUFFICES ASSUME IsDatabaseScoped(policy, k), NEW ref \in References(q)
                   PROVE  ~Foreign(k, ref.parts, ref.kind)
        OBVIOUS
      <3>1. /\ \A parts \in q.relations : ~Foreign(k, parts, "table")
            /\ \A parts \in q.functions : ~Foreign(k, parts, "function")
        BY <1>5 DEF AssertQuery, ScopeError
      <3>2. \/ \E parts \in q.relations : ref = [kind |-> "table", parts |-> parts]
            \/ \E parts \in q.functions : ref = [kind |-> "function", parts |-> parts]
        BY DEF References
      <3> QED
        BY <3>1, <3>2
    <2>3. MayReach(c, k, q)
      BY <1>6, <2>1, <2>2 DEF MayReach
    <2> QED
      BY <1>2, <1>6, <2>3 DEF Holds, Reach
  <1>8. refs = {} => Holds(c, Names(i, q))
    <2> SUFFICES ASSUME refs = {}
                 PROVE  MayName(c, k, q)
      BY <1>2, <1>6 DEF Holds, Names
    <2>1. References(q) = {} \/ ~IsDatabaseScoped(policy, k)
      BY <1>3
    <2> QED
      BY <1>6, <2>1 DEF MayName
  <1>9. \A need : Provides(Head(todo[c]), need) => need = Reach(i, q) \/ need = Names(i, q)
    BY <1>1, <1>2, <1>5 DEF Provides
  <1>10. CASE refs = {}
    <2>1. PICK there : there = {}
      OBVIOUS
    <2>2. IsSeq(pre) /\ Ready(there, pre) /\ \A need \in there : Holds(c, need)
      BY <1>4, <1>10, <2>1, NoStep
    <2>3. \A need : Provides(Head(todo[c]), need) => Holds(c, need) \/ Gives(pre, need)
      BY <1>7, <1>8, <1>9, <1>10
    <2> QED
      BY <1>5, <2>2, <2>3, GaveWay
  <1>11. CASE refs # {}
    <2>1. PICK there : there = {Conn(i), Under(policy)}
      OBVIOUS
    <2>2. pre = Session(k) \o LookUp(i, refs) /\ References(q) \subseteq refs
      BY <1>3, <1>4, <1>11
    <2>3. /\ IsSeq(pre) /\ Ready(there, pre) /\ \A need \in there : Holds(c, need)
          /\ Gives(pre, Names(i, q))
      BY <1>6, <2>1, <2>2, CheckingReady
    <2>4. \A need : Provides(Head(todo[c]), need) => Holds(c, need) \/ Gives(pre, need)
      BY <1>7, <1>9, <2>3
    <2> QED
      BY <1>5, <2>3, <2>4, GaveWay
  <1> QED
    BY <1>10, <1>11

LEMMA NarrowedStep ==
  ASSUME NEW c \in Loader, Lists, CallInv(c), Narrowed(c)
  PROVE  CallInv(c)'
  <1>1. PICK step : step = Head(todo[c])
    OBVIOUS
  <1>2. PICK k, i, table : k = conns[c][step.on] /\ i = step.on /\ table = step.table
    OBVIOUS
  <1>3. PICK refs : refs = IF HasTableRestrictions(policy, k)
                           THEN {[kind |-> "table", parts |-> table]} ELSE {}
    OBVIOUS
  <1>4. PICK pre : pre = IF refs = {} THEN <<>> ELSE Session(k) \o LookUp(i, refs)
    OBVIOUS
  <1>5. /\ outcome[c] = "running" /\ step.op = "narrow"
        /\ ~ScopeError(policy, k, table, "table")
        /\ Goes(c, pre \o Tail(todo[c]))
        /\ UNCHANGED <<policy, settings, catalog, seen, conns, listed, ran>>
    BY <1>1, <1>2, <1>3, <1>4 DEF Narrowed, Running, Same, Others, Checking
  <1>6. i \in DOMAIN conns[c] /\ Holds(c, Conn(i)) /\ policy \in seen[c]
    BY <1>1, <1>2, <1>5, OnConnectionHolds DEF OnConnection, CallInv
  <1>7. ASSUME NEW need, Provides(Head(todo[c]), need)
        PROVE  /\ need.kind \in {"reach", "names"} /\ need.on = i /\ ~need.query.writes
               /\ References(need.query) \subseteq {[kind |-> "table", parts |-> table]}
    BY <1>1, <1>2, <1>5, <1>7 DEF Provides
  <1>8. ASSUME NEW need, Provides(Head(todo[c]), need), need.kind = "reach"
        PROVE  Holds(c, need)
    <2>1. PICK q : q = need.query
      OBVIOUS
    <2>2. ASSUME NEW ref \in References(q), Foreign(k, ref.parts, ref.kind)
          PROVE  ~IsDatabaseScoped(policy, k)
      <3>1. ref = [kind |-> "table", parts |-> table]
        BY <1>7, <1>8, <2>1
      <3>2. Foreign(k, table, "table")
        BY <2>2, <3>1
      <3> QED
        BY <1>5, <3>2 DEF ScopeError
    <2>3. MayReach(c, k, q)
      BY <1>6, <1>7, <1>8, <2>1, <2>2 DEF MayReach
    <2> QED
      BY <1>2, <1>6, <1>7, <1>8, <2>1, <2>3 DEF Holds
  <1>9. ASSUME NEW need, Provides(Head(todo[c]), need), need.kind = "names", refs = {}
        PROVE  Holds(c, need)
    <2>1. ~HasTableRestrictions(policy, k)
      BY <1>3, <1>9
    <2>2. PICK q : q = need.query
      OBVIOUS
    <2>3. ASSUME NEW ref \in References(q), NEW row
          PROVE  Permits(policy, k, row, ref.kind, Len(ref.parts) = 1)
      <3>1. ref.kind = "table"
        BY <1>7, <1>9, <2>2
      <3>2. PICK bare : bare = (Len(ref.parts) = 1)
        OBVIOUS
      <3>3. Permits(policy, k, row, "table", bare)
        BY <2>1, NoTableRules
      <3> QED
        BY <3>1, <3>2, <3>3
    <2>4. MayName(c, k, q)
      BY <1>6, <2>3 DEF MayName
    <2> QED
      BY <1>2, <1>6, <1>7, <1>9, <2>2, <2>4 DEF Holds
  <1>10. CASE refs = {}
    <2>1. PICK there : there = {}
      OBVIOUS
    <2>2. IsSeq(pre) /\ Ready(there, pre) /\ \A need \in there : Holds(c, need)
      BY <1>4, <1>10, <2>1, NoStep
    <2>3. \A need : Provides(Head(todo[c]), need) => Holds(c, need) \/ Gives(pre, need)
      BY <1>7, <1>8, <1>9, <1>10
    <2> QED
      BY <1>1, <1>5, <2>2, <2>3, GaveWay
  <1>11. CASE refs # {}
    <2>1. PICK there : there = {Conn(i), Under(policy)}
      OBVIOUS
    <2>2. pre = Session(k) \o LookUp(i, refs) /\ refs = {[kind |-> "table", parts |-> table]}
      BY <1>3, <1>4, <1>11
    <2>3. /\ IsSeq(pre) /\ Ready(there, pre) /\ \A need \in there : Holds(c, need)
      BY <1>6, <2>1, <2>2, CheckingReady
    <2>4. ASSUME NEW need, Provides(Head(todo[c]), need), need.kind = "names"
          PROVE  Gives(pre, need)
      <3>1. Provides([op |-> "look_up", on |-> i, refs |-> refs, under |-> policy], need)
        BY <1>7, <2>2, <2>4 DEF Provides
      <3>2. Gives(LookUp(i, refs), need)
        BY <3>1, OneStep DEF LookUp, Gives
      <3>3. IsSeq(Session(k)) /\ IsSeq(LookUp(i, refs))
        BY SessionReady, OneStep DEF LookUp
      <3> QED
        BY <2>2, <3>2, <3>3, GivesJoined
    <2>5. \A need : Provides(Head(todo[c]), need) => Holds(c, need) \/ Gives(pre, need)
      BY <1>7, <1>8, <2>4
    <2> QED
      BY <1>5, <2>3, <2>5, GaveWay
  <1> QED
    BY <1>10, <1>11

LEMMA LookedUpStep ==
  ASSUME NEW c \in Loader, Lists, CallInv(c), LookedUp(c)
  PROVE  CallInv(c)'
  <1>1. PICK step : step = Head(todo[c])
    OBVIOUS
  <1>2. PICK k, i : k = conns[c][step.on] /\ i = step.on
    OBVIOUS
  <1>3. /\ outcome[c] = "running" /\ step.op = "look_up" /\ Advances(c)
        /\ \A ref \in step.refs : \A row \in Rows(k, ref) :
              AssertResolved(policy, k, row, ref, Permitted(step.under, k, row, ref))
        /\ UNCHANGED <<policy, settings, catalog, seen, conns, listed, ran>>
    BY <1>1, <1>2 DEF LookedUp, Running, Same, Others
  <1>4. i \in DOMAIN conns[c] /\ policy \in seen[c]
    BY <1>1, <1>2, <1>3, OnConnectionHolds DEF OnConnection, CallInv
  <1>5. step.under \in seen[c]
    <2>1. Under(step.under) \in Needs(step)
      BY <1>3 DEF Needs
    <2>2. Holds(c, Under(step.under))
      BY <1>1, <1>3, <2>1, HeadHolds
    <2> QED
      BY <2>2 DEF Holds, Under
  <1>6. ASSUME NEW need, Provides(Head(todo[c]), need)
        PROVE  Holds(c, need)
    <2>1. need.kind = "names" /\ need.on = i /\ References(need.query) \subseteq step.refs
      BY <1>1, <1>2, <1>3, <1>6 DEF Provides
    <2>2. PICK q : q = need.query
      OBVIOUS
    <2>3. ASSUME NEW ref \in References(q), NEW row \in Rows(k, ref)
          PROVE  \E p \in seen[c] : Permits(p, k, row, ref.kind, Len(ref.parts) = 1)
      <3>1. AssertResolved(policy, k, row, ref, Permitted(step.under, k, row, ref))
        BY <1>3, <2>1, <2>2
      <3>2. CASE k.dialect \in NativeMatch
        BY <1>5, <3>1, <3>2 DEF AssertResolved, Permitted, Permits
      <3>3. CASE k.dialect \notin NativeMatch
        BY <1>4, <3>1, <3>3 DEF AssertResolved, Permits
      <3> QED
        BY <3>2, <3>3
    <2>4. MayName(c, k, q)
      BY <2>3 DEF MayName
    <2> QED
      BY <1>2, <1>4, <2>1, <2>2, <2>4 DEF Holds
  <1> QED
    BY <1>1, <1>3, <1>6, PassedOn

-----------------------------------------------------------------------------
\* The steps that put others in their place, and those that a database answers.
LEMMA ExplainStep ==
  ASSUME NEW c \in Loader, Lists, CallInv(c), Explain(c)
  PROVE  CallInv(c)'
  <1>1. PICK step : step = Head(todo[c])
    OBVIOUS
  <1>2. PICK i, q, dialect : i = step.on /\ q = step.query /\ dialect = conns[c][step.on].dialect
    OBVIOUS
  <1>3. PICK pre : pre = CASE dialect = "mssql" -> Query(i, q, TRUE)
                           [] dialect = "oracle" -> <<With("execute", i, q)>>
                           [] OTHER -> Trusted(i, q)
    OBVIOUS
  <1>4. /\ outcome[c] = "running" /\ step.op = "explain" /\ Goes(c, pre \o Tail(todo[c]))
        /\ UNCHANGED <<policy, settings, catalog, seen, conns, listed, ran>>
    BY <1>1, <1>2, <1>3 DEF Explain, Running, Same, Others
  <1>5. PICK there : there = Needs(step)
    OBVIOUS
  <1>6. \A need \in there : Holds(c, need)
    BY <1>1, <1>4, <1>5, HeadHolds
  <1>7. Conn(i) \in there /\ (Harmless(q) \/ (Reach(i, q) \in there /\ Names(i, q) \in there))
    BY <1>2, <1>4, <1>5 DEF Needs, OnConnection
  <1>8. IsSeq(pre) /\ Ready(there, pre)
    <2>1. CASE dialect = "mssql"
      BY <1>3, <1>7, <2>1, QueryReady
    <2>2. CASE dialect = "oracle"
      BY <1>3, <1>7, <2>2, StatementReady
    <2>3. CASE dialect \notin {"mssql", "oracle"}
      BY <1>3, <1>7, <2>3, TrustedReady
    <2> QED
      BY <2>1, <2>2, <2>3
  <1>9. \A need : ~Provides(Head(todo[c]), need)
    BY <1>1, <1>4, ProvidesNothing
  <1> QED
    BY <1>4, <1>6, <1>8, <1>9, GaveWay

LEMMA ListStep ==
  ASSUME NEW c \in Loader, Lists, CallInv(c), List(c)
  PROVE  CallInv(c)'
  <1>1. PICK step, i : step = Head(todo[c]) /\ i = step.on
    OBVIOUS
  <1> DEFINE last == [op |-> "listed", on |-> i, under |-> policy]
  <1>2. PICK pre : pre = Trusted(i, CatalogQuery) \o <<last>>
    OBVIOUS
  <1>3. /\ outcome[c] = "running" /\ step.op = "list" /\ Goes(c, pre \o Tail(todo[c]))
        /\ UNCHANGED <<policy, settings, catalog, seen, conns, listed, ran>>
    BY <1>1, <1>2 DEF List, Running, Same, Others
  <1>4. Holds(c, Conn(i)) /\ policy \in seen[c]
    BY <1>1, <1>3, OnConnectionHolds DEF OnConnection, CallInv
  <1>5. PICK there : there = {Conn(i), Under(policy)}
    OBVIOUS
  <1>6. \A need \in there : Holds(c, need)
    BY <1>4, <1>5 DEF Holds, Under
  <1>7. IsSeq(Trusted(i, CatalogQuery)) /\ Ready(there, Trusted(i, CatalogQuery))
    BY <1>5, TrustedReady, CatalogQueryHarmless
  <1>8. (\A need \in Needs(last) : need \in there) /\ Provides(last, Tables(i))
    BY <1>5 DEF Needs, OnConnection, Provides
  <1> HIDE DEF last
  <1>9. IsSeq(<<last>>) /\ Ready(there, <<last>>) /\ Gives(<<last>>, Tables(i))
    BY <1>8, OneReady, OneStep DEF Gives
  <1>10. IsSeq(pre) /\ Ready(there, pre) /\ Gives(pre, Tables(i))
    BY <1>2, <1>7, <1>9, ReadyJoined, GivesJoined
  <1>11. \A need : Provides(Head(todo[c]), need) => need = Tables(i)
    BY <1>1, <1>3 DEF Provides
  <1> QED
    BY <1>3, <1>6, <1>10, <1>11, GaveWay

LEMMA LoadSchemasStep ==
  ASSUME NEW c \in Loader, Lists, CallInv(c), LoadSchemas(c)
  PROVE  CallInv(c)'
  <1>1. PICK step, i : step = Head(todo[c]) /\ i = step.on
    OBVIOUS
  <1>2. PICK left : left = IF step.op = "load" THEN listed[c][step.on] ELSE step.left
    OBVIOUS
  <1>3. /\ outcome[c] = "running" /\ step.op \in {"load", "load_rest"}
        /\ UNCHANGED <<policy, settings, catalog, seen, conns, listed, ran>>
    BY <1>1 DEF LoadSchemas, Running, Same, Others
  <1>4. \A need : ~Provides(Head(todo[c]), need)
    BY <1>1, <1>3, ProvidesNothing
  <1>5. CASE Advances(c)
    BY <1>3, <1>4, <1>5, PassedOn
  <1>6. ASSUME NEW row \in left,
               Goes(c, GetTableSchema(i, Qualified(row))
                          \o <<[op |-> "load_rest", on |-> i, left |-> left \ {row}]>> \o Tail(todo[c]))
        PROVE  CallInv(c)'
    <2> DEFINE last == [op |-> "load_rest", on |-> i, left |-> left \ {row}]
    <2>1. PICK there : there = {Conn(i)}
      OBVIOUS
    <2>2. Holds(c, Conn(i))
      BY <1>1, <1>3, OnConnectionHolds DEF OnConnection
    <2>3. PICK table : table = Qualified(row)
      OBVIOUS
    <2>4. IsSeq(GetTableSchema(i, table)) /\ Ready(there, GetTableSchema(i, table))
      BY <2>1, TableSchemaReady
    <2>5. \A need \in Needs(last) : need \in there
      BY <2>1 DEF Needs, OnConnection
    <2>6. Goes(c, (GetTableSchema(i, table) \o <<last>>) \o Tail(todo[c]))
      BY <1>6, <2>3
    <2> HIDE DEF last
    <2>7. IsSeq(<<last>>) /\ Ready(there, <<last>>)
      BY <2>5, OneReady
    <2>8. PICK pre : pre = GetTableSchema(i, table) \o <<last>>
      OBVIOUS
    <2>9. IsSeq(pre) /\ Ready(there, pre)
      BY <2>4, <2>7, <2>8, ReadyJoined
    <2> QED
      BY <1>3, <1>4, <2>1, <2>2, <2>6, <2>8, <2>9, GaveWay
  <1> QED
    BY <1>1, <1>2, <1>5, <1>6 DEF LoadSchemas

LEMMA ExecuteStep ==
  ASSUME NEW c \in Loader, Lists, CallInv(c), Execute(c)
  PROVE  CallInv(c)'
  <1>1. PICK step : step = Head(todo[c])
    OBVIOUS
  <1>2. PICK k, i, q : k = conns[c][step.on] /\ i = step.on /\ q = step.query
    OBVIOUS
  <1>3. /\ outcome[c] = "running" /\ step.op = "execute" /\ Advances(c)
        /\ ran' = [ran EXCEPT ![c] = @ \cup {Run(k, q)}]
        /\ UNCHANGED <<policy, settings, catalog, seen, conns, listed>>
    BY <1>1, <1>2 DEF Execute, Running, Others
  <1>4. i \in DOMAIN conns[c]
    BY <1>1, <1>2, <1>3, OnConnectionHolds DEF OnConnection
  <1>5. MayReach(c, k, q) /\ MayName(c, k, q)
    <2>1. CASE Harmless(q)
      BY <2>1 DEF Harmless, MayReach, MayName
    <2>2. CASE ~Harmless(q)
      <3>1. Reach(i, q) \in Needs(step) /\ Names(i, q) \in Needs(step)
        BY <1>2, <1>3, <2>2 DEF Needs
      <3>2. Holds(c, Reach(i, q)) /\ Holds(c, Names(i, q))
        BY <1>1, <1>3, <3>1, HeadHolds
      <3> QED
        BY <1>2, <3>2 DEF Holds, Reach, Names
    <2> QED
      BY <2>1, <2>2
  <1>6. RunAllowed(c, Run(k, q))
    <2>1. PICK r : r = Run(k, q)
      OBVIOUS
    <2>2. /\ r.conn = k /\ r.writes = q.writes
          /\ r.foreign <=> \E ref \in References(q) : Foreign(k, ref.parts, ref.kind)
          /\ r.rows = UNION {{[row |-> row, kind |-> ref.kind, bare |-> Len(ref.parts) = 1] :
                                  row \in Rows(k, ref)} : ref \in References(q)}
      BY <2>1 DEF Run
    <2>3. \E p \in seen[c] : AllowsDatabase(p, k, k.database)
      BY <1>2, <1>4 DEF CallInv, ConnOK
    <2>4. ASSUME NEW o \in r.rows
          PROVE  \E p \in seen[c] : IsDatabaseScoped(p, k) => Permits(p, k, o.row, o.kind, o.bare)
      <3>1. PICK ref \in References(q) :
               o \in {[row |-> row, kind |-> ref.kind, bare |-> Len(ref.parts) = 1] :
                         row \in Rows(k, ref)}
        BY <2>2, <2>4
      <3>2. PICK row \in Rows(k, ref) : o = [row |-> row, kind |-> ref.kind, bare |-> Len(ref.parts) = 1]
        BY <3>1
      <3>3. o.row = row /\ o.kind = ref.kind /\ o.bare = (Len(ref.parts) = 1)
        BY <3>2
      <3>4. \E p \in seen[c] : IsDatabaseScoped(p, k) => Permits(p, k, row, ref.kind, Len(ref.parts) = 1)
        BY <1>5 DEF MayName
      <3> QED
        BY <3>3, <3>4
    <2>5. RunAllowed(c, r)
      BY <1>5, <2>2, <2>3, <2>4 DEF RunAllowed, MayReach
    <2> QED
      BY <2>1, <2>5
  <1>7. \A r \in ran'[c] : RunAllowed(c, r)
    <2>1. PICK r : r = Run(k, q)
      OBVIOUS
    <2>2. ran'[c] = ran[c] \cup {r}
      BY <1>3, <2>1 DEF Lists
    <2> QED
      BY <1>6, <2>1, <2>2 DEF CallInv
  <1>8. \A need : ~Provides(Head(todo[c]), need)
    BY <1>1, <1>3, ProvidesNothing
  <1>9. /\ \A j \in DOMAIN conns[c] : j \in DOMAIN conns'[c] /\ conns'[c][j] = conns[c][j]
        /\ \A j \in DOMAIN conns'[c] : ConnOK(c, conns'[c][j])
        /\ \A j \in DOMAIN listed[c] : j \in DOMAIN listed'[c]
    BY <1>3 DEF CallInv
  <1> QED
    BY <1>3, <1>7, <1>8, <1>9, MovedOn

LEMMA ListedStep ==
  ASSUME NEW c \in Loader, Lists, CallInv(c), Listed(c)
  PROVE  CallInv(c)'
  <1>1. PICK step : step = Head(todo[c])
    OBVIOUS
  <1>2. PICK k, i, under : k = conns[c][step.on] /\ i = step.on /\ under = step.under
    OBVIOUS
  <1>3. PICK rows : rows = Visible(k, under, policy)
    OBVIOUS
  <1>4. PICK r : r = [conn |-> k, writes |-> FALSE, foreign |-> FALSE,
                      rows |-> {[row |-> row, kind |-> "table", bare |-> TRUE] : row \in rows}]
    OBVIOUS
  <1>5. /\ outcome[c] = "running" /\ step.op = "listed" /\ Advances(c)
        /\ listed' = [listed EXCEPT ![c] = Holding(listed[c], i, rows)]
        /\ ran' = [ran EXCEPT ![c] = @ \cup {r}]
        /\ UNCHANGED <<policy, settings, catalog, seen, conns>>
    BY <1>1, <1>2, <1>3, <1>4 DEF Listed, Running, Others
  <1>6. i \in DOMAIN conns[c] /\ policy \in seen[c]
    BY <1>1, <1>2, <1>5, OnConnectionHolds DEF OnConnection, CallInv
  <1>7. under \in seen[c]
    <2>1. Under(under) \in Needs(step)
      BY <1>2, <1>5 DEF Needs
    <2>2. Holds(c, Under(under))
      BY <1>1, <1>5, <2>1, HeadHolds
    <2> QED
      BY <2>2 DEF Holds, Under
  <1>8. ConnOK(c, k)
    BY <1>2, <1>6 DEF CallInv
  <1>9. RunAllowed(c, r)
    <2>1. r.conn = k /\ ~r.writes /\ ~r.foreign
      BY <1>4
    <2>2. ASSUME NEW o \in r.rows
          PROVE  \E p \in seen[c] : Permits(p, k, o.row, o.kind, o.bare)
      <3>1. PICK row \in rows : o = [row |-> row, kind |-> "table", bare |-> TRUE]
        BY <1>4, <2>2
      <3>2. o.row = row /\ o.kind = "table" /\ o.bare = TRUE
        BY <3>1
      <3>3. CASE k.dialect \in NativeMatch
        <4>1. HasTableRestrictions(under, k) =>
                 IdentityPredicate(under, k, row, k.database, "table", TRUE)
          BY <1>3, <1>8, <3>3 DEF Visible, ConnOK
        <4>2. CASE HasTableRestrictions(under, k)
          BY <1>7, <3>2, <3>3, <4>1, <4>2 DEF Permits
        <4>3. CASE ~HasTableRestrictions(under, k)
          <5>1. Permits(under, k, row, "table", TRUE)
            BY <4>3, NoTableRules
          <5> QED
            BY <1>7, <3>2, <5>1
        <4> QED
          BY <4>2, <4>3
      <3>4. CASE k.dialect \notin NativeMatch
        <4>1. AllowsResolved(policy, k, row, "table", TRUE)
          BY <1>3, <3>4 DEF Visible
        <4> QED
          BY <1>6, <3>2, <3>4, <4>1 DEF Permits
      <3> QED
        BY <3>3, <3>4
    <2> QED
      BY <1>8, <2>1, <2>2 DEF RunAllowed, ConnOK
  <1>10. \A x \in ran'[c] : RunAllowed(c, x)
    <2>1. ran'[c] = ran[c] \cup {r}
      BY <1>5 DEF Lists
    <2> QED
      BY <1>9, <2>1 DEF CallInv
  <1>11. PICK before, after : before = listed[c] /\ after = Holding(listed[c], i, rows)
    OBVIOUS
  <1>12. listed'[c] = after /\ DOMAIN after = DOMAIN before \cup {i}
    <2>1. listed'[c] = after
      BY <1>5, <1>11 DEF Lists
    <2>2. after = [j \in DOMAIN before \cup {i} |-> IF j \in DOMAIN before THEN before[j] ELSE rows]
      BY <1>11 DEF Holding
    <2> QED
      BY <2>1, <2>2
  <1>13. \A need : Provides(Head(todo[c]), need) => Holds(c, need)'
    <2>1. \A need : Provides(Head(todo[c]), need) => need = Tables(i)
      BY <1>1, <1>2, <1>5 DEF Provides
    <2>2. Holds(c, Tables(i))'
      BY <1>12 DEF Holds, Tables
    <2> QED
      BY <2>1, <2>2
  <1>14. /\ \A j \in DOMAIN conns[c] : j \in DOMAIN conns'[c] /\ conns'[c][j] = conns[c][j]
         /\ \A j \in DOMAIN conns'[c] : ConnOK(c, conns'[c][j])
         /\ \A j \in DOMAIN listed[c] : j \in DOMAIN listed'[c]
    BY <1>5, <1>11, <1>12 DEF CallInv
  <1> QED
    BY <1>5, <1>10, <1>13, <1>14, MovedOn

LEMMA AskStep ==
  ASSUME NEW c \in Loader, Lists, CallInv(c), Ask(c)
  PROVE  CallInv(c)'
  <1>1. /\ conns'[c] = <<>> /\ listed'[c] = <<>> /\ ran'[c] = {}
        /\ policy' = policy /\ seen'[c] = {policy}
    BY DEF Ask, CallInv, Lists
  <1>2. outcome'[c] # "new" /\ (outcome'[c] = "running" => todo'[c] # <<>>)
    BY DEF Ask, Goes, Ends, Lists
  <1>3. IsSeq(todo'[c]) /\ Ready({}, todo'[c])
    <2>1. CASE Refused(request[c])
      <3>1. todo'[c] = <<>>
        BY <2>1 DEF Ask, Ends, Lists
      <3> QED
        BY <3>1, NoStep
    <2>2. CASE ~Refused(request[c])
      <3>1. todo'[c] = Handler(request[c])
        BY <2>2 DEF Ask, Goes, Lists
      <3>2. request[c].tool \in Tool
        BY <2>2 DEF Refused
      <3> QED
        BY <3>1, <3>2, HandlerReady
    <2> QED
      BY <2>1, <2>2
  <1>4. Prepared(c)'
    <2>1. \A need \in {} : Holds(c, need)'
      OBVIOUS
    <2> QED
      BY <1>3, <2>1 DEF Prepared
  <1>5. \A i : i \notin DOMAIN <<>>
    OBVIOUS
  <1> QED
    BY <1>1, <1>2, <1>3, <1>4, <1>5 DEF CallInv

-----------------------------------------------------------------------------
\* A step of one call leaves the others alone.
LEMMA OneCall ==
  ASSUME Lists, NEW c \in Loader, Ask(c) \/ CallStep(c)
  PROVE  /\ Lists' /\ UNCHANGED <<policy, settings, catalog>>
         /\ \A d \in Loader \ {c} :
               /\ outcome'[d] = outcome[d] /\ todo'[d] = todo[d] /\ conns'[d] = conns[d]
               /\ listed'[d] = listed[d] /\ diff'[d] = diff[d] /\ seen'[d] = seen[d]
               /\ ran'[d] = ran[d]
  <1>1. CASE Ask(c)
    BY <1>1 DEF Ask, Ends, Goes, Lists
  <1>2. CASE Loads(c) \/ Connected(c) \/ Filtered(c) \/ Writable(c) \/ Offered(c) \/ Revision(c)
    BY <1>2 DEF Loads, Connected, Filtered, Writable, Offered, Revision, Advances, Goes, Same,
                Others, Lists
  <1>3. CASE Permit(c) \/ Narrowed(c) \/ LookedUp(c) \/ Trust(c)
    BY <1>3 DEF Permit, Narrowed, LookedUp, Trust, Checking, Advances, Goes, Same, Others, Lists
  <1>4. CASE Execute(c) \/ Explain(c) \/ List(c)
    BY <1>4 DEF Execute, Explain, List, Advances, Goes, Same, Others, Lists
  <1>5. CASE Listed(c) \/ Compare(c)
    BY <1>5 DEF Listed, Compare, Advances, Goes, Others, Lists
  <1>6. CASE LoadSchemas(c)
    BY <1>6 DEF LoadSchemas, Advances, Goes, Same, Others, Lists
  <1>7. CASE Noted(c) \/ Kept(c) \/ OpensSession(c) \/ CallFails(c)
    BY <1>7 DEF Noted, Kept, OpensSession, CallFails, Advances, Goes, Ends, Others, Lists
  <1> QED
    BY <1>1, <1>2, <1>3, <1>4, <1>5, <1>6, <1>7 DEF CallStep

LEMMA CallGoesOn ==
  ASSUME NoSqlite, WorkspaceTypeOK, IdsUnique, Lists, NEW c \in Loader, CallInv(c), Ask(c) \/ CallStep(c)
  PROVE  CallInv(c)'
  <1>1. Loads(c) => CallInv(c)'
    BY LoadsSame
  <1> QED
    BY <1>1, AskStep, ConnectedStep, PlainSteps, PermitStep, NarrowedStep, LookedUpStep, TrustStep,
       ExecuteStep, ExplainStep, ListStep, ListedStep, LoadSchemasStep, NotedStep, SessionStep,
       FailsStep DEF CallStep

CallsInv == TargetInv /\ Lists /\ \A c \in Loader : CallInv(c)

LEMMA CallsInvInit == ToolInit => CallsInv
  <1> SUFFICES ASSUME ToolInit
               PROVE  CallsInv
    OBVIOUS
  <1>1. TargetInv
    BY TargetInvInit
  <1>2. Lists
    BY DEF ToolInit, Lists
  <1>3. ASSUME NEW c \in Loader
        PROVE  CallInv(c)
    <2>1. outcome[c] = "new" /\ todo[c] = <<>> /\ conns[c] = <<>> /\ listed[c] = <<>> /\ ran[c] = {}
      BY DEF ToolInit
    <2>2. IsSeq(todo[c]) /\ Prepared(c)
      <3>1. IsSeq(<<>>) /\ Ready({}, <<>>) /\ \A need \in {} : Holds(c, need)
        BY NoStep
      <3> QED
        BY <2>1, <3>1 DEF Prepared
    <2>3. \A i : i \notin DOMAIN <<>>
      OBVIOUS
    <2> QED
      BY <2>1, <2>2, <2>3 DEF CallInv
  <1> QED
    BY <1>1, <1>2, <1>3 DEF CallsInv

LEMMA CallsInvNext == NoSqlite /\ CallsInv /\ [ToolNext]_toolVars => CallsInv'
  <1> SUFFICES ASSUME NoSqlite, CallsInv, [ToolNext]_toolVars
               PROVE  CallsInv'
    OBVIOUS
  <1>1. TargetInv'
    BY TargetInvNext DEF CallsInv
  <1>2. Lists /\ WorkspaceTypeOK /\ IdsUnique /\ \A c \in Loader : CallInv(c)
    BY DEF CallsInv, TargetInv, ToolInv, WorkspaceInv
  <1>3. ASSUME NEW c \in Loader, Ask(c) \/ CallStep(c)
        PROVE  Lists' /\ \A d \in Loader : CallInv(d)'
    <2>1. CallInv(c)'
      BY <1>2, <1>3, CallGoesOn
    <2>2. ASSUME NEW d \in Loader \ {c}
          PROVE  CallInv(d)'
      BY <1>2, <1>3, OneCall, CallSame
    <2> QED
      BY <1>2, <1>3, <2>1, <2>2, OneCall
  <1>4. ASSUME UNCHANGED <<policy, settings, catalog, callVars>>
        PROVE  Lists' /\ \A d \in Loader : CallInv(d)'
    <2>1. \A d \in Loader : CallInv(d)'
      BY <1>2, <1>4, CallSame DEF callVars
    <2> QED
      BY <1>2, <1>4, <2>1 DEF callVars, Lists
  <1>5. ASSUME UNCHANGED toolVars \/ Parses \/ IdentityChanges \/ TimePasses \/ FilesChange
        PROVE  Lists' /\ \A d \in Loader : CallInv(d)'
    BY <1>4, <1>5 DEF toolVars, Parses, IdentityChanges, TimePasses, FilesChange
  <1>6. ASSUME NEW p \in Policies, PolicyChanges(p)
        PROVE  Lists' /\ \A d \in Loader : CallInv(d)'
    <2>1. ASSUME NEW d \in Loader
          PROVE  /\ (outcome[d] = "running" => policy' \in seen'[d])
                 /\ \A q \in seen[d] : q \in seen'[d]
      BY <1>6 DEF PolicyChanges
    <2>2. /\ UNCHANGED <<settings, catalog, outcome, todo, conns, listed, diff, ran>>
          /\ DOMAIN seen' = Loader
      BY <1>6 DEF PolicyChanges
    <2>3. \A d \in Loader : CallInv(d)'
      BY <1>2, <2>1, <2>2, CallSame
    <2> QED
      BY <1>2, <2>2, <2>3 DEF Lists
  <1>7. ASSUME Restart
        PROVE  Lists' /\ \A d \in Loader : CallInv(d)'
    <2>1. /\ UNCHANGED <<settings, catalog, conns, listed, diff, seen, ran>>
          /\ DOMAIN outcome' = Loader /\ DOMAIN todo' = Loader
          /\ \A d \in Loader : /\ todo'[d] = <<>>
                               /\ outcome'[d] = IF outcome[d] = "running" THEN "failed" ELSE outcome[d]
      BY <1>7 DEF Restart
    <2>2. ASSUME NEW d \in Loader
          PROVE  CallInv(d)'
      <3>1. CASE outcome[d] # "new"
        BY <1>2, <2>1, <3>1, Ended
      <3>2. CASE outcome[d] = "new"
        <4>1. CallInv(d) /\ todo'[d] = <<>> /\ outcome'[d] = "new"
          BY <1>2, <2>1, <3>2
        <4>2. /\ conns'[d] = <<>> /\ listed'[d] = <<>> /\ ran'[d] = {}
          BY <2>1, <3>2, <4>1 DEF CallInv
        <4>3. IsSeq(todo'[d]) /\ Ready({}, todo'[d]) /\ \A need \in {} : Holds(d, need)'
          BY <4>1, NoStep
        <4>4. Prepared(d)'
          BY <4>3 DEF Prepared
        <4>5. \A i : i \notin DOMAIN <<>>
          OBVIOUS
        <4> QED
          BY <4>1, <4>2, <4>3, <4>4, <4>5 DEF CallInv
      <3> QED
        BY <3>1, <3>2
    <2> QED
      BY <1>2, <2>1, <2>2 DEF Lists
  <1>8. Lists' /\ \A d \in Loader : CallInv(d)'
    BY <1>3, <1>5, <1>6, <1>7 DEF ToolNext
  <1> QED
    BY <1>1, <1>8 DEF CallsInv

\* Whatever a database does for a call was allowed while the call ran, for
\* every policy, statement and order of the steps; SQLite is left out, whose
\* catalog query compares under another name of the database.
THEOREM RunsAllowedAlways ==
  ASSUME \A id \in DOMAIN describes : describes[id].dialect # "sqlite"
  PROVE  ToolSpec => []RunsAllowed
  <1>1. NoSqlite
    BY DEF NoSqlite
  <1>2. CallsInv /\ [ToolNext]_toolVars => CallsInv'
    BY <1>1, CallsInvNext
  <1>3. CallsInv => RunsAllowed
    BY DEF CallsInv, CallInv, RunAllowed, RunsAllowed
  <1> QED
    BY CallsInvInit, <1>2, <1>3, PTL DEF ToolSpec

-----------------------------------------------------------------------------
\* What compare_schemas compares of a table decides whether it means the same.
LEMMA ChangesNone ==
  ASSUME NEW s, NEW t, NEW modified
  PROVE  Changes(s, t, modified) = {} <=> DOMAIN s = DOMAIN t /\ modified = {}
  <1>1. Changes(s, t, modified) = {} =>
            DOMAIN s \ DOMAIN t = {} /\ DOMAIN t \ DOMAIN s = {} /\ modified = {}
    <2>1. \A n \in DOMAIN s \ DOMAIN t : [name |-> n, status |-> "removed"] \in Changes(s, t, modified)
      BY DEF Changes
    <2>2. \A n \in DOMAIN t \ DOMAIN s : [name |-> n, status |-> "added"] \in Changes(s, t, modified)
      BY DEF Changes
    <2>3. \A n \in modified : [name |-> n, status |-> "modified"] \in Changes(s, t, modified)
      BY DEF Changes
    <2> QED
      BY <2>1, <2>2, <2>3
  <1>2. DOMAIN s = DOMAIN t /\ modified = {} => Changes(s, t, modified) = {}
    BY DEF Changes
  <1> QED
    BY <1>1, <1>2

LEMMA DifferingNone ==
  ASSUME NEW s, NEW t, NEW keys
  PROVE  Differing(s, t, keys) = {} <=>
            \A n \in DOMAIN s \cap DOMAIN t : \A key \in keys : s[n][key] = t[n][key]
  BY DEF Differing, Common

\* What a column means, and a table.
Meaning(table) == [table EXCEPT !.columns = [n \in DOMAIN table.columns |->
    [ComparableSchema(table).columns[n] EXCEPT !.type = NormalizeType(@)]]]
ColumnMeaning(column) == [type |-> NormalizeType(ComparableType(column)),
                          nullable |-> column.nullable, defaultValue |-> column.defaultValue]
ColumnsMeaning(columns) == [n \in DOMAIN columns |-> ColumnMeaning(columns[n])]

LEMMA ComparableIs ==
  ASSUME NEW t, IsTable(t)
  PROVE  /\ ComparableSchema(t) =
              [columns |-> [n \in DOMAIN t.columns |->
                               [type |-> ComparableType(t.columns[n]),
                                nullable |-> t.columns[n].nullable,
                                defaultValue |-> t.columns[n].defaultValue]],
               indexes |-> t.indexes, constraints |-> t.constraints,
               physicalKeys |-> t.physicalKeys]
         /\ Meaning(t) = [columns |-> ColumnsMeaning(t.columns), indexes |-> t.indexes,
                          constraints |-> t.constraints, physicalKeys |-> t.physicalKeys]
  <1>1. t = [columns |-> t.columns, indexes |-> t.indexes, constraints |-> t.constraints,
             physicalKeys |-> t.physicalKeys]
    BY DEF IsTable
  <1>2. PICK cs, is, qs, ps : cs = t.columns /\ is = t.indexes /\ qs = t.constraints
                                /\ ps = t.physicalKeys
    OBVIOUS
  <1>3. t = [columns |-> cs, indexes |-> is, constraints |-> qs, physicalKeys |-> ps]
    BY <1>1, <1>2
  <1>4. \A new : [t EXCEPT !.columns = new] =
                    [columns |-> new, indexes |-> is, constraints |-> qs, physicalKeys |-> ps]
    BY <1>3
  <1>5. PICK types : types = [n \in DOMAIN cs |-> [type |-> ComparableType(cs[n]),
                                nullable |-> cs[n].nullable, defaultValue |-> cs[n].defaultValue]]
    OBVIOUS
  <1>6. ComparableSchema(t) = [columns |-> types, indexes |-> is, constraints |-> qs,
                               physicalKeys |-> ps]
    BY <1>2, <1>4, <1>5 DEF ComparableSchema
  <1>7. ComparableSchema(t).columns = types
    BY <1>6
  <1>8. \A n \in DOMAIN cs : [types[n] EXCEPT !.type = NormalizeType(@)] = ColumnMeaning(cs[n])
    BY <1>5 DEF ColumnMeaning
  <1>9. [n \in DOMAIN cs |-> [types[n] EXCEPT !.type = NormalizeType(@)]] = ColumnsMeaning(cs)
    BY <1>8 DEF ColumnsMeaning
  <1>10. Meaning(t) = [t EXCEPT !.columns = ColumnsMeaning(cs)]
    BY <1>2, <1>7, <1>9 DEF Meaning
  <1> QED
    BY <1>2, <1>4, <1>5, <1>6, <1>10

LEMMA ColumnsSame ==
  ASSUME NEW s, NEW t, IsTable(s), IsTable(t)
  PROVE  CompareColumns(ComparableSchema(s).columns, ComparableSchema(t).columns) = {}
            <=> ColumnsMeaning(s.columns) = ColumnsMeaning(t.columns)
  <1>1. PICK cs, ds : cs = s.columns /\ ds = t.columns
    OBVIOUS
  <1>2. PICK old, new : /\ old = ComparableSchema(s).columns
                        /\ new = ComparableSchema(t).columns
    OBVIOUS
  <1>3. /\ DOMAIN old = DOMAIN cs
        /\ \A n \in DOMAIN cs : /\ old[n].type = ComparableType(cs[n])
                                /\ old[n]["nullable"] = cs[n].nullable
                                /\ old[n]["defaultValue"] = cs[n].defaultValue
    BY <1>1, <1>2, ComparableIs
  <1>4. /\ DOMAIN new = DOMAIN ds
        /\ \A n \in DOMAIN ds : /\ new[n].type = ComparableType(ds[n])
                                /\ new[n]["nullable"] = ds[n].nullable
                                /\ new[n]["defaultValue"] = ds[n].defaultValue
    BY <1>1, <1>2, ComparableIs
  <1>5. PICK others, typed :
           /\ others = Differing(old, new, {"nullable", "defaultValue"})
           /\ typed = {n \in Common(old, new) :
                          NormalizeType(old[n].type) # NormalizeType(new[n].type)}
    OBVIOUS
  <1>6. CompareColumns(old, new) = {} <=> DOMAIN old = DOMAIN new /\ others = {} /\ typed = {}
    <2>1. CompareColumns(old, new) = Changes(old, new, others \cup typed)
      BY <1>5 DEF CompareColumns
    <2>2. CompareColumns(old, new) = {} <=> DOMAIN old = DOMAIN new /\ others \cup typed = {}
      BY <2>1, ChangesNone
    <2> QED
      BY <2>2
  <1>7. others = {} <=> \A n \in DOMAIN cs \cap DOMAIN ds : /\ cs[n].nullable = ds[n].nullable
                                                /\ cs[n].defaultValue = ds[n].defaultValue
    BY <1>3, <1>4, <1>5, DifferingNone
  <1>8. typed = {} <=> \A n \in DOMAIN cs \cap DOMAIN ds :
                NormalizeType(ComparableType(cs[n])) = NormalizeType(ComparableType(ds[n]))
    BY <1>3, <1>4, <1>5 DEF Common
  <1>9. \A n : ColumnMeaning(cs[n]) = ColumnMeaning(ds[n]) <=>
           /\ NormalizeType(ComparableType(cs[n])) = NormalizeType(ComparableType(ds[n]))
           /\ cs[n].nullable = ds[n].nullable /\ cs[n].defaultValue = ds[n].defaultValue
    BY DEF ColumnMeaning
  <1>10. ColumnsMeaning(cs) = ColumnsMeaning(ds) <=>
            /\ DOMAIN cs = DOMAIN ds
            /\ \A n \in DOMAIN cs \cap DOMAIN ds : ColumnMeaning(cs[n]) = ColumnMeaning(ds[n])
    BY DEF ColumnsMeaning
  <1> QED
    BY <1>1, <1>2, <1>3, <1>4, <1>6, <1>7, <1>8, <1>9, <1>10

LEMMA IndexesSame ==
  ASSUME NEW s, NEW t, IsTable(s), IsTable(t)
  PROVE  CompareIndexes(s.indexes, t.indexes) = {} <=> s.indexes = t.indexes
  <1>1. PICK is, js : is = s.indexes /\ js = t.indexes
    OBVIOUS
  <1> DEFINE whole(i) == [columns |-> i.columns, unique |-> i.unique, type |-> i.type,
                          predicate |-> i.predicate]
  <1>2. is = [n \in DOMAIN is |-> whole(is[n])] /\ js = [n \in DOMAIN js |-> whole(js[n])]
    BY <1>1 DEF IsTable
  <1>3. CompareIndexes(is, js) = {} <=>
           /\ DOMAIN is = DOMAIN js
           /\ \A n \in DOMAIN is \cap DOMAIN js :
                 \A key \in {"columns", "unique", "type", "predicate"} : is[n][key] = js[n][key]
    BY ChangesNone, DifferingNone DEF CompareIndexes
  <1>4. \A n \in DOMAIN is \cap DOMAIN js :
           (\A key \in {"columns", "unique", "type", "predicate"} : is[n][key] = js[n][key])
              => whole(is[n]) = whole(js[n])
    OBVIOUS
  <1>5. CompareIndexes(is, js) = {} =>
           DOMAIN is = DOMAIN js /\ \A n \in DOMAIN is : whole(is[n]) = whole(js[n])
    BY <1>3, <1>4
  <1>6. is = js => CompareIndexes(is, js) = {}
    BY <1>3
  <1>7. CompareIndexes(is, js) = {} => is = js
    <2> HIDE DEF whole
    <2> QED
      BY <1>2, <1>5
  <1> QED
    BY <1>1, <1>6, <1>7

LEMMA ConstraintsSame ==
  ASSUME NEW s, NEW t, IsTable(s), IsTable(t)
  PROVE  CompareConstraints(s.constraints, t.constraints) = {} <=> s.constraints = t.constraints
  <1>1. PICK is, js : is = s.constraints /\ js = t.constraints
    OBVIOUS
  <1> DEFINE whole(q) == [type |-> q.type, columns |-> q.columns, definition |-> q.definition,
                          referencedTable |-> q.referencedTable,
                          referencedColumns |-> q.referencedColumns]
             keys == {"type", "columns", "referencedTable", "referencedColumns", "definition"}
  <1>2. is = [n \in DOMAIN is |-> whole(is[n])] /\ js = [n \in DOMAIN js |-> whole(js[n])]
    BY <1>1 DEF IsTable
  <1>3. CompareConstraints(is, js) = {} <=>
           /\ DOMAIN is = DOMAIN js
           /\ \A n \in DOMAIN is \cap DOMAIN js : \A key \in keys : is[n][key] = js[n][key]
    BY ChangesNone, DifferingNone DEF CompareConstraints
  <1>4. \A n \in DOMAIN is \cap DOMAIN js :
           (\A key \in keys : is[n][key] = js[n][key]) => whole(is[n]) = whole(js[n])
    OBVIOUS
  <1>5. CompareConstraints(is, js) = {} =>
           DOMAIN is = DOMAIN js /\ \A n \in DOMAIN is : whole(is[n]) = whole(js[n])
    BY <1>3, <1>4
  <1>6. is = js => CompareConstraints(is, js) = {}
    BY <1>3
  <1>7. CompareConstraints(is, js) = {} => is = js
    <2> HIDE DEF whole
    <2> QED
      BY <1>2, <1>5
  <1> QED
    BY <1>1, <1>6, <1>7

LEMMA KeysSame ==
  ASSUME NEW s, NEW t, IsTable(s), IsTable(t)
  PROVE  ComparePhysicalKeys(s.physicalKeys, t.physicalKeys) = {}
            <=> s.physicalKeys = t.physicalKeys
  <1>1. PICK ks, ls : ks = s.physicalKeys /\ ls = t.physicalKeys
    OBVIOUS
  <1>2. ks = [kind \in DOMAIN ks |-> ks[kind]] /\ ls = [kind \in DOMAIN ls |-> ls[kind]]
    BY <1>1 DEF IsTable
  <1> DEFINE says(keys, kind) == IF kind \in DOMAIN keys THEN {keys[kind]} ELSE {}
  <1>3. ComparePhysicalKeys(ks, ls) = {} <=>
           \A kind \in DOMAIN ks \cup DOMAIN ls : says(ks, kind) = says(ls, kind)
    BY DEF ComparePhysicalKeys
  <1>4. \A kind \in DOMAIN ks \cup DOMAIN ls : says(ks, kind) = says(ls, kind) =>
           kind \in DOMAIN ks /\ kind \in DOMAIN ls /\ ks[kind] = ls[kind]
    OBVIOUS
  <1>5. ks = ls => ComparePhysicalKeys(ks, ls) = {}
    BY <1>3
  <1>6. ComparePhysicalKeys(ks, ls) = {} => ks = ls
    <2> HIDE DEF says
    <2>1. SUFFICES ASSUME ComparePhysicalKeys(ks, ls) = {}
                   PROVE  ks = ls
      OBVIOUS
    <2>2. DOMAIN ks = DOMAIN ls /\ \A kind \in DOMAIN ks : ks[kind] = ls[kind]
      BY <1>3, <1>4, <2>1
    <2> QED
      BY <1>2, <2>2
  <1> QED
    BY <1>1, <1>5, <1>6

\* compareSchemas tells a table modified when it does not mean the same.
LEMMA ChangedMeans ==
  ASSUME NEW s, NEW t, IsTable(s), IsTable(t)
  PROVE  TableChanged(ComparableSchema(s), ComparableSchema(t)) <=> Meaning(s) # Meaning(t)
  <1>1. PICK a, b : a = ComparableSchema(s) /\ b = ComparableSchema(t)
    OBVIOUS
  <1>2. /\ a.indexes = s.indexes /\ a.constraints = s.constraints
        /\ a.physicalKeys = s.physicalKeys
        /\ b.indexes = t.indexes /\ b.constraints = t.constraints
        /\ b.physicalKeys = t.physicalKeys
    BY <1>1, ComparableIs
  <1>3. ~TableChanged(a, b) <=> /\ CompareColumns(a.columns, b.columns) = {}
                                /\ CompareIndexes(s.indexes, t.indexes) = {}
                                /\ CompareConstraints(s.constraints, t.constraints) = {}
                                /\ ComparePhysicalKeys(s.physicalKeys, t.physicalKeys) = {}
    BY <1>2 DEF TableChanged
  <1>4. ~TableChanged(a, b) <=> /\ ColumnsMeaning(s.columns) = ColumnsMeaning(t.columns)
                                /\ s.indexes = t.indexes
                                /\ s.constraints = t.constraints
                                /\ s.physicalKeys = t.physicalKeys
    BY <1>1, <1>3, ColumnsSame, IndexesSame, ConstraintsSame, KeysSame
  <1>5. PICK m, n : m = Meaning(s) /\ n = Meaning(t)
    OBVIOUS
  <1>6. m = n <=> /\ ColumnsMeaning(s.columns) = ColumnsMeaning(t.columns)
                  /\ s.indexes = t.indexes
                  /\ s.constraints = t.constraints
                  /\ s.physicalKeys = t.physicalKeys
    BY <1>5, ComparableIs
  <1> QED
    BY <1>1, <1>4, <1>5, <1>6

\* One word stands for all those that mean the same.
NormalWord(w) == IF w \in DOMAIN TypeMap \ WithDigits THEN TypeMap[w] ELSE w

LEMMA WordIs ==
  ASSUME NEW w
  PROVE  NormalWord(w) = IF w = "int" THEN "integer"
                         ELSE IF w = "bool" THEN "boolean"
                         ELSE IF w = "varchar" THEN "character varying"
                         ELSE IF w = "char" THEN "character"
                         ELSE IF w = "timestamp without time zone" THEN "timestamp"
                         ELSE IF w = "timestamp with time zone" THEN "timestamptz"
                         ELSE w
  <1>1. DOMAIN TypeMap \ WithDigits = {"int", "bool", "varchar", "char", "timestamp without time zone",
                                       "timestamp with time zone"}
    BY DEF TypeMap, WithDigits
  <1>2. /\ TypeMap["int"] = "integer" /\ TypeMap["bool"] = "boolean"
        /\ TypeMap["varchar"] = "character varying" /\ TypeMap["char"] = "character"
        /\ TypeMap["timestamp without time zone"] = "timestamp"
        /\ TypeMap["timestamp with time zone"] = "timestamptz"
    BY DEF TypeMap
  <1> QED
    BY <1>1, <1>2 DEF NormalWord

LEMMA WordsSame ==
  ASSUME NEW v, NEW w
  PROVE  NormalWord(v) = NormalWord(w) <=> SameWord(v, w)
  <1>1. SameWord(v, w) <=>
           \/ v = w
           \/ v \in {"int", "integer"} /\ w \in {"int", "integer"}
           \/ v \in {"bool", "boolean"} /\ w \in {"bool", "boolean"}
           \/ v \in {"char", "character"} /\ w \in {"char", "character"}
           \/ v \in {"varchar", "character varying"} /\ w \in {"varchar", "character varying"}
           \/ /\ v \in {"timestamp", "timestamp without time zone"}
              /\ w \in {"timestamp", "timestamp without time zone"}
           \/ /\ v \in {"timestamptz", "timestamp with time zone"}
              /\ w \in {"timestamptz", "timestamp with time zone"}
    BY DEF SameWord, Synonyms
  <1>2. PICK x, y : x = NormalWord(v) /\ y = NormalWord(w)
    OBVIOUS
  <1>3. /\ x = "integer" <=> v \in {"int", "integer"}
        /\ x = "boolean" <=> v \in {"bool", "boolean"}
        /\ x = "character" <=> v \in {"char", "character"}
        /\ x = "character varying" <=> v \in {"varchar", "character varying"}
        /\ x = "timestamp" <=> v \in {"timestamp", "timestamp without time zone"}
        /\ x = "timestamptz" <=> v \in {"timestamptz", "timestamp with time zone"}
        /\ \/ x = v
           \/ x \in {"integer", "boolean", "character", "character varying", "timestamp", "timestamptz"}
    BY <1>2, WordIs
  <1>4. /\ y = "integer" <=> w \in {"int", "integer"}
        /\ y = "boolean" <=> w \in {"bool", "boolean"}
        /\ y = "character" <=> w \in {"char", "character"}
        /\ y = "character varying" <=> w \in {"varchar", "character varying"}
        /\ y = "timestamp" <=> w \in {"timestamp", "timestamp without time zone"}
        /\ y = "timestamptz" <=> w \in {"timestamptz", "timestamp with time zone"}
        /\ \/ y = w
           \/ y \in {"integer", "boolean", "character", "character varying", "timestamp", "timestamptz"}
    BY <1>2, WordIs
  <1>5. v = w => x = y
    BY <1>2
  <1> QED
    BY <1>1, <1>2, <1>3, <1>4, <1>5

LEMMA NoneAndOne ==
  ASSUME NEW x, NEW y
  PROVE  <<x>> \o <<>> = <<x>> /\ <<x>> \o <<y>> = <<x, y>>
  <1> DEFINE Name == {x, y}
             u == <<x>>
             v == <<x, y>>
  <1>1. /\ u \in Seq(Name) /\ v \in Seq(Name) /\ <<y>> \in Seq(Name) /\ <<>> \in Seq(Name)
        /\ Len(u) = 1 /\ Len(v) = 2 /\ Len(<<y>>) = 1 /\ Len(<<>>) = 0
    OBVIOUS
  <1>2. u \o <<>> = u
    <2>1. u \o <<>> \in Seq(Name) /\ Len(u \o <<>>) = 1 /\ (u \o <<>>)[1] = u[1]
      BY <1>1
    <2> QED
      BY <1>1, <2>1, SeqEqual
  <1>3. u \o <<y>> = v
    <2>1. /\ u \o <<y>> \in Seq(Name) /\ Len(u \o <<y>>) = 2
          /\ (u \o <<y>>)[1] = v[1] /\ (u \o <<y>>)[2] = v[2]
      BY <1>1
    <2>2. \A i \in 1..2 : (u \o <<y>>)[i] = v[i]
      BY <2>1
    <2> QED
      BY <1>1, <2>1, <2>2, SeqEqual
  <1> QED
    BY <1>2, <1>3

\* The type that is compared has the size of the column.
LEMMA ComparableTypeIs ==
  ASSUME NEW c, c.type = [word |-> c.type.word, arguments |-> c.type.arguments]
  PROVE  NormalizeType(ComparableType(c)) = [word |-> NormalWord(c.type.word), arguments |-> Size(c)]
  <1>1. PICK w, g, size : w = c.type.word /\ g = c.type.arguments /\ size = Size(c)
    OBVIOUS
  <1>2. /\ c.type = [word |-> w, arguments |-> g]
        /\ \A h : [c.type EXCEPT !.arguments = h] = [word |-> w, arguments |-> h]
    <2>1. c.type = [word |-> w, arguments |-> g]
      BY <1>1
    <2> QED
      BY <2>1
  <1>3. HasLength(w) <=> w \in {"character varying", "varchar", "nvarchar", "character", "char", "nchar",
                                "binary", "varbinary"}
    BY DEF HasLength, Synonyms
  <1>4. ComparableType(c) = [word |-> w, arguments |-> size]
    <2>1. CASE g # <<>>
      BY <1>1, <1>2, <2>1 DEF ComparableType, Completed, Size
    <2>2. CASE g = <<>> /\ HasLength(w) /\ c.length # {}
      <3>1. size = <<Bound(c.length)>> /\ ~IsDecimal(w)
        BY <1>1, <1>3, <2>2 DEF Size, IsDecimal
      <3>2. ComparableType(c) = [c.type EXCEPT !.arguments = <<Bound(c.length)>>]
        BY <1>1, <1>3, <2>2, <3>1 DEF ComparableType, Completed, IsDecimal
      <3> QED
        BY <1>2, <3>1, <3>2
    <2>3. CASE g = <<>> /\ ~(HasLength(w) /\ c.length # {}) /\ IsDecimal(w) /\ c.precision # {}
      <3> DEFINE rest == IF c.scale = {} THEN <<>> ELSE <<c.scale>>
      <3>1. ComparableType(c) = [c.type EXCEPT !.arguments = <<c.precision>> \o rest]
        BY <1>1, <1>3, <2>3 DEF ComparableType, Completed, IsDecimal
      <3>2. size = <<c.precision>> \o rest
        <4>1. PICK x, y : x = c.precision /\ y = c.scale
          OBVIOUS
        <4>2. <<x>> \o <<>> = <<x>> /\ <<x>> \o <<y>> = <<x, y>>
          BY NoneAndOne
        <4>3. size = IF y = {} THEN <<x>> ELSE <<x, y>>
          BY <1>1, <2>3, <4>1 DEF Size
        <4> QED
          BY <4>1, <4>2, <4>3
      <3> QED
        BY <1>2, <3>1, <3>2
    <2>4. CASE g = <<>> /\ ~(HasLength(w) /\ c.length # {}) /\ ~(IsDecimal(w) /\ c.precision # {})
      <3>1. size = <<>>
        BY <1>1, <2>4 DEF Size
      <3>2. ComparableType(c) = c.type
        BY <1>1, <1>3, <2>4 DEF ComparableType, Completed, IsDecimal
      <3> QED
        BY <1>2, <2>4, <3>1, <3>2
    <2> QED
      BY <2>1, <2>2, <2>3, <2>4
  <1>5. NormalizeType([word |-> w, arguments |-> size]) = [word |-> NormalWord(w), arguments |-> size]
    BY DEF NormalizeType, NormalWord
  <1> QED
    BY <1>1, <1>4, <1>5

LEMMA ColumnSame ==
  ASSUME NEW a, a.type = [word |-> a.type.word, arguments |-> a.type.arguments],
         NEW b, b.type = [word |-> b.type.word, arguments |-> b.type.arguments]
  PROVE  ColumnMeaning(a) = ColumnMeaning(b) <=> SameColumn(a, b)
  <1>1. PICK s, t, v, w : /\ s = Size(a) /\ t = Size(b)
                          /\ v = NormalWord(a.type.word) /\ w = NormalWord(b.type.word)
    OBVIOUS
  <1>2. /\ NormalizeType(ComparableType(a)) = [word |-> v, arguments |-> s]
        /\ NormalizeType(ComparableType(b)) = [word |-> w, arguments |-> t]
    BY <1>1, ComparableTypeIs
  <1>3. ColumnMeaning(a) = ColumnMeaning(b) <=>
           /\ v = w /\ s = t
           /\ a.nullable = b.nullable /\ a.defaultValue = b.defaultValue
    BY <1>2 DEF ColumnMeaning
  <1>4. v = w <=> SameWord(a.type.word, b.type.word)
    BY <1>1, WordsSame
  <1> QED
    BY <1>1, <1>3, <1>4 DEF SameColumn

\* Tables mean the same if they are the same.
LEMMA MeaningSame ==
  ASSUME NEW s, NEW t, IsTable(s), IsTable(t)
  PROVE  Meaning(s) = Meaning(t) <=> SameTable(s, t)
  <1>1. PICK cs, ds : cs = s.columns /\ ds = t.columns
    OBVIOUS
  <1>2. PICK m, n : m = Meaning(s) /\ n = Meaning(t)
    OBVIOUS
  <1>3. m = n <=> /\ ColumnsMeaning(cs) = ColumnsMeaning(ds)
                  /\ s.indexes = t.indexes
                  /\ s.constraints = t.constraints
                  /\ s.physicalKeys = t.physicalKeys
    BY <1>1, <1>2, ComparableIs
  <1>4. ASSUME NEW x \in DOMAIN cs, x \in DOMAIN ds
        PROVE  ColumnMeaning(cs[x]) = ColumnMeaning(ds[x]) <=> SameColumn(cs[x], ds[x])
    <2>1. /\ cs[x].type = [word |-> cs[x].type.word, arguments |-> cs[x].type.arguments]
          /\ ds[x].type = [word |-> ds[x].type.word, arguments |-> ds[x].type.arguments]
      BY <1>1, <1>4 DEF IsTable
    <2> QED
      BY <2>1, ColumnSame
  <1>5. ColumnsMeaning(cs) = ColumnsMeaning(ds) <=>
           /\ DOMAIN cs = DOMAIN ds
           /\ \A x \in DOMAIN cs : ColumnMeaning(cs[x]) = ColumnMeaning(ds[x])
    BY DEF ColumnsMeaning
  <1>6. SameTable(s, t) <=> /\ DOMAIN cs = DOMAIN ds
                            /\ \A x \in DOMAIN cs : SameColumn(cs[x], ds[x])
                            /\ s.indexes = t.indexes /\ s.constraints = t.constraints
                            /\ s.physicalKeys = t.physicalKeys
    BY <1>1 DEF SameTable
  <1> QED
    BY <1>2, <1>3, <1>4, <1>5, <1>6

\* A table of a description has one qualified name, and no other has it.
LEMMA OneName ==
  ASSUME NEW r, NEW s, r = [schema |-> r.schema, name |-> r.name],
         s = [schema |-> s.schema, name |-> s.name], Qualified(r) = Qualified(s)
  PROVE  r = s
  <1>1. PICK a, b, x, y : a = r.schema /\ b = s.schema /\ x = r.name /\ y = s.name
    OBVIOUS
  <1>2. /\ Qualified(r) = IF a = "" THEN <<x>> ELSE <<a, x>>
        /\ Qualified(s) = IF b = "" THEN <<y>> ELSE <<b, y>>
    BY <1>1 DEF Qualified, Bare
  <1>3. \A u, v, w : <<u>> # <<v, w>>
    <2>1. ASSUME NEW u, NEW v, NEW w, <<u>> = <<v, w>>
          PROVE  FALSE
      <3>1. Len(<<u>>) = 1 /\ Len(<<v, w>>) = 2
        OBVIOUS
      <3> QED
        BY <2>1, <3>1
    <2> QED
      BY <2>1
  <1>4. CASE a = "" /\ b = ""
    <2>1. <<x>>[1] = <<y>>[1]
      BY <1>2, <1>4
    <2> QED
      BY <1>1, <1>4, <2>1
  <1>5. CASE a # "" /\ b # ""
    <2>1. <<a, x>> = <<b, y>>
      BY <1>2, <1>5
    <2>2. a = b /\ x = y
      BY <2>1
    <2> QED
      BY <1>1, <2>2
  <1> QED
    BY <1>2, <1>3, <1>4, <1>5

\* One side of the comparison: each name stands for one table, which is
\* described as the catalog tells it.
NamesOf(rows) == {Qualified(row) : row \in rows}
MeansOf(tables, rows, n) == {Meaning(tables[row]) : row \in {s \in rows : Qualified(s) = n}}

LEMMA SideIs ==
  ASSUME NEW k, NEW rows, NEW tables, rows # {} => tables = catalog[k.database],
         rows \subseteq DOMAIN tables, IsDescription(tables)
  PROVE  /\ DOMAIN Side(k, rows) = NamesOf(rows)
         /\ \A n \in NamesOf(rows) : \E row \in DOMAIN tables :
               /\ IsTable(tables[row])
               /\ Side(k, rows)[n] = ComparableSchema(tables[row])
               /\ MeansOf(tables, rows, n) = {Meaning(tables[row])}
         /\ \A n : n \notin NamesOf(rows) => MeansOf(tables, rows, n) = {}
  <1> DEFINE at(n) == CHOOSE row \in rows : Qualified(row) = n
  <1>1. Side(k, rows) = [n \in NamesOf(rows) |-> ComparableSchema(catalog[k.database][at(n)])]
    BY DEF Side, NamesOf
  <1>2. ASSUME NEW n \in NamesOf(rows)
        PROVE  at(n) \in rows /\ Qualified(at(n)) = n
    BY <1>2 DEF NamesOf
  <1>3. DOMAIN Side(k, rows) = NamesOf(rows)
    BY <1>1
  <1>4. ASSUME NEW n \in NamesOf(rows)
        PROVE  \E row \in DOMAIN tables :
                  /\ IsTable(tables[row])
                  /\ Side(k, rows)[n] = ComparableSchema(tables[row])
                  /\ MeansOf(tables, rows, n) = {Meaning(tables[row])}
    <2>1. PICK row : row = at(n)
      OBVIOUS
    <2>2. row \in rows /\ Qualified(row) = n
      BY <1>2, <2>1
    <2>3. Side(k, rows)[n] = ComparableSchema(tables[row])
      BY <1>1, <2>1, <2>2
    <2> HIDE DEF at
    <2>4. \A s \in rows : Qualified(s) = n => s = row
      BY <2>2, OneName DEF IsDescription
    <2>5. {s \in rows : Qualified(s) = n} = {row}
      BY <2>2, <2>4
    <2>6. MeansOf(tables, rows, n) = {Meaning(tables[row])}
      BY <2>5 DEF MeansOf
    <2> QED
      BY <2>2, <2>3, <2>6 DEF IsDescription
  <1>5. \A n : n \notin NamesOf(rows) => MeansOf(tables, rows, n) = {}
    BY DEF MeansOf, NamesOf
  <1> QED
    BY <1>3, <1>4, <1>5

\* The comparison of two databases, by their tables' qualified names.
LEMMA DiffIs ==
  ASSUME NEW k, NEW l, NEW first, NEW second, NEW olds, NEW news,
         first # {} => olds = catalog[k.database], first \subseteq DOMAIN olds, IsDescription(olds),
         second # {} => news = catalog[l.database], second \subseteq DOMAIN news, IsDescription(news)
  PROVE  CompareSchemas(Side(k, first), Side(l, second)) =
            {[name |-> n, status |-> IF n \notin NamesOf(second) THEN "removed"
                                     ELSE IF n \notin NamesOf(first) THEN "added"
                                     ELSE "modified"] :
               n \in {m \in NamesOf(first) \cup NamesOf(second) :
                          MeansOf(olds, first, m) # MeansOf(news, second, m)}}
  <1>1. PICK A, B, s, t : /\ A = NamesOf(first) /\ B = NamesOf(second)
                          /\ s = Side(k, first) /\ t = Side(l, second)
    OBVIOUS
  <1>2. /\ DOMAIN s = A
        /\ \A n \in A : \E row \in DOMAIN olds :
              /\ IsTable(olds[row]) /\ s[n] = ComparableSchema(olds[row])
              /\ MeansOf(olds, first, n) = {Meaning(olds[row])}
        /\ \A n : n \notin A => MeansOf(olds, first, n) = {}
    BY <1>1, SideIs
  <1>3. /\ DOMAIN t = B
        /\ \A n \in B : \E row \in DOMAIN news :
              /\ IsTable(news[row]) /\ t[n] = ComparableSchema(news[row])
              /\ MeansOf(news, second, n) = {Meaning(news[row])}
        /\ \A n : n \notin B => MeansOf(news, second, n) = {}
    BY <1>1, SideIs
  <1> DEFINE differ(n) == MeansOf(olds, first, n) # MeansOf(news, second, n)
  <1>4. ASSUME NEW n \in A \cap B
        PROVE  TableChanged(s[n], t[n]) <=> differ(n)
    <2>1. PICK old \in DOMAIN olds : /\ IsTable(olds[old]) /\ s[n] = ComparableSchema(olds[old])
                                     /\ MeansOf(olds, first, n) = {Meaning(olds[old])}
      BY <1>2
    <2>2. PICK new \in DOMAIN news : /\ IsTable(news[new]) /\ t[n] = ComparableSchema(news[new])
                                     /\ MeansOf(news, second, n) = {Meaning(news[new])}
      BY <1>3
    <2>3. TableChanged(s[n], t[n]) <=> Meaning(olds[old]) # Meaning(news[new])
      BY <2>1, <2>2, ChangedMeans
    <2> QED
      BY <2>1, <2>2, <2>3
  <1>5. \A n \in A \ B : differ(n)
    BY <1>2, <1>3
  <1>6. \A n \in B \ A : differ(n)
    BY <1>2, <1>3
  <1>7. CompareSchemas(s, t) =
          {[name |-> n, status |-> "removed"] : n \in A \ B}
          \cup {[name |-> n, status |-> "modified"] : n \in {m \in A \cap B : differ(m)}}
          \cup {[name |-> n, status |-> "added"] : n \in B \ A}
    <2>1. {n \in Common(s, t) : TableChanged(s[n], t[n])} = {m \in A \cap B : differ(m)}
      BY <1>2, <1>3, <1>4 DEF Common
    <2> HIDE DEF differ
    <2> QED
      BY <1>2, <1>3, <2>1 DEF CompareSchemas, Changes
  <1> HIDE DEF differ
  <1> DEFINE status(n) == IF n \notin B THEN "removed" ELSE IF n \notin A THEN "added" ELSE "modified"
             said == {[name |-> n, status |-> status(n)] : n \in {m \in A \cup B : differ(m)}}
  <1>8. CompareSchemas(s, t) = said
    <2>1. ASSUME NEW x \in CompareSchemas(s, t)
          PROVE  x \in said
      BY <1>5, <1>6, <1>7
    <2>2. ASSUME NEW n \in {m \in A \cup B : differ(m)}
          PROVE  [name |-> n, status |-> status(n)] \in CompareSchemas(s, t)
      BY <1>7
    <2> QED
      BY <2>1, <2>2
  <1> QED
    BY <1>1, <1>8 DEF differ

-----------------------------------------------------------------------------
\* The tables a policy shows of a connection, and what compare_schemas has to
\* tell of two of them, in a catalog.
TablesIn(tables, database) == IF database \in DOMAIN tables THEN DOMAIN tables[database] ELSE {}
Shown(tables, p, k) == {row \in TablesIn(tables, k.database) : Permits(p, k, row, "table", TRUE)}
Told(tables, p, k, l) ==
    LET first == Shown(tables, p, k)
        second == Shown(tables, p, l)
    IN {[name |-> n, status |-> IF n \notin NamesOf(second) THEN "removed"
                                ELSE IF n \notin NamesOf(first) THEN "added" ELSE "modified"] :
          n \in {m \in NamesOf(first) \cup NamesOf(second) :
                    MeansOf(tables[k.database], first, m) # MeansOf(tables[l.database], second, m)}}

\* What was listed is what the one policy shows, and so is what was compared.
ListedOK(tables, policies, k, rows) == \A p : policies = {p} => rows = Shown(tables, p, k)

DiffInv(c) ==
    /\ outcome[c] = "new" => diff[c] = {}
    /\ outcome[c] # "new" => seen[c] # {}
    /\ \A i \in DOMAIN listed[c] :
          i \in DOMAIN conns[c] /\ ListedOK(catalog, seen[c], conns[c][i], listed[c][i])
    /\ diff[c] # {} => 1 \in DOMAIN conns[c] /\ 2 \in DOMAIN conns[c]
    /\ \A d \in diff[c] : \A p : seen[c] = {p} => d = Told(catalog, p, conns[c][1], conns[c][2])

CatalogTyped == \A database \in DOMAIN catalog : IsDescription(catalog[database])

LEMMA ToldIs ==
  ASSUME NEW p, NEW k, NEW l, CatalogTyped
  PROVE  CompareSchemas(Side(k, Shown(catalog, p, k)), Side(l, Shown(catalog, p, l)))
            = Told(catalog, p, k, l)
  <1> DEFINE tables(m) == IF m.database \in DOMAIN catalog THEN catalog[m.database] ELSE <<>>
  <1>1. ASSUME NEW m
        PROVE  /\ Shown(catalog, p, m) # {} => tables(m) = catalog[m.database]
               /\ Shown(catalog, p, m) \subseteq DOMAIN tables(m)
               /\ IsDescription(tables(m))
               /\ \A n : MeansOf(tables(m), Shown(catalog, p, m), n)
                            = MeansOf(catalog[m.database], Shown(catalog, p, m), n)
    <2>1. CASE m.database \in DOMAIN catalog
      BY <2>1 DEF Shown, TablesIn, CatalogTyped
    <2>2. CASE m.database \notin DOMAIN catalog
      <3>1. Shown(catalog, p, m) = {}
        BY <2>2 DEF Shown, TablesIn
      <3>2. \A row : row \notin DOMAIN <<>>
        OBVIOUS
      <3>3. IsDescription(<<>>)
        BY <3>2 DEF IsDescription
      <3> QED
        BY <2>2, <3>1, <3>3 DEF MeansOf
    <2> QED
      BY <2>1, <2>2
  <1>2. PICK olds, news, first, second :
           /\ olds = tables(k) /\ news = tables(l)
           /\ first = Shown(catalog, p, k) /\ second = Shown(catalog, p, l)
    OBVIOUS
  <1>3. /\ first # {} => olds = catalog[k.database]
        /\ first \subseteq DOMAIN olds /\ IsDescription(olds)
        /\ second # {} => news = catalog[l.database]
        /\ second \subseteq DOMAIN news /\ IsDescription(news)
    BY <1>1, <1>2
  <1>4. \A n : /\ MeansOf(olds, first, n) = MeansOf(catalog[k.database], first, n)
               /\ MeansOf(news, second, n) = MeansOf(catalog[l.database], second, n)
    BY <1>1, <1>2
  <1> HIDE DEF tables
  <1>5. CompareSchemas(Side(k, first), Side(l, second)) =
            {[name |-> n, status |-> IF n \notin NamesOf(second) THEN "removed"
                                     ELSE IF n \notin NamesOf(first) THEN "added"
                                     ELSE "modified"] :
               n \in {m \in NamesOf(first) \cup NamesOf(second) :
                          MeansOf(olds, first, m) # MeansOf(news, second, m)}}
    BY <1>3, DiffIs
  <1> QED
    BY <1>2, <1>4, <1>5 DEF Told

\* What is told, said of the tables themselves.
SameBoth(olds, news, first, second, n) ==
    \E r \in first, s \in second : /\ Qualified(r) = n /\ Qualified(s) = n
                                   /\ SameTable(olds[r], news[s])

LEMMA SameIs ==
  ASSUME NEW olds, NEW news, NEW first, NEW second,
         first \subseteq DOMAIN olds, IsDescription(olds),
         second \subseteq DOMAIN news, IsDescription(news),
         NEW n \in NamesOf(first) \cup NamesOf(second)
  PROVE  MeansOf(olds, first, n) = MeansOf(news, second, n) <=> SameBoth(olds, news, first, second, n)
  <1> USE DEF SameBoth
  <1>1. ASSUME NEW r \in first, Qualified(r) = n
        PROVE  MeansOf(olds, first, n) = {Meaning(olds[r])}
    <2>1. \A x \in first : Qualified(x) = n => x = r
      BY <1>1, OneName DEF IsDescription
    <2>2. {x \in first : Qualified(x) = n} = {r}
      BY <1>1, <2>1
    <2> QED
      BY <2>2 DEF MeansOf
  <1>2. ASSUME NEW s \in second, Qualified(s) = n
        PROVE  MeansOf(news, second, n) = {Meaning(news[s])}
    <2>1. \A x \in second : Qualified(x) = n => x = s
      BY <1>2, OneName DEF IsDescription
    <2>2. {x \in second : Qualified(x) = n} = {s}
      BY <1>2, <2>1
    <2> QED
      BY <2>2 DEF MeansOf
  <1>3. ASSUME NEW r \in first, NEW s \in second
        PROVE  Meaning(olds[r]) = Meaning(news[s]) <=> SameTable(olds[r], news[s])
    BY <1>3, MeaningSame DEF IsDescription
  <1>4. CASE n \in NamesOf(first) /\ n \in NamesOf(second)
    <2>1. PICK r \in first, s \in second : Qualified(r) = n /\ Qualified(s) = n
      BY <1>4 DEF NamesOf
    <2>2. MeansOf(olds, first, n) = MeansOf(news, second, n) <=> SameTable(olds[r], news[s])
      BY <1>1, <1>2, <1>3, <2>1
    <2>3. ASSUME NEW x \in first, NEW y \in second, Qualified(x) = n, Qualified(y) = n,
                 SameTable(olds[x], news[y])
          PROVE  MeansOf(olds, first, n) = MeansOf(news, second, n)
      BY <1>1, <1>2, <1>3, <2>3
    <2> QED
      BY <2>1, <2>2, <2>3
  <1>5. CASE n \notin NamesOf(first)
    <2>1. MeansOf(olds, first, n) = {} /\ \A r \in first : Qualified(r) # n
      BY <1>5 DEF MeansOf, NamesOf
    <2>2. MeansOf(news, second, n) # {}
      BY <1>5 DEF MeansOf, NamesOf
    <2> QED
      BY <2>1, <2>2
  <1>6. CASE n \notin NamesOf(second)
    <2>1. MeansOf(news, second, n) = {} /\ \A s \in second : Qualified(s) # n
      BY <1>6 DEF MeansOf, NamesOf
    <2>2. MeansOf(olds, first, n) # {}
      BY <1>6 DEF MeansOf, NamesOf
    <2> QED
      BY <2>1, <2>2
  <1> QED
    BY <1>4, <1>5, <1>6

SameIn(tables, p, k, l, n) ==
    \E r \in Shown(tables, p, k), s \in Shown(tables, p, l) :
        /\ Qualified(r) = n /\ Qualified(s) = n
        /\ SameTable(tables[k.database][r], tables[l.database][s])

LEMMA ToldSame ==
  ASSUME NEW p, NEW k, NEW l, CatalogTyped,
         NEW n \in NamesOf(Shown(catalog, p, k)) \cup NamesOf(Shown(catalog, p, l))
  PROVE  MeansOf(catalog[k.database], Shown(catalog, p, k), n)
              = MeansOf(catalog[l.database], Shown(catalog, p, l), n)
            <=> SameIn(catalog, p, k, l, n)
  <1>1. PICK first, second : first = Shown(catalog, p, k) /\ second = Shown(catalog, p, l)
    OBVIOUS
  <1> DEFINE tables(m) == IF m.database \in DOMAIN catalog THEN catalog[m.database] ELSE <<>>
  <1>2. ASSUME NEW m
        PROVE  /\ Shown(catalog, p, m) # {} => tables(m) = catalog[m.database]
               /\ Shown(catalog, p, m) \subseteq DOMAIN tables(m)
               /\ IsDescription(tables(m))
    <2>1. \A row : row \notin DOMAIN <<>>
      OBVIOUS
    <2> QED
      BY <2>1 DEF Shown, TablesIn, CatalogTyped, IsDescription
  <1>3. PICK olds, news : olds = tables(k) /\ news = tables(l)
    OBVIOUS
  <1>4. /\ first # {} => olds = catalog[k.database]
        /\ second # {} => news = catalog[l.database]
        /\ first \subseteq DOMAIN olds /\ IsDescription(olds)
        /\ second \subseteq DOMAIN news /\ IsDescription(news)
    BY <1>1, <1>2, <1>3
  <1> HIDE DEF tables
  <1>5. MeansOf(olds, first, n) = MeansOf(news, second, n) <=> SameBoth(olds, news, first, second, n)
    <2>1. n \in NamesOf(first) \cup NamesOf(second)
      BY <1>1
    <2> QED
      BY <1>4, <2>1, SameIs
  <1>6. /\ MeansOf(olds, first, n) = MeansOf(catalog[k.database], first, n)
        /\ MeansOf(news, second, n) = MeansOf(catalog[l.database], second, n)
    <2>1. CASE first = {}
      BY <2>1, <1>4 DEF MeansOf
    <2>2. CASE second = {}
      BY <2>2, <1>4 DEF MeansOf
    <2>3. CASE first # {} /\ second # {}
      BY <2>3, <1>4
    <2> QED
      BY <2>1, <2>2, <2>3
  <1>7. SameBoth(olds, news, first, second, n) <=> SameIn(catalog, p, k, l, n)
    BY <1>1, <1>4 DEF SameIn, SameBoth
  <1> QED
    BY <1>1, <1>5, <1>6, <1>7

Differences(tables, p, k, l) ==
    LET first == Shown(tables, p, k)
        second == Shown(tables, p, l)
    IN {[name |-> n, status |-> IF n \notin NamesOf(second) THEN "removed"
                                ELSE IF n \notin NamesOf(first) THEN "added" ELSE "modified"] :
          n \in {m \in NamesOf(first) \cup NamesOf(second) : ~SameIn(tables, p, k, l, m)}}

LEMMA ToldIsDifferences ==
  ASSUME NEW p, NEW k, NEW l, CatalogTyped
  PROVE  Told(catalog, p, k, l) = Differences(catalog, p, k, l)
  <1>1. PICK first, second : first = Shown(catalog, p, k) /\ second = Shown(catalog, p, l)
    OBVIOUS
  <1>2. PICK M : M = {m \in NamesOf(first) \cup NamesOf(second) :
                        MeansOf(catalog[k.database], first, m) # MeansOf(catalog[l.database], second, m)}
    OBVIOUS
  <1>3. M = {m \in NamesOf(first) \cup NamesOf(second) : ~SameIn(catalog, p, k, l, m)}
    <2>1. ASSUME NEW m \in NamesOf(first) \cup NamesOf(second)
          PROVE  MeansOf(catalog[k.database], first, m) = MeansOf(catalog[l.database], second, m)
                    <=> SameIn(catalog, p, k, l, m)
      <3>1. m \in NamesOf(Shown(catalog, p, k)) \cup NamesOf(Shown(catalog, p, l))
        BY <1>1, <2>1
      <3> QED
        BY <1>1, <3>1, ToldSame
    <2> QED
      BY <1>2, <2>1
  <1>4. /\ Told(catalog, p, k, l) =
             {[name |-> n, status |-> IF n \notin NamesOf(second) THEN "removed"
                                ELSE IF n \notin NamesOf(first) THEN "added" ELSE "modified"] : n \in M}
        /\ Differences(catalog, p, k, l) =
             {[name |-> n, status |-> IF n \notin NamesOf(second) THEN "removed"
                                ELSE IF n \notin NamesOf(first) THEN "added" ELSE "modified"] : n \in M}
    BY <1>1, <1>2, <1>3 DEF Told, Differences
  <1> QED
    BY <1>4

\* The policies seen only grow, and what was given and listed is kept.
LEMMA DiffSame ==
  ASSUME NEW c \in Loader, DiffInv(c), UNCHANGED catalog,
         outcome'[c] = "new" <=> outcome[c] = "new",
         seen[c] # {} => seen'[c] # {},
         \A p : seen'[c] = {p} => seen[c] = {p},
         \A i \in DOMAIN conns[c] : i \in DOMAIN conns'[c] /\ conns'[c][i] = conns[c][i],
         listed'[c] = listed[c], diff'[c] = diff[c]
  PROVE  DiffInv(c)'
  <1>1. ASSUME NEW i \in DOMAIN listed[c]
        PROVE  i \in DOMAIN conns'[c] /\ ListedOK(catalog, seen'[c], conns'[c][i], listed[c][i])
    <2>1. /\ i \in DOMAIN conns[c] /\ ListedOK(catalog, seen[c], conns[c][i], listed[c][i])
          /\ i \in DOMAIN conns'[c] /\ conns'[c][i] = conns[c][i]
      BY <1>1 DEF DiffInv
    <2>2. PICK k, rows, before, after : /\ k = conns[c][i] /\ rows = listed[c][i]
                                        /\ before = seen[c] /\ after = seen'[c]
      OBVIOUS
    <2>3. ListedOK(catalog, before, k, rows) /\ \A p : after = {p} => before = {p}
      BY <2>1, <2>2
    <2>4. ListedOK(catalog, after, k, rows)
      BY <2>3 DEF ListedOK
    <2> QED
      BY <2>1, <2>2, <2>4
  <1>2. ASSUME NEW d \in diff[c]
        PROVE  /\ 1 \in DOMAIN conns'[c] /\ 2 \in DOMAIN conns'[c]
               /\ \A p : seen'[c] = {p} => d = Told(catalog, p, conns'[c][1], conns'[c][2])
    <2>1. /\ conns'[c][1] = conns[c][1] /\ conns'[c][2] = conns[c][2]
          /\ 1 \in DOMAIN conns'[c] /\ 2 \in DOMAIN conns'[c]
      BY <1>2 DEF DiffInv
    <2>2. \A p : seen[c] = {p} => d = Told(catalog, p, conns[c][1], conns[c][2])
      BY <1>2 DEF DiffInv
    <2> QED
      BY <2>1, <2>2
  <1>3. /\ outcome'[c] = "new" => diff'[c] = {}
        /\ outcome'[c] # "new" => seen'[c] # {}
    BY DEF DiffInv
  <1> QED
    BY <1>1, <1>2, <1>3 DEF DiffInv

\* listTables lists what the policy shows, if there was one policy.
LEMMA ListedShown ==
  ASSUME NEW c \in Loader, Lists, CallInv(c), DiffInv(c), Listed(c)
  PROVE  DiffInv(c)'
  <1>1. PICK step : step = Head(todo[c])
    OBVIOUS
  <1>2. PICK k, i, under : k = conns[c][step.on] /\ i = step.on /\ under = step.under
    OBVIOUS
  <1>3. PICK rows : rows = Visible(k, under, policy)
    OBVIOUS
  <1>4. /\ outcome[c] = "running" /\ step.op = "listed" /\ Advances(c)
        /\ listed' = [listed EXCEPT ![c] = Holding(listed[c], i, rows)]
        /\ UNCHANGED <<policy, settings, catalog, seen, conns, diff>>
    BY <1>1, <1>2, <1>3 DEF Listed, Running, Others
  <1>5. i \in DOMAIN conns[c] /\ policy \in seen[c]
    BY <1>1, <1>2, <1>4, OnConnectionHolds DEF OnConnection, CallInv
  <1>6. under \in seen[c]
    <2>1. Under(under) \in Needs(step)
      BY <1>2, <1>4 DEF Needs
    <2>2. Holds(c, Under(under))
      BY <1>1, <1>4, <2>1, HeadHolds
    <2> QED
      BY <2>2 DEF Holds, Under
  <1>7. k.dialect # "sqlite"
    BY <1>2, <1>5 DEF CallInv, ConnOK
  <1>8. ListedOK(catalog, seen[c], k, rows)
    <2> SUFFICES ASSUME NEW p, seen[c] = {p}
                 PROVE  rows = Shown(catalog, p, k)
      BY DEF ListedOK
    <2>1. under = p /\ policy = p
      BY <1>5, <1>6
    <2>2. ASSUME NEW row \in TablesIn(catalog, k.database)
          PROVE  row \in rows <=> Permits(p, k, row, "table", TRUE)
      <3>1. CASE k.dialect \in NativeMatch
        <4>1. row \in rows <=> (HasTableRestrictions(p, k) =>
                                   IdentityPredicate(p, k, row, k.database, "table", TRUE))
          BY <1>3, <1>7, <2>1, <3>1 DEF Visible, TablesOf, TablesIn
        <4>2. Permits(p, k, row, "table", TRUE) <=>
                 IdentityPredicate(p, k, row, k.database, "table", TRUE)
          BY <3>1 DEF Permits
        <4>3. ~HasTableRestrictions(p, k) => Permits(p, k, row, "table", TRUE)
          BY NoTableRules
        <4> QED
          BY <4>1, <4>2, <4>3
      <3>2. CASE k.dialect \notin NativeMatch
        <4>1. row \in rows <=> AllowsResolved(p, k, row, "table", TRUE)
          BY <1>3, <2>1, <3>2 DEF Visible, TablesOf, TablesIn
        <4> QED
          BY <3>2, <4>1 DEF Permits
      <3> QED
        BY <3>1, <3>2
    <2>3. \A row \in rows : row \in TablesIn(catalog, k.database)
      BY <1>3 DEF Visible, TablesOf, TablesIn
    <2>4. \A row : row \in Shown(catalog, p, k) <=>
             row \in TablesIn(catalog, k.database) /\ Permits(p, k, row, "table", TRUE)
      BY DEF Shown
    <2>5. \A row : row \in rows <=> row \in Shown(catalog, p, k)
      BY <2>2, <2>3, <2>4
    <2>6. Shown(catalog, p, k) \subseteq rows /\ rows \subseteq Shown(catalog, p, k)
      BY <2>5
    <2> QED
      BY <2>6
  <1>9. PICK before, after : before = listed[c] /\ after = Holding(listed[c], i, rows)
    OBVIOUS
  <1>10. /\ listed'[c] = after /\ DOMAIN after = DOMAIN before \cup {i}
         /\ \A j \in DOMAIN after : after[j] = IF j \in DOMAIN before THEN before[j] ELSE rows
    <2>1. listed'[c] = after
      BY <1>4, <1>9 DEF Lists
    <2>2. after = [j \in DOMAIN before \cup {i} |-> IF j \in DOMAIN before THEN before[j] ELSE rows]
      BY <1>9 DEF Holding
    <2> QED
      BY <2>1, <2>2
  <1>11. ASSUME NEW j \in DOMAIN after
         PROVE  j \in DOMAIN conns[c] /\ ListedOK(catalog, seen[c], conns[c][j], after[j])
    <2>1. CASE j \in DOMAIN before
      BY <1>9, <1>10, <2>1 DEF DiffInv
    <2>2. CASE j \notin DOMAIN before
      <3>1. j = i /\ after[j] = rows
        BY <1>10, <1>11, <2>2
      <3> QED
        BY <1>2, <1>5, <1>8, <3>1
    <2> QED
      BY <2>1, <2>2
  <1>12. outcome'[c] # "new" /\ seen'[c] # {}
    BY <1>4, <1>5 DEF Advances, Goes, Lists
  <1> QED
    BY <1>4, <1>10, <1>11, <1>12 DEF DiffInv

\* compare_schemas tells of the two connections what they show.
LEMMA CompareTells ==
  ASSUME NEW c \in Loader, Lists, CallInv(c), DiffInv(c), CatalogTyped, Compare(c)
  PROVE  DiffInv(c)'
  <1>1. PICK step : step = Head(todo[c])
    OBVIOUS
  <1>2. PICK k, l, first, second : /\ k = conns[c][1] /\ l = conns[c][2]
                                   /\ first = listed[c][1] /\ second = listed[c][2]
    OBVIOUS
  <1>3. PICK d : d = CompareSchemas(Side(k, first), Side(l, second))
    OBVIOUS
  <1>4. /\ outcome[c] = "running" /\ step.op = "compare" /\ Advances(c)
        /\ diff' = [diff EXCEPT ![c] = {d}]
        /\ UNCHANGED <<policy, settings, catalog, seen, conns, listed>>
    BY <1>1, <1>2, <1>3 DEF Compare, Running, Others
  <1>5. /\ 1 \in DOMAIN conns[c] /\ 2 \in DOMAIN conns[c]
        /\ 1 \in DOMAIN listed[c] /\ 2 \in DOMAIN listed[c]
    <2>1. /\ Conn(1) \in Needs(step) /\ Conn(2) \in Needs(step)
          /\ Tables(1) \in Needs(step) /\ Tables(2) \in Needs(step)
      BY <1>4 DEF Needs
    <2>2. Holds(c, Conn(1)) /\ Holds(c, Conn(2)) /\ Holds(c, Tables(1)) /\ Holds(c, Tables(2))
      BY <1>1, <1>4, <2>1, HeadHolds
    <2> QED
      BY <2>2 DEF Holds, Conn, Tables
  <1>6. ListedOK(catalog, seen[c], k, first) /\ ListedOK(catalog, seen[c], l, second)
    BY <1>2, <1>5 DEF DiffInv
  <1>7. \A p : seen[c] = {p} => d = Told(catalog, p, k, l)
    BY <1>3, <1>6, ToldIs DEF ListedOK
  <1>8. outcome'[c] # "new" /\ seen'[c] # {} /\ diff'[c] = {d}
    BY <1>4 DEF Advances, Goes, Lists, DiffInv
  <1>9. \A x \in diff'[c] : \A p : seen'[c] = {p} => x = Told(catalog', p, conns'[c][1], conns'[c][2])
    BY <1>2, <1>4, <1>7, <1>8
  <1>10. \A i \in DOMAIN listed'[c] :
            i \in DOMAIN conns'[c] /\ ListedOK(catalog', seen'[c], conns'[c][i], listed'[c][i])
    BY <1>4 DEF DiffInv
  <1> QED
    BY <1>4, <1>5, <1>8, <1>9, <1>10 DEF DiffInv

-----------------------------------------------------------------------------
\* The other steps leave alone what compare_schemas works with.
LEMMA OtherSteps ==
  ASSUME Lists, NEW c \in Loader, CallStep(c), ~Connected(c), ~Listed(c), ~Compare(c)
  PROVE  /\ outcome[c] = "running" /\ outcome'[c] # "new"
         /\ UNCHANGED <<catalog, seen, conns, listed, diff>>
  <1>1. CASE Loads(c) \/ Filtered(c) \/ Writable(c) \/ Offered(c) \/ Revision(c)
    BY <1>1 DEF Loads, Filtered, Writable, Offered, Revision, Running, Advances, Goes, Same,
                Others, Lists
  <1>2. CASE Permit(c) \/ Narrowed(c) \/ LookedUp(c) \/ Trust(c)
    BY <1>2 DEF Permit, Narrowed, LookedUp, Trust, Checking, Running, Advances, Goes, Same, Others, Lists
  <1>3. CASE Execute(c) \/ Explain(c) \/ List(c)
    BY <1>3 DEF Execute, Explain, List, Running, Advances, Goes, Same, Others, Lists
  <1>4. CASE LoadSchemas(c)
    BY <1>4 DEF LoadSchemas, Running, Advances, Goes, Same, Others, Lists
  <1>5. CASE Noted(c) \/ Kept(c) \/ OpensSession(c) \/ CallFails(c)
    BY <1>5 DEF Noted, Kept, OpensSession, CallFails, Running, Advances, Goes, Ends, Others, Lists
  <1> QED
    BY <1>1, <1>2, <1>3, <1>4, <1>5 DEF CallStep

\* A connection given later takes the place of none.
LEMMA ConnectedKeeps ==
  ASSUME Lists, NEW c \in Loader, Connected(c)
  PROVE  /\ outcome[c] = "running" /\ outcome'[c] # "new"
         /\ UNCHANGED <<catalog, seen, listed, diff>>
         /\ \A i \in DOMAIN conns[c] : i \in DOMAIN conns'[c] /\ conns'[c][i] = conns[c][i]
  <1>1. PICK step : step = Head(todo[c])
    OBVIOUS
  <1>2. PICK k : conns' = [conns EXCEPT ![c] = Holding(conns[c], step.on, k)]
    BY <1>1 DEF Connected
  <1>3. PICK before, after, i : before = conns[c] /\ i = step.on /\ after = Holding(before, i, k)
    OBVIOUS
  <1>4. conns'[c] = after
    BY <1>2, <1>3 DEF Lists
  <1>5. \A j \in DOMAIN before : j \in DOMAIN after /\ after[j] = before[j]
    BY <1>3 DEF Holding
  <1>6. /\ outcome[c] = "running" /\ outcome'[c] # "new"
        /\ UNCHANGED <<catalog, seen, listed, diff>>
    BY DEF Connected, Running, Advances, Goes, Others, Lists
  <1> QED
    BY <1>3, <1>4, <1>5, <1>6

LEMMA DiffGoesOn ==
  ASSUME Lists, CatalogTyped, NEW c \in Loader, CallInv(c), DiffInv(c), Ask(c) \/ CallStep(c)
  PROVE  DiffInv(c)'
  <1>1. CASE Ask(c)
    <2>1. /\ outcome[c] = "new" /\ outcome'[c] # "new" /\ seen'[c] = {policy}
          /\ UNCHANGED <<conns, listed, diff>>
      BY <1>1 DEF Ask, Goes, Ends, Lists
    <2>2. listed[c] = <<>> /\ diff[c] = {}
      BY <2>1 DEF CallInv, DiffInv
    <2>3. \A i : i \notin DOMAIN <<>>
      OBVIOUS
    <2> QED
      BY <2>1, <2>2, <2>3 DEF DiffInv
  <1>2. CASE Connected(c)
    BY <1>2, ConnectedKeeps, DiffSame
  <1>3. CASE CallStep(c) /\ ~Connected(c) /\ ~Listed(c) /\ ~Compare(c)
    BY <1>3, OtherSteps, DiffSame
  <1> QED
    BY <1>1, <1>2, <1>3, ListedShown, CompareTells

DiffsInv == CallsInv /\ CatalogTyped /\ \A c \in Loader : DiffInv(c)

LEMMA DiffsInvInit == ToolInit => DiffsInv
  <1> SUFFICES ASSUME ToolInit
               PROVE  DiffsInv
    OBVIOUS
  <1>1. CallsInv /\ CatalogTyped
    BY CallsInvInit DEF ToolInit, CatalogTyped
  <1>2. ASSUME NEW c \in Loader
        PROVE  DiffInv(c)
    <2>1. outcome[c] = "new" /\ listed[c] = <<>> /\ diff[c] = {}
      BY DEF ToolInit
    <2>2. \A i : i \notin DOMAIN <<>>
      OBVIOUS
    <2> QED
      BY <2>1, <2>2 DEF DiffInv
  <1> QED
    BY <1>1, <1>2 DEF DiffsInv

LEMMA DiffsInvNext == NoSqlite /\ DiffsInv /\ [ToolNext]_toolVars => DiffsInv'
  <1> SUFFICES ASSUME NoSqlite, DiffsInv, [ToolNext]_toolVars
               PROVE  DiffsInv'
    OBVIOUS
  <1>1. CallsInv'
    BY CallsInvNext DEF DiffsInv
  <1>2. Lists /\ CatalogTyped /\ \A c \in Loader : CallInv(c) /\ DiffInv(c)
    BY DEF DiffsInv, CallsInv
  <1>3. ASSUME NEW c \in Loader, Ask(c) \/ CallStep(c)
        PROVE  UNCHANGED catalog /\ \A d \in Loader : DiffInv(d)'
    <2>1. DiffInv(c)'
      BY <1>2, <1>3, DiffGoesOn
    <2>2. ASSUME NEW d \in Loader \ {c}
          PROVE  DiffInv(d)'
      <3>1. /\ outcome'[d] = outcome[d] /\ conns'[d] = conns[d] /\ listed'[d] = listed[d]
            /\ diff'[d] = diff[d] /\ seen'[d] = seen[d] /\ UNCHANGED catalog
        BY <1>2, <1>3, OneCall
      <3> QED
        BY <1>2, <3>1, DiffSame
    <2> QED
      BY <1>2, <1>3, <2>1, <2>2, OneCall
  <1>4. ASSUME UNCHANGED <<policy, settings, catalog, callVars>>
        PROVE  UNCHANGED catalog /\ \A d \in Loader : DiffInv(d)'
    BY <1>2, <1>4, DiffSame DEF callVars
  <1>5. ASSUME UNCHANGED toolVars \/ Parses \/ IdentityChanges \/ TimePasses \/ FilesChange
        PROVE  UNCHANGED catalog /\ \A d \in Loader : DiffInv(d)'
    BY <1>4, <1>5 DEF toolVars, Parses, IdentityChanges, TimePasses, FilesChange
  <1>6. ASSUME NEW p \in Policies, PolicyChanges(p)
        PROVE  UNCHANGED catalog /\ \A d \in Loader : DiffInv(d)'
    <2>1. UNCHANGED <<catalog, outcome, conns, listed, diff>>
      BY <1>6 DEF PolicyChanges
    <2>2. ASSUME NEW d \in Loader
          PROVE  DiffInv(d)'
      <3>1. seen'[d] = IF outcome[d] = "running" THEN seen[d] \cup {p} ELSE seen[d]
        BY <1>6 DEF PolicyChanges
      <3>2. CASE outcome[d] # "running"
        BY <1>2, <2>1, <3>1, <3>2, DiffSame
      <3>3. CASE outcome[d] = "running"
        <4>1. policy \in seen[d] /\ p # policy
          BY <1>2, <1>6, <3>3 DEF CallInv, PolicyChanges
        <4>2. \A q : seen'[d] # {q}
          BY <3>1, <3>3, <4>1
        <4>3. seen'[d] # {}
          BY <3>1, <3>3
        <4> QED
          BY <1>2, <2>1, <4>2, <4>3, DiffSame
      <3> QED
        BY <3>2, <3>3
    <2> QED
      BY <2>1, <2>2
  <1>7. ASSUME Restart
        PROVE  UNCHANGED catalog /\ \A d \in Loader : DiffInv(d)'
    <2>1. /\ UNCHANGED <<catalog, conns, listed, diff, seen>>
          /\ \A d \in Loader : outcome'[d] = IF outcome[d] = "running" THEN "failed" ELSE outcome[d]
      BY <1>7 DEF Restart
    <2> QED
      BY <1>2, <2>1, DiffSame
  <1>8. UNCHANGED catalog /\ \A d \in Loader : DiffInv(d)'
    BY <1>3, <1>5, <1>6, <1>7 DEF ToolNext
  <1> QED
    BY <1>1, <1>2, <1>8 DEF DiffsInv, CatalogTyped

\* While one policy is in force, compare_schemas tells exactly the differences
\* between what it shows of the two databases, whatever the tables: their
\* types are compared word by word and size by size.
THEOREM DiffExactAlways ==
  ASSUME \A id \in DOMAIN describes : describes[id].dialect # "sqlite"
  PROVE  ToolSpec => []DiffExact
  <1>1. DiffsInv /\ [ToolNext]_toolVars => DiffsInv'
    BY DiffsInvNext DEF NoSqlite
  <1>2. DiffsInv => DiffExact
    <2> SUFFICES ASSUME DiffsInv, NEW c \in Loader, NEW d \in diff[c], NEW p \in seen[c],
                        seen[c] = {p}
                 PROVE  d = Differences(catalog, p, conns[c][1], conns[c][2])
      BY DEF DiffExact, Differences, SameIn, Shown, TablesIn, TablesOf, NamesOf
    <2>1. d = Told(catalog, p, conns[c][1], conns[c][2]) /\ CatalogTyped
      BY DEF DiffsInv, DiffInv
    <2> QED
      BY <2>1, ToldIsDifferences
  <1> QED
    BY DiffsInvInit, <1>1, <1>2, PTL DEF ToolSpec

=============================================================================
