------------------------------ MODULE ToolCalls ------------------------------
(***************************************************************************)
(* server.ts and workspace-client.ts: the tool calls of the server, and    *)
(* the resources it offers.  A call passes the guards of the request       *)
(* handler, loads the connections, selects one, and goes through what its  *)
(* handler does with the database, reading the access policy anew at every *)
(* step, while the policy, the configuration files and the AWS identity    *)
(* change under it.  What the adapters do with an admitted statement is in *)
(* QueryExecution, and what the transaction and the result tools do in     *)
(* Transactions and ResultArtifacts.                                       *)
(***************************************************************************)
EXTENDS Workspace, Notes, IamAuth, PolicyRules, Selection, SchemaDiff

CONSTANTS
  Policies,        (* contents of the policy file                          *)
  describes,       (* what the configuration says of a connection, by id   *)
  Routine          (* the functions of the databases                       *)

VARIABLES
  policy,          (* the policy file                                      *)
  settings,        (* OMNISQL_READ_ONLY, _DISABLED_TOOLS, _ALLOWED_CONNECTIONS *)
  catalog,         (* the tables of each database                          *)
  request,         (* what each call asks for                              *)
  outcome,         (* how far a call has got                               *)
  todo,            (* what its handler has left to do                      *)
  conns,           (* the connections it was given, the first and a second *)
  listed,          (* the tables listTables returned it of them            *)
  diff,            (* the result of its compare_schemas                    *)
  seen,            (* the policies there were while it ran                 *)
  ran              (* what databases did or told for it                    *)

callVars == <<request, outcome, todo, conns, listed, diff, seen, ran>>
toolVars == <<workspaceVars, notesVars, iamVars, policy, settings, catalog, callVars>>

ASSUME ToolAssumption ==
    /\ NoteCall = Loader /\ Client = Loader
    /\ Scope = [sources : UNION {[S -> [connections : Contents, credentials : Contents]] :
                                   S \in SUBSET Place},
                configured : Contents, policy : Policies]
    /\ \A v \in Sound : \A id \in holds[v] :
          id \in DOMAIN describes /\ id \in Seq({id[i] : i \in DOMAIN id})

-----------------------------------------------------------------------------
WRITE_TOOLS == {"write_query", "create_table", "alter_table", "drop_table", "begin_transaction",
                "commit_transaction", "rollback_transaction", "execute_in_transaction"}
Reading == {"execute_query", "export_data", "explain_query"}
WriteOperation == [write_query |-> {"insert", "update", "delete"},
                   create_table |-> {"create"}, alter_table |-> {"alter"}]

\* The tools that a resource shows the answers of; each can be disabled.
Offering(resource) == CASE resource = "connections" -> {"list_connections", "list_tables"}
                        [] resource = "connection" -> {"get_connection_info"}
                        [] resource = "tables" -> {"list_tables"}
                        [] resource = "schema" -> {"get_table_schema"}

\* The tools that take the name of a database.
DATABASE_TOOLS == DOMAIN WriteOperation \cup Reading \cup
    {"drop_table", "begin_transaction", "list_tables", "get_table_schema", "get_database_stats",
     "get_table_stats", "test_connection", "get_pool_stats"}
Resource == {"connections", "connection", "tables", "schema"}

\* The tools and resources whose handlers follow.
Tool == DATABASE_TOOLS \cup Resource \cup
    {"list_connections", "get_connection_info", "list_databases", "compare_schemas",
     "append_insight", "list_insights"}

\* The request handlers' guards, and what a handler checks before it first
\* waits: the ids' form, the kind of statement, the confirmation.
Refused(a) == \/ a.tool \notin Tool \/ ~a.valid
              \/ a.database # {} /\ a.tool \notin DATABASE_TOOLS
              \/ settings.readOnly /\ a.tool \in WRITE_TOOLS
              \/ a.tool \in settings.disabled
              \/ /\ a.tool \in {"connections", "schema"}
                 /\ settings.disabled \cap Offering(a.tool) # {}
              \/ /\ ~Sanitized(a.connectionId)
                 /\ a.tool \notin {"get_table_stats", "append_insight"} \cup Resource
              \/ a.tool = "compare_schemas" /\ ~Sanitized(a.targetId)
              \/ a.tool \in Reading /\ ~ReadStatement(a.query)
              \/ /\ a.tool \in DOMAIN WriteOperation
                 /\ a.query.operation \notin WriteOperation[a.tool]

\* Statements of the server's own: about a table, about the catalog, DROP.
Describes(parts) == [operation |-> "select", relations |-> {parts}, functions |-> {},
                     builtins |-> {}, writes |-> FALSE, opaque |-> FALSE]
CatalogQuery == [Describes(<<>>) EXCEPT !.relations = {}]
Drops(parts) == [Describes(parts) EXCEPT !.operation = "drop", !.writes = TRUE]

\* The steps of the handlers; i says which of the call's connections is meant.
Step(op, i) == [op |-> op, on |-> i]
With(op, i, q) == [op |-> op, on |-> i, query |-> q]

Trusted(i, q) == <<With("trust", i, q), With("execute", i, q)>>
Permitting(i, q, readOnly) == <<[op |-> "permit", on |-> i, query |-> q, readOnly |-> readOnly]>>
Query(i, q, readOnly) == Permitting(i, q, readOnly) \o <<With("execute", i, q)>>
Narrow(i, table) == <<[op |-> "narrow", on |-> i, table |-> table]>>
GetTableSchema(i, table) ==
    Narrow(i, table) \o Trusted(i, Describes(table)) \o Trusted(i, Describes(table))
ListTables(i) == <<Step("list", i)>>
Connect(i, connectionId, database) ==
    <<[op |-> "connect", on |-> i, connectionId |-> connectionId, database |-> database]>>

Selected(a) == Connect(1, a.connectionId, a.database)
Source(n) == <<Step("revision", n)>>
Write(a) == Selected(a) \o <<Step("writable", 1)>>

handleListConnections(a) == <<Step("filter", 0)>>
handleGetConnectionInfo(a) == Selected(a)
handleListDatabases(a) ==
    Selected(a) \o Source(1) \o Trusted(1, CatalogQuery) \o <<Step("databases", 1)>>
handleListTables(a) == Selected(a) \o Source(1) \o ListTables(1)
getTableStats(a) == Selected(a) \o Source(1) \o Narrow(1, a.table) \o Trusted(1, Describes(a.table))
handleGetTableSchema(a) == Selected(a) \o Source(1) \o GetTableSchema(1, a.table)
handleGetDatabaseStats(a) == Selected(a) \o Source(1) \o ListTables(1) \o Trusted(1, CatalogQuery)
handleTestConnection(a) == Selected(a) \o Trusted(1, CatalogQuery)
handleGetPoolStats(a) == Selected(a)
handleExecuteQuery(a) == Selected(a) \o Source(1) \o Query(1, a.query, TRUE)
handleExportData(a) == Selected(a) \o Source(1) \o Query(1, a.query, TRUE)
handleWriteQuery(a) == Write(a) \o Query(1, a.query, FALSE)
handleCreateTable(a) == Write(a) \o Query(1, a.query, FALSE)
handleAlterTable(a) == Write(a) \o Query(1, a.query, FALSE)
handleDropTable(a) == Write(a) \o GetTableSchema(1, a.table) \o Query(1, Drops(a.table), FALSE)
handleExplainQuery(a) ==
    Selected(a) \o Permitting(1, a.query, TRUE) \o <<With("explain", 1, a.query)>>
handleCompareSchemas(a) ==
    Selected(a) \o Connect(2, a.targetId, {}) \o Source(2) \o ListTables(1) \o ListTables(2)
    \o <<Step("load", 1), Step("load", 2), Step("compare", 2)>>
handleAppendInsight(a) == <<Step("note", 0)>> \o Selected(a) \o <<Step("append", 0)>>
handleListInsights(a) == <<Step("note", 0), Step("filter", 0), Step("show", 0)>>
handleBeginTransaction(a) == Write(a)

\* A resource; whether it may be shown is asked when its connection is known.
ReadResource(a) ==
    Selected(a) \o CASE a.tool = "connection" -> <<Step("offered", 1)>>
                     [] a.tool = "tables" -> <<Step("offered", 1)>> \o Source(1) \o ListTables(1)
                     [] a.tool = "schema" -> Source(1) \o GetTableSchema(1, a.table)

Handler(a) == CASE a.tool \in {"list_connections", "connections"} -> handleListConnections(a)
                [] a.tool = "get_connection_info" -> handleGetConnectionInfo(a)
                [] a.tool = "list_databases" -> handleListDatabases(a)
                [] a.tool = "list_tables" -> handleListTables(a)
                [] a.tool = "get_table_stats" -> getTableStats(a)
                [] a.tool = "get_table_schema" -> handleGetTableSchema(a)
                [] a.tool = "get_database_stats" -> handleGetDatabaseStats(a)
                [] a.tool = "test_connection" -> handleTestConnection(a)
                [] a.tool = "get_pool_stats" -> handleGetPoolStats(a)
                [] a.tool = "execute_query" -> handleExecuteQuery(a)
                [] a.tool = "export_data" -> handleExportData(a)
                [] a.tool = "write_query" -> handleWriteQuery(a)
                [] a.tool = "create_table" -> handleCreateTable(a)
                [] a.tool = "alter_table" -> handleAlterTable(a)
                [] a.tool = "drop_table" -> handleDropTable(a)
                [] a.tool = "explain_query" -> handleExplainQuery(a)
                [] a.tool = "compare_schemas" -> handleCompareSchemas(a)
                [] a.tool = "append_insight" -> handleAppendInsight(a)
                [] a.tool = "list_insights" -> handleListInsights(a)
                [] a.tool = "begin_transaction" -> handleBeginTransaction(a)
                [] a.tool \in Resource \ {"connections"} -> ReadResource(a)

-----------------------------------------------------------------------------
\* The scope of the notes: stateRevision and the policy's revision.
ScopeNow == [sources |-> Signature, configured |-> configured, policy |-> policy]

Running(c, op) == outcome[c] = "running" /\ Head(todo[c]).op = op

\* The call has these steps left and no others.
Goes(c, rest) == /\ todo' = [todo EXCEPT ![c] = rest]
                 /\ outcome' = [outcome EXCEPT ![c] = IF rest = <<>> THEN "answered" ELSE "running"]
Advances(c) == Goes(c, Tail(todo[c]))
Ends(c) == /\ todo' = [todo EXCEPT ![c] = <<>>]
           /\ outcome' = [outcome EXCEPT ![c] = "failed"]

Others == <<policy, settings, catalog, request, seen>>

Ask(c) ==
    /\ outcome[c] = "new"
    /\ IF Refused(request[c]) THEN Ends(c) ELSE Goes(c, Handler(request[c]))
    /\ seen' = [seen EXCEPT ![c] = {policy}]
    /\ UNCHANGED <<workspaceVars, notesVars, iamVars, policy, settings, catalog, request,
                   conns, listed, diff, ran>>

\* parseConnections, which may have to wait.
Loads(c) ==
    /\ Running(c, "connect") \/ Running(c, "filter")
    /\ ConfigFails(c) \/ Cached(c) \/ Load(c)
    /\ UNCHANGED <<Others, outcome, todo, conns, listed, diff, ran>>
    /\ ScopeBecomes(ScopeNow')
    /\ UNCHANGED <<files, notesScope, store, insights, noting, spoilt, iamVars>>

\* A saved connection as the parser returns it.
Saved(entry, all) ==
    LET d == describes[entry.id]
    IN [id |-> entry.id, baseId |-> entry.id, name |-> d.name, dialect |-> d.dialect,
        database |-> d.database, schema |-> d.schema, readonly |-> d.readonly,
        accessRules |-> d.accessRules, entry |-> entry, among |-> all]
Connections(c) == {Saved(entry, loaded[c]) : entry \in loaded[c]}

\* A handler's variable is given its value once.
Holding(given, i, value) ==
    [j \in DOMAIN given \cup {i} |-> IF j \in DOMAIN given THEN given[j] ELSE value]

\* getConnection: the connection selected, if it is on the list and in the
\* policy; otherwise the call fails.
Connected(c) ==
    LET step == Head(todo[c])
        given == {k \in Select(Connections(c), step.connectionId, step.database) :
                     IsConnectionAllowed(settings.allowed, k)}
    IN /\ Running(c, "connect") /\ loading[c] = "loaded" /\ policy.sound
       /\ Used(c)
       /\ \E k \in given :
             /\ AllowsDatabase(policy, k, k.database)
             /\ conns' = [conns EXCEPT ![c] = Holding(conns[c], step.on, k)]
       /\ Advances(c)
       /\ UNCHANGED <<notesVars, iamVars, Others, listed, diff, ran>>

\* getFilteredConnections.
Filtered(c) ==
    /\ Running(c, "filter") /\ loading[c] = "loaded" /\ policy.sound
    /\ Used(c)
    /\ Advances(c)
    /\ UNCHANGED <<notesVars, iamVars, Others, conns, listed, diff, ran>>

Same == <<workspaceVars, notesVars, iamVars, Others, conns, listed, diff, ran>>

\* The handler of a write asks whether the connection may be written.
Writable(c) == /\ Running(c, "writable") /\ policy.sound
               /\ ~IsReadOnly(policy, conns[c][Head(todo[c]).on])
               /\ Advances(c) /\ UNCHANGED Same

\* A resource is not shown where its tool is disabled.
Offered(c) == /\ Running(c, "offered")
              /\ settings.disabled \cap Offering(request[c].tool) = {}
              /\ Advances(c) /\ UNCHANGED Same

\* artifactSource and catalogSource take down the revision of the policy;
\* list_databases reads the policy once more for its answer.
Revision(c) == /\ Running(c, "revision") \/ Running(c, "databases")
               /\ policy.sound /\ Advances(c) /\ UNCHANGED Same

-----------------------------------------------------------------------------
\* A session is needed first where AWS has to vouch for the user.
Session(k) == IF k.id \in Iam THEN <<[op |-> "session", iam |-> k.id]>> ELSE <<>>
LookUp(i, refs) == <<[op |-> "look_up", on |-> i, refs |-> refs, under |-> policy]>>

\* The look-up comes next, for names that have to be checked.
Checking(c, i, refs) ==
    Goes(c, (IF refs = {} THEN <<>> ELSE Session(conns[c][i]) \o LookUp(i, refs)) \o Tail(todo[c]))

\* executeQuery and assertQueryAccess as far as checkQueryAccess's await.
Permit(c) ==
    /\ Running(c, "permit")
    /\ LET step == Head(todo[c])
           k == conns[c][step.on]
       IN /\ AssertQuery(policy, k, step.query, step.readOnly \/ settings.readOnly)
          /\ Checking(c, step.on, IF IsDatabaseScoped(policy, k) THEN References(step.query) ELSE {})
    /\ UNCHANGED Same

\* assertTableAccess as far as its await.
Narrowed(c) ==
    /\ Running(c, "narrow") /\ policy.sound
    /\ LET step == Head(todo[c])
           k == conns[c][step.on]
       IN /\ AllowsDatabase(policy, k, k.database)
          /\ ~ScopeError(policy, k, step.table, "table")
          /\ Checking(c, step.on, IF HasTableRestrictions(policy, k)
                                  THEN {[kind |-> "table", parts |-> step.table]} ELSE {})
    /\ UNCHANGED Same

\* The tables of a database; one that is not there has none.
TablesOf(database) == IF database \in DOMAIN catalog THEN DOMAIN catalog[database] ELSE {}

\* What a name refers to in the selected database; on some engines the
\* look-up takes the schema from the session.
Rows(k, ref) ==
    {row \in IF ref.kind = "table" THEN TablesOf(k.database) ELSE Routine :
        /\ row.name = ref.parts[Len(ref.parts)]
        /\ row.schema = IF Len(ref.parts) = 1 \/ k.dialect \in {"mysql", "clickhouse", "sqlite"}
                        THEN k.schema ELSE ref.parts[Len(ref.parts) - 1]}

\* The answer of the look-up: one row for each name, and each permitted by
\* the policy it was asked under or by today's.
LookedUp(c) ==
    /\ Running(c, "look_up")
    /\ LET step == Head(todo[c])
           k == conns[c][step.on]
       IN \A ref \in step.refs :
             /\ Cardinality(Rows(k, ref)) = 1
             /\ \A row \in Rows(k, ref) :
                   AssertResolved(policy, k, row, ref, Permitted(step.under, k, row, ref))
    /\ Advances(c)
    /\ UNCHANGED Same

\* executeQuery of the server's own statements checks the database alone.
Trust(c) ==
    /\ Running(c, "trust") /\ policy.sound
    /\ LET k == conns[c][Head(todo[c]).on]
       IN /\ AllowsDatabase(policy, k, k.database)
          /\ Goes(c, Session(k) \o Tail(todo[c]))
    /\ UNCHANGED Same

\* The adapter is given the statement.
Run(k, q) == [conn |-> k, writes |-> q.writes,
              rows |-> UNION {{[row |-> row, kind |-> ref.kind, bare |-> Len(ref.parts) = 1] :
                                  row \in Rows(k, ref)} : ref \in References(q)},
              foreign |-> \E ref \in References(q) : Foreign(k, ref.parts, ref.kind)]

Execute(c) ==
    /\ Running(c, "execute")
    /\ LET step == Head(todo[c])
       IN ran' = [ran EXCEPT ![c] = @ \cup {Run(conns[c][step.on], step.query)}]
    /\ Advances(c)
    /\ UNCHANGED <<workspaceVars, notesVars, iamVars, Others, conns, listed, diff>>

\* explain_query after its check: SQL Server checks again and runs on the
\* pool, Oracle runs on a session of its own, the others run a statement of
\* the server's.
Explain(c) ==
    /\ Running(c, "explain")
    /\ LET step == Head(todo[c])
           dialect == conns[c][step.on].dialect
       IN Goes(c, (CASE dialect = "mssql" -> Query(step.on, step.query, TRUE)
                     [] dialect = "oracle" -> <<With("execute", step.on, step.query)>>
                     [] OTHER -> Trusted(step.on, step.query)) \o Tail(todo[c]))
    /\ UNCHANGED Same

-----------------------------------------------------------------------------
\* listTables: the catalog query carries the predicate of the policy then.
List(c) ==
    /\ Running(c, "list") /\ policy.sound
    /\ LET i == Head(todo[c]).on
       IN Goes(c, Trusted(i, CatalogQuery) \o <<[op |-> "listed", on |-> i, under |-> policy]>>
                  \o Tail(todo[c]))
    /\ UNCHANGED Same

\* Where the server does not compare, the rows are filtered by today's.
Visible(k, under, today) ==
    {row \in TablesOf(k.database) :
        IF k.dialect \in NativeMatch
        THEN HasTableRestrictions(under, k) =>
                 IdentityPredicate(under, k, row, IF k.dialect = "sqlite" THEN "" ELSE k.database,
                                   "table", TRUE)
        ELSE AllowsResolved(today, k, row, "table", TRUE)}

Listed(c) ==
    /\ Running(c, "listed") /\ policy.sound
    /\ LET step == Head(todo[c])
           k == conns[c][step.on]
           rows == Visible(k, step.under, policy)
       IN /\ listed' = [listed EXCEPT ![c] = Holding(listed[c], step.on, rows)]
          /\ ran' = [ran EXCEPT ![c] = @ \cup {[conn |-> k, writes |-> FALSE, foreign |-> FALSE,
                         rows |-> {[row |-> row, kind |-> "table", bare |-> TRUE] : row \in rows}]}]
    /\ Advances(c)
    /\ UNCHANGED <<workspaceVars, notesVars, iamVars, Others, conns, diff>>

\* compare_schemas reads the tables of each side, under the names listed.
\* Those of a batch of four go side by side in the code.
LoadSchemas(c) ==
    /\ Running(c, "load") \/ Running(c, "load_rest")
    /\ LET step == Head(todo[c])
           left == IF step.op = "load" THEN listed[c][step.on] ELSE step.left
           rest(row) == <<[op |-> "load_rest", on |-> step.on, left |-> left \ {row}]>>
       IN \/ left = {} /\ Advances(c)
          \/ \E row \in left :
                Goes(c, GetTableSchema(step.on, Qualified(row)) \o rest(row) \o Tail(todo[c]))
    /\ UNCHANGED Same

Side(k, rows) == LET at(n) == CHOOSE row \in rows : Qualified(row) = n
                 IN [n \in {Qualified(row) : row \in rows} |->
                        ComparableSchema(catalog[k.database][at(n)])]

Compare(c) ==
    /\ Running(c, "compare")
    /\ diff' = [diff EXCEPT ![c] = {CompareSchemas(Side(conns[c][1], listed[c][1]),
                                             Side(conns[c][2], listed[c][2]))}]
    /\ Advances(c)
    /\ UNCHANGED <<workspaceVars, notesVars, iamVars, Others, conns, listed, ran>>

-----------------------------------------------------------------------------
\* The notes tools; the scope is a digest of what has to be readable.
Noted(c) ==
    /\ Running(c, "note") /\ policy.sound /\ configured \in Sound \cup {Missing}
    /\ \/ Refresh(c) /\ Advances(c)
       \/ RefreshFails(c) /\ Ends(c)
    /\ UNCHANGED <<workspaceVars, iamVars, Others, conns, listed, diff, ran>>

Kept(c) == /\ \/ Running(c, "append") /\ AppendInsight(c)
              \/ Running(c, "show") /\ ListInsights(c)
           /\ Advances(c)
           /\ UNCHANGED <<workspaceVars, iamVars, Others, conns, listed, diff, ran>>

\* A session of the pool, or a new one: who we are, a token, the log-in.
OpensSession(c) ==
    /\ Running(c, "session")
    /\ \E k \in Iam :
          /\ k = Head(todo[c]).iam
          /\ \/ poolUser[k] # {} /\ login[c] = Idle /\ UNCHANGED iamVars /\ Advances(c)
             \/ Resolve(c, k) /\ UNCHANGED <<todo, outcome>>
             \/ (Identified(c) \/ Signs(c) \/ Minted(c)) /\ UNCHANGED <<todo, outcome>>
             \/ LoggedIn(c) /\ Advances(c)
    /\ UNCHANGED <<workspaceVars, notesVars, Others, conns, listed, diff, ran>>

\* The call ends with an error: a check above does not hold, or what it waits
\* for fails, takes too long or exceeds a budget.  Only a parse it has joined
\* is always waited for.
CallFails(c) ==
    /\ outcome[c] = "running" /\ loading[c] # "waiting"
    /\ Ends(c)
    /\ IF loading[c] = "no" THEN UNCHANGED workspaceVars ELSE Used(c)
    /\ IF noting[c] = "fresh" THEN NoteRefused(c) ELSE UNCHANGED notesVars
    /\ IF login[c] = Idle THEN UNCHANGED iamVars ELSE CliFails(c) \/ LoggedIn(c)
    /\ UNCHANGED <<Others, conns, listed, diff, ran>>

CallStep(c) == \/ Loads(c) \/ Connected(c) \/ Filtered(c) \/ Writable(c) \/ Offered(c) \/ Revision(c)
               \/ Permit(c) \/ Narrowed(c) \/ LookedUp(c) \/ Trust(c) \/ Execute(c)
               \/ Explain(c) \/ List(c) \/ Listed(c) \/ LoadSchemas(c) \/ Compare(c)
               \/ Noted(c) \/ Kept(c) \/ OpensSession(c) \/ CallFails(c)

-----------------------------------------------------------------------------
\* A parse goes on, whoever waits for it.
Parses == Parse /\ UNCHANGED <<notesVars, iamVars, policy, settings, catalog, callVars>>

\* The operator, DBeaver and the AWS CLI's user do as they like.
FilesChange == /\ EditFile \/ EditConfig
               /\ UNCHANGED policy
               /\ ScopeBecomes(ScopeNow')
               /\ UNCHANGED <<files, notesScope, store, insights, noting, spoilt, iamVars,
                              settings, catalog, callVars>>

PolicyChanges(p) ==
    /\ p # policy /\ policy' = p
    /\ seen' = [c \in Loader |-> IF outcome[c] = "running" THEN seen[c] \cup {p} ELSE seen[c]]
    /\ UNCHANGED workspaceVars
    /\ ScopeBecomes(ScopeNow')
    /\ UNCHANGED <<files, notesScope, store, insights, noting, spoilt, iamVars, settings, catalog,
                   request, outcome, todo, conns, listed, diff, ran>>

IdentityChanges == /\ \E p \in Profile : SwitchIdentity(p)
                   /\ UNCHANGED <<workspaceVars, notesVars, policy, settings, catalog, callVars>>

TimePasses == /\ Tick
              /\ UNCHANGED <<workspaceVars, notesVars, policy, settings, catalog, callVars>>

\* The process ends, with the calls it had, and is started again.
Restart == /\ WorkspaceRestart /\ IamRestart /\ UNCHANGED policy
           /\ scope' = ScopeNow' /\ NotesRestart
           /\ outcome' = [c \in Loader |-> IF outcome[c] = "running" THEN "failed" ELSE outcome[c]]
           /\ todo' = [c \in Loader |-> <<>>]
           /\ UNCHANGED <<settings, catalog, request, conns, listed, diff, seen, ran>>

ToolInit ==
    /\ WorkspaceInit /\ policy \in Policies
    /\ scope = ScopeNow /\ NotesInit
    /\ IamInit
    /\ \A database \in DOMAIN catalog : IsDescription(catalog[database])
    /\ outcome = [c \in Loader |-> "new"]
    /\ todo = [c \in Loader |-> <<>>] /\ conns = [c \in Loader |-> <<>>]
    /\ listed = [c \in Loader |-> <<>>] /\ diff = [c \in Loader |-> {}]
    /\ seen = [c \in Loader |-> {}] /\ ran = [c \in Loader |-> {}]

ToolNext == \/ \E c \in Loader : Ask(c) \/ CallStep(c)
            \/ \E p \in Policies : PolicyChanges(p)
            \/ Parses \/ FilesChange \/ IdentityChanges \/ TimePasses \/ Restart

ToolSpec == ToolInit /\ [][ToolNext]_toolVars

-----------------------------------------------------------------------------
Permits(p, k, row, kind, bare) ==
    IF k.dialect \in NativeMatch THEN IdentityPredicate(p, k, row, k.database, kind, bare)
    ELSE AllowsResolved(p, k, row, kind, bare)

\* Whatever a database does or tells for a call, each part of it - the
\* database, the right to write, every table and function it reaches, wherever
\* they are - was allowed by a policy in force while the call ran, however the
\* policy changes between the checks and the awaits (workspace-client.ts:128).
RunsAllowed == \A c \in Loader : \A r \in ran[c] :
    /\ \E p \in seen[c] : AllowsDatabase(p, r.conn, r.conn.database)
    /\ r.writes => /\ ~settings.readOnly
                   /\ \E p \in seen[c] : ~IsReadOnly(p, r.conn)
    /\ r.foreign => \E p \in seen[c] : ~IsDatabaseScoped(p, r.conn)
    /\ \A o \in r.rows : \E p \in seen[c] :
          IsDatabaseScoped(p, r.conn) => Permits(p, r.conn, o.row, o.kind, o.bare)

\* The rules mean the same in JavaScript and in SQL, for every table and
\* function and however it is written, so that an engine's own comparison
\* of names decides nothing but which names are the same
\* (policy/identities.ts:67, policy/access.ts:132).
PredicatesAgree == \A k \in {Saved([id |-> id], {}) : id \in DOMAIN describes} :
    LET same(row, kind) == \A bare \in BOOLEAN :
            AllowsResolved(policy, k, row, kind, bare)
                <=> IdentityPredicate(policy, k, row, k.database, kind, bare)
    IN policy.sound => /\ \A row \in TablesOf(k.database) : same(row, "table")
                       /\ \A row \in Routine : same(row, "function")

\* One id, as pools, results and transactions are kept by, stands for one
\* database of one saved connection, whichever ids, names and databases calls
\* select by (config-parser.ts:605).
IdsNameOneTarget == \A c, d \in Loader : \A i \in DOMAIN conns[c], j \in DOMAIN conns[d] :
    conns[c][i].id = conns[d][j].id /\ conns[c][i].among = conns[d][j].among
        => conns[c][i] = conns[d][j]

\* While the policy stays as it is, compare_schemas tells exactly the
\* differences between what the policy shows of the two databases: a name is
\* told unless both show a table of that name and the two are the same,
\* however their engines spell and complete the types
\* (server.ts:2049, utils/schema-diff.ts:36, 301, 314).
DiffExact == \A c \in Loader : \A d \in diff[c], p \in seen[c] : seen[c] = {p} =>
    LET shown(i) == {row \in TablesOf(conns[c][i].database) :
                        Permits(p, conns[c][i], row, "table", TRUE)}
        names(i) == {Qualified(row) : row \in shown(i)}
        same(n) == \E r \in shown(1), s \in shown(2) :
                      /\ Qualified(r) = n /\ Qualified(s) = n
                      /\ SameTable(catalog[conns[c][1].database][r], catalog[conns[c][2].database][s])
    IN d = {[name |-> n, status |-> IF n \notin names(2) THEN "removed"
                                    ELSE IF n \notin names(1) THEN "added" ELSE "modified"] :
              n \in {m \in names(1) \cup names(2) : ~same(m)}}

=============================================================================
