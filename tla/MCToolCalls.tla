----------------------------- MODULE MCToolCalls -----------------------------
(***************************************************************************)
(* ToolCalls on small instances.  Each initial state belongs to one        *)
(* scenario, which says what the calls ask for and, as a budget, what may  *)
(* change around them; the scenarios share one configuration.              *)
(***************************************************************************)
EXTENDS ToolCalls, TLC

CONSTANTS c1, c2

VARIABLE budget  (* who may ask, and how often what may change             *)

-----------------------------------------------------------------------------
\* Connections: a PostgreSQL one, a MySQL one whose id could be a database of
\* the first, a MySQL one, and one that logs in with AWS.
A == <<"a">>
AE == <<"a", "e">>
B == <<"b">>
K == <<"k">>
NoRules == [readOnly |-> FALSE, databases |-> {}, schemas |-> {}, allowTables |-> {},
            denyTables |-> {}, allowFunctions |-> {}, denyFunctions |-> {}]
MCDescribes ==
    LET saved(name, dialect, database, schema, readonly) ==
            [name |-> <<name>>, dialect |-> dialect, database |-> database, schema |-> schema,
             readonly |-> readonly, accessRules |-> {}]
    IN A :> saved("n", "postgres", "d", "public", FALSE)
       @@ AE :> saved("m", "postgres", "d", "public", FALSE)
       @@ B :> saved("n", "mysql", "e", "e", FALSE)
       @@ K :> saved("k", "postgres", "d", "public", TRUE)

\* Version 1 is a workspace file, 2 a configuration, 3 is broken.
MCHolds == [v \in {1, 2} |-> IF v = 1 THEN {A, AE} ELSE {B, K}]
MCIam == {K}
MCSettingsOf == [k \in {K} |-> [host |-> "h", profile |-> "p", users |-> {}]]

Public(name) == [schema |-> "public", name |-> name]
InE(name) == [schema |-> "e", name |-> name]
MCRoutine == {Public("f")}

\* Columns as engines describe them: the first two mean the same.
Typed(word, arguments, length, precision, scale) ==
    [type |-> [word |-> word, arguments |-> arguments], length |-> length,
     precision |-> precision, scale |-> scale]
Sized(word, length) == Typed(word, <<>>, {length}, {}, {})
Word(word) == Typed(word, <<>>, {}, {}, {})
Columns == {Sized("varchar", 10), Typed("character varying", <<{10}>>, {}, {}, {}), Sized("varchar", 20)}

\* Every way a type may be written, and what the comparison must tell apart.
Spellings == Columns \cup
    {Sized("nvarchar", 10), Sized("nvarchar", -1), Typed("nvarchar", <<{}>>, {}, {}, {}),
     Sized("nchar", 10), Sized("char", 10), Sized("character", 10), Sized("binary", 10),
     Sized("varbinary", 20), Sized("int", 4), Word("integer"), Word("int4"), Word("bool"),
     Word("boolean"), Word("timestamp"), Word("timestamp without time zone"),
     Word("timestamptz"), Word("timestamp with time zone"), Typed("numeric", <<>>, {}, {10}, {}),
     Typed("numeric", <<>>, {}, {10}, {2}), Typed("numeric", <<{10}, {2}>>, {}, {}, {}),
     Typed("number", <<>>, {}, {10}, {2}), Typed("float", <<>>, {}, {10}, {})}
Column(t, nullable) == [type |-> t.type, length |-> t.length, precision |-> t.precision,
                        scale |-> t.scale, nullable |-> nullable, defaultValue |-> {}]
Table(columns) == [columns |-> columns, indexes |-> <<>>, constraints |-> <<>>, physicalKeys |-> <<>>]
Plain == Table("x" :> Column(Sized("varchar", 10), FALSE))
Index(unique) == [columns |-> <<"x">>, unique |-> unique, type |-> {}, predicate |-> {}]
Check(says) == [type |-> "check", columns |-> <<"x">>, referencedTable |-> {},
                referencedColumns |-> {}, definition |-> says]
Tables == {Table("x" :> Column(t, n)) : t \in Columns, n \in BOOLEAN}
          \cup {Table("x" :> Column(t, FALSE) @@ "y" :> Column(t, FALSE)) : t \in Columns}
          \cup {[Plain EXCEPT !.indexes = "i" :> Index(u)] : u \in BOOLEAN}
          \cup {[Plain EXCEPT !.constraints = "q" :> Check(says)] : says \in {"x > 0", "x > 1"}}
          \cup {[Plain EXCEPT !.physicalKeys = "order" :> "x"]}
MCCatalog == "d" :> (Public("t") :> Plain @@ Public("s") :> Plain)
             @@ "e" :> (InE("t") :> Plain @@ InE("s") :> Plain)

-----------------------------------------------------------------------------
\* Policies: lists of globs over these names.
Policy(defaults, connections) == [sound |-> TRUE, defaults |-> defaults, connections |-> connections]
None == Policy({}, <<>>)
Broken == [None EXCEPT !.sound = FALSE]
AnySchema == {"public", "e"}
Globs == {<<{"t"}>>, <<{"t", "s"}>>, <<{"public"}, {"t"}>>, <<AnySchema, {"s"}>>,
          <<{"d"}, {"public"}, {"t", "f"}>>, <<{"e"}, {"e"}, {"t"}>>}
Lists == {{}} \cup {{{glob}} : glob \in Globs} \cup {{Globs}}
FunctionLists == {{}, {{<<{"f"}>>}}, {{<<{"public"}, {"f"}>>}}}

\* What a connection's policy may say of tables and functions.
PolicySpace ==
    {Policy({}, key :> [NoRules EXCEPT !.allowTables = allow, !.denyTables = deny, !.schemas = schemas]) :
        key \in {A, B}, allow \in Lists, deny \in Lists, schemas \in {{}, {{<<{"public"}>>}}}}
    \cup {Policy({[NoRules EXCEPT !.denyFunctions = deny]}, A :> [NoRules EXCEPT !.allowFunctions = allow]) :
            deny \in FunctionLists, allow \in FunctionLists}

\* The ones that are changed to while calls run.
ReadOnly == Policy({[NoRules EXCEPT !.readOnly = TRUE]}, <<>>)
DenyTable == Policy({[NoRules EXCEPT !.denyTables = {{<<AnySchema, {"t"}>>}}]}, <<>>)
AllowOther == Policy({}, (A :> [NoRules EXCEPT !.allowTables = {{<<{"public"}, {"s"}>>}}])
                         @@ (B :> [NoRules EXCEPT !.schemas = {{<<{"public"}>>}}]))
OneDatabase == Policy({[NoRules EXCEPT !.databases = {{<<{"d"}>>}}]},
                      (Append(B, "d") :> NoRules) @@ (Append(A, "d") :> [NoRules EXCEPT !.readOnly = TRUE]))
Functions == Policy({[NoRules EXCEPT !.allowFunctions = {{<<{"public"}, {"f"}>>}}]}, <<>>)
Changing == {None, Broken, ReadOnly, DenyTable, AllowOther, OneDatabase, Functions}
MCPolicies == PolicySpace \cup Changing

MCScope == [sources : UNION {[S -> [connections : Contents, credentials : Contents]] : S \in SUBSET Place},
            configured : Contents, policy : Policies]

-----------------------------------------------------------------------------
\* Requests.
Statement(operation, relations, writes) ==
    [CatalogQuery EXCEPT !.operation = operation, !.relations = relations, !.writes = writes]
Select1 == Statement("select", {<<"t">>}, FALSE)
Statements == {Select1, Statement("select", {<<"public", "t">>, <<"e", "s">>}, FALSE),
               [Select1 EXCEPT !.functions = {<<"f">>, <<"count">>}, !.builtins = {<<"count">>}],
               [Select1 EXCEPT !.opaque = TRUE],
               Statement("insert", {<<"t">>}, TRUE), Statement("create", {<<"u">>}, TRUE),
               Statement("alter", {<<"t">>}, TRUE), Statement("select", {}, TRUE)}
Request(tool, connectionId) ==
    [tool |-> tool, valid |-> TRUE, connectionId |-> connectionId, database |-> {},
     targetId |-> B, query |-> CatalogQuery, table |-> <<"t">>]
OnStatements == {"execute_query", "export_data", "explain_query"} \cup DOMAIN WriteOperation
OnTables == {"get_table_stats", "get_table_schema", "drop_table"}
Plainly == {"list_connections", "get_connection_info", "get_pool_stats", "list_databases", "list_tables",
            "get_database_stats", "test_connection", "begin_transaction"} \cup Resource
Requests ==
    {[Request(tool, k) EXCEPT !.query = q] : tool \in OnStatements, k \in {A, B}, q \in Statements}
    \cup {[Request(tool, k) EXCEPT !.table = table] :
            tool \in OnTables, k \in {A, B}, table \in {<<"t">>, <<"public", "t">>}}
    \cup {Request(tool, k) : tool \in Plainly, k \in {A, B}}
    \cup {[Request("execute_query", A) EXCEPT !.valid = FALSE], Request("list_tables", <<"a", "e", "x">>),
          [Request("list_databases", A) EXCEPT !.database = {"d"}]}
Pair(a, b) == c1 :> a @@ c2 :> b
Info(connectionId, database) ==
    [Request("get_pool_stats", connectionId) EXCEPT !.database = database]

\* Scenarios.
Nothing == [calls |-> {c1, c2}, files |-> 0, policies |-> 0, among |-> Changing, identities |-> 0,
            restarts |-> 0, clock |-> FALSE]
Open == [readOnly |-> FALSE, disabled |-> {}, allowed |-> {}]
Workspace1 == [p \in Place |-> [connections |-> IF p = Metadata THEN 0 ELSE 1, credentials |-> 0]]
Usual == disk = Workspace1 /\ configured = 2

\* One call of every tool while the policy changes.
AnyTool ==
    /\ Usual /\ catalog = MCCatalog
    /\ policy \in Changing
    /\ \E a \in Requests : request = Pair(a, a)
    /\ settings \in {Open, [Open EXCEPT !.readOnly = TRUE],
                     [Open EXCEPT !.disabled = {"execute_query", "list_tables"}, !.allowed = {{A, <<"m">>}}]}
    /\ settings # Open => policy = None
    /\ budget = [Nothing EXCEPT !.calls = {c1}, !.policies = IF settings = Open THEN 1 ELSE 0]

\* No call, any policy.
AnyPolicy ==
    /\ Usual /\ catalog = MCCatalog /\ settings = Open
    /\ policy \in PolicySpace
    /\ request = Pair(Info(A, {}), Info(A, {}))
    /\ budget = [Nothing EXCEPT !.calls = {}]

\* Notes in changing scopes, with restarts.
NotesTaken ==
    /\ Usual /\ catalog = MCCatalog /\ settings = Open /\ policy = None
    /\ \E t \in {"append_insight", "list_insights"} :
          request = Pair(Request("append_insight", A), Request(t, A))
    /\ budget = [Nothing EXCEPT !.policies = 2, !.among = {None, ReadOnly}, !.restarts = 1]

\* Calls that share a parse while files change.
FilesEdited ==
    /\ configured = 2 /\ catalog = MCCatalog /\ settings = Open /\ policy = None
    /\ disk \in [Place -> [connections : {0, 1}, credentials : {0}]]
    /\ request = Pair(Request("list_connections", A), Request("list_connections", A))
    /\ budget = [Nothing EXCEPT !.files = 2]

\* Ids, names and databases.
AnySelection ==
    /\ Usual /\ catalog = MCCatalog /\ settings = Open /\ policy = None
    /\ \E s1, s2 \in {A, AE, B, <<"n">>, <<"m">>, <<"m", "d">>, <<"a", "d">>},
          d1, d2 \in {{}, {"d"}, {"e"}} : request = Pair(Info(s1, d1), Info(s2, d2))
    /\ budget = Nothing

\* Schema comparisons.
AnySchemas ==
    /\ Usual /\ settings = Open /\ policy \in {None, DenyTable, AllowOther}
    /\ \/ /\ policy = None
          /\ \E t1, t2 \in Spellings :
                catalog = ("d" :> (Public("t") :> Table("x" :> Column(t1, FALSE))))
                          @@ ("e" :> (Public("t") :> Table("x" :> Column(t2, FALSE))))
       \/ \E t1, t2 \in Tables : catalog = ("d" :> (Public("t") :> t1)) @@ ("e" :> (Public("t") :> t2))
       \/ \E S1, S2 \in SUBSET {Public("t"), Public("s"), InE("t")} :
             catalog = ("d" :> [row \in S1 |-> Plain]) @@ ("e" :> [row \in S2 |-> Plain])
    /\ LET a == Request("compare_schemas", A) IN request = Pair(a, a)
    /\ budget = [Nothing EXCEPT !.calls = {c1},
                    !.policies = IF policy = None /\ "d" \in DOMAIN catalog
                                    /\ catalog["d"] = catalog["e"] THEN 1 ELSE 0]

\* Log-ins with AWS.
AwsLogIn ==
    /\ Usual /\ catalog = MCCatalog /\ settings = Open /\ policy = None
    /\ LET a == [Request("test_connection", K) EXCEPT !.query = Select1] IN request = Pair(a, a)
    /\ budget = [Nothing EXCEPT !.identities = 1, !.clock = TRUE]

MCInit == /\ AnyTool \/ AnyPolicy \/ NotesTaken \/ FilesEdited \/ AnySelection \/ AnySchemas \/ AwsLogIn
          /\ ToolInit

Spends(kind) == budget[kind] > 0 /\ budget' = [budget EXCEPT ![kind] = @ - 1]

MCNext == \/ /\ \/ \E c \in budget.calls : Ask(c)
                \/ \E c \in Loader : CallStep(c)
                \/ Parses
             /\ UNCHANGED budget
          \/ /\ Spends("files") /\ FilesChange
             /\ \A p \in Place : 2 \notin {disk'[p].connections, disk'[p].credentials}
          \/ Spends("policies") /\ \E p \in budget.among : PolicyChanges(p)
          \/ Spends("identities") /\ IdentityChanges
          \/ Spends("restarts") /\ Restart
          \/ budget.clock /\ TimePasses /\ UNCHANGED budget

MCVars == <<toolVars, budget>>
MCSpec == MCInit /\ [][MCNext]_MCVars

=============================================================================
