----------------------------- MODULE PolicyRules -----------------------------
(***************************************************************************)
(* policy/access.ts and policy/identities.ts: what an access policy lets a *)
(* connection do.  Databases whose names follow JavaScript's comparison    *)
(* are judged by AllowsResolved; where the server's collation decides, the *)
(* same rules are written as a SQL predicate, IdentityPredicate.           *)
(*                                                                         *)
(* A policy is [sound, defaults, connections]: at most one rule as default *)
(* and a rule for each key, a connection id or an id with a database.  Ids *)
(* and names are sequences of parts without dots.  A rule's lists are sets *)
(* of at most one list; a pattern gives, part by part, the names that its  *)
(* glob stands for.                                                        *)
(***************************************************************************)
EXTENDS Naturals, Sequences, FiniteSets
LOCAL INSTANCE SequencesExt

NativeMatch == {"mysql", "mssql", "sqlite", "duckdb"}

\* matches, for one pattern of a list.
Includes(patterns, form) == \E pattern \in patterns :
    Len(pattern) = Len(form) /\ \A i \in DOMAIN form : form[i] \in pattern[i]

\* databaseRules: the keys below the connection.
DatabaseRules(p, c) == {key \in DOMAIN p.connections : IsStrictPrefix(c.baseId, key)}

\* rules: every one of them has to agree.
RulesOf(p, c, database) ==
    c.accessRules \cup p.defaults
    \cup {p.connections[key] : key \in DOMAIN p.connections
                                       \cap {c.baseId, Append(c.baseId, database)}}

IsReadOnly(p, c) == c.readonly \/ \E r \in RulesOf(p, c, c.database) : r.readOnly

\* Where the server may know a database by several spellings, rules for some
\* databases have to name every one.
AllowsDatabase(p, c, database) ==
    /\ c.dialect \in {"mysql", "mssql"} /\ DatabaseRules(p, c) # {} =>
           Append(c.baseId, database) \in DatabaseRules(p, c)
    /\ \A r \in RulesOf(p, c, database) : \A list \in r.databases : Includes(list, <<database>>)

IsDatabaseScoped(p, c) ==
    \/ Len(c.id) > 1
    \/ DatabaseRules(p, c) # {}
    \/ \E r \in RulesOf(p, c, c.database) :
          r.databases \cup r.schemas \cup r.allowTables \cup r.denyTables
          \cup r.allowFunctions \cup r.denyFunctions # {}

HasTableRestrictions(p, c) == \E r \in RulesOf(p, c, c.database) :
    r.schemas \cup r.allowTables \cup r.denyTables # {}

-----------------------------------------------------------------------------
\* How many parts a name has that begins with a database, and the most parts.
DatabaseAt(dialect) == CASE dialect \in {"mysql", "clickhouse"} -> 2
                         [] dialect \in {"mssql", "postgres"} -> 3
                         [] OTHER -> 0
MostParts(dialect) == IF dialect \in {"mysql", "clickhouse", "duckdb"} THEN 2 ELSE 3

\* The name leads out of the selected database.
Foreign(c, parts, kind) ==
    \/ Len(parts) > MostParts(c.dialect)
    \/ Len(parts) = DatabaseAt(c.dialect) /\ parts[1] # c.database
    \/ c.dialect = "sqlite" /\ kind = "table" /\ Len(parts) > 1 /\ parts[1] # "main"

ScopeError(p, c, parts, kind) == IsDatabaseScoped(p, c) /\ Foreign(c, parts, kind)

-----------------------------------------------------------------------------
Allow(r, kind) == IF kind = "table" THEN r.allowTables ELSE r.allowFunctions
Deny(r, kind) == IF kind = "table" THEN r.denyTables ELSE r.denyFunctions

\* A resolved name as it may be written, bare, with its schema, with both.
Bare(row) == <<row.name>>
Qualified(row) == IF row.schema = "" THEN Bare(row) ELSE <<row.schema, row.name>>
InDatabase(c, row) == IF c.database = "" THEN Qualified(row) ELSE <<c.database>> \o Qualified(row)

\* allowsResolved, in JavaScript.
AllowsResolved(p, c, row, kind, bare) ==
    LET allowed == {Qualified(row), InDatabase(c, row)} \cup IF bare THEN {Bare(row)} ELSE {}
        rules == RulesOf(p, c, c.database)
    IN /\ kind = "function" => \E r \in rules : r.allowFunctions # {}
       /\ \A r \in rules :
             /\ \A list \in r.schemas : Includes(list, <<row.schema>>)
             /\ \A list \in Allow(r, kind) : \E form \in allowed : Includes(list, form)
             /\ \A list \in Deny(r, kind) : \A form \in allowed \cup {Bare(row)} : ~Includes(list, form)

\* Mutant: a name may be denied only as it may be allowed.
IdentityPredicateDeniesAllowed(p, c, row, database, kind, bare) ==
    LET rules == RulesOf(p, c, c.database)
        forms == {<<row.schema, row.name>>, <<database, row.schema, row.name>>}
                 \cup IF bare THEN {<<row.name>>} ELSE {}
    IN /\ kind = "function" => \E r \in rules : r.allowFunctions # {}
       /\ \A r \in rules :
             /\ \A list \in r.schemas : Includes(list, <<row.schema>>)
             /\ \A list \in Allow(r, kind) : \E form \in forms : Includes(list, form)
             /\ \A list \in Deny(r, kind) : \A form \in forms : ~Includes(list, form)

\* identityPredicate, in SQL, compares column by column; the database is what
\* the caller says it is.
IdentityPredicate(p, c, row, database, kind, bare) ==
    LET rules == RulesOf(p, c, c.database)
        all == <<<<row.name>>, <<row.schema, row.name>>, <<database, row.schema, row.name>>>>
        allowed == IF bare THEN 1..3 ELSE 2..3
    IN /\ kind = "function" => \E r \in rules : r.allowFunctions # {}
       /\ \A r \in rules :
             /\ kind = "table" \/ c.dialect # "sqlite" =>
                    \A list \in r.schemas : Includes(list, <<row.schema>>)
             /\ \A list \in Allow(r, kind) : \E i \in allowed : Includes(list, all[i])
             /\ \A list \in Deny(r, kind) : \A i \in 1..3 : ~Includes(list, all[i])

-----------------------------------------------------------------------------
\* validateReadStatement goes by the words of the statement.
ReadStatement(q) == q.operation \in {"select", "explain"} /\ ~q.writes

\* The objects a statement names that have to be looked up.
References(q) == {[kind |-> "table", parts |-> parts] : parts \in q.relations}
                 \cup {[kind |-> "function", parts |-> parts] : parts \in q.functions \ q.builtins}

\* assertQuery as its callers use it, with the names left for the look-up.
AssertQuery(p, c, q, readOnly) ==
    LET reads == readOnly \/ IsReadOnly(p, c)
    IN /\ p.sound /\ AllowsDatabase(p, c, c.database)
       /\ reads => ReadStatement(q)
       /\ IsDatabaseScoped(p, c) =>
             /\ \A parts \in q.relations : ~ScopeError(p, c, parts, "table")
             /\ \A parts \in q.functions : ~ScopeError(p, c, parts, "function")
             /\ HasTableRestrictions(p, c) =>
                    q.operation \in {"select", "explain", "insert", "update", "delete"}
             /\ ~q.opaque
             /\ \A r \in RulesOf(p, c, c.database), parts \in q.builtins :
                   \A list \in r.denyFunctions : ~Includes(list, parts)

\* queryFor: the predicate is part of the look-up where the server compares.
Permitted(p, c, row, ref) ==
    c.dialect \in NativeMatch =>
        IdentityPredicate(p, c, row, c.database, ref.kind, Len(ref.parts) = 1)

\* Mutant: the look-up is taken to have compared on every engine.
AssertResolvedTrusting(p, c, row, ref, permitted) == permitted

\* assertResolved: the row the look-up answered with, under today's policy.
AssertResolved(p, c, row, ref, permitted) ==
    /\ permitted
    /\ c.dialect \notin NativeMatch =>
           p.sound /\ AllowsResolved(p, c, row, ref.kind, Len(ref.parts) = 1)

=============================================================================
