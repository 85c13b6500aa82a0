------------------------------ MODULE Selection ------------------------------
(***************************************************************************)
(* Which connection a call's connectionId and database mean:               *)
(* getConnection of config-parser.ts and of server.ts, sanitizeConnectionId*)
(* and parseConnectionId of utils.ts.  Ids, names and connectionIds are    *)
(* sequences of what is between their slashes, none of it empty; a         *)
(* database argument is a set of at most one name.                         *)
(***************************************************************************)
EXTENDS Naturals, Sequences, FiniteSets
LOCAL INSTANCE SequencesExt

WithDatabases == {"postgres", "mysql", "mssql", "clickhouse"}

\* sanitizeConnectionId: whatever is behind the first slash is one name.
Sanitized(connectionId) == Len(connectionId) <= 2

\* The longest saved id the connectionId starts with, or what precedes its
\* first slash, which may also be a name; the rest is a database.
BaseId(connections, connectionId) ==
    LET original == {c.id : c \in {d \in connections : IsPrefix(d.id, connectionId)}}
    IN IF original = {} THEN SubSeq(connectionId, 1, 1)
       ELSE CHOOSE id \in original : \A other \in original : Len(other) <= Len(id)

DatabaseOverride(connections, connectionId) ==
    SubSeq(connectionId, Len(BaseId(connections, connectionId)) + 1, Len(connectionId))

\* The saved connection: its id goes before a name, which has to be unique.
Match(connections, baseId) ==
    LET exact == {c \in connections : c.id = baseId}
        named == IF exact # {} THEN exact ELSE {c \in connections : c.name = baseId}
    IN IF Cardinality(named) = 1 THEN named ELSE {}

\* The clone of a saved connection for another database.
WithDatabase(c, database) == [c EXCEPT !.id = Append(c.id, database), !.database = database]

\* Mutant: the new id is not compared with the saved ones.
OverrideUnchecked(connections, c, database) ==
    IF c.dialect \in WithDatabases THEN {WithDatabase(c, database)} ELSE {}

\* A database is chosen only where it is a name on a server, and not if the
\* new id is a saved one's.
Override(connections, c, database) ==
    IF /\ c.dialect \in WithDatabases
       /\ \A saved \in connections : saved.id # Append(c.id, database)
    THEN {WithDatabase(c, database)} ELSE {}

\* getConnection of config-parser.ts: no connection or one.
Select(connections, connectionId, database) ==
    LET override == DatabaseOverride(connections, connectionId)
        selection == IF database # {} THEN {<<d>> : d \in database}
                     ELSE IF override # <<>> THEN {override} ELSE {}
    IN IF \/ \E s \in selection : Len(s) # 1
          \/ database # {} /\ override # <<>> /\ override \notin selection
       THEN {}
       ELSE UNION {IF selection = {} THEN {c}
                   ELSE UNION {Override(connections, c, s[1]) : s \in selection} :
                       c \in Match(connections, BaseId(connections, connectionId))}

\* isConnectionAllowed: no list of allowed connections, or an entry with the
\* id, the name, or the saved id behind another database.
IsConnectionAllowed(allowed, c) ==
    \A list \in allowed : \/ {c.id, c.name} \cap list # {}
                          \/ c.id # c.baseId /\ c.baseId \in list

=============================================================================
