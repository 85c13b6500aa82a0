----------------------------- MODULE SchemaDiff ------------------------------
(***************************************************************************)
(* utils/schema-diff.ts: what compare_schemas tells of two databases.      *)
(* A table has columns, indexes, constraints and storage keys, functions   *)
(* from names to records; what the catalog may leave out is a set of at    *)
(* most one value.  A type is a word with its arguments, each the set of   *)
(* one number, or {} for "max".                                            *)
(***************************************************************************)
EXTENDS Integers, Sequences, FiniteSets

\* What the catalog tells of a table, and of the tables of a database, by the
\* rows it lists.
IsTable(t) ==
    /\ t = [columns |-> t.columns, indexes |-> t.indexes, constraints |-> t.constraints,
            physicalKeys |-> t.physicalKeys]
    /\ \A name \in DOMAIN t.columns :
          LET type == t.columns[name].type IN type = [word |-> type.word, arguments |-> type.arguments]
    /\ t.indexes = [name \in DOMAIN t.indexes |->
                       LET i == t.indexes[name]
                       IN [columns |-> i.columns, unique |-> i.unique, type |-> i.type,
                           predicate |-> i.predicate]]
    /\ t.constraints = [name \in DOMAIN t.constraints |->
                           LET q == t.constraints[name]
                           IN [type |-> q.type, columns |-> q.columns, definition |-> q.definition,
                               referencedTable |-> q.referencedTable,
                               referencedColumns |-> q.referencedColumns]]
    /\ t.physicalKeys = [kind \in DOMAIN t.physicalKeys |-> t.physicalKeys[kind]]
IsDescription(tables) == \A row \in DOMAIN tables :
    row = [schema |-> row.schema, name |-> row.name] /\ IsTable(tables[row])

\* normalizeType, once case and white space are gone: some words are aliases.
\* Only words of letters and spaces are looked up, so that the last five never
\* are.
TypeMap == [word \in {"int", "bool", "varchar", "char", "timestamp without time zone",
                      "timestamp with time zone", "int4", "int8", "int2", "float4", "float8"} |->
    CASE word \in {"int", "int4"} -> "integer"
      [] word = "int8" -> "bigint"
      [] word = "int2" -> "smallint"
      [] word = "bool" -> "boolean"
      [] word = "float4" -> "real"
      [] word = "float8" -> "double precision"
      [] word = "varchar" -> "character varying"
      [] word = "char" -> "character"
      [] word = "timestamp without time zone" -> "timestamp"
      [] word = "timestamp with time zone" -> "timestamptz"]
WithDigits == {"int2", "int4", "int8", "float4", "float8"}
NormalizeType(type) ==
    IF type.word \in DOMAIN TypeMap \ WithDigits
    THEN [type EXCEPT !.word = TypeMap[type.word]] ELSE type

\* The catalog's length as an argument: -1 is no limit.
Bound(length) == length \ {-1}

Completed(column, sized) ==
    LET type == column.type IN
    IF type.arguments # <<>> THEN type ELSE
    CASE type.word \in sized /\ column.length # {} ->
           [type EXCEPT !.arguments = <<Bound(column.length)>>]
      [] type.word \in {"decimal", "numeric", "number"} /\ column.precision # {} ->
           [type EXCEPT !.arguments = <<column.precision>>
               \o IF column.scale = {} THEN <<>> ELSE <<column.scale>>]
      [] OTHER -> type

\* Mutant: the national and binary types are forgotten.
ComparableTypeNarrow(column) ==
    Completed(column, {"character varying", "varchar", "character", "char"})

\* comparableSchema: the length or the precision becomes part of the type.
ComparableType(column) ==
    Completed(column, {"character varying", "varchar", "nvarchar", "character", "char", "nchar",
                       "binary", "varbinary"})

ComparableSchema(schema) ==
    [schema EXCEPT !.columns = [name \in DOMAIN schema.columns |->
        [type |-> ComparableType(schema.columns[name]),
         nullable |-> schema.columns[name].nullable,
         defaultValue |-> schema.columns[name].defaultValue]]]

-----------------------------------------------------------------------------
Common(source, target) == DOMAIN source \cap DOMAIN target

\* What is only in the source was removed, what is only in the target added.
Changes(source, target, modified) ==
    {[name |-> n, status |-> "removed"] : n \in DOMAIN source \ DOMAIN target}
    \cup {[name |-> n, status |-> "modified"] : n \in modified}
    \cup {[name |-> n, status |-> "added"] : n \in DOMAIN target \ DOMAIN source}

\* The names in both for which one of these keys differs.
Differing(source, target, keys) ==
    {n \in Common(source, target) : \E key \in keys : source[n][key] # target[n][key]}

CompareColumns(source, target) ==
    Changes(source, target,
        Differing(source, target, {"nullable", "defaultValue"})
        \cup {n \in Common(source, target) :
                 NormalizeType(source[n].type) # NormalizeType(target[n].type)})

CompareIndexes(source, target) ==
    Changes(source, target, Differing(source, target, {"columns", "unique", "type", "predicate"}))

CompareConstraints(source, target) ==
    Changes(source, target, Differing(source, target,
        {"type", "columns", "referencedTable", "referencedColumns", "definition"}))

\* Kinds of storage keys are compared by what they say; one that is missing
\* says nothing.
ComparePhysicalKeys(source, target) ==
    LET says(keys, kind) == IF kind \in DOMAIN keys THEN {keys[kind]} ELSE {}
    IN {kind \in DOMAIN source \cup DOMAIN target : says(source, kind) # says(target, kind)}

TableChanged(s, t) ==
    \/ CompareColumns(s.columns, t.columns) # {}
    \/ CompareIndexes(s.indexes, t.indexes) # {}
    \/ CompareConstraints(s.constraints, t.constraints) # {}
    \/ ComparePhysicalKeys(s.physicalKeys, t.physicalKeys) # {}

\* compareSchemas: the differences between two functions from table names.
CompareSchemas(source, target) ==
    Changes(source, target, {n \in Common(source, target) : TableChanged(source[n], target[n])})

-----------------------------------------------------------------------------
\* What the comparison is to find, said of the columns themselves.  Two words
\* for a type mean the same if they are in one of these sets; int4 and the
\* other words with digits are told apart from their synonyms (WithDigits).
Synonyms == {{"int", "integer"}, {"bool", "boolean"}, {"char", "character"},
             {"varchar", "character varying"}, {"timestamp", "timestamp without time zone"},
             {"timestamptz", "timestamp with time zone"}}
SameWord(v, w) == v = w \/ \E S \in Synonyms : v \in S /\ w \in S

\* The length of a text or binary column and the precision and scale of a
\* decimal one belong to its type, whether the engine tells them in the type
\* or beside it; those of other types do not.
HasLength(word) ==
    \/ \E S \in Synonyms : word \in S /\ S \cap {"char", "varchar"} # {}
    \/ word \in {"nchar", "nvarchar", "binary", "varbinary"}
IsDecimal(word) == word \in {"decimal", "numeric", "number"}
Size(column) ==
    IF column.type.arguments # <<>> THEN column.type.arguments
    ELSE IF HasLength(column.type.word) /\ column.length # {} THEN <<Bound(column.length)>>
    ELSE IF ~IsDecimal(column.type.word) \/ column.precision = {} THEN <<>>
    ELSE IF column.scale = {} THEN <<column.precision>>
    ELSE <<column.precision, column.scale>>

SameColumn(a, b) == /\ SameWord(a.type.word, b.type.word) /\ Size(a) = Size(b)
                    /\ a.nullable = b.nullable /\ a.defaultValue = b.defaultValue
SameTable(s, t) == /\ DOMAIN s.columns = DOMAIN t.columns
                   /\ \A n \in DOMAIN s.columns : SameColumn(s.columns[n], t.columns[n])
                   /\ s.indexes = t.indexes /\ s.constraints = t.constraints
                   /\ s.physicalKeys = t.physicalKeys

=============================================================================
