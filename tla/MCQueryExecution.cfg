CONSTANTS
  Query = {q1, q2}
  Session = {s1}
  NoSession = none
  Uses = {"postgres", "mysql", "mssql", "oracle", "sqlite", "duckdb", "clickhouse"}
  maximum = 2
SPECIFICATION MCSpec
INVARIANTS SessionsSound ProcessesUnderGates
PROPERTIES AnswerAgrees QueryEnds
CHECK_DEADLOCK FALSE
