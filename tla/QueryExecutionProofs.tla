------------------------ MODULE QueryExecutionProofs ------------------------
(***************************************************************************)
(* Theorems about QueryExecution, for any queries, sessions, engines and   *)
(* number of slots.  The invariant adds to the properties where each       *)
(* engine's adapter can stand, who has which session, slot and lock there, *)
(* and what the database has done by then.                                 *)
(***************************************************************************)
EXTENDS QueryExecution, FiniteSetTheorems, TLAPS

\* Where execute of each engine can stand.
Placed ==
    \A q \in Query :
       /\ at[q] \in {"leasing", "beginning", "reading", "closing", "rolling"}
             => engine[q] \in SessionEngine
       /\ at[q] = "beginning" => NeedsBegin(q)
       /\ at[q] = "closing" => engine[q] \in {"postgres", "oracle"}
       /\ at[q] = "rolling" => engine[q] \in {"postgres", "mysql"} /\ readOnly[q]
       /\ at[q] = "cancelling" => engine[q] \in {"mssql", "clickhouse"}
       /\ at[q] \in {"version", "locking"} => engine[q] = "duckdb"
       /\ at[q] = "process" => engine[q] \in ProcessEngine
       /\ at[q] = "requesting" => engine[q] = "clickhouse"
       /\ q \in asked => engine[q] \in SessionEngine

\* execute runs only in a slot, and starts afresh.
Slots ==
    /\ held = {q \in Query : stage[q] \in {"checking", "lookup", "main"}}
    /\ \A q \in Query : at[q] \notin {"off", "settled"} => stage[q] \in {"lookup", "main"}
    /\ \A q \in Query : stage[q] \in {"idle", "queued", "checking"} => at[q] = "off"

Permitted == IsFiniteSet(held) /\ Cardinality(held) <= maximum

\* Where execute has a session, and where a session can be open or busy.
Works(q) == \/ at[q] \in {"beginning", "reading", "closing", "rolling"}
            \/ at[q] = "cancelling" /\ engine[q] = "mssql"

Holding ==
    /\ \A q \in Query : Works(q) => conn[q] # NoSession
    /\ \A q \in Query : conn[q] # NoSession =>
          Works(q) \/ (engine[q] = "mssql" /\ at[q] = "settled" /\ answer[q] = "error")
    /\ \A q, r \in Query : conn[q] = conn[r] /\ conn[q] # NoSession => q = r

Lending ==
    /\ \A s \in Session : s \in lent <=> \E q \in Query : conn[q] = s
    /\ idle \cap lent = {} /\ open \subseteq lent /\ busy \subseteq lent
    /\ \A q \in Query : conn[q] \in open => NeedsBegin(q) /\ at[q] # "beginning"
    /\ \A q \in Query : conn[q] \in busy => at[q] \notin {"beginning", "rolling"}

\* Who has the gate of the file.
Locks ==
    /\ \A q \in Query : q \in reading \cup writing => at[q] = "process" /\ engine[q] = "duckdb"
    /\ \A q \in Query : at[q] = "process" /\ engine[q] = "duckdb" =>
          q \in (IF readOnly[q] THEN reading ELSE writing)
    /\ \A q, r \in writing : q = r
    /\ writing # {} => reading = {}

\* What the process and the database have done by then.
Processes ==
    \A q \in Query : /\ Live(q) => at[q] = "process"
                     /\ at[q] = "process" => proc[q] # "none" /\ due[q] # "rows"
                     /\ proc[q] = "exited" => at[q] = "process" /\ work[q] # "running"

Worked ==
    \A q \in Query :
       /\ at[q] \in {"called", "version", "locking"} => work[q] = "none" /\ due[q] = "none"
       /\ at[q] \in {"closing", "rolling", "cancelling"} /\ due[q] = "rows" => work[q] = "complete"
       /\ at[q] = "rolling" /\ due[q] = "capped" => work[q] # "running"

Requested ==
    \A q \in Query : at[q] = "requesting" =>
       /\ ~sent[q] => work[q] = "none"
       /\ resp[q] # "none" => sent[q] /\ work[q] # "none"
       /\ resp[q] = "refused" => work[q] = "failed"
       /\ whole[q] => resp[q] # "none" /\ work[q] \in {"complete", "failed"}

IInv == /\ TypeOK /\ Placed /\ Slots /\ Permitted /\ Holding /\ Lending
        /\ Locks /\ Processes /\ Worked /\ Requested


-----------------------------------------------------------------------------
(* The parts of a step, and what each of them changes                      *)

SessionPart(q) == SessionNext(q) /\ UNCHANGED <<processVars, httpVars, clientVars>>
ProcessPart(q) == ProcessStep(q) /\ UNCHANGED <<sessionVars, httpVars, clientVars>>
HttpPart(q)    == HttpNext(q) /\ UNCHANGED <<sessionVars, processVars, clientVars>>
ClientPart(q)  == \/ Ask(q) \/ Refused(q) \/ Enter(q) \/ Denied(q)
                  \/ LookUp(q) \/ Run(q) \/ Return(q) \/ ServerEnds(q)

LEMMA Parts ==
    ASSUME [Next]_vars
    PROVE  \/ \E q \in Query : SessionPart(q) \/ ProcessPart(q) \/ HttpPart(q) \/ ClientPart(q)
           \/ UNCHANGED vars
BY DEF Next, Client, Other, SessionPart, ProcessPart, HttpPart, ClientPart,
   SessionNext, HttpNext

SessionPlace == {"leasing", "beginning", "reading", "closing", "rolling",
                 "cancelling", "settled"}
ProcessPlace == {"version", "locking", "process", "settled"}
HttpPlace    == {"requesting", "cancelling", "settled"}

\* The call of q is typed and at one of its places, or did not move; every
\* other call is as it was.
OneCall(q, places) ==
    /\ at' \in [Query -> Place] /\ due' \in [Query -> Due]
    /\ answer' \in [Query -> Answer] /\ work' \in [Query -> Work]
    /\ \A r \in Query \ {q} : /\ at'[r] = at[r] /\ due'[r] = due[r]
                              /\ answer'[r] = answer[r] /\ work'[r] = work[r]
    /\ at'[q] \in places \/ at'[q] = at[q]

LEMMA SessionCall ==
    ASSUME TypeOK, Placed, NEW q \in Query, SessionPart(q)
    PROVE  OneCall(q, SessionPlace) /\ engine[q] \in SessionEngine
<1> USE DEF TypeOK, CallTypeOK, OneCall, Place, Due, Answer, Work, Placed, Go,
            GoWith, Settle, SetWork, StopWork, Submit, SessionPlace, SessionEngine,
            NeedsBegin, SessionTypeOK
<1>1. CASE AskPool(q)
  BY <1>1 DEF AskPool
<1>2. CASE Lend(q)
  BY <1>2 DEF Lend
<1>3. CASE LendFails(q)
  BY <1>3 DEF LendFails
<1>4. CASE LeaseTimeout(q)
  BY <1>4 DEF LeaseTimeout
<1>5. CASE Begin(q)
  BY <1>5 DEF Begin
<1>6. CASE BeginFails(q)
  BY <1>6 DEF BeginFails
<1>7. CASE ReadAll(q)
  BY <1>7 DEF ReadAll
<1>8. CASE ReadCap(q)
  BY <1>8 DEF ReadCap
<1>9. CASE ReadError(q)
  BY <1>9 DEF ReadError
<1>10. CASE Deadline(q)
  BY <1>10 DEF Deadline
<1>11. CASE Cancelled(q)
  BY <1>11 DEF Cancelled
<1>12. CASE CloseCursor(q)
  BY <1>12 DEF CloseCursor
<1>13. CASE CloseCursorFails(q)
  BY <1>13 DEF CloseCursorFails
<1>14. CASE CloseOracle(q)
  BY <1>14 DEF CloseOracle
<1>15. CASE Rollback(q)
  BY <1>15 DEF Rollback
<1>16. CASE LateLease(q)
  BY <1>16 DEF LateLease
<1> QED
  BY <1>1, <1>2, <1>3, <1>4, <1>5, <1>6, <1>7, <1>8, <1>9, <1>10, <1>11, <1>12,
     <1>13, <1>14, <1>15, <1>16 DEF SessionPart, SessionNext, SessionStep

LEMMA ProcessCall ==
    ASSUME TypeOK, Placed, Processes, NEW q \in Query, ProcessPart(q)
    PROVE  OneCall(q, ProcessPlace) /\ engine[q] \in ProcessEngine
<1> USE DEF TypeOK, CallTypeOK, OneCall, Place, Due, Answer, Work, Placed,
            Processes, Live, Go, GoWith, Settle, SetWork, StopWork, Spawn,
            ProcessPlace, ProcessEngine
<1>1. CASE CallSqlite(q)
  BY <1>1 DEF CallSqlite
<1>2. CASE CallDuckdb(q)
  BY <1>2 DEF CallDuckdb
<1>3. CASE Version(q)
  BY <1>3 DEF Version
<1>4. CASE Locked(q)
  BY <1>4 DEF Locked
<1>5. CASE LockTimeout(q)
  BY <1>5 DEF LockTimeout
<1>6. CASE Capped(q)
  BY <1>6 DEF Capped
<1>7. CASE Stop(q)
  BY <1>7 DEF Stop
<1>8. CASE Exit(q)
  BY <1>8 DEF Exit
<1>9. CASE Close(q)
  BY <1>9 DEF Close
<1> QED
  BY <1>1, <1>2, <1>3, <1>4, <1>5, <1>6, <1>7, <1>8, <1>9 DEF ProcessPart, ProcessStep

LEMMA HttpCall ==
    ASSUME TypeOK, Placed, NEW q \in Query, HttpPart(q)
    PROVE  OneCall(q, HttpPlace) /\ engine[q] = "clickhouse"
<1> USE DEF TypeOK, CallTypeOK, OneCall, Place, Due, Answer, Work, Placed, Go,
            GoWith, Settle, SetWork, StopWork, Finish, HttpPlace
<1>1. CASE Request(q)
  BY <1>1 DEF Request
<1>2. CASE HttpEnd(q)
  BY <1>2 DEF HttpEnd
<1>3. CASE HttpCap(q)
  BY <1>3 DEF HttpCap
<1>4. CASE HttpError(q)
  BY <1>4 DEF HttpError
<1>5. CASE CancelConfirmed(q)
  BY <1>5 DEF CancelConfirmed
<1>6. CASE CancelUnconfirmed(q)
  BY <1>6 DEF CancelUnconfirmed
<1>7. CASE Sent(q)
  BY <1>7 DEF Sent
<1>8. CASE Arrives(q)
  BY <1>8 DEF Arrives
<1>9. CASE Headers(q)
  BY <1>9 DEF Headers
<1>10. CASE LastByte(q)
  BY <1>10 DEF LastByte
<1>11. CASE ServerNotices(q)
  BY <1>11 DEF ServerNotices
<1> QED
  BY <1>1, <1>2, <1>3, <1>4, <1>5, <1>6, <1>7, <1>8, <1>9, <1>10, <1>11
     DEF HttpPart, HttpNext, HttpStep, HttpElse

-----------------------------------------------------------------------------
(* TypeOK                                                                  *)

LEMMA SessionTyped ==
    ASSUME TypeOK, Placed, Holding, NEW q \in Query, SessionPart(q)
    PROVE  SessionTypeOK'
<1> USE DEF TypeOK, SessionTypeOK, Holding, Works, Release, Destroy, Submit, sessionVars
<1>1. CASE AskPool(q)
  BY <1>1 DEF AskPool
<1>2. CASE Lend(q)
  BY <1>2 DEF Lend
<1>3. CASE LendFails(q)
  BY <1>3 DEF LendFails
<1>4. CASE LeaseTimeout(q)
  BY <1>4 DEF LeaseTimeout
<1>5. CASE Begin(q)
  BY <1>5 DEF Begin
<1>6. CASE BeginFails(q)
  BY <1>6 DEF BeginFails
<1>7. CASE ReadAll(q)
  BY <1>7 DEF ReadAll
<1>8. CASE ReadCap(q)
  BY <1>8 DEF ReadCap
<1>9. CASE ReadError(q)
  BY <1>9 DEF ReadError
<1>10. CASE Deadline(q)
  BY <1>10 DEF Deadline
<1>11. CASE Cancelled(q)
  BY <1>11 DEF Cancelled
<1>12. CASE CloseCursor(q)
  BY <1>12 DEF CloseCursor
<1>13. CASE CloseCursorFails(q)
  BY <1>13 DEF CloseCursorFails
<1>14. CASE CloseOracle(q)
  BY <1>14 DEF CloseOracle
<1>15. CASE Rollback(q)
  BY <1>15 DEF Rollback
<1>16. CASE LateLease(q)
  BY <1>16 DEF LateLease
<1> QED
  BY <1>1, <1>2, <1>3, <1>4, <1>5, <1>6, <1>7, <1>8, <1>9, <1>10, <1>11, <1>12,
     <1>13, <1>14, <1>15, <1>16 DEF SessionPart, SessionNext, SessionStep

LEMMA ProcessTyped ==
    ASSUME TypeOK, Placed, NEW q \in Query, ProcessPart(q)
    PROVE  ProcessTypeOK'
<1> USE DEF TypeOK, ProcessTypeOK, Proc, Spawn, Kill, processVars, Lock!Share,
            Lock!Exclude, Lock!Leave
<1>1. CASE CallSqlite(q)
  BY <1>1 DEF CallSqlite
<1>2. CASE CallDuckdb(q)
  BY <1>2 DEF CallDuckdb
<1>3. CASE Version(q)
  BY <1>3 DEF Version
<1>4. CASE Locked(q)
  BY <1>4 DEF Locked
<1>5. CASE LockTimeout(q)
  BY <1>5 DEF LockTimeout
<1>6. CASE Capped(q)
  BY <1>6 DEF Capped
<1>7. CASE Stop(q)
  BY <1>7 DEF Stop
<1>8. CASE Exit(q)
  BY <1>8 DEF Exit
<1>9. CASE Close(q)
  BY <1>9 DEF Close
<1> QED
  BY <1>1, <1>2, <1>3, <1>4, <1>5, <1>6, <1>7, <1>8, <1>9 DEF ProcessPart, ProcessStep

LEMMA HttpTyped ==
    ASSUME TypeOK, NEW q \in Query, HttpPart(q)
    PROVE  HttpTypeOK'
<1> USE DEF TypeOK, HttpTypeOK, Resp, httpVars
<1>1. CASE Request(q)
  BY <1>1 DEF Request
<1>2. CASE HttpEnd(q)
  BY <1>2 DEF HttpEnd
<1>3. CASE HttpCap(q)
  BY <1>3 DEF HttpCap
<1>4. CASE HttpError(q)
  BY <1>4 DEF HttpError
<1>5. CASE CancelConfirmed(q)
  BY <1>5 DEF CancelConfirmed
<1>6. CASE CancelUnconfirmed(q)
  BY <1>6 DEF CancelUnconfirmed
<1>7. CASE Sent(q)
  BY <1>7 DEF Sent
<1>8. CASE Arrives(q)
  BY <1>8 DEF Arrives
<1>9. CASE Headers(q)
  BY <1>9 DEF Headers
<1>10. CASE LastByte(q)
  BY <1>10 DEF LastByte
<1>11. CASE ServerNotices(q)
  BY <1>11 DEF ServerNotices
<1> QED
  BY <1>1, <1>2, <1>3, <1>4, <1>5, <1>6, <1>7, <1>8, <1>9, <1>10, <1>11
     DEF HttpPart, HttpNext, HttpStep, HttpElse

LEMMA ClientTyped ==
    ASSUME TypeOK, NEW q \in Query, ClientPart(q)
    PROVE  TypeOK'
<1> USE DEF TypeOK, CallTypeOK, SessionTypeOK, ProcessTypeOK, HttpTypeOK, Stage,
            Place, Due, Answer, Work, To, Call, SetWork, Gate!Take, Gate!GiveBack,
            adapterVars, callVars, sessionVars, processVars, httpVars
<1>1. CASE Ask(q)
  BY <1>1 DEF Ask
<1>2. CASE Refused(q)
  BY <1>2 DEF Refused
<1>3. CASE Enter(q)
  BY <1>3 DEF Enter
<1>4. CASE Denied(q)
  BY <1>4 DEF Denied
<1>5. CASE LookUp(q)
  BY <1>5 DEF LookUp
<1>6. CASE Run(q)
  BY <1>6 DEF Run
<1>7. CASE Return(q)
  BY <1>7 DEF Return
<1>8. CASE ServerEnds(q)
  BY <1>8 DEF ServerEnds
<1> QED
  BY <1>1, <1>2, <1>3, <1>4, <1>5, <1>6, <1>7, <1>8 DEF ClientPart

LEMMA Typed ==
    ASSUME IInv, [Next]_vars
    PROVE  TypeOK'
<1> USE DEF IInv
<1>1. ASSUME NEW q \in Query, SessionPart(q) PROVE TypeOK'
  <2>1. SessionTypeOK' /\ OneCall(q, SessionPlace)
    BY <1>1, SessionTyped, SessionCall
  <2> QED
    BY <1>1, <2>1 DEF TypeOK, CallTypeOK, ProcessTypeOK, HttpTypeOK, OneCall, SessionPart,
                      processVars, httpVars, clientVars
<1>2. ASSUME NEW q \in Query, ProcessPart(q) PROVE TypeOK'
  <2>1. ProcessTypeOK' /\ OneCall(q, ProcessPlace)
    BY <1>2, ProcessTyped, ProcessCall
  <2> QED
    BY <1>2, <2>1 DEF TypeOK, CallTypeOK, SessionTypeOK, HttpTypeOK, OneCall, ProcessPart,
                      sessionVars, httpVars, clientVars
<1>3. ASSUME NEW q \in Query, HttpPart(q) PROVE TypeOK'
  <2>1. HttpTypeOK' /\ OneCall(q, HttpPlace)
    BY <1>3, HttpTyped, HttpCall
  <2> QED
    BY <1>3, <2>1 DEF TypeOK, CallTypeOK, SessionTypeOK, ProcessTypeOK, OneCall, HttpPart,
                      sessionVars, processVars, clientVars
<1>4. ASSUME NEW q \in Query, ClientPart(q) PROVE TypeOK'
  BY <1>4, ClientTyped
<1>5. CASE UNCHANGED vars
  BY <1>5 DEF vars, callVars, sessionVars, processVars, httpVars, TypeOK, CallTypeOK,
              SessionTypeOK, ProcessTypeOK, HttpTypeOK
<1> QED
  BY <1>1, <1>2, <1>3, <1>4, <1>5, Parts

-----------------------------------------------------------------------------
(* Placed and Slots                                                        *)

LEMMA SessionPlaced ==
    ASSUME TypeOK, Placed, NEW q \in Query, SessionPart(q)
    PROVE  Placed'
<1> USE DEF TypeOK, CallTypeOK, Placed, NeedsBegin, SessionEngine, ProcessEngine,
            Go, GoWith, Settle, SetWork, StopWork, Submit, sessionVars, SessionPart,
            processVars, httpVars, clientVars
<1>1. CASE AskPool(q)
  BY <1>1 DEF AskPool
<1>2. CASE Lend(q)
  BY <1>2 DEF Lend
<1>3. CASE LendFails(q)
  BY <1>3 DEF LendFails
<1>4. CASE LeaseTimeout(q)
  BY <1>4 DEF LeaseTimeout
<1>5. CASE Begin(q)
  BY <1>5 DEF Begin
<1>6. CASE BeginFails(q)
  BY <1>6 DEF BeginFails
<1>7. CASE ReadAll(q)
  BY <1>7 DEF ReadAll
<1>8. CASE ReadCap(q)
  BY <1>8 DEF ReadCap
<1>9. CASE ReadError(q)
  BY <1>9 DEF ReadError
<1>10. CASE Deadline(q)
  BY <1>10 DEF Deadline
<1>11. CASE Cancelled(q)
  BY <1>11 DEF Cancelled
<1>12. CASE CloseCursor(q)
  BY <1>12 DEF CloseCursor
<1>13. CASE CloseCursorFails(q)
  BY <1>13 DEF CloseCursorFails
<1>14. CASE CloseOracle(q)
  BY <1>14 DEF CloseOracle
<1>15. CASE Rollback(q)
  BY <1>15 DEF Rollback
<1>16. CASE LateLease(q)
  BY <1>16 DEF LateLease
<1> QED
  BY <1>1, <1>2, <1>3, <1>4, <1>5, <1>6, <1>7, <1>8, <1>9, <1>10, <1>11, <1>12,
     <1>13, <1>14, <1>15, <1>16 DEF SessionPart, SessionNext, SessionStep

LEMMA ProcessPlaced ==
    ASSUME TypeOK, Placed, NEW q \in Query, ProcessPart(q)
    PROVE  Placed'
<1> USE DEF TypeOK, CallTypeOK, Placed, NeedsBegin, SessionEngine, ProcessEngine,
            Go, GoWith, Settle, SetWork, StopWork, Spawn, processVars, ProcessPart,
            sessionVars, httpVars, clientVars
<1>1. CASE CallSqlite(q)
  BY <1>1 DEF CallSqlite
<1>2. CASE CallDuckdb(q)
  BY <1>2 DEF CallDuckdb
<1>3. CASE Version(q)
  BY <1>3 DEF Version
<1>4. CASE Locked(q)
  BY <1>4 DEF Locked
<1>5. CASE LockTimeout(q)
  BY <1>5 DEF LockTimeout
<1>6. CASE Capped(q)
  BY <1>6 DEF Capped
<1>7. CASE Stop(q)
  BY <1>7 DEF Stop
<1>8. CASE Exit(q)
  BY <1>8 DEF Exit
<1>9. CASE Close(q)
  BY <1>9 DEF Close
<1> QED
  BY <1>1, <1>2, <1>3, <1>4, <1>5, <1>6, <1>7, <1>8, <1>9 DEF ProcessPart, ProcessStep

LEMMA ClientPlaced ==
    ASSUME TypeOK, Placed, Slots, NEW q \in Query, ClientPart(q)
    PROVE  Placed'
<1> USE DEF TypeOK, CallTypeOK, Placed, NeedsBegin, SessionEngine, ProcessEngine,
            Slots, adapterVars, callVars, sessionVars, processVars, httpVars, To,
            Call, SetWork, Gate!Take, Gate!GiveBack
<1>1. CASE Ask(q)
  BY <1>1 DEF Ask
<1>2. CASE Refused(q)
  BY <1>2 DEF Refused
<1>3. CASE Enter(q)
  BY <1>3 DEF Enter
<1>4. CASE Denied(q)
  BY <1>4 DEF Denied
<1>5. CASE LookUp(q)
  BY <1>5 DEF LookUp
<1>6. CASE Run(q)
  BY <1>6 DEF Run
<1>7. CASE Return(q)
  BY <1>7 DEF Return
<1>8. CASE ServerEnds(q)
  BY <1>8 DEF ServerEnds
<1> QED
  BY <1>1, <1>2, <1>3, <1>4, <1>5, <1>6, <1>7, <1>8 DEF ClientPart

LEMMA PlacedStep ==
    ASSUME IInv, [Next]_vars
    PROVE  Placed'
<1> USE DEF IInv
<1>1. ASSUME NEW q \in Query, SessionPart(q) PROVE Placed'
  BY <1>1, SessionPlaced
<1>2. ASSUME NEW q \in Query, ProcessPart(q) PROVE Placed'
  BY <1>2, ProcessPlaced
<1>3. ASSUME NEW q \in Query, HttpPart(q) PROVE Placed'
  <2>1. OneCall(q, HttpPlace) /\ engine[q] = "clickhouse"
    BY <1>3, HttpCall
  <2> QED
    BY <1>3, <2>1 DEF OneCall, HttpPlace, TypeOK, CallTypeOK, Placed, NeedsBegin,
       SessionEngine, ProcessEngine, HttpPart, sessionVars, processVars, clientVars
<1>4. ASSUME NEW q \in Query, ClientPart(q) PROVE Placed'
  BY <1>4, ClientPlaced
<1>5. CASE UNCHANGED vars
  BY <1>5 DEF vars, callVars, sessionVars, processVars, httpVars, Placed, NeedsBegin
<1> QED
  BY <1>1, <1>2, <1>3, <1>4, <1>5, Parts

LEMMA ClientSlots ==
    ASSUME TypeOK, Slots, NEW q \in Query, ClientPart(q)
    PROVE  Slots'
<1> USE DEF TypeOK, CallTypeOK, Slots, adapterVars, callVars, sessionVars,
            processVars, httpVars, To, Call, SetWork, Gate!Take, Gate!GiveBack
<1>1. CASE Ask(q)
  BY <1>1 DEF Ask
<1>2. CASE Refused(q)
  BY <1>2 DEF Refused
<1>3. CASE Enter(q)
  BY <1>3 DEF Enter
<1>4. CASE Denied(q)
  BY <1>4 DEF Denied
<1>5. CASE LookUp(q)
  BY <1>5 DEF LookUp
<1>6. CASE Run(q)
  BY <1>6 DEF Run
<1>7. CASE Return(q)
  BY <1>7 DEF Return
<1>8. CASE ServerEnds(q)
  BY <1>8 DEF ServerEnds
<1> QED
  BY <1>1, <1>2, <1>3, <1>4, <1>5, <1>6, <1>7, <1>8 DEF ClientPart

LEMMA SessionRuns ==
    ASSUME TypeOK, Placed, Slots, Holding, NEW q \in Query, SessionPart(q)
    PROVE  stage[q] \in {"lookup", "main"} \/ at'[q] = at[q]
<1> USE DEF TypeOK, CallTypeOK, Slots, Holding, Works, Go, GoWith, Settle, SetWork,
            StopWork, Submit
<1>1. CASE AskPool(q)
  BY <1>1 DEF AskPool
<1>2. CASE Lend(q)
  BY <1>2 DEF Lend
<1>3. CASE LendFails(q)
  BY <1>3 DEF LendFails
<1>4. CASE LeaseTimeout(q)
  BY <1>4 DEF LeaseTimeout
<1>5. CASE Begin(q)
  BY <1>5 DEF Begin
<1>6. CASE BeginFails(q)
  BY <1>6 DEF BeginFails
<1>7. CASE ReadAll(q)
  BY <1>7 DEF ReadAll
<1>8. CASE ReadCap(q)
  BY <1>8 DEF ReadCap
<1>9. CASE ReadError(q)
  BY <1>9 DEF ReadError
<1>10. CASE Deadline(q)
  BY <1>10 DEF Deadline
<1>11. CASE Cancelled(q)
  BY <1>11 DEF Cancelled
<1>12. CASE CloseCursor(q)
  BY <1>12 DEF CloseCursor
<1>13. CASE CloseCursorFails(q)
  BY <1>13 DEF CloseCursorFails
<1>14. CASE CloseOracle(q)
  BY <1>14 DEF CloseOracle
<1>15. CASE Rollback(q)
  BY <1>15 DEF Rollback
<1>16. CASE LateLease(q)
  BY <1>16 DEF LateLease
<1> QED
  BY <1>1, <1>2, <1>3, <1>4, <1>5, <1>6, <1>7, <1>8, <1>9, <1>10, <1>11, <1>12,
     <1>13, <1>14, <1>15, <1>16 DEF SessionPart, SessionNext, SessionStep

LEMMA ProcessRuns ==
    ASSUME TypeOK, Placed, Slots, Processes, NEW q \in Query, ProcessPart(q)
    PROVE  stage[q] \in {"lookup", "main"} \/ at'[q] = at[q]
<1> USE DEF TypeOK, CallTypeOK, Slots, Go, GoWith, Settle, SetWork, StopWork, Spawn
<1>1. CASE CallSqlite(q)
  BY <1>1 DEF CallSqlite
<1>2. CASE CallDuckdb(q)
  BY <1>2 DEF CallDuckdb
<1>3. CASE Version(q)
  BY <1>3 DEF Version
<1>4. CASE Locked(q)
  BY <1>4 DEF Locked
<1>5. CASE LockTimeout(q)
  BY <1>5 DEF LockTimeout
<1>6. CASE Capped(q)
  BY <1>6 DEF Capped
<1>7. CASE Stop(q)
  BY <1>7 DEF Stop
<1>8. CASE Exit(q)
  BY <1>8 DEF Exit
<1>9. CASE Close(q)
  BY <1>9 DEF Close
<1> QED
  BY <1>1, <1>2, <1>3, <1>4, <1>5, <1>6, <1>7, <1>8, <1>9 DEF ProcessPart, ProcessStep

LEMMA HttpRuns ==
    ASSUME TypeOK, Placed, Slots, NEW q \in Query, HttpPart(q)
    PROVE  stage[q] \in {"lookup", "main"} \/ at'[q] = at[q]
<1> USE DEF TypeOK, CallTypeOK, Slots, Go, GoWith, Settle, SetWork, StopWork, Finish
<1>1. CASE Request(q)
  BY <1>1 DEF Request
<1>2. CASE HttpEnd(q)
  BY <1>2 DEF HttpEnd
<1>3. CASE HttpCap(q)
  BY <1>3 DEF HttpCap
<1>4. CASE HttpError(q)
  BY <1>4 DEF HttpError
<1>5. CASE CancelConfirmed(q)
  BY <1>5 DEF CancelConfirmed
<1>6. CASE CancelUnconfirmed(q)
  BY <1>6 DEF CancelUnconfirmed
<1>7. CASE Sent(q)
  BY <1>7 DEF Sent
<1>8. CASE Arrives(q)
  BY <1>8 DEF Arrives
<1>9. CASE Headers(q)
  BY <1>9 DEF Headers
<1>10. CASE LastByte(q)
  BY <1>10 DEF LastByte
<1>11. CASE ServerNotices(q)
  BY <1>11 DEF ServerNotices
<1> QED
  BY <1>1, <1>2, <1>3, <1>4, <1>5, <1>6, <1>7, <1>8, <1>9, <1>10, <1>11
     DEF HttpPart, HttpNext, HttpStep, HttpElse

LEMMA SlotsStep ==
    ASSUME IInv, [Next]_vars
    PROVE  Slots'
<1> USE DEF IInv
<1>1. ASSUME NEW q \in Query, SessionPart(q) PROVE Slots'
  <2>1. OneCall(q, SessionPlace) /\ (stage[q] \in {"lookup", "main"} \/ at'[q] = at[q])
    BY <1>1, SessionCall, SessionRuns
  <2> QED
    BY <1>1, <2>1 DEF OneCall, Slots, TypeOK, CallTypeOK, SessionPlace, SessionPart,
       processVars, httpVars, clientVars
<1>2. ASSUME NEW q \in Query, ProcessPart(q) PROVE Slots'
  <2>1. OneCall(q, ProcessPlace) /\ (stage[q] \in {"lookup", "main"} \/ at'[q] = at[q])
    BY <1>2, ProcessCall, ProcessRuns
  <2> QED
    BY <1>2, <2>1 DEF OneCall, Slots, TypeOK, CallTypeOK, ProcessPlace, ProcessPart,
       sessionVars, httpVars, clientVars
<1>3. ASSUME NEW q \in Query, HttpPart(q) PROVE Slots'
  <2>1. OneCall(q, HttpPlace) /\ (stage[q] \in {"lookup", "main"} \/ at'[q] = at[q])
    BY <1>3, HttpCall, HttpRuns
  <2> QED
    BY <1>3, <2>1 DEF OneCall, Slots, TypeOK, CallTypeOK, HttpPlace, HttpPart,
       sessionVars, processVars, clientVars
<1>4. ASSUME NEW q \in Query, ClientPart(q) PROVE Slots'
  BY <1>4, ClientSlots
<1>5. CASE UNCHANGED vars
  BY <1>5 DEF vars, callVars, sessionVars, processVars, httpVars, Slots
<1> QED
  BY <1>1, <1>2, <1>3, <1>4, <1>5, Parts

-----------------------------------------------------------------------------
(* Permitted                                                               *)

LEMMA PermittedStep ==
    ASSUME IInv, [Next]_vars
    PROVE  Permitted'
<1> USE DEF IInv, Permitted
<1>1. CASE held' = held
  BY <1>1
<1>2. ASSUME NEW q \in Query, Gate!Take(q) PROVE Permitted'
  <2>1. /\ IsFiniteSet(held') /\ Cardinality(held') = Cardinality(held) + 1
    BY <1>2, FS_AddElement DEF Gate!Take
  <2>2. Cardinality(held) \in Nat /\ Gate!Cardinality(held) = Cardinality(held)
    BY FS_CardinalityType DEF Gate!Cardinality, Cardinality
  <2> QED
    BY <1>2, <2>1, <2>2, ExecutionAssumption DEF ExecutionAssumption, Gate!Take
<1>3. ASSUME NEW q \in Query, Gate!GiveBack(q) PROVE Permitted'
  <2>1. /\ IsFiniteSet(held') /\ Cardinality(held') = Cardinality(held) - 1
    BY <1>3, FS_RemoveElement DEF Gate!GiveBack
  <2>2. Cardinality(held) \in Nat
    BY FS_CardinalityType
  <2> QED
    BY <2>1, <2>2, ExecutionAssumption DEF ExecutionAssumption
<1>4. \/ held' = held
      \/ \E q \in Query : Gate!Take(q) \/ Gate!GiveBack(q)
  <2>1. ASSUME NEW q \in Query, ClientPart(q)
        PROVE  held' = held \/ Gate!Take(q) \/ Gate!GiveBack(q)
    BY <2>1 DEF ClientPart, Ask, Refused, Enter, Denied, LookUp, Run, Return, ServerEnds
  <2> QED
    BY <2>1, Parts DEF SessionPart, ProcessPart, HttpPart, clientVars, vars
<1> QED
  BY <1>1, <1>2, <1>3, <1>4

-----------------------------------------------------------------------------
(* Holding and Lending                                                     *)

LEMMA SessionHolding ==
    ASSUME TypeOK, Placed, Holding, Lending, NEW q \in Query, SessionPart(q)
    PROVE  Holding'
<1> USE DEF TypeOK, CallTypeOK, SessionTypeOK, Placed, Holding, Works, NeedsBegin,
            SessionEngine, Go, GoWith, Settle, SetWork, StopWork, Submit, Release,
            Destroy, sessionVars, Lending, SessionPart, processVars, httpVars,
            clientVars
<1>1. CASE AskPool(q)
  BY <1>1 DEF AskPool
<1>2. CASE Lend(q)
  BY <1>2 DEF Lend
<1>3. CASE LendFails(q)
  BY <1>3 DEF LendFails
<1>4. CASE LeaseTimeout(q)
  BY <1>4 DEF LeaseTimeout
<1>5. CASE Begin(q)
  BY <1>5 DEF Begin
<1>6. CASE BeginFails(q)
  BY <1>6 DEF BeginFails
<1>7. CASE ReadAll(q)
  BY <1>7 DEF ReadAll
<1>8. CASE ReadCap(q)
  BY <1>8 DEF ReadCap
<1>9. CASE ReadError(q)
  BY <1>9 DEF ReadError
<1>10. CASE Deadline(q)
  BY <1>10 DEF Deadline
<1>11. CASE Cancelled(q)
  BY <1>11 DEF Cancelled
<1>12. CASE CloseCursor(q)
  BY <1>12 DEF CloseCursor
<1>13. CASE CloseCursorFails(q)
  BY <1>13 DEF CloseCursorFails
<1>14. CASE CloseOracle(q)
  BY <1>14 DEF CloseOracle
<1>15. CASE Rollback(q)
  BY <1>15 DEF Rollback
<1>16. CASE LateLease(q)
  BY <1>16 DEF LateLease
<1> QED
  BY <1>1, <1>2, <1>3, <1>4, <1>5, <1>6, <1>7, <1>8, <1>9, <1>10, <1>11, <1>12,
     <1>13, <1>14, <1>15, <1>16 DEF SessionPart, SessionNext, SessionStep

\* The sessions after one query's session was lent, kept, returned or closed.
LendingFrame(q) == /\ engine' = engine /\ readOnly' = readOnly
                   /\ \A r \in Query \ {q} : at'[r] = at[r]

LEMMA LendingKept ==
    ASSUME Lending, TypeOK, NEW q \in Query, LendingFrame(q),
           conn' = conn, lent' = lent, idle' \cap lent = {},
           open' \subseteq open, busy' \subseteq busy,
           conn[q] \in open' => at'[q] # "beginning",
           conn[q] \in busy' => at'[q] \notin {"beginning", "rolling"}
    PROVE  Lending'
BY DEF Lending, LendingFrame, NeedsBegin

LEMMA LendingGone ==
    ASSUME Lending, Holding, TypeOK, NEW q \in Query, LendingFrame(q),
           conn[q] # NoSession,
           lent' = lent \ {conn[q]},
           conn' = [conn EXCEPT ![q] = NoSession],
           idle' \subseteq idle \cup {conn[q]},
           open' \subseteq open \ {conn[q]}, busy' \subseteq busy \ {conn[q]}
    PROVE  Lending'
<1> USE DEF TypeOK, SessionTypeOK
<1>1. conn[q] \in Session /\ NoSession \notin Session
  BY SessionAssumption DEF SessionAssumption
<1>2. \A r \in Query : conn'[r] = IF r = q THEN NoSession ELSE conn[r]
  OBVIOUS
<1>3. \A r \in Query \ {q} : conn[r] # conn[q]
  BY DEF Holding
<1>4. \A s \in Session : s \in lent' <=> \E r \in Query : conn'[r] = s
  BY <1>1, <1>2, <1>3 DEF Lending
<1>5. idle' \cap lent' = {} /\ open' \subseteq lent' /\ busy' \subseteq lent'
  BY DEF Lending
<1>6. \A r \in Query : conn'[r] \in open' => r # q /\ conn[r] \in open
  BY <1>1, <1>2
<1>7. \A r \in Query : conn'[r] \in busy' => r # q /\ conn[r] \in busy
  BY <1>1, <1>2
<1> QED
  BY <1>4, <1>5, <1>6, <1>7 DEF Lending, LendingFrame, NeedsBegin

LEMMA SessionLending ==
    ASSUME TypeOK, Placed, Holding, Lending, NEW q \in Query, SessionPart(q)
    PROVE  Lending'
<1> USE DEF TypeOK, CallTypeOK, SessionTypeOK, Placed, Holding, Works, NeedsBegin,
            SessionEngine, Go, GoWith, Settle, SetWork, StopWork, Submit, Release,
            Destroy, sessionVars, Lending, SessionPart, processVars, httpVars,
            clientVars
<1>1. CASE AskPool(q)
  BY <1>1, LendingKept, LendingGone DEF AskPool, LendingFrame
<1>2. CASE Lend(q)
  <2>1. PICK s \in Session \ lent : /\ lent' = lent \cup {s} /\ idle' = idle \ {s}
                                   /\ conn' = [conn EXCEPT ![q] = s]
                                   /\ IF NeedsBegin(q)
                                      THEN Go(q, "beginning") /\ UNCHANGED <<busy, work>>
                                      ELSE Submit(q, s)
    BY <1>2 DEF Lend
  <2>2. NoSession \notin Session /\ conn[q] = NoSession /\ at[q] = "leasing"
    BY <1>2, SessionAssumption DEF Lend, SessionAssumption
  <2>3. \A r \in Query : conn'[r] = IF r = q THEN s ELSE conn[r]
    BY <2>1
  <2>4. s \notin open /\ s \notin busy
    BY <2>1
  <2>5. open' = open /\ (busy' = busy \/ (busy' = busy \cup {s} /\ at'[q] = "reading"))
    BY <1>2, <2>1 DEF Lend
  <2>6. \A r \in Query \ {q} : at'[r] = at[r] /\ conn[r] # s
    BY <1>2 DEF Lend
  <2>7. \A x \in Session : x \in lent' <=> \E r \in Query : conn'[r] = x
    BY <2>1, <2>2, <2>3
  <2>8. idle' \cap lent' = {} /\ open' \subseteq lent' /\ busy' \subseteq lent'
    BY <2>1, <2>5
  <2>9. \A r \in Query : conn'[r] \in open' => r # q /\ conn[r] \in open
    BY <2>3, <2>4, <2>5
  <2>10. \A r \in Query : conn'[r] \in busy' =>
            \/ r # q /\ conn[r] \in busy
            \/ r = q /\ at'[q] = "reading"
    BY <2>3, <2>4, <2>5, <2>6
  <2> HIDE DEF Go, GoWith, Settle, SetWork, StopWork, Submit, Release, Destroy
  <2> QED
    BY <2>6, <2>7, <2>8, <2>9, <2>10
<1>3. CASE LendFails(q)
  BY <1>3, LendingKept, LendingGone DEF LendFails, LendingFrame
<1>4. CASE LeaseTimeout(q)
  BY <1>4, LendingKept, LendingGone DEF LeaseTimeout, LendingFrame
<1>5. CASE Begin(q)
  BY <1>5, LendingKept, LendingGone DEF Begin, LendingFrame
<1>6. CASE BeginFails(q)
  BY <1>6, LendingKept, LendingGone DEF BeginFails, LendingFrame
<1>7. CASE ReadAll(q)
  BY <1>7, LendingKept, LendingGone DEF ReadAll, LendingFrame
<1>8. CASE ReadCap(q)
  BY <1>8, LendingKept, LendingGone DEF ReadCap, LendingFrame
<1>9. CASE ReadError(q)
  BY <1>9, LendingKept, LendingGone DEF ReadError, LendingFrame
<1>10. CASE Deadline(q)
  BY <1>10, LendingKept, LendingGone DEF Deadline, LendingFrame
<1>11. CASE Cancelled(q)
  <2>1. conn[q] # NoSession /\ conn[q] \notin open
    BY <1>11 DEF Cancelled
  <2>2. /\ Release(q) /\ open' = open /\ busy' = busy \ {conn[q]}
        /\ LendingFrame(q)
    BY <1>11 DEF Cancelled, LendingFrame
  <2> QED
    BY <2>1, <2>2, LendingGone
<1>12. CASE CloseCursor(q)
  BY <1>12, LendingKept, LendingGone DEF CloseCursor, LendingFrame
<1>13. CASE CloseCursorFails(q)
  BY <1>13, LendingKept, LendingGone DEF CloseCursorFails, LendingFrame
<1>14. CASE CloseOracle(q)
  BY <1>14, LendingKept, LendingGone DEF CloseOracle, LendingFrame
<1>15. CASE Rollback(q)
  BY <1>15, LendingKept, LendingGone DEF Rollback, LendingFrame
<1>16. CASE LateLease(q)
  BY <1>16, LendingKept, LendingGone DEF LateLease, LendingFrame
<1> QED
  BY <1>1, <1>2, <1>3, <1>4, <1>5, <1>6, <1>7, <1>8, <1>9, <1>10, <1>11, <1>12,
     <1>13, <1>14, <1>15, <1>16 DEF SessionPart, SessionNext, SessionStep

LEMMA ClientHolding ==
    ASSUME TypeOK, Slots, Placed, Holding, NEW q \in Query, ClientPart(q)
    PROVE  Holding'
<1> USE DEF TypeOK, CallTypeOK, SessionTypeOK, Slots, Placed, Holding, Works,
            adapterVars, callVars, sessionVars, processVars, httpVars, To, Call,
            SetWork, Gate!Take, Gate!GiveBack
<1>1. CASE Ask(q)
  BY <1>1 DEF Ask
<1>2. CASE Refused(q)
  BY <1>2 DEF Refused
<1>3. CASE Enter(q)
  BY <1>3 DEF Enter
<1>4. CASE Denied(q)
  BY <1>4 DEF Denied
<1>5. CASE LookUp(q)
  BY <1>5 DEF LookUp
<1>6. CASE Run(q)
  BY <1>6 DEF Run
<1>7. CASE Return(q)
  BY <1>7 DEF Return
<1>8. CASE ServerEnds(q)
  BY <1>8 DEF ServerEnds
<1> QED
  BY <1>1, <1>2, <1>3, <1>4, <1>5, <1>6, <1>7, <1>8 DEF ClientPart

LEMMA HoldingStep ==
    ASSUME IInv, [Next]_vars
    PROVE  Holding'
<1> USE DEF IInv
<1>1. ASSUME NEW q \in Query, SessionPart(q) PROVE Holding'
  BY <1>1, SessionHolding
<1>2. ASSUME NEW q \in Query, ProcessPart(q) PROVE Holding'
  <2>1. OneCall(q, ProcessPlace) /\ engine[q] \in ProcessEngine
    BY <1>2, ProcessCall
  <2> QED
    BY <1>2, <2>1 DEF TypeOK, CallTypeOK, SessionTypeOK, Placed, Holding, Works,
       OneCall, SessionEngine, ProcessEngine, ProcessPlace, ProcessPart,
       sessionVars, httpVars, clientVars
<1>3. ASSUME NEW q \in Query, HttpPart(q) PROVE Holding'
  <2>1. OneCall(q, HttpPlace) /\ engine[q] = "clickhouse"
    BY <1>3, HttpCall
  <2> QED
    BY <1>3, <2>1 DEF TypeOK, CallTypeOK, SessionTypeOK, Placed, Holding, Works,
       OneCall, SessionEngine, ProcessEngine, HttpPlace, HttpPart, sessionVars,
       processVars, clientVars
<1>4. ASSUME NEW q \in Query, ClientPart(q) PROVE Holding'
  BY <1>4, ClientHolding
<1>5. CASE UNCHANGED vars
  BY <1>5 DEF vars, callVars, sessionVars, processVars, httpVars, Holding, Works
<1> QED
  BY <1>1, <1>2, <1>3, <1>4, <1>5, Parts

LEMMA ClientLending ==
    ASSUME TypeOK, Slots, Placed, Holding, Lending, NEW q \in Query, ClientPart(q)
    PROVE  Lending'
<1> USE DEF TypeOK, CallTypeOK, SessionTypeOK, Slots, Placed, Holding, Works,
            Lending, NeedsBegin, adapterVars, callVars, sessionVars, processVars,
            httpVars, To, Call, SetWork, Gate!Take, Gate!GiveBack
<1>1. CASE Ask(q)
  BY <1>1 DEF Ask
<1>2. CASE Refused(q)
  BY <1>2 DEF Refused
<1>3. CASE Enter(q)
  BY <1>3 DEF Enter
<1>4. CASE Denied(q)
  BY <1>4 DEF Denied
<1>5. CASE LookUp(q)
  BY <1>5 DEF LookUp
<1>6. CASE Run(q)
  <2>1. conn[q] = NoSession
    BY <1>6 DEF Run
  <2>2. /\ UNCHANGED <<engine, sessionVars>>
        /\ \A r \in Query \ {q} : at'[r] = at[r] /\ readOnly'[r] = readOnly[r]
    BY <1>6 DEF Run
  <2>3. NoSession \notin open /\ NoSession \notin busy
    BY SessionAssumption DEF SessionAssumption
  <2> QED
    BY <2>1, <2>2, <2>3
<1>7. CASE Return(q)
  BY <1>7 DEF Return
<1>8. CASE ServerEnds(q)
  BY <1>8 DEF ServerEnds
<1> QED
  BY <1>1, <1>2, <1>3, <1>4, <1>5, <1>6, <1>7, <1>8 DEF ClientPart

LEMMA LendingStep ==
    ASSUME IInv, [Next]_vars
    PROVE  Lending'
<1> USE DEF IInv
<1>1. ASSUME NEW q \in Query, SessionPart(q) PROVE Lending'
  BY <1>1, SessionLending
<1>2. ASSUME NEW q \in Query, ProcessPart(q) PROVE Lending'
  <2>1. OneCall(q, ProcessPlace) /\ engine[q] \in ProcessEngine
    BY <1>2, ProcessCall
  <2> QED
    BY <1>2, <2>1 DEF TypeOK, CallTypeOK, SessionTypeOK, Placed, Holding, Works,
       OneCall, SessionEngine, ProcessEngine, Lending, NeedsBegin, ProcessPlace,
       ProcessPart, sessionVars, httpVars, clientVars
<1>3. ASSUME NEW q \in Query, HttpPart(q) PROVE Lending'
  <2>1. OneCall(q, HttpPlace) /\ engine[q] = "clickhouse"
    BY <1>3, HttpCall
  <2> QED
    BY <1>3, <2>1 DEF TypeOK, CallTypeOK, SessionTypeOK, Placed, Holding, Works,
       OneCall, SessionEngine, ProcessEngine, Lending, NeedsBegin, HttpPlace,
       HttpPart, sessionVars, processVars, clientVars
<1>4. ASSUME NEW q \in Query, ClientPart(q) PROVE Lending'
  BY <1>4, ClientLending
<1>5. CASE UNCHANGED vars
  BY <1>5 DEF vars, callVars, sessionVars, processVars, httpVars, Lending, NeedsBegin
<1> QED
  BY <1>1, <1>2, <1>3, <1>4, <1>5, Parts

-----------------------------------------------------------------------------
(* Locks and Processes                                                     *)

LEMMA ProcessLocks ==
    ASSUME TypeOK, Placed, Locks, Processes, NEW q \in Query, ProcessPart(q)
    PROVE  Locks'
<1> USE DEF TypeOK, CallTypeOK, ProcessTypeOK, Placed, Locks, SessionEngine,
            ProcessEngine, Go, GoWith, Settle, SetWork, StopWork, Spawn, Kill,
            Lock!Share, Lock!Exclude, Lock!Leave, Processes, Live, processVars,
            ProcessPart, sessionVars, httpVars, clientVars
<1>1. CASE CallSqlite(q)
  BY <1>1 DEF CallSqlite
<1>2. CASE CallDuckdb(q)
  BY <1>2 DEF CallDuckdb
<1>3. CASE Version(q)
  BY <1>3 DEF Version
<1>4. CASE Locked(q)
  BY <1>4 DEF Locked
<1>5. CASE LockTimeout(q)
  BY <1>5 DEF LockTimeout
<1>6. CASE Capped(q)
  BY <1>6 DEF Capped
<1>7. CASE Stop(q)
  BY <1>7 DEF Stop
<1>8. CASE Exit(q)
  BY <1>8 DEF Exit
<1>9. CASE Close(q)
  BY <1>9 DEF Close
<1> QED
  BY <1>1, <1>2, <1>3, <1>4, <1>5, <1>6, <1>7, <1>8, <1>9 DEF ProcessPart, ProcessStep

LEMMA ClientLocks ==
    ASSUME TypeOK, Slots, Locks, NEW q \in Query, ClientPart(q)
    PROVE  Locks'
<1> USE DEF TypeOK, CallTypeOK, ProcessTypeOK, Slots, Locks, adapterVars, callVars,
            sessionVars, processVars, httpVars, To, Call, SetWork, Gate!Take,
            Gate!GiveBack
<1>1. CASE Ask(q)
  BY <1>1 DEF Ask
<1>2. CASE Refused(q)
  BY <1>2 DEF Refused
<1>3. CASE Enter(q)
  BY <1>3 DEF Enter
<1>4. CASE Denied(q)
  BY <1>4 DEF Denied
<1>5. CASE LookUp(q)
  BY <1>5 DEF LookUp
<1>6. CASE Run(q)
  BY <1>6 DEF Run
<1>7. CASE Return(q)
  BY <1>7 DEF Return
<1>8. CASE ServerEnds(q)
  BY <1>8 DEF ServerEnds
<1> QED
  BY <1>1, <1>2, <1>3, <1>4, <1>5, <1>6, <1>7, <1>8 DEF ClientPart

LEMMA LocksStep ==
    ASSUME IInv, [Next]_vars
    PROVE  Locks'
<1> USE DEF IInv
<1>1. ASSUME NEW q \in Query, SessionPart(q) PROVE Locks'
  <2>1. OneCall(q, SessionPlace) /\ engine[q] \in SessionEngine
    BY <1>1, SessionCall
  <2> QED
    BY <1>1, <2>1 DEF TypeOK, CallTypeOK, ProcessTypeOK, Placed, Locks,
       SessionEngine, ProcessEngine, OneCall, SessionPlace, SessionPart,
       processVars, httpVars, clientVars
<1>2. ASSUME NEW q \in Query, ProcessPart(q) PROVE Locks'
  BY <1>2, ProcessLocks
<1>3. ASSUME NEW q \in Query, HttpPart(q) PROVE Locks'
  <2>1. OneCall(q, HttpPlace) /\ engine[q] = "clickhouse"
    BY <1>3, HttpCall
  <2> QED
    BY <1>3, <2>1 DEF TypeOK, CallTypeOK, ProcessTypeOK, Placed, Locks,
       SessionEngine, ProcessEngine, OneCall, HttpPlace, HttpPart, sessionVars,
       processVars, clientVars
<1>4. ASSUME NEW q \in Query, ClientPart(q) PROVE Locks'
  BY <1>4, ClientLocks
<1>5. CASE UNCHANGED vars
  BY <1>5 DEF vars, callVars, sessionVars, processVars, httpVars, Locks
<1> QED
  BY <1>1, <1>2, <1>3, <1>4, <1>5, Parts

LEMMA ProcessProcesses ==
    ASSUME TypeOK, Placed, Processes, Worked, NEW q \in Query, ProcessPart(q)
    PROVE  Processes'
<1> USE DEF TypeOK, CallTypeOK, ProcessTypeOK, Placed, Processes, Live,
            SessionEngine, ProcessEngine, Worked, Go, GoWith, Settle, SetWork,
            StopWork, Spawn, Kill, Lock!Share, Lock!Exclude, Lock!Leave,
            processVars, Proc, ProcessPart, sessionVars, httpVars, clientVars
<1>1. CASE CallSqlite(q)
  BY <1>1 DEF CallSqlite
<1>2. CASE CallDuckdb(q)
  BY <1>2 DEF CallDuckdb
<1>3. CASE Version(q)
  BY <1>3 DEF Version
<1>4. CASE Locked(q)
  BY <1>4 DEF Locked
<1>5. CASE LockTimeout(q)
  BY <1>5 DEF LockTimeout
<1>6. CASE Capped(q)
  BY <1>6 DEF Capped
<1>7. CASE Stop(q)
  BY <1>7 DEF Stop
<1>8. CASE Exit(q)
  BY <1>8 DEF Exit
<1>9. CASE Close(q)
  BY <1>9 DEF Close
<1> QED
  BY <1>1, <1>2, <1>3, <1>4, <1>5, <1>6, <1>7, <1>8, <1>9 DEF ProcessPart, ProcessStep

LEMMA ClientProcesses ==
    ASSUME TypeOK, Slots, Processes, NEW q \in Query, ClientPart(q)
    PROVE  Processes'
<1> USE DEF TypeOK, CallTypeOK, ProcessTypeOK, Slots, Processes, Live, Proc,
            adapterVars, callVars, sessionVars, processVars, httpVars, To, Call,
            SetWork, Gate!Take, Gate!GiveBack
<1>1. CASE Ask(q)
  BY <1>1 DEF Ask
<1>2. CASE Refused(q)
  BY <1>2 DEF Refused
<1>3. CASE Enter(q)
  BY <1>3 DEF Enter
<1>4. CASE Denied(q)
  BY <1>4 DEF Denied
<1>5. CASE LookUp(q)
  BY <1>5 DEF LookUp
<1>6. CASE Run(q)
  BY <1>6 DEF Run
<1>7. CASE Return(q)
  BY <1>7 DEF Return
<1>8. CASE ServerEnds(q)
  BY <1>8 DEF ServerEnds
<1> QED
  BY <1>1, <1>2, <1>3, <1>4, <1>5, <1>6, <1>7, <1>8 DEF ClientPart

LEMMA ProcessesStep ==
    ASSUME IInv, [Next]_vars
    PROVE  Processes'
<1> USE DEF IInv
<1>1. ASSUME NEW q \in Query, SessionPart(q) PROVE Processes'
  <2>1. OneCall(q, SessionPlace) /\ engine[q] \in SessionEngine
    BY <1>1, SessionCall
  <2> QED
    BY <1>1, <2>1 DEF TypeOK, CallTypeOK, ProcessTypeOK, Placed, Processes, Live,
       SessionEngine, ProcessEngine, OneCall, SessionPlace, SessionPart,
       processVars, httpVars, clientVars
<1>2. ASSUME NEW q \in Query, ProcessPart(q) PROVE Processes'
  BY <1>2, ProcessProcesses
<1>3. ASSUME NEW q \in Query, HttpPart(q) PROVE Processes'
  <2>1. OneCall(q, HttpPlace) /\ engine[q] = "clickhouse"
    BY <1>3, HttpCall
  <2> QED
    BY <1>3, <2>1 DEF TypeOK, CallTypeOK, ProcessTypeOK, Placed, Processes, Live,
       SessionEngine, ProcessEngine, OneCall, HttpPlace, HttpPart, sessionVars,
       processVars, clientVars
<1>4. ASSUME NEW q \in Query, ClientPart(q) PROVE Processes'
  BY <1>4, ClientProcesses
<1>5. CASE UNCHANGED vars
  BY <1>5 DEF vars, callVars, sessionVars, processVars, httpVars, Processes, Live
<1> QED
  BY <1>1, <1>2, <1>3, <1>4, <1>5, Parts

-----------------------------------------------------------------------------
(* Worked and Requested                                                    *)

LEMMA SessionWorked ==
    ASSUME TypeOK, Placed, Worked, NEW q \in Query, SessionPart(q)
    PROVE  Worked'
<1> USE DEF TypeOK, CallTypeOK, Placed, Worked, SessionEngine, ProcessEngine, Go,
            GoWith, Settle, SetWork, StopWork, Submit, NeedsBegin, SessionPart,
            processVars, httpVars, clientVars, sessionVars
<1>1. CASE AskPool(q)
  BY <1>1 DEF AskPool
<1>2. CASE Lend(q)
  BY <1>2 DEF Lend
<1>3. CASE LendFails(q)
  BY <1>3 DEF LendFails
<1>4. CASE LeaseTimeout(q)
  BY <1>4 DEF LeaseTimeout
<1>5. CASE Begin(q)
  BY <1>5 DEF Begin
<1>6. CASE BeginFails(q)
  BY <1>6 DEF BeginFails
<1>7. CASE ReadAll(q)
  BY <1>7 DEF ReadAll
<1>8. CASE ReadCap(q)
  BY <1>8 DEF ReadCap
<1>9. CASE ReadError(q)
  BY <1>9 DEF ReadError
<1>10. CASE Deadline(q)
  BY <1>10 DEF Deadline
<1>11. CASE Cancelled(q)
  BY <1>11 DEF Cancelled
<1>12. CASE CloseCursor(q)
  BY <1>12 DEF CloseCursor
<1>13. CASE CloseCursorFails(q)
  BY <1>13 DEF CloseCursorFails
<1>14. CASE CloseOracle(q)
  BY <1>14 DEF CloseOracle
<1>15. CASE Rollback(q)
  BY <1>15 DEF Rollback
<1>16. CASE LateLease(q)
  BY <1>16 DEF LateLease
<1> QED
  BY <1>1, <1>2, <1>3, <1>4, <1>5, <1>6, <1>7, <1>8, <1>9, <1>10, <1>11, <1>12,
     <1>13, <1>14, <1>15, <1>16 DEF SessionPart, SessionNext, SessionStep

LEMMA ProcessWorked ==
    ASSUME TypeOK, Placed, Processes, Worked, NEW q \in Query, ProcessPart(q)
    PROVE  Worked'
<1> USE DEF TypeOK, CallTypeOK, Placed, Worked, SessionEngine, ProcessEngine, Go,
            GoWith, Settle, SetWork, StopWork, Spawn, Processes, Live, ProcessPart,
            sessionVars, httpVars, clientVars, processVars
<1>1. CASE CallSqlite(q)
  BY <1>1 DEF CallSqlite
<1>2. CASE CallDuckdb(q)
  BY <1>2 DEF CallDuckdb
<1>3. CASE Version(q)
  BY <1>3 DEF Version
<1>4. CASE Locked(q)
  BY <1>4 DEF Locked
<1>5. CASE LockTimeout(q)
  BY <1>5 DEF LockTimeout
<1>6. CASE Capped(q)
  BY <1>6 DEF Capped
<1>7. CASE Stop(q)
  BY <1>7 DEF Stop
<1>8. CASE Exit(q)
  BY <1>8 DEF Exit
<1>9. CASE Close(q)
  BY <1>9 DEF Close
<1> QED
  BY <1>1, <1>2, <1>3, <1>4, <1>5, <1>6, <1>7, <1>8, <1>9 DEF ProcessPart, ProcessStep

LEMMA HttpWorked ==
    ASSUME TypeOK, Placed, Worked, Requested, NEW q \in Query, HttpPart(q)
    PROVE  Worked'
<1> USE DEF TypeOK, CallTypeOK, Placed, Worked, SessionEngine, ProcessEngine, Go,
            GoWith, Settle, SetWork, StopWork, Finish, NeedsCancel, Requested, Resp,
            HttpPart, sessionVars, processVars, clientVars, httpVars
<1>1. CASE Request(q)
  BY <1>1 DEF Request
<1>2. CASE HttpEnd(q)
  BY <1>2 DEF HttpEnd
<1>3. CASE HttpCap(q)
  BY <1>3 DEF HttpCap
<1>4. CASE HttpError(q)
  BY <1>4 DEF HttpError
<1>5. CASE CancelConfirmed(q)
  BY <1>5 DEF CancelConfirmed
<1>6. CASE CancelUnconfirmed(q)
  BY <1>6 DEF CancelUnconfirmed
<1>7. CASE Sent(q)
  BY <1>7 DEF Sent
<1>8. CASE Arrives(q)
  BY <1>8 DEF Arrives
<1>9. CASE Headers(q)
  BY <1>9 DEF Headers
<1>10. CASE LastByte(q)
  BY <1>10 DEF LastByte
<1>11. CASE ServerNotices(q)
  BY <1>11 DEF ServerNotices
<1> QED
  BY <1>1, <1>2, <1>3, <1>4, <1>5, <1>6, <1>7, <1>8, <1>9, <1>10, <1>11
     DEF HttpPart, HttpNext, HttpStep, HttpElse

LEMMA ClientWorked ==
    ASSUME TypeOK, Slots, Worked, NEW q \in Query, ClientPart(q)
    PROVE  Worked'
<1> USE DEF TypeOK, CallTypeOK, Slots, Worked, adapterVars, callVars, sessionVars,
            processVars, httpVars, To, Call, SetWork, Gate!Take, Gate!GiveBack
<1>1. CASE Ask(q)
  BY <1>1 DEF Ask
<1>2. CASE Refused(q)
  BY <1>2 DEF Refused
<1>3. CASE Enter(q)
  BY <1>3 DEF Enter
<1>4. CASE Denied(q)
  BY <1>4 DEF Denied
<1>5. CASE LookUp(q)
  BY <1>5 DEF LookUp
<1>6. CASE Run(q)
  BY <1>6 DEF Run
<1>7. CASE Return(q)
  BY <1>7 DEF Return
<1>8. CASE ServerEnds(q)
  BY <1>8 DEF ServerEnds
<1> QED
  BY <1>1, <1>2, <1>3, <1>4, <1>5, <1>6, <1>7, <1>8 DEF ClientPart

LEMMA WorkedStep ==
    ASSUME IInv, [Next]_vars
    PROVE  Worked'
<1> USE DEF IInv
<1>1. ASSUME NEW q \in Query, SessionPart(q) PROVE Worked'
  BY <1>1, SessionWorked
<1>2. ASSUME NEW q \in Query, ProcessPart(q) PROVE Worked'
  BY <1>2, ProcessWorked
<1>3. ASSUME NEW q \in Query, HttpPart(q) PROVE Worked'
  BY <1>3, HttpWorked
<1>4. ASSUME NEW q \in Query, ClientPart(q) PROVE Worked'
  BY <1>4, ClientWorked
<1>5. CASE UNCHANGED vars
  BY <1>5 DEF vars, callVars, sessionVars, processVars, httpVars, Worked
<1> QED
  BY <1>1, <1>2, <1>3, <1>4, <1>5, Parts

LEMMA HttpRequested ==
    ASSUME TypeOK, Placed, Worked, Requested, NEW q \in Query, HttpPart(q)
    PROVE  Requested'
<1> USE DEF TypeOK, CallTypeOK, HttpTypeOK, Placed, Requested, SessionEngine,
            ProcessEngine, Worked, Go, GoWith, Settle, SetWork, StopWork, Finish,
            Resp, HttpPart, sessionVars, processVars, clientVars, httpVars
<1>1. CASE Request(q)
  BY <1>1 DEF Request
<1>2. CASE HttpEnd(q)
  BY <1>2 DEF HttpEnd
<1>3. CASE HttpCap(q)
  BY <1>3 DEF HttpCap
<1>4. CASE HttpError(q)
  BY <1>4 DEF HttpError
<1>5. CASE CancelConfirmed(q)
  BY <1>5 DEF CancelConfirmed
<1>6. CASE CancelUnconfirmed(q)
  BY <1>6 DEF CancelUnconfirmed
<1>7. CASE Sent(q)
  BY <1>7 DEF Sent
<1>8. CASE Arrives(q)
  BY <1>8 DEF Arrives
<1>9. CASE Headers(q)
  BY <1>9 DEF Headers
<1>10. CASE LastByte(q)
  BY <1>10 DEF LastByte
<1>11. CASE ServerNotices(q)
  BY <1>11 DEF ServerNotices
<1> QED
  BY <1>1, <1>2, <1>3, <1>4, <1>5, <1>6, <1>7, <1>8, <1>9, <1>10, <1>11
     DEF HttpPart, HttpNext, HttpStep, HttpElse

LEMMA ClientRequested ==
    ASSUME TypeOK, Slots, Requested, NEW q \in Query, ClientPart(q)
    PROVE  Requested'
<1> USE DEF TypeOK, CallTypeOK, HttpTypeOK, Slots, Requested, adapterVars, callVars,
            sessionVars, processVars, httpVars, To, Call, SetWork, Gate!Take,
            Gate!GiveBack
<1>1. CASE Ask(q)
  BY <1>1 DEF Ask
<1>2. CASE Refused(q)
  BY <1>2 DEF Refused
<1>3. CASE Enter(q)
  BY <1>3 DEF Enter
<1>4. CASE Denied(q)
  BY <1>4 DEF Denied
<1>5. CASE LookUp(q)
  BY <1>5 DEF LookUp
<1>6. CASE Run(q)
  BY <1>6 DEF Run
<1>7. CASE Return(q)
  BY <1>7 DEF Return
<1>8. CASE ServerEnds(q)
  BY <1>8 DEF ServerEnds
<1> QED
  BY <1>1, <1>2, <1>3, <1>4, <1>5, <1>6, <1>7, <1>8 DEF ClientPart

LEMMA RequestedStep ==
    ASSUME IInv, [Next]_vars
    PROVE  Requested'
<1> USE DEF IInv
<1>1. ASSUME NEW q \in Query, SessionPart(q) PROVE Requested'
  <2>1. OneCall(q, SessionPlace) /\ engine[q] \in SessionEngine
    BY <1>1, SessionCall
  <2> QED
    BY <1>1, <2>1 DEF TypeOK, CallTypeOK, HttpTypeOK, Placed, Requested,
       SessionEngine, ProcessEngine, OneCall, SessionPlace, SessionPart,
       processVars, httpVars, clientVars
<1>2. ASSUME NEW q \in Query, ProcessPart(q) PROVE Requested'
  <2>1. OneCall(q, ProcessPlace) /\ engine[q] \in ProcessEngine
    BY <1>2, ProcessCall
  <2> QED
    BY <1>2, <2>1 DEF TypeOK, CallTypeOK, HttpTypeOK, Placed, Requested,
       SessionEngine, ProcessEngine, OneCall, ProcessPlace, ProcessPart,
       sessionVars, httpVars, clientVars
<1>3. ASSUME NEW q \in Query, HttpPart(q) PROVE Requested'
  BY <1>3, HttpRequested
<1>4. ASSUME NEW q \in Query, ClientPart(q) PROVE Requested'
  BY <1>4, ClientRequested
<1>5. CASE UNCHANGED vars
  BY <1>5 DEF vars, callVars, sessionVars, processVars, httpVars, Requested
<1> QED
  BY <1>1, <1>2, <1>3, <1>4, <1>5, Parts

-----------------------------------------------------------------------------
(* The theorems                                                            *)

\* What AnswerAgrees says of one step and one query.
Agrees(q) == at[q] # "settled" /\ at'[q] = "settled" =>
                /\ answer'[q] = "rows" => work'[q] = "complete"
                /\ answer'[q] = "capped" /\ engine[q] \in StopsAtCap => work'[q] # "running"
                /\ answer'[q] # "unconfirmed" /\ engine[q] \in AnswersWhenOver
                      => work'[q] # "running"

LEMMA SessionAgrees ==
    ASSUME TypeOK, Placed, Worked, NEW q \in Query, SessionPart(q)
    PROVE  Agrees(q)
<1> USE DEF TypeOK, CallTypeOK, Placed, Worked, Agrees, StopsAtCap, AnswersWhenOver,
            Engine, SessionEngine, ProcessEngine, Go, GoWith, Settle, SetWork,
            StopWork, Submit
<1>1. CASE AskPool(q)
  BY <1>1 DEF AskPool
<1>2. CASE Lend(q)
  BY <1>2 DEF Lend
<1>3. CASE LendFails(q)
  BY <1>3 DEF LendFails
<1>4. CASE LeaseTimeout(q)
  BY <1>4 DEF LeaseTimeout
<1>5. CASE Begin(q)
  BY <1>5 DEF Begin
<1>6. CASE BeginFails(q)
  BY <1>6 DEF BeginFails
<1>7. CASE ReadAll(q)
  BY <1>7 DEF ReadAll
<1>8. CASE ReadCap(q)
  BY <1>8 DEF ReadCap
<1>9. CASE ReadError(q)
  BY <1>9 DEF ReadError
<1>10. CASE Deadline(q)
  BY <1>10 DEF Deadline
<1>11. CASE Cancelled(q)
  BY <1>11 DEF Cancelled
<1>12. CASE CloseCursor(q)
  BY <1>12 DEF CloseCursor
<1>13. CASE CloseCursorFails(q)
  BY <1>13 DEF CloseCursorFails
<1>14. CASE CloseOracle(q)
  BY <1>14 DEF CloseOracle
<1>15. CASE Rollback(q)
  BY <1>15 DEF Rollback
<1>16. CASE LateLease(q)
  BY <1>16 DEF LateLease
<1> QED
  BY <1>1, <1>2, <1>3, <1>4, <1>5, <1>6, <1>7, <1>8, <1>9, <1>10, <1>11, <1>12,
     <1>13, <1>14, <1>15, <1>16 DEF SessionPart, SessionNext, SessionStep

LEMMA ProcessAgrees ==
    ASSUME TypeOK, Placed, Worked, Processes, NEW q \in Query, ProcessPart(q)
    PROVE  Agrees(q)
<1> USE DEF TypeOK, CallTypeOK, Placed, Worked, Agrees, StopsAtCap, AnswersWhenOver,
            Engine, SessionEngine, ProcessEngine, Go, GoWith, Settle, SetWork,
            StopWork, Processes, Live, Spawn
<1>1. CASE CallSqlite(q)
  BY <1>1 DEF CallSqlite
<1>2. CASE CallDuckdb(q)
  BY <1>2 DEF CallDuckdb
<1>3. CASE Version(q)
  BY <1>3 DEF Version
<1>4. CASE Locked(q)
  BY <1>4 DEF Locked
<1>5. CASE LockTimeout(q)
  BY <1>5 DEF LockTimeout
<1>6. CASE Capped(q)
  BY <1>6 DEF Capped
<1>7. CASE Stop(q)
  BY <1>7 DEF Stop
<1>8. CASE Exit(q)
  BY <1>8 DEF Exit
<1>9. CASE Close(q)
  BY <1>9 DEF Close
<1> QED
  BY <1>1, <1>2, <1>3, <1>4, <1>5, <1>6, <1>7, <1>8, <1>9 DEF ProcessPart, ProcessStep

LEMMA HttpAgrees ==
    ASSUME TypeOK, Placed, Worked, Requested, NEW q \in Query, HttpPart(q)
    PROVE  Agrees(q)
<1> USE DEF TypeOK, CallTypeOK, Placed, Worked, Agrees, StopsAtCap, AnswersWhenOver,
            Engine, SessionEngine, ProcessEngine, Go, GoWith, Settle, SetWork,
            StopWork, Requested, Finish, NeedsCancel, Resp, HttpTypeOK
<1>1. CASE Request(q)
  BY <1>1 DEF Request
<1>2. CASE HttpEnd(q)
  BY <1>2 DEF HttpEnd
<1>3. CASE HttpCap(q)
  BY <1>3 DEF HttpCap
<1>4. CASE HttpError(q)
  BY <1>4 DEF HttpError
<1>5. CASE CancelConfirmed(q)
  BY <1>5 DEF CancelConfirmed
<1>6. CASE CancelUnconfirmed(q)
  BY <1>6 DEF CancelUnconfirmed
<1>7. CASE Sent(q)
  BY <1>7 DEF Sent
<1>8. CASE Arrives(q)
  BY <1>8 DEF Arrives
<1>9. CASE Headers(q)
  BY <1>9 DEF Headers
<1>10. CASE LastByte(q)
  BY <1>10 DEF LastByte
<1>11. CASE ServerNotices(q)
  BY <1>11 DEF ServerNotices
<1> QED
  BY <1>1, <1>2, <1>3, <1>4, <1>5, <1>6, <1>7, <1>8, <1>9, <1>10, <1>11
     DEF HttpPart, HttpNext, HttpStep, HttpElse

LEMMA AgreesStep ==
    ASSUME IInv, [Next]_vars
    PROVE  \A q \in Query : Agrees(q)
<1> USE DEF IInv
<1> SUFFICES ASSUME NEW q \in Query PROVE Agrees(q)
  OBVIOUS
<1>1. ASSUME NEW r \in Query, SessionPart(r) PROVE Agrees(q)
  <2>1. Agrees(r) /\ OneCall(r, SessionPlace)
    BY <1>1, SessionAgrees, SessionCall
  <2> QED
    BY <2>1 DEF OneCall, Agrees
<1>2. ASSUME NEW r \in Query, ProcessPart(r) PROVE Agrees(q)
  <2>1. Agrees(r) /\ OneCall(r, ProcessPlace)
    BY <1>2, ProcessAgrees, ProcessCall
  <2> QED
    BY <2>1 DEF OneCall, Agrees
<1>3. ASSUME NEW r \in Query, HttpPart(r) PROVE Agrees(q)
  <2>1. Agrees(r) /\ OneCall(r, HttpPlace)
    BY <1>3, HttpAgrees, HttpCall
  <2> QED
    BY <2>1 DEF OneCall, Agrees
<1>4. ASSUME NEW r \in Query, ClientPart(r) PROVE Agrees(q)
  <2>1. at'[q] = at[q] \/ at'[q] = "called"
    BY <1>4 DEF ClientPart, Ask, Refused, Enter, Denied, LookUp, Run, Return,
       ServerEnds, Call,
                adapterVars, callVars, TypeOK, CallTypeOK
  <2> QED
    BY <2>1 DEF Agrees
<1>5. CASE UNCHANGED vars
  BY <1>5 DEF vars, callVars, Agrees
<1> QED
  BY <1>1, <1>2, <1>3, <1>4, <1>5, Parts

LEMMA InitInv == Init => IInv
<1> SUFFICES ASSUME Init PROVE IInv
  OBVIOUS
<1> USE DEF Init, SessionInit, ProcessInit, HttpInit, Gate!PermitsInit, Lock!LockInit
<1>1. TypeOK
  BY ExecutionAssumption DEF TypeOK, CallTypeOK, SessionTypeOK, ProcessTypeOK, HttpTypeOK,
       Place, Due, Answer, Work, Stage, Proc, Resp, ExecutionAssumption
<1>2. Placed /\ Slots /\ Worked /\ Requested
  BY DEF Placed, Slots, Worked, Requested
<1>3. Permitted
  BY FS_EmptySet, ExecutionAssumption DEF Permitted, ExecutionAssumption
<1>4. Holding /\ Locks /\ Processes
  BY DEF Holding, Works, Locks, Processes, Live
<1>5. Lending
  BY SessionAssumption DEF Lending, SessionAssumption
<1> QED
  BY <1>1, <1>2, <1>3, <1>4, <1>5 DEF IInv

LEMMA StepInv == IInv /\ [Next]_vars => IInv'
<1> SUFFICES ASSUME IInv, [Next]_vars PROVE IInv'
  OBVIOUS
<1>1. TypeOK' /\ Placed' /\ Slots' /\ Permitted'
  BY Typed, PlacedStep, SlotsStep, PermittedStep
<1>2. Holding' /\ Lending'
  BY HoldingStep, LendingStep
<1>3. Locks' /\ Processes' /\ Worked' /\ Requested'
  BY LocksStep, ProcessesStep, WorkedStep, RequestedStep
<1> QED
  BY <1>1, <1>2, <1>3 DEF IInv

\* The invariant holds in every state (workspace-client.ts and the adapters).
THEOREM ExecutionInvariant == Spec => []IInv
BY InitInv, StepInv, PTL DEF Spec

\* Every variable keeps its type, above all that no query works with a
\* session it does not have (the finally blocks of workspace-client.ts).
THEOREM ExecutionTypeCorrect == Spec => []TypeOK
<1>1. IInv => TypeOK
  BY DEF IInv
<1> QED
  BY <1>1, ExecutionInvariant, PTL

\* Sessions go back clean and are nobody's twice, for any number of sessions
\* and queries (executePostgreSQLQuery, executeMySQLQuery, withOracleConnection).
THEOREM ExecutionSessionsSound == Spec => []SessionsSound
<1>1. IInv => SessionsSound
  <2> SUFFICES ASSUME IInv PROVE SessionsSound
    OBVIOUS
  <2> USE DEF IInv, TypeOK, SessionTypeOK, Holding, Lending
  <2>1. idle \cap (open \cup busy \cup lent) = {}
    OBVIOUS
  <2>2. lent = {conn[q] : q \in {r \in Query : conn[r] # NoSession}}
    BY SessionAssumption DEF SessionAssumption
  <2>3. \A q \in Query : stage[q] = "ended" => at[q] \in {"off", "settled"}
    BY DEF Slots
  <2>4. \A q \in Query : stage[q] = "ended" /\ engine[q] # "mssql" => conn[q] = NoSession
    BY <2>3 DEF Works
  <2> QED
    BY <2>1, <2>2, <2>4 DEF SessionsSound
<1> QED
  BY <1>1, ExecutionInvariant, PTL

\* A process holds a slot and, if it may write, the file until it is gone
\* (runtime/cli.ts:84, duckdb.ts:113).
THEOREM ExecutionProcessesUnderGates == Spec => []ProcessesUnderGates
<1>1. IInv => ProcessesUnderGates
  <2> SUFFICES ASSUME IInv PROVE ProcessesUnderGates
    OBVIOUS
  <2>1. \A q \in Query : Live(q) => q \in held
    BY DEF IInv, Processes, Slots
  <2>2. ASSUME NEW q \in Query, NEW r \in Query, q # r, Live(q), Live(r),
               engine[q] = "duckdb", engine[r] = "duckdb"
        PROVE  readOnly[q]
    BY <2>2 DEF IInv, Processes, Locks
  <2> QED
    BY <2>1, <2>2 DEF ProcessesUnderGates, IInv, Permitted
<1> QED
  BY <1>1, ExecutionInvariant, PTL

\* An answer agrees with what the database has done when it is given
\* (runtime/sql-sessions.ts, runtime/cli.ts, runtime/clickhouse.ts).
THEOREM ExecutionAnswerAgrees == Spec => AnswerAgrees
<1>1. IInv /\ [Next]_vars => [\A q \in Query : Agrees(q)]_vars
  BY AgreesStep
<1>2. Spec => [][\A q \in Query : Agrees(q)]_vars
  BY <1>1, ExecutionInvariant, PTL DEF Spec
<1> QED
  BY <1>2 DEF AnswerAgrees, Agrees

=============================================================================
