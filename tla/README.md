# A TLA+ development of OmniSQL MCP

OmniSQL MCP is a single Node.js process that gives a language model tools on
databases configured in a DBeaver workspace or in the environment. This
directory holds TLA+ modules of the parts of it that run concurrently, TLC
configurations that check them on small instances, and TLAPS proofs of theorems
about them for every value of their constants. Source paths below are relative
to `src/src/` unless they start with `src/`.

JavaScript runs one callback at a time. Two activities interleave only where
one of them suspends at an `await` that really waits: on a driver, a file
operation, a subprocess, a timer or another activity's promise. Every action in
these modules is the code between two such points, with every call it makes.
Promise reactions (microtasks) run before the next timer or I/O event; the
modules where that matters say so with a guard (`Quiescent`).

## 1. Inventory of the system

| Component | Source | State it keeps | Operations |
|---|---|---|---|
| Query gate | `runtime/concurrency.ts` | `active`, `queue` of waiters with timers | `acquire`, the timer, `release` |
| DuckDB file gate | `runtime/concurrency.ts`, `runtime/duckdb.ts` | last writer promise, set of readers, map of files with user counts | `acquire`, time-out, `release`, entry removal |
| Transaction manager | `managers/transaction-manager.ts`, `runtime/lease.ts` | map of transactions with busy and destroyed flags, count of starting ones | begin, execute, commit, rollback, sweep, `rollbackAll` |
| Result artifacts | `runtime/artifacts.ts`, parts of `server.ts` | entries, their bytes, chain of writes, count of waiting writes, closed flag, private directory | save, read, evict, expire, close |
| Connection pools | `pools/connection-pool.ts` | map of pools, map of pools being created | `getPool`, `closePool`, `closeAllPools` |
| SSH tunnels | `net/ssh-tunnel.ts`, `net/known-hosts.ts` | map of tunnels with an alive flag, map of tunnels being opened | `resolveEndpoint`, open, invalidate, `closeAll` |
| Shutdown | `server.ts:353` | none of its own | artifacts, transactions, pools, tunnels, exit |
| Tool dispatch | `server.ts`, `policy/arguments.ts` | disabled tools, allowed connections, scope of notes, interval of the sweep | one handler per tool, four kinds of resource |
| Query execution | `workspace-client.ts`, `runtime/adapter.ts`, `oracle.ts` | one gate per client, one adapter per engine | `executeQuery`, the look-up of names, per-database execution with a deadline |
| Notes | `runtime/notes.ts`, `runtime/private-file.ts` | list of insights, a file shared by processes | refresh, load, save |
| Workspace configuration | `config-parser.ts`, `connections-config.ts` | parsed connections with the signature of their files, the parse under way | `parseConnections` |
| IAM authentication | `auth/iam-auth.ts` | token cache with expiry, user name cache without | resolve a user name, mint a token, log in |
| Subprocess and stream readers | `runtime/cli.ts`, `runtime/clickhouse.ts`, `runtime/sql-sessions.ts` | settled flag, deadline, collector | data, error, deadline, close in any order |
| Policies | `policy/*.ts` | policy file and its revision | decide whether a query, an object, a tool is allowed, in JavaScript or as a SQL predicate |
| Budgets and paging | `runtime/results.ts`, `runtime/compression.ts` | rows and bytes collected | add a row, make a page |
| Algorithms | `utils/schema-diff.ts`, `utils/query-analyzer.ts`, `metadata/*.ts`, `update-check.ts`, `utils.ts` | none | comparison and text building |

How they interact. A tool call resolves its connection through the workspace
configuration, checks the policy, takes a slot of the client's query gate, gets
a pool (which may need a tunnel) and runs the query under a deadline; a DuckDB
query takes the gate of its file instead of a pool. An explicit transaction
leases a session from the pool for as long as it lives and does not use the
gate. A result that is too large goes to the artifacts, which have a query gate
of their own for reads. Shutdown closes artifacts, transactions, pools and
tunnels, in this order, each waiting for what is under way in it, while
requests keep arriving.

What is hard in it, and what makes each part correct:

* **Gates.** A timer fires in the turn in which a slot is handed over; a waiter
  that gave up stays in a promise chain. Correct: slots are conserved, a writer
  runs alone, order is arrival order, nobody waits for somebody who has left.
* **Transactions.** Client calls, error paths, deadlines, the five-minute sweep
  and shutdown all end sessions, across awaits. Correct: a session is returned
  once and finally, what is in the map can be used, the client is never told an
  outcome the database did not have.
* **Artifacts.** Room is made several awaits before it is used; a writer, the
  sweep and close remove files side by side. Correct: limits hold, list and
  directory agree, close waits for everything and ends, and a page is answered
  only if the policy and each connection were found to be what its query ran with.
* **Pools and tunnels.** Concurrent calls want one pool, which is created on an
  endpoint that may be lost meanwhile. Correct: one pool and one forward each,
  found by shutdown, closed in the right order, and every call is answered.
* **Caches** (notes, workspace, IAM, tunnels by id): a cached value outlives
  what it was computed from. Correct: a value is used only with its source,
  whoever shares its computation is told the end, and an insight stays in the
  scope it was made in.
* **Tool calls.** A handler reads the policy file anew at each step, between
  awaits in which the policy, the configuration and the AWS identity change.
  Correct: whatever a database does or tells for a call was allowed by a policy
  there was while it ran.
* **Algorithms.** The rules on names exist twice, in JavaScript and in SQL; ids are
  built from ids; schemas of different engines are compared. Correct: the two
  forms agree, an id means one database, a comparison tells what differs.
* **Query execution** (sessions, subprocesses, HTTP): rows, limits, errors,
  deadlines and exits race to decide one outcome. Correct: the outcome agrees
  with what the database did, a session is back in its pool only when it is
  clean, a process runs only under its gates, and every query ends unless a
  server leaves a BEGIN, a ROLLBACK or the close of a cursor unanswered.

`PROJECT.json` lists the places where this bites under "hazards", each with the
properties that cover it or the reason why none does yet.

## 2. Modules

Every module that models code starts with the source it stands for, and
`PROJECT.json` maps each definition to its lines. Operators commented
"Mutant:" are plausible bugs of the action that follows them; they are used by
no specification and show that each property can fail.

* **`Permits`** is a counting semaphore as an abstract set of holders: take when
  fewer than `maximum` hold, give back. **`QueryGate`** is the class: `active`
  and `queue` are its fields, and `pc` is where each operation is suspended.
  `AcquireNow`, `AcquireFull` and `AcquireWait` are the three ways through
  `acquire`; `Timeout` is the timer callback; `Release` the first and
  `ReleaseAgain` a further call of the closure; `Resume` is the continuation of
  a granted `acquire`, a separate step because the slot changes hands in the
  releaser's turn. A refinement mapping (holders are the granted and the
  holding callers) makes `Permits` its specification. `ResultArtifacts` uses
  `Permits` for its read gate instead of the detailed gate.
* **`SharedLock`** is an abstract readers-writer lock. **`ReadWriteGate`** is the
  promise chain that implements it: `waitsWriter` and `waitsReaders` record
  which promises a request's `Promise.all` contains, `settled` and `finished`
  which are resolved. `DropGate` is the removal of the map entry in
  `duckdb.ts`, after which a new request finds an empty gate.
* **`Outcome`** says what a client may be told about a transaction: committed
  only if it is, rolled back only if it is. **`Transactions`** is the manager
  with leases, sweep and `rollbackAll`. `op` is the point at which a client's
  call is suspended; `server` is the transaction in the database and `lease`
  the pooled client. `Fail` is every catch block, `Discard` is `discard` and
  `destroy`. A leased session (PostgreSQL, MySQL) ends at once, by closing the
  connection; one of SQL Server is asked to roll back, which takes time and can
  fail (`undoing`, `RollbackEnds`). `Sweep` is one stretch of the sweep's loop
  up to its next await.
* **`ResultArtifacts`** is the store with the handlers that save a result and
  read it back. `Reserve` is the loop that expires and evicts, one step per
  unlink; `writes` is the promise chain; `lost` are the files nobody
  knows of after a failed write or unlink; `Ask`, `Checked`, `Authorized`,
  `Enter`, `RowsRead` and `Rechecked` are the awaits of a read. A result can come from
  several connections (compare_schemas has two); `Connect` and `Query` record the
  settings of one after the other before it runs, and `Checked` and `Rechecked` are
  rounds of the loop of `resultConnections`: each looks one connection (`at`) up, in
  the parser's view of the configuration (`known`, which may lag behind the files),
  and compares it and the policy. `since` is auxiliary: the connections that had
  their recorded settings at some time since the read was asked, or its rows were read.
* **`SshTunnels`** is the tunnel manager, its actions without their callers, and
  **`ConnectionPools`** extends it with `getPool`, its callers and the shutdown
  of both managers. `TunnelUp` gives everybody who waited for a forward
  their key; `LookUp` is the code from the key to the pool, the wait for
  another call's creation or an own creation; `Created` and `CreateFails`
  answer the creator and all who joined it. `late` is auxiliary: the keys
  looked up after shutdown began.
* **`QueryExecution`** is `executeQuery`: a slot of the gate (the abstract
  `Permits`), the policy's own query for the names in a statement, the statement,
  and the `finally` that gives the slot back. It composes three modules over
  one base. **`AdapterCall`** is what every adapter shares: where `execute` stands
  (`at`), the outcome it will settle with after its clean-up (`due`), what its
  promise settled with (`answer`), and what the database does with the statement
  (`work`). **`SessionQuery`** is PostgreSQL, MySQL, SQL Server and Oracle: lease,
  BEGIN, read, limit, error, deadline, cursor close, ROLLBACK, return or destroy;
  `asked` are the sessions a pool still owes, which is how `acquireLease` can
  get one after it gave up. **`ProcessQuery`** is `runJsonCli` with the adapters of
  SQLite and DuckDB; a killed process lives on until it exits, and `SharedLock`,
  which `ReadWriteGate` implements, is the gate of the DuckDB file.
  **`HttpQuery`** is ClickHouse: request, response, `finish` with `needsCancel`, and
  the second request that cancels. `Lend`, `LendFails`, `Exit`, `Arrives`,
  `Headers`, `LastByte`, `ServerNotices` and `ServerEnds` are external: drivers,
  operating system, network and servers, as the code meets them. Two of them take a
  view of the code's: every response that is not 200 ends the statement, as
  `clickhouse.ts:207` assumes (a proxy's 502 or 504 need not), and the server has the
  request only after the client's `finish` event (`Arrives`).
* **`ToolCalls`** is a tool call from the request handler to its answer. It has one
  operator per handler (`handleExecuteQuery`, `handleCompareSchemas`, ...), which
  gives the steps that handler takes: connect, note the policy's revision, permit a
  statement, look up its names, execute it, list, compare. `todo` is what is left
  of them, and there is one action per kind of step (`Connected`, `Permit`,
  `LookedUp`, `Trust`, `Execute`, ...), each the code between two awaits with the
  checks it makes under the policy of that moment. `conns` and `listed` are the
  handler's variables, by place: the connection selected first and the target of
  compare_schemas second, each given a value once (`Holding`); `LoadSchemas` is its loop
  over the tables listed. `Refused` has the guards before
  the first await, `CallFails` is every error. `seen` and `ran` are auxiliary: the
  policies there were during a call, and what databases did or told for it. It
  composes six modules:
  * **`Workspace`** is the parser's cache. `disk` holds the contents of both files
    of each project and of the old format; a content stands for its stat.
    `pending` and `joined` are the parse under way and the calls that await it,
    `asked` what each computed before it waited; `StartParse`, `ReadConnections`,
    `ReadCredentials` and `Settle` are the stretches of a parse, `EditFile` and
    `EditConfig` what other programs do meanwhile.
  * **`Notes`** is the insights of one server process: `notesScope` and `store` are
    the two assignments of `refreshNotes`, which part when the second one throws
    (`RefreshFails`). `during` (the scopes there were during a call) and `spoilt` (the
    directories in use when a refresh failed) are auxiliary.
  * **`IamAuth`** has a clock: `users` and `tokens` are the caches, `login` is where a
    call stands in the two runs of the AWS CLI and in logging in. The limits of time are
    constants of any value, and `LimitsFit` says where they fit into a token's life.
    `switched` is auxiliary: the profiles whose identity changed while it was looked up.
  * **`PolicyRules`** has the rules as operators: `AllowsResolved` as JavaScript
    applies them, `IdentityPredicate` as the SQL of a look-up does, `AssertQuery`
    for a statement. A name is the sequence of its parts, a statement its operation,
    its relations and its functions, a glob the names it stands for.
  * **`Selection`** is which connection an id, a name and a database mean.
  * **`SchemaDiff`** is the comparison of two schemas. A type is a word with arguments;
    what the catalog keeps beside it (length, precision, scale) is completed as in
    `comparableSchema`. `SameTable` is the reference, and uses none of the code's
    operators on types: words are alike that mean one type (`Synonyms`), and `Size` is
    the size a column has wherever it is written.
* **`MC...`** modules instantiate these for TLC. **`...Proofs`** modules hold the
  theorems.

Abstractions. Outside `IamAuth`, where the life of a token is the point, time is not
modelled: a timer may fire whenever it is armed (in
`ReadWriteGate`, whenever no promise reaction is pending, which is what the
event loop guarantees), and "more than an hour ago" or "expired" is a flag a
world action sets. Rows, SQL, credentials and error texts do not appear: a
statement, a connection look-up or a driver call succeeds or fails. In the managers
the policy file and the configuration are members of a small set, since the code
compares revisions; only `ToolCalls` looks inside them. The four drivers of a pool
are one that can fail. In `ToolCalls` the tables of the databases do not change,
names have no dots, a statement comes with the facts the parser finds in it, and
its size limits are met; a batch of four schemas is loaded one after the other.
`begin_transaction` ends there where `Transactions` begins.

## 3. Runs

| Run | What it asks | Instance |
|---|---|---|
| `gates` | query gate: slots conserved, queue exact, refinement of `Permits`, FIFO progress; file gate: exclusion, arrival order, entry lifetime, refinement of `SharedLock`, progress | 5 callers, 2 slots, queue of 2; or 5 requests, every mix |
| `transactions` | sessions returned once and finally, none lost, map usable, the limit, refinement of `Outcome` | 3 transactions, limit 2, 2 sweeps; or one of each kind with 2 operations |
| `txn_sweep_busy` | violation: the sweep spares transactions in use | 2 transactions, 1 sweep |
| `txn_failure_open` | violation: a failed query rolls back | 1 SQL Server transaction |
| `txn_stop` | violation: pools are closed after all transactions ended | 1 leased transaction |
| `artifacts` | limits kept, list and directory agree, close drains and ends, answers rest on every connection checked, expired files go | 3 results of 1 or 2 connections, room for 2, 1 handle, 2 policies, 2 settings of each connection |
| `pools` | one pool each, one forward each, limit, order of shutdown, progress | 3 calls, 1 connection with 2 settings, 2 ports, limit 1 |
| `tunnel_target` | violation: a forward leads to the configured target | 2 calls, 2 tunnelled settings |
| `query_execution` | sessions clean and in one hand, processes under their gates, answers agree with the database, every query ends or is on a round trip without limit | 2 queries, 1 session, 2 slots, all 7 engines |
| `tool_calls` | every part of a call allowed, both forms of the rules agree, ids unambiguous, comparisons exact, caches fresh, waits ended, notes apart until a refresh fails, tokens live | 2 calls, 4 connections, 7 scenarios |
| `notes_refresh` | violation: the notes of each scope are apart | 3 calls, 2 scopes |
| `workspace_cache` | violation: the workspace is cached only until its files change | 2 calls, 1 project, 2 versions |

Why these bounds are enough to be interesting. Five callers on two slots and
two places is the least with holders, a full queue and one turned away, so every
branch of `acquire` and hand-over between any two is reached. The gates share nothing,
so each behaviour of `MCGates` uses one of them. Four requests
are needed for a writer that gives up between two holders with a request behind
it; five let the entry be dropped and recreated around that. Transactions are
independent but for the count, the sweep's snapshot and `rollbackAll`, so one of
each kind shows all error paths, and three with two sweeps show overlapping
snapshots: `MCTransactions` starts in either. A result of size 5 exceeds the quota of
4, and `MCResultArtifacts` starts where the last of three results needs the place of
one or the room of both, or where two come at the same time. One change of a setting or
of the policy can fall between any two awaits of a handle on two connections, the recording
of its scopes included. Three calls on one key are a creator and two that
join; two settings and two ports give up to six keys against a limit of one.
Two queries and one session make a session pass from one query to the next in
whatever state it was left, and two DuckDB queries are the least that can share
or exclude each other; queries of different engines meet only in the gate, so
the queries of one behaviour use one engine, or the two that start processes.
Both queries get a slot: waiting for one is what `gates` is about. Each
query can run a look-up before its statement, so its adapter runs twice.
`Requests`, `Claims`, `Sweeps`, `Edits`, `MaxTime` and `budget` are bounds of the models and
not of the code; the other constants are the code's limits, scaled down.

`MCToolCalls` starts in one of seven scenarios, since what its parts do with each other
is more than one instance can hold; `budget` says how often what may change. `AnyTool`:
one call of each tool and resource, on PostgreSQL and on MySQL, on statements of each
kind, while the policy changes once between any two of seven (none, broken, read-only, a
table denied, other tables allowed, one database, functions). `AnyPolicy`: some 350
policies with names of one, two and three parts, alone and together, against every table
and function. `NotesTaken`: two calls, two changes of the scope and a restart.
`FilesEdited`: any contents of the files, two edits during two calls that may share a
parse. `AnySelection`: pairs of calls by any of seven ids and names and three databases,
among connections one of which has the id of another's database. `AnySchemas`: any two
of fourteen tables, which differ in one respect, any two sets of tables, and tables of
one column with any two of 25 spellings of a type, each kind of word with its length or
precision in and beside it. `AwsLogIn`: two log-ins at any time of a token's life, with
a change of identity. `MCNotes` needs no bound but those of its two sets: each call does
one thing.

No run uses symmetry. Deadlock is checked for the gates (`Served` is the end of the
numbered requests on a file) and for transactions.
The other runs stop legitimately: requests and calls are numbered and run out, a closed
store whose results are read is finished, and a process exits.

### Fairness

* `QueryGate`: weak fairness of `Resume` (a resolved promise runs its
  continuation) and `Release`. The second is what the gate asks of its users. They
  release in a `finally`, and their operations have deadlines, with the exception of
  the round trips that `OnRoundTrip` in `SessionQuery` names: a server that never
  answers one of these keeps the slot, and `NoStarvation` with it. Timers have none:
  progress must not depend on them.
* `ReadWriteGate`: weak fairness of `Settle` (promise reactions run) and
  `Leave` (`runJsonCli` kills a process at its deadline). Timers have none.
* `Transactions`: weak fairness that an operation under way ends, one way or
  another (`withDeadline`; the request time-out of the SQL Server driver), that
  time passes and that the interval starts the sweep. Clients need not act, and
  no particular outcome is assumed.
* `ResultArtifacts`: weak fairness that file operations end, that a read ends
  (the gate's timer ends waiting), and of the sweep's timer.
* `ConnectionPools`: pools and tunnels come or fail within the drivers' and
  `ssh2`'s time-outs; strong fairness, because an event that is due is disabled
  while a promise reaction is pending, which happens again and again but never
  for long. `LookUp` is a promise reaction and has weak fairness. Nobody has to
  call, no transport has to fail, no one has to shut down.

* `QueryExecution`: weak fairness, per query, of the steps of `executeQuery` and its
  adapter together with their timers, as long as the query is not `OnRoundTrip`. BEGIN,
  START TRANSACTION and ROLLBACK of PostgreSQL and MySQL and the `cursor.close` of
  PostgreSQL are awaited without a deadline (`workspace-client.ts:376`, `398`, `435`,
  `452`, `sql-sessions.ts:58`), so nothing is assumed to answer them, and `QueryEnds`
  says that a query ends and gives its slot back, or is on such a round trip for ever.
  What else a query waits for is bounded: a lease by the time-out of `acquireLease`,
  Oracle's round trips by `callTimeout`, SQL Server's wait and reading by
  `withDeadline`, and a process killed with SIGKILL exits. None for the statement
  itself, the network or the ClickHouse server: `QueryEnds` must hold although a
  statement never ends.

* `ToolCalls` and its parts state no fairness and no liveness: a call may always fail
  (`CallFails`), and what it runs has its progress in `QueryExecution`. What could
  hang is a shared parse, and that each waiting call is known to it is the invariant
  `WaitsJoined`.

### Disagreements found

* `txn_sweep_busy` (`managers/transaction-manager.ts:275`): the sweep chooses by
  the busy flag and awaits between discards, so it can destroy a transaction
  that has become busy since. `available-tools.md:16` promises idle ones only.
* `txn_failure_open` (`managers/transaction-manager.ts:200`): a SQL Server
  rollback that fails is logged; the transaction has left the map and stays
  open. `available-tools.md:16` promises that a failed query rolls back.
* `txn_stop` (`server.ts:358`): a BEGIN in flight when `rollbackAll` takes the
  map becomes active afterwards and is open when pools are closed.
  `CHANGELOG.md:148` promises the opposite.
* `tunnel_target` (`net/ssh-tunnel.ts:174`): tunnels are kept by connection id
  alone, so edited settings get a new pool over the old forward.
  `databases.md:120` promises the configured target.

* `notes_refresh` (`server.ts:246`): `refreshNotes` assigns `notesScope` before it
  opens the directory of the new scope and loads its file. If that throws, the next
  call sees no change and works on the old list: it lists the insights of the old scope,
  and saves them in the new scope's file, or its own in that of the old.
  `access.md:108` promises that a change of scope starts a separate collection of notes,
  and `CHANGELOG.md:23` that notes are bound to their scope. `ApartUnlessFailed` is
  what does hold: notes are apart until a refresh fails, and after that in every file but
  those it spoilt.
* `workspace_cache` (`config-parser.ts:257`): a call that joins a parse under way
  computes its signature from the files as they are then, and stores under it what
  the parse had read before. `configuration.md:67` promises that workspace data is
  cached until its files change. `CacheFresh` is what does hold: a parse that no
  edit fell into is served exactly while the files are those it read.

Read in the code while modelling, with no run of its own:

* `schema-diff.ts:305` looks up only words of letters and blanks, so that the aliases
  `int2`, `int4`, `int8`, `float4` and `float8` are never found (`WithDigits`):
  `int4` and `integer` are reported as different.
* `comparableSchema` (`schema-diff.ts:317`) adds the length to eight type words.
  Oracle's VARCHAR2, NVARCHAR2 and RAW and the precision of fractional seconds are not
  among them, so that columns that differ in these only are told to be equal, although
  `usage-examples.md:137` says that comparison keeps lengths.
* `iam-auth.ts:21` wants tokens refreshed early enough for log-ins in flight. The time-out
  of the CLI (`iam-auth.ts:363`) has no upper limit, that of a log-in goes up to five
  minutes (`server.ts:180`), and nothing compares them with the life of a token:
  `TokenLive` says that a token is unexpired where they fit (`LimitsFit`), as the
  defaults do, and how old it can get otherwise.
* The user of a pool is looked up once and the user of its tokens at each log-in
  (`connection-pool.ts:197`); if the AWS identity changes during a look-up the two part.
  `OneUser` leaves that out of `TokenLive`.
* A result whose write fails half way leaves its partial file in the directory, out of
  the accounts, until close removes the directory (`artifacts.ts:159`); such files are
  `lost` in the model, and `FilesAccounted` leaves them out.

## 4. Proofs

All eight proof modules are checked to the last leaf. The assumptions are the
named ones on the constants (`GateAssumption`, `RequestsAssumption`,
`TransactionsAssumption`, `ArtifactsAssumption`, `TunnelsAssumption`,
`PoolsAssumption`, `SessionAssumption`, `ExecutionAssumption`, `WorkspaceAssumption`,
`NotesAssumption`, `IamAssumption`, `ToolAssumption`): finite sets, positive limits,
disjoint kinds of values, and scopes made of what their digest is made of. No relation
between the limits of time is assumed.

* **`QueryGateProofs`**. `GateInv == TypeOK /\ SlotAccounting /\ QueueIsWaiting`.
  `SlotAccounting` alone is not inductive: `Release` hands the slot to the head
  of the queue, and the count stays right only if that caller was not an owner
  and there is no second copy of it in the queue, which `QueueIsWaiting` says.
  `WorkConserving` is inductive relative to `GateInv`. For `ImplementsPermits`
  an acquisition is a `Take`, a release a `GiveBack` or a `HandOver`, and
  everything else leaves the holders alone.
* **`ReadWriteGateProofs`**. Exclusion is a statement about holders; to keep it a
  step must know what a resolved wait promise stands for. `RWInv` adds
  `Lifecycle` (a request's state agrees with its promises), `Known` (the gate's
  `writer` and `readers` cover every request that has not finished, also across
  `DropGate`), `Covered` (a pending wait includes every earlier conflicting
  request, directly or through the writer it waits for) and `Behind` (a resolved
  wait has left none of them unfinished). Arrival order and exclusion are
  `Behind` read off, and with them each step refines `SharedLock`.
* **`TransactionsProofs`**. `IInv == Typed /\ Counts /\ \A t : Shape(t)`: for
  each transaction, `Shape` says which combinations of point of suspension, map,
  destroyed flag, lease and database state exist. It is needed because every
  property of interest relates two of these, and a step of another actor
  (sweep, shutdown) changes several at once. A step preserves `Shape(t)`
  for the transactions it touches and leaves the rest alone, so the proof has one
  lemma per kind of step. `Counts` is the exact count of starting transactions
  and the limit on both together.
* **`ResultArtifactsProofs`**. `IInv == TypeOK /\ Chain /\ Shelf /\ Doors`. `Chain`:
  the queue of writes has no duplicates, and only its head is past "queued".
  `Shelf`: listed results are stored, have their file and are not being
  unlinked by anybody; without it a writer's unlink could take the file the sweep
  still lists. `Doors`: who holds a read slot, and what `closed` and `gone` exclude.
  `ScopesHeld` is not about one comparison but about a loop of them with awaits
  between: `Scan` says that whatever round a read is in, the connections before `at` are
  in `since`, those that agree now are, too, and the result it reads is stored, so that
  what was recorded with it no longer changes. The round that ends the loop adds the last.
  `QuotaKept` needs `Room`: the counter of bytes is the sum over the entries, and a
  writer that has made room keeps it across its awaits. That a sum does not depend on
  the order of its parts (`SumsAnyFirst`) needs inductions over numbers and subsets, which
  are stated over a set of indices and derived from the well-foundedness of the naturals
  (`NatInduct`, `SubsetInduct`).
* **`ConnectionPoolsProofs`**. `IInv` adds to the checked invariants `Creators`
  (a pool that is being created has at most one creator, and whoever creates
  has its key: so `Created` adds exactly one pool), `Owners` (a live tunnel has
  one port of its own, and none is opened beside it: so `Dropped` stops the
  right forward) and `Drained` (at each stage of shutdown, a pool it will not
  find was looked up after it began: from which `PoolsGoFirst` follows).

* **`QueryExecutionProofs`**. `IInv` adds to the types nine parts, because a
  query's answer depends on what four others know of it: `Placed` (which engine's
  adapter can stand where), `Slots` and `Permitted` (an adapter runs only in a
  held slot), `Holding` and `Lending` (who has which session, and that open or
  busy sessions are lent), `Locks` and `Processes` (a process that lives has its
  query waiting for it under the file's gate), `Worked` and `Requested` (what the
  database has done when rows, a limit or a response are in sight). One lemma
  per part and adapter shows that a step keeps the part; a frame lemma per adapter
  says what it leaves alone. `SessionsSound`, `ProcessesUnderGates` and the action
  property `AnswerAgrees` follow.

* **`SharedStateProofs`** is about what the calls keep between them. `WorkspaceInv` adds
  to `WaitsJoined` what a parse knows: that nothing was edited since it began if it is
  `clean`, so what it has found is what its places say, and the signatures of the calls
  that joined it are then today's. The format is the difficulty: it may change when a
  parse starts, and a signature then speaks of other files than were read, which is why
  `CacheFresh` asks that the detected format has its file. `IdsUnique`: no two connections
  of a parse, of the cache or of a call have one id. `NotesInv` rests on `StoresApart`,
  which relates the list in memory, the directory it is written to and the calls under
  way outside `spoilt`; with no refresh failed nothing is spoilt, and it gives
  `NotesApart` whole. `IamInv` says how old a token can be at each step from the cache to
  the log-in, by the limit of that step and of those before it, and that a pool's user is
  the cached one unless the identity changed during a look-up.
* **`ToolCallsProofs`** is about the calls.
  * `ToolCallsKeep` lifts the above to the composition: each step of a call is a step of
    one part, for which its lemma is cited, and a stutter of the others.
  * `SamePredicate` and `RulesMeanTheSame` compare the two forms of the rules by the
    length of a pattern, for every policy and name; they ask for named schemas and
    databases, since an empty part is left out of a name in JavaScript and compared as
    a column in SQL.
  * `IdsNameOneTargetAlways`: `IsTarget` says of each connection given that it is a saved
    one of its workspace, or one for another database whose id (the saved id and the
    database) no saved connection has. Two of these with one id are the same
    (`SameTarget`), because the saved ids are unique and appending a database is injective.
  * `RunsAllowedAlways`. `RunsAllowed` speaks of what was run, so its invariant has to
    speak of what is left in `todo`. `Needs(step)` is what a step of a handler relies on
    (a connection, a list of tables, a policy there was, that a statement stays in reach,
    that its names are permitted), `Provides` which step sees to it, `Ready` that each
    need of a list is there or provided by an earlier step. That every handler is ready
    from nothing is proved from its definition (`HandlerReady`); each step of a call keeps
    `Prepared`, which says that the rest is ready from what holds. A step of another actor
    takes nothing away, since the policies seen only grow and what was given to a call is
    given once (`Holding`). When a statement is executed its needs are met, and they are
    what `RunsAllowed` asks.
  * `DiffExactAlways`. `ChangedMeans` proves the comparison of two tables complete: no
    change is told exactly if columns, indexes, constraints and keys are equal once
    completed and normalized. `MeaningSame` proves that this is what the reference
    `SameTable` asks, from `WordsSame` (two words have one normal form exactly if they
    are synonyms) and `ColumnSame` (a completed type has the arguments `Size` says).
    `DiffIs` lifts this to two databases, where a qualified name stands for one row. The
    invariant `DiffInv` says that as long as a call has seen one policy, what it listed
    is what that policy shows.

  `RunsAllowedAlways` and `DiffExactAlways` assume `NoSqlite`: no connection is
  SQLite's. On SQLite `filterCatalogSql` (`workspace-client.ts:820`) compares a rule of
  three parts with an empty name of the database, while a look-up and `allowsResolved`
  compare it with the connection's, so that there a list may hold a table that the rule
  hides or miss one it allows. `RunsAllowed` would ask for more than that code gives,
  so SQLite is left out of the statement, and of the instance of the run.

TLC had checked each property before it was proved. The theorems that follow
from them state the properties the runs check, so what a run shows on its
instance holds for any number of callers, transactions, results, ports and
limits.

Only model-checked: the liveness properties (`NoStarvation`, `NoStall`,
`LeaseComesBack`, `CloseEnds`, `ExpiredGoes`, `CallsEnd`, `ShutdownEnds`, `QueryEnds`),
which need fairness and ENABLED. Every other property of the passing runs is stated by a
theorem. `PendingExact`, the count of starting transactions, is only proved
(`TxnPendingExact`), as part of `Counts`.

## 5. Not modelled

`PROJECT.json` names each component with its status. Out of scope for good:
conversions of text and of driver options (`auth/ssl.ts`, `privacy.ts`, the XML,
JSON, URL and AES parsing of the configuration, the SQL text of the metadata catalogs,
the migration script, tool schemas and the layout of answers), the word-level checks
of `policy/sql.ts`, the WebAssembly SQL parser, the textual query analyzer, the
installer, and the documentation site. Known gaps in
modelled parts:

* a second signal during shutdown, and `artifacts.close` throwing before the
  other steps (`server.ts:355`, `:380`);
* `ssh2` losing the transport between the local server listening and the
  registration of its listener: the model allows a tunnel to stay alive for ever,
  but states no property about it, since the code promises none;
* the SSH client that stays connected when no local port can be opened
  (`net/ssh-tunnel.ts:323`);
* keys of edited settings, and of ports whose tunnel died, stay in the pool map
  until shutdown and count against the limit;
* the policy being revoked while `assertQueryAccess` resolves names in a
  transaction (`managers/transaction-manager.ts:126`);
* SQL Server's BEGIN, COMMIT and ROLLBACK without a deadline of their own;
* a ClickHouse request that is still on its way when its cancellation is
  confirmed (there is nothing to replace yet) and that the server runs
  afterwards: `AnswerAgrees` speaks of the moment of the answer;
* two server processes that write one notes file (`runtime/notes.ts:44`);
* a workspace without files of either format is cached as empty under the signature
  of the detected one; files of the other format that appear later go unnoticed until
  one of the detected appears: `CacheFresh` and `CachedUntilChanged` both speak of a
  detected format with its file, or of an edit while a parse runs;
* the policy of a call may change between its parts: `RunsAllowed` asks that each part
  was allowed by some policy of the call's time, not all by one;
* aliases that the privacy setting puts in place of ids and names, in answers and in
  requests;
* of `explainSqlServerQuery` (`workspace-client.ts:564`) the session: it runs outside the
  gate's slot, and a failed `SET ... OFF` would leave it in the pool in plan mode;
* the cache of DuckDB's version check, and the adapters' `close` at shutdown
  other than as an error of the requests under way.

## 6. Plan

Done: the gates, transactions, artifacts, pools and tunnels, the execution of a query,
and the tool calls with the configuration, policy, notes and log-ins under them, in the
order of what the system's safety rests on, each with its proofs. What is left, in this
order:

1. **`Shutdown`**: the whole sequence with a second signal, over abstract versions of
   the four managers.
2. Budgets and paging (`runtime/results.ts`) as operators against a reference
   definition, and the identifier splitting of `metadata/identifiers.ts`.
3. `RunsAllowedAlways` and `DiffExactAlways` with SQLite connections, for policies whose
   rules have one or two parts, where the empty name of the database makes no difference.
