# A TLA+ verification of the D_aitalk desktop workbench

D_aitalk (a Tauri application: React and TypeScript in `src/src/`, Rust in
`src/src-tauri/`) is a database workbench with an AI agent. Paths below are
relative to the repository, those without a prefix to `src/src/`. This directory
holds the TLA+ modules that model the parts of it where several asynchronous
activities share state, the TLC configurations that check them and the theorems
TLAPS proves about them.

Run a check with `tlc -config bg_fresh.cfg MCBackgroundAgents` or
`tlc -config tk_gate.cfg AgentTasks` (section 4 names the module of each
configuration), and the proofs of a module with `tlapm QueryProofs.tla`.

## 1. Inventory

| Component | State | Operations | What makes it correct | Here |
|---|---|---|---|---|
| Background agents, document store (`lib/backgroundAgents/BackgroundAgentStore.ts`, `lib/persistence/NativeJsonStore.ts`) | one document (agents, environments, runs, approvals, events) in three copies: module-level `cache`, native JSON file, `localStorage` fallback | load, normalise, about twelve updaters that rewrite the cache and save it | updates survive, references between agents, runs, environments and approvals hold, the history is bounded | modelled |
| Background agents, runner and scheduler (`BackgroundAgentRunner.ts`, `App.tsx`, `BackgroundAgentsPanel.tsx`) | reservations `inFlightRuns`, invocations of `executeQueuedBackgroundRun` | request, scan of due agents, drain of the queue, attempts and retry, finish or fail | an agent does not run beside itself, an environment keeps its limit, a place is always released, a queued run is executed at last | modelled |
| Task engine and checkpoints (`lib/agent/TaskEngine.ts`, `TaskState.ts`, `components/ai/AIChat.tsx`) | `currentTask`, `taskCheckpoint`, `pendingTaskResume`, the request's abort controller, `isProcessing` | send, stop, plan, attempt, verify, wait for approval, resume, abandon, restart | one live request; task and checkpoint tell the same; every request ends | modelled |
| Agent loop, plan queue and approval (`AgentLoop.ts`, `components/ai/PlanQueue.tsx`) | `planQueue`, the executions of approved steps; the conversation, the budgets and signatures of a loop | rounds of model and tools, compaction, queueing of a destructive command, approve, approve all, reject, clear, 30 s timer | a command runs once and only after it was approved; no step hangs; every tool call has its result; live queries are bounded | modelled |
| AI provider resilience (`ai/resilience.ts`, `ai/providers/*`) | attempt counter | retry with back-off, time-out, abort, truncated answers | bounded attempts; an abort is not retried | partly |
| Query runtime (`query/runtime.ts`, `useAppQueryController.ts`, `table/QueryManager.ts`, `table/RowStore.ts`) | tabs, one handle, one row store, listeners | run, script, explain, sort, filter, the agent's queries, Stop, tab change | a query settles once, with all its rows, in its own tab | modelled |
| Native query execution and transactions (`src-tauri/src/commands/query.rs`, `security.rs`, `db/query_executor.rs`) | permits, the set of cancelled ids, tasks that stream | admit, execute, stream, cancel | every permit is given back once | partly |
| Result grid (`components/table/VirtualTable.tsx`) | filters and their timers, order, selection, edited cell | type, clear, sort, select, edit, insert, copy a DELETE, while queries answer | statements hit the rows that were meant; rows follow filters and order | partly |
| Connection manager, health monitor, query cache (`src-tauri/src/db/*.rs`) | pools and configurations behind two locks, failure counters | connect, disconnect, test, ping, reconnect | pools and configurations agree; no lock is held for ever | partly |
| Connections in the frontend (`App.tsx`, `ConnectionDialog.tsx`, `db/ConnectionStore.ts`, `src-tauri/src/commands/persistence.rs`) | the list in the sidebar, the saved list in file, keychain and fallback, flows that await the native side | connect, test, repair, restore, disconnect, save, remove | the sidebar shows what is open; a saved connection finds its password again | partly |
| Credentials and Google sign-in (`auth/googleOAuth.ts`, `src-tauri/src/commands/oauth.rs`, `ai/types.ts`, `ProviderSettingsDialog.tsx`) | a one-shot server, tokens and keys in the keychain with a backup in `localStorage` | sign in, refresh, disconnect; type, save, load, migrate a key | a sign-in lasts; the key saved last is the key found | modelled |
| Rules, tools, snippets, presets, history and preferences (eight documents on `NativeJsonStore.ts`) | a cache, a file, a backup and a panel's copy of each | load, edit, save, clear | every edit is kept | modelled |
| Pipelines (`pipelines/PipelineStore.ts`, `PipelinePanel.tsx`) | definitions and runs in a cache and a file of their own, `inFlightPipelines`, the target tables | create, run, steps, cancel, reload, restart | the target table holds the rows of one run, unless two pipelines share it at a time; a run ends | modelled |
| Workspace store and session (`stores/WorkspaceStore.ts`, `workspace/WorkspaceSessionStore.ts`, `components/artifacts/*`) | artifacts with drafts, revisions and heads, tabs, the session file | create, edit, refresh, review, save, restore, duplicate, remove, autosave, load, crash | drafts agree with heads and revisions; saved work is kept; a session opens again | partly |
| Harness: policies, observer, optimizer (`agent/harness/*`) | sessions, the observer's traces, failure traces | the hooks of a session | a failure is recorded | partly |
| Intelligence store and business memory (`src-tauri/src/commands/memory.rs`) | SQL tables of episodes, outcomes, calibration and telemetry | insert, update, clear, record | rows that belong together come and go together | partly |
| Data change review, search index | little | text and scoring | outside the reach of a model checker | no |
| Development agents (`src/agents/orchestrator.ts`) | none that is shared | a sequential script | nothing concurrent | no |
| Dashboards, charts, editors and dialogs | forms, lists and rendering | create, update, delete, draw | unit tests fit them | no |

How the parts interact. The scheduler in `App.tsx` calls the runner of the
background agents every minute; the panel calls the runner and the store; the
runner reads and writes only through the store and awaits the AI provider and
database sources. The chat starts the task engine, which starts the agent loop
for every attempt; the loop puts destructive commands on the plan queue and
returns; the plan queue executes an approved command outside the loop, writes
the outcome into the *same* task and checkpoint, and may ask the chat to resume.
Tools of the loop run queries through the same tabs, handle and row store as the
operator, and create the artifacts the graph builder and the viewers show. Every
query passes the native admission and is looked up in the pools that the
connection flows and the health monitor open and close. The session store saves
tabs, artifacts and the task checkpoint; a restart restores them. The frontend
runs on one JavaScript thread, so its hard behaviours are interleavings at
`await`s, timers that fire in between, promises that are abandoned but not
stopped, and restarts; the native side adds tasks that run beside it, locks and
events. `PROJECT.json` lists the hazards, each with its line.

## 2. How the modules are built

One action is the code between two awaits: a handler up to its first `await`, or
what follows an answer up to the next one. Values are abstracted to what the
properties tell apart (a row to its table and key, a batch to its number, a turn
of the conversation to its role and size); control is kept.

Definitions whose comment starts with "Mutant:" are variants of a definition
with a plausible bug; no specification uses them. They show that the properties
depend on the code: with the variant in place of the original the named property
is violated (pairs in `PROJECT.json`).

Where the code guards nothing against an unusual event (a tab change during a
query, answers out of order, a conversation over its budget), the program goes
wrong and the model with it. The modules do not leave those events out: a *ghost*
variable (`forgotten`, `upset`, `excuse`, `excused`, `lost`, `revived`, `missed`, `mixed`, `crossed`, `own`)
records that exactly that event happened, and the property says what is
guaranteed as long as it has not. Each comment of such a property names the
events; section 5 lists what goes wrong then. Ghosts are read by properties, and by
a guard only as a bound or to give out a new id.

| Module | Role |
|---|---|
| `BackgroundStore` | the document of the background agents and its updaters as pure operators |
| `BackgroundAgents` | cache, file, fallback, calls that await a load, reservations and executions |
| `RunQueue` | abstract specification: what runs promise an operator |
| `MCBackgroundAgents`, `BackgroundAgentsProofs` | small instances; theorems |
| `TaskState` | tasks, subtasks and checkpoints as pure operators |
| `AgentTasks` | requests, task engine, plan queue, panel switch, restart |
| `ApprovalGate` | abstract specification: what the plan queue promises about a command |
| `AgentLoop`, `MCAgentLoop` | the conversation, rounds, budgets and compaction; instance |
| `AgentProofs` | theorems about `AgentTasks` and `AgentLoop` |
| `NativeQueries` | admission, permits, streaming tasks, cancel set, listeners and events |
| `QueryRuntime`, `MCQueryRuntime`, `QueryProofs` | tabs, handle and row store over `NativeQueries`; instance; theorems |
| `TableGrid`, `MCTableGrid`, `TableGridProofs` | the result grid; instance; theorems |
| `ConnectionManager` | the two maps, the lock of the pools, commands and the health monitor |
| `Connections`, `ConnectionsProofs` | the flows of the frontend over `ConnectionManager`; theorems |
| `Pipelines`, `MCPipelines`, `PipelinesProofs` | documents, loads and executor of pipelines; the instance; theorems |
| `ArtifactStore` | drafts, revisions and heads as operators over three variables |
| `Workspace`, `MCWorkspace`, `WorkspaceProofs` | tabs, viewers, graph builder and session over `ArtifactStore`; instance; theorems |
| `SavedConnections` | the saved list of connections: file, keychain, fallback, and the flows that use them |
| `AppDocuments` | the eight small documents: cache, file, backup, panel |
| `GoogleSignIn`, `ApiKeys` | the sign-in and its tokens; the key of a provider |
| `MemoryDb`, `Harness` | the memory database statement by statement; sessions over it |
| `MCStores`, `StoresProofs` | the five small stores as one instance; theorems |

A module that models the frontend `EXTENDS` the module of the native side or of
the pure operators it works with; abstract specifications are instantiated with a
refinement mapping (`Queue`, `Gate`).

## 3. The parts

### Background agents

*Grain.* `loadJsonDocument` and `saveJsonDocument` are synchronous Tauri commands
served in the order they are issued, so a save reaches the file when it is issued
and a load *reads* the file when it is issued but *answers* later. With
`LoadsAtomic = TRUE` the answer is read on delivery: that mode separates what is
wrong only because an answer can be stale from what would be wrong anyway.

A load that answers puts its document in place of the cache, whatever the cache has learned
since. `forgotten` (ghost) records the agents of which the new document tells something else:
their record, or a run of theirs. The properties of the runs except these agents, and no other.

*State.* `cache`, `disk`, `legacy` are the three copies of the document;
`calls[c]` is an asynchronous function waiting for the file (`kind`: what it
does next; `snap`, `fallback`: what it read when it was issued);
`inFlight` is `inFlightRuns`; `exec[r]` is the invocation of
`executeQueuedBackgroundRun` for run `r` past its guard; `starts`, `born`,
`edits`, `restarts` and `faults` are ghosts and bounds.

*Actions.* `RequestRun`, `ScanDue`, `Refresh` issue loads; `LoadReturns`
replaces the cache and continues (`Continue`: `Drain`, `QueueNewRun` with the
de-duplication `CanQueue`, `StartDue`); `LoadFails`, `FallbackSaved` are the
fallback of `ensureBackgroundAgentsLoaded`; `RunSaved`, `EventSaved` the rest of
`runBackgroundAnalysisAgent`. `FirstAttempt`, `RecordEvent`, `QueueFollowup`,
`Retry`, `AttemptEnds`, `CreateReport`, `Finish`, `Fail`, `Close` are one
execution from the reservation to the `finally` block. `AddAgent`, `AddEnv`,
`EditAgents`, `EditEnvs`, `EditRuns` are the panel; `Restart` loses everything
but the file and the fallback.

*Left out.* Names, prompts, events, heartbeats, summaries, the cadence (any
agent may be due) and the 200-item limit of the approvals.

### Chat tasks and the plan queue

*Grain.* `withTimeout` rejects the promise its caller awaits and stops nothing,
so a loop that timed out goes on beside the request that failed because of it
(`ZombieEnds`, and `QueueStep`, which does not read the abort). A request has at
most one loop at work, so loops are indexed by request.

*State.* `currentTask`, `taskCheckpoint`, `pendingTaskResume` are fields of the
workspace store, `saved` the checkpoint of the last snapshot. `planQueue[s]`
keeps a step that left the queue as `removed`; `ran` (ghost) counts how often
its command was dispatched. `approver[p]` is an invocation of `handleApprove` or
`approveAll` (`todo`: the rest of the array it loops over). `request[r]` is an
invocation of `executeAgentRequest` with its engine: `aborted` its signal,
`clears` the 1.5 s timer of the `finally` block, `orphan` says that the component
that started it was unmounted (its `setIsProcessing` reaches nobody).
`controller` is `abortControllerRef`.

*Actions.* `Send`, `ResumeInterrupted`, `ResumePending`, `Stop`, `Abandon`,
`EndRequest` are the chat; `PlanAnswered`, `LoopAnswers`, `VerificationAnswered`,
`LoopThrows`, `LoopTimesOut`, `ClearTask` the engine; `ModelAnswers`, `ToolsEnd`,
`QueueStep`, `ZombieEnds` the loop; `Approve`, `ApproveAll`, `Dispatched`,
`StepFails`, `StepSucceeds`, `Audited`, `Reject`, `ClearQueue`, `AutoReject` the
queue; `SaveSession`, `SwitchPanel`, `Restart` the application.

*Left out.* The inside of a loop, which is the next module; the undo stack,
provenance and audit logs. `resumeEligible` and `resumeRisk` of a checkpoint are
written and never read. The timer of a step exists exactly while the step is
queued and does nothing unless it is pending, so it is folded into `AutoReject`.

### Agent loop

*State.* `chat` is `historyRef`, `history` what the engine hands to a loop,
`working` the turns of the loop; `calls` the calls of the last answer, each at
its own stage, because a round runs them with `Promise.all`; `seen`
(`toolSignatureCounts`), `attempts` (`resultFetchingAttempts`) and `queued` are
what a call reads before its first await and writes after it. A turn is its role, its
size in units of the budget and the number of the answer it belongs to.

*Actions.* `Ask` starts a request, or asks back and cuts the history to its last turns;
`AnswerArrives`, `ModelFails` with retries; `Refuse`, `Dispatch` and `Return` of each
call; `RoundEnds` with the hints appended; a loop that returns compacts the history
(`Returns`); `NextLoop`, `RequestEnds`, `EngineFails`, `Abort`, `TimesOut`,
`ClearConversation`.

*Left out.* Which calls a policy or the confidence gate refuses and when the agent
struggles are left open (either may happen). One request is served at a time;
overlapping ones are in `AgentTasks`. A loop whose time-out fired ends at once here, because what it
still does reaches no history.

### Queries

*Native side (`NativeQueries`).* `job[q]` is the task of a query, `on` its
connection, `total` and `perConn` the permits, `cancelled` the set of ids,
`events` what was emitted and not delivered, `listeners` who hears. Drivers read
the cancel set when a batch is full (Postgres, MySQL, SQLite, SQL Server),
before each read (ClickHouse, Redis, MongoDB), or never (DuckDB); the instance
has one connection of each kind. An event emitted before its listener is
registered is lost, which `missed` records.

*Frontend (`QueryRuntime`).* `query[q]` is the call that runs a query (kind, the
tab it was started from, the phase it awaits, rows heard, outcome); `handle`,
`store`, `active` are shared by all tabs. `Run`, `RunScript`, `Explain`,
`Reexecute`, `AgentRuns`, `AgentAnalyses` start; `StatementReturns`,
`StartReturns`, `StartFails`, `Register`, `ListenReturns` go on; `Deliver` hands an
event to who listens; `Stop`, `ServeCancel`, `StopReturns`, `AgentCancels`,
`AgentTimesOut`, `SwitchTab`, `Hydrate` are the rest. `upset` names the four
things nothing guards against: an `overlap` of two queries, an `early stop`
(before there is a handle), an `agent timeout` before the start returned, and a
`switch` of tabs under a query.

*Left out.* Conversion of rows, columns, SQL text, the history list, the events
for the intelligence store. Transactions are three statements sent to whatever
connection of a pool is free: there is no state of their own to model (section 5).

### Result grid

*State.* `view[t]` holds filters, order and base query of a tab; `timers` the
texts that wait for their debounce; `rows` the row store, in the order shown;
selection and edited cell are indexes into it, as in the code. `queries` are asked, answer,
are listened to, stream and end: their handle, cancellation and permits are in `QueryRuntime`.
A filter is the set of keys it keeps and `Sorted` is the order the database returns, so that
`RowsFollowView` can say what should be shown.

*Actions.* Typing and its timers, the crosses, sorting, `RunQuery`, `RunAnalysis` (the agent's
`run_duckdb_analysis`, a query of no tab), `CancelQuery` and `SetActiveTab` ask. Of a query that
was asked, `Answer` is the response with the reset of the row store and `Listens` the listener,
an await later: what was emitted in between is lost, its columns first, and when that is
everything (`EndsUnheard`) the grid goes on to stream. `Heads` and `Batch` are what the listener
hears, `Fail` every other end. The clicks and keys select, edit, insert and delete.

*Ghosts.* `own` (the rows are those of the tab's last query, heard from its first batch and
alone in the row store), `meant` (the filters its user asked last), `crossed` (something was
asked while a text waited), `sent`, `chosen`, `copied` (what a statement was meant for).

*Left out.* Panes, pins, diffs, exports, copies of values, charts and the columns of
sheets.

### Connections

*State.* `pool` and `conf` are the two maps; `command` what each caller asked of the
native side; `monitor` the loop of the health monitor, which holds the read lock of
the pools while it pings; `up` the servers that answer. `flow`, `listed` and
`restoring` are the frontend. The lock is fair (tokio): who waits to write blocks the
readers behind it.

*Actions.* The dialog connects, tests and repairs, the start restores, the sidebar
disconnects and queries, each with the native commands it awaits; the monitor pings,
counts failures and reconnects with the configuration it copied. `Configures` ends `db_connect`:
the keychain may refuse the secret, and the command fails with the connection open. `excuse`
records that, that a test or a repair used the id, or that two writers met on it.

*Left out.* Tunnels, schemas, and the
configurations that open no pool (PI Historian, REST, DuckDB). The query cache is
only ever cleared: nothing inserts or looks up.

### Pipelines

*State.* `cache`, `file` and `queue` (saves and loads that were asked for and not
answered; the native commands are synchronous and answered in order), `exec[r]`
what a run awaits, `inFlight`, `target` what each table holds. `TargetTable` names the table
of each pipeline: `targetTable` is a free string, so two pipelines may have the same one.

*Actions.* Creating, deleting, running from the panel (`PanelRuns`) or by the agent
(`AgentRuns`); `Loads` by the panel and by whoever finds the cache empty; the executor (`Enters`
to `Leaves`) with one query step and one materialize step (create, clear, fill), each of
which may fail (`Breaks`); `Restart`.

*Left out.* Nothing in the program gives a pipeline a cadence, so its scheduler only
loads; assertions and edits of a definition have no caller. Failed saves and loads are
modelled for the background agents, which use the same helpers. A file exists at the start.

*Ghost.* `lost` holds the pipelines whose records a load has put back to an older document
while a run was under way, or has brought an open record back to, and those a restart cut off.
`crossed` holds the runs that were executed while a run of another pipeline filled the same
table: `inFlightPipelines` keeps ids apart, not tables, so their statements alternate.
`RowsOfOneRun` excepts them; it covers the runs of one pipeline and the runs of two that follow
each other on one table.

### Workspace

*State.* `ArtifactStore` has `artifacts` (drafts), `revisions` and `heads`;
`Workspace` adds open tabs, the chart request, the review dialog, the window, the
session file and what is unsaved.

*Actions.* `SnapshotQuery`, `CreateChart`, `CreateAnalysisChart` and `MakeReport`; the
graph builder that takes a request (`GraphBuilderTakes`); `StartReview`, `CancelReview`
and `ConfirmRefresh`, which rewrites the draft of the report on show; `SaveDraft`,
`DiscardDraft`, `RestoreRevision`, `DuplicateRevision`, `Remove`; tabs; `AutoSave` 600 ms
after a change, `LoadSucceeds`, `LoadFails`, and `Restart`, which is a crash that may
tear the file in the middle of a save (`Torn`). A viewer of an artifact without
revisions renders nothing and leaves the window blank.

*Left out.* Dashboards, which nothing opens, sheets, which are not saved with the
session, the undo stack, whose Ctrl+Z only shows a message, and the parts of the store
modelled with queries, tasks and connections.

### Saved connections

*State.* `file`, `vault`, `entry` and `local` are the four places a saved connection is in;
a connection string is reduced to what it says of its password (a password, "***", nothing).
`connections` is the list of the store, `flow[f]` what a flow of the window awaits, with the
list its render saw. `last` (ghost) is the password each server accepted last.

*Actions.* `TypesPassword`, `QuickConnect`, `RestoreConnects` call `db_connect`, which completes
the string (`Effective`) and may store it (`Connects`, `ConnectsUnkept`, `Refused`); `LooksUp`,
`SavesPassword` and `SavesList` are `persistConnections`; `Disconnect`, `RemoveSaved`;
`EndsInSave` and
`Restart`; `ServerChanges` is the server asking for another password.

### Small documents

*State.* One document of a `kind`; `cache`, `file`, `legacy` (the backup), the native calls in
the order they were asked (`queue`), the panel's copy (`shown`). `wanted` (ghost) is the list
with every edit.

*Actions.* The three ways the modules load (`EnsureLoaded`, `PanelOpens`, `FirstRender`), edits,
saves that succeed or fail, clearing the history, and a restart that serves any first part of
the calls that are out.

### Sign-in, keys

*State.* The one-shot `server` of each attempt, the `pages` that may answer it, the flows and
loads that wait, the values each writer has still to store, the fields in the keychain and the
backup; in `ApiKeys`, the three places a key is in, the form and the assistant's copy.

*Actions.* Each await of `googleOAuth.ts` and of the one-shot server, with strays and
time-outs; the loads, the refresh and Disconnect; the migration, the form, the wizard, and keychain
writes that are answered in any order.

*Left out.* The cryptography of the exchange and which host asks.

### Memory and harness

*State.* Four tables and the calls under way on a shared pool (`MemoryDb`); the hooks of a
session, the observer's and the failure traces, and the panel's list of outcomes (`Harness`).

*Actions.* One statement or transaction of a command each: inserts, the two deletes of a clear,
the update of an outcome with the read and write of the calibration, the lookup and insert of an
edge. `RecordFailure` stands for a call that wants a version as text; its callers pass none, so
it is rejected.

*Left out.* Usage events, customers and the intelligence store, which are single statements on
tables of their own; what rules and policies match.

## 4. Runs

All instances are the smallest in which the situation each property is about
occurs; every mutant and every violation is found within them.

| Run (module) | Specification, instance | What it shows |
|---|---|---|
| `bg_faults` (`MCBackgroundAgents`) | `Spec`; 2 agents in one environment, 2 runs in a history of 1, 1 call waiting, stale answers, 1 failed load or save, 1 edit, 1 restart | `ReservationsMatch`, `WithinCapacity` hold whatever fails; `LastStatusIsNewest` and the refinement `ImplementsRunQueue` of every agent that was not forgotten |
| `bg_fresh` (`MCBackgroundAgents`) | `FairSpec`, fresh loads; 2 agents (one created later), 2 environments, 2 runs, history of 1, 2 attempts, 2 calls, 2 edits | `AgentRunsAlone`, `OneExecutorPerRun` while the operator creates, moves, deletes and disables and an environment has two places; `OpenRunsEnd` as long as he only creates (enabling or freeing an environment drains nothing, so a run would wait for the next event) |
| `tk_gate` (`AgentTasks`) | `Spec`; 2 requests of 2 subtasks, 1 retry, 1 command, 1 restart | `OneLiveRequest` and the refinement `ImplementsApprovalGate`, with stops, resumes and time-outs |
| `tk_all` (`AgentTasks`) | `FairSpec`; 1 request of 2 subtasks, 2 commands, 2 executions at once, Approve All, 1 panel switch | `TaskAndCheckpointAgree`, `ExecutingStepHasApprover`, `RequestsEnd`, `StepsAreDecided` |
| `tk_reject` (`AgentTasks`) | `Spec`; 1 request, 2 commands, Approve All | violates `RejectedStepsDoNotRun` |
| `al_loop` (`MCAgentLoop`) | `LoopSpec`; 2 loops of 2 rounds with 2 calls, 2 attempts, 2 signatures, a budget of 8 and results of 1 or 6 | `CallsHaveResults`, `LiveQueriesAreBounded` |
| `qr_tabs` (`MCQueryRuntime`) | `FairSpec`; 2 tabs, 2 queries, one connection per kind of driver, 1 permit each and 2 in all, 1 batch before the last, 1 of the four upsets | permits: `PermitsMatch`; rows: `ResultsAreComplete`, `ResultsInOwnTab`, `StoreRowsAreOwn`; Stop: `StopReachesQuery`; settling once and at last: `SettledIsSilent`, `QueriesSettle` |
| `tg_grid` (`MCTableGrid`) | `Spec`; 2 tabs, 2 tables of 3 rows in a store of 2, 3 gestures, 2 queries in flight, batches of any size, any part of them lost before the listener | `EditsHitTheirRow`, `DeleteNamesSelection`, `RowsFollowView`, `LastFilterWins` |
| `cn_life` (`Connections`) | `FairSpec`; 1 id with 2 configurations, every kind of flow, 2 at a time, 2 reconnects | `ConfigMatchesPool`, `SidebarShowsOpen`, `LockComesFree` |
| `pl_runs` (`MCPipelines`) | `Spec`; 2 pipelines that fill one table, 2 runs in a history of 1, 1 load and 2 requests under way when one more is asked for, 1 restart; the pipelines are symmetric | `RowsOfOneRun`, `RunsMatch` |
| `ws_session` (`MCWorkspace`) | `Spec`; 1 chart or snapshot, 2 reports, 3 revisions in a history of 2, 2 tabs, 1 unsaved change, any number of crashes; deadlock is checked | `DraftMatchesHead`, `WorkIsKept`, `SessionOpens`, `RefreshLosesNothing` |
| `st_stores` (`MCStores`) | `StoresSpec`; 1 session with 2 tool calls, 2 saved connections with 2 passwords and 2 flows, every kind of document with 3 edits, 2 places to sign in with 2 attempts, 4 keys typed; a fault and a restart | `MemoryAgrees`, `SavedReconnects`, `ListIsKept`, `SignedInStays`, `KeyIsFound` |

`st_stores` is one run for five stores. They share no file, no key of the keychain and no
call, so nothing of one can change what holds of another: in each behaviour one of them
moves (`store`) and the others stay at one of their initial states, and what holds of each by
itself holds of all of them together.

*Bounds.* Two of a kind (runs, requests, queries, flows, tabs, reports) are what a
de-duplication, a reservation, an abort or a shared handle can confuse; two calls
waiting for the file are what can overtake each other; a limit of one and of two
places tells a full environment from a half-full one; two attempts
(`MaxAttempts`, `MaxAutoRetries`) tell the first from the last; a history of one
run makes every new run trim, and of two revisions makes the third one. Two queued
commands are what Approve All needs to go on with another one, two calls side by
side what a budget read before an await needs to be overrun. One batch before the last one
is what can be lost, repeated or mixed; three rows in a store of two make it
slide. A size of 6 against a budget of 8 makes one large result fit and two
not. Edits, restarts, faults, switches and upsets are events that may happen at any
point; the runs allow as many as lead to new situations (with two upsets at once
`qr_tabs` leaves the time a run may take, and each property names the single ones
it depends on). Every bound is a CONSTANT marked "bound:" or named `Max...` in its
module and is tested in the guards. `MaxCalls`, `MaxApprovers`, `MaxSteps`,
`MaxLoads`, `MaxGestures` and `MaxQueries` bound what the code leaves
unbounded. Apart from `ws_session`, deadlock is not checked: when the bounds are
used up the modelled system may stop, and the program itself may be idle for ever.

*Symmetry.* Agents, signatures, tabs with tables, pipelines and reports are interchangeable in
`bg_faults`, `al_loop`, `tg_grid`, `pl_runs` and `ws_session`, which check no liveness property.

*Switches of the environment.* `LoadsAtomic` is described above; `bg_fresh` sets it because
with two calls, two edits and stale answers the instance is out of reach, and the theorems of
section 6 hold without it.
`ApproveAllUsed` is the operator using the Approve All button: the gate is
refined only without it (`tk_reject` is the reason). `MaxSwitches = 0` in
`tk_gate` is an operator who stays on the chat panel.

*Fairness.* `BackgroundAgents!Fairness`: weak on the answers of native calls and
on the next step of an execution (a provider or database call answers or
fails; the code sets no deadline of its own, so `OpenRunsEnd` is relative to
that), strong on `Close` only because the bound `MaxCalls` may disable it again
and again, which the code cannot. `AgentTasks!FairSpec`
assumes only timers and local calls: planning has a time-out of 16 s, a loop of
35 or 45 s, a verification of 10 s, the calls of `EndRequest` are native and
local, and `AutoReject` is a 30 s timer. Nothing is assumed of the provider, the
tools or the execution of an approved command. `QueryRuntime!Fairness`: the
database answers a query it was given, local calls return, events are delivered, the
agent's timers fire; nothing of Stop, of tabs or of starting queries.
`Connections!Fairness`: the monitor's timers fire and its drivers answer, fail or run into the
ping's time-out; nothing of the operator.

## 5. Findings

A disagreement with what the repository says is shown by a run of its own: `tk_reject`. Approve
All executes a step that was rejected, timed out or cleared after the click, where
`PlanQueue.tsx:5` says that "Reject" removes it without running.

Other deviations met while modelling. The ghosts and environment switches of the
modules mark those that are modelled; the others lie in code that is left out.

* Background agents. `ensureBackgroundAgentsLoaded` replaces the cache by an answer older than
  updates made since, and an agent is started a second time while the first execution goes on
  (`BackgroundAgentStore.ts:362` against `docs/background-analysis-agents-plan.md:97`). A drain
  gives a place to a run that is reserved but still queued in the document,
  `executeQueuedBackgroundRun` returns at its guard, and the next queued run waits with a place
  free (`BackgroundAgentRunner.ts:510` against `docs/background-fleet-environments-plan.md:33`).
  Enabling an environment drains nothing. A run left queued or running by a restart blocks its
  agent for ever (`docs/background-analysis-agents-plan.md:103`).
* Tasks. A step that is rejected by its timer, or decided before its loop returns, leaves its
  task waiting for an approval nobody can give (`AgentLoop.ts:1407`, `TaskEngine.ts:423` against
  `docs/production-readiness-plan.md:142`). Leaving the chat panel loses the abort controller;
  the next request runs beside the one before (`AIChat.tsx:290`).
* Agent loop. The compaction of the history (`ContextEngine.ts:104`), the cut to 40 turns when
  the loop asks back (`AgentLoop.ts:1190`) and an answer truncated at its token limit part tool
  calls from their results. After a compaction `getRecentToolCalls` counts from the wrong place,
  and a verification can be skipped (`TaskEngine.ts:145`). A comment of `ContextEngine.ts`
  speaks of the last 6 answers where the code keeps 10. Clear conversation during a request is
  undone when the request ends (`AIChat.tsx:873` and `:484`). The confidence gate asks at most
  once per request; `onToolError` is never called; a session's observer is not finalised when
  the loop throws.
* Queries. Batches emitted before the listener is registered are lost and, if the last one is
  among them, the query never settles (`runtime.ts:258`). Stop before there is a handle cancels
  nothing and shows the tab idle; callbacks write to the tab that is active when they run;
  overlapping queries mix rows in the one row store. A transaction is three statements over a
  pool, which need not reach the same connection (`App.tsx:914`, against
  `docs/superpowers/specs/2026-04-19-daitalk-v2-roadmap-design.md:56`). SQL Server keeps the
  mutex of its client for a whole stream.
* Result grid. A query that is run again for a filter or an order loses the batches emitted
  before its listener is registered, and if the last one is among them the grid goes on to
  stream for ever (`QueryManager.ts:169`). Two such queries share the row store: the one that
  answers last clears it (`:161`), and what the other still brings is mixed in. The agent's
  analysis replaces the rows and stores no results (`registerHandlers.ts:1085`), and its cancel
  makes the row store idle whatever streams (`:554`). After a change of tab the grid shows the
  other tab's rows, and edits, copied DELETEs and inserted rows go to the table of the active
  one (`VirtualTable.tsx:894`, `:1028`); while a new base query streams, the DELETE uses the old
  source table. A cleared filter is
  applied again by its debounce timer, or filters another tab (`:980`, `:1592`); "c IS NULL"
  sets its box after an await (`:1500`).
* Connections. Restoring the saved connections and a failure among them leave a list the next
  connect or disconnect saves: a disconnect may save an empty one and erase all saved
  connections with their secrets (`App.tsx:380-421`, `:842-850`, `:877-884`,
  `lib/db/ConnectionStore.ts:329`, `persistence.rs:325`). In the model these are the excuses
  "emptied" and "overlooked" of `SavedConnections`. A string that shows "***" is stored as a
  password (`ConnectionStore.ts:105`). A `db_connect` that fails because the keychain refuses the
  secret leaves its connection open, pinged and reconnected, and not in the sidebar
  (`commands/connection.rs:21`; the excuse "refused" of `Connections`). A monitor that connects
  after a disconnect brings the
  connection back. A failing OAuth server leaves the sign-in hanging (`googleOAuth.ts:214`); an
  old key wins over a new one whose write to the keychain failed (`ai/types.ts:293`); a refresh
  that overlaps a Disconnect stores a token again (`googleOAuth.ts:276`).
* Documents. A backup in `localStorage` beside a file that can be read is never looked at again,
  so edits made while saves failed disappear; the first query after a start replaces the history
  by itself when it is recorded before the history is loaded (`QueryHistory.tsx:52`); the first
  render fills the cache of preferences and of the provider from the backup, and the load after
  it returns that cache, so their file is not read.
* Memory. Clearing is two statements and an edge a lookup and an insert (`memory.rs:426`,
  `:1199`); `FailureTraceStore` is rejected for the version it does not pass; a session is
  stored twice, under two ids.
* Pipelines. A load by the panel loses runs queued meanwhile; an open run left by a restart
  blocks its pipeline for ever (`PipelineStore.ts:592`). Two pipelines with the same
  `targetTable` may be executed at once (`:636`, `:741`): the DELETE and the INSERTs of one fall
  between those of the other, and both report success on a table with the rows of both.
* Workspace. A session that could not be read is overwritten by the next save (`App.tsx:223`); a
  viewer of an artifact without revisions blanks the window (`ArtifactReportViewer.tsx:36`); a
  review that is left open may act on another report; Ctrl+Z only shows a message
  (`App.tsx:312`).

## 6. Proofs

Every theorem holds for all values of the constants under the `ASSUME`s of its
module, which every run evaluates. Each follows the same argument: an inductive
invariant stronger than the property, `Init` implies it, every action keeps it (one
lemma per action or per kind of action), it implies the property.

### BackgroundAgentsProofs

With stale answers, failed loads and saves and restarts; the sets of agents and
environments may be infinite.

* `TypeCorrect`: `Spec => []TypeOK`. Not inductive by itself: a call that is to
  run an agent must name one and a load under way must carry its snapshot, so
  the invariant is `Typed`, that is `TypeOK` with `CallsWellFormed`, in four
  parts (the copies, the calls, the runner, the counters), with one lemma per
  updater of the document and one per action.
* `Reservations`: `Spec => []ReservationsMatch`. Lemma `StepKinds` reduces the
  actions to four kinds: invocations move on, start, one closes, all are lost.
* `Capacity`: `Spec => []WithinCapacity`, from `ReservationsMatch` and the guard of
  a drain: it starts at most as many runs as an environment has free places, and the places of
  runs already reserved there count, because `Picked` is read against `inFlight`.
* `OneExecutor`: `Spec => OneExecutorPerRun`: only a run without an invocation is
  started, because its reservation would show.

Three more are about the agents that were not forgotten:

* `RunsAlone`: `Spec => []AgentRunsAlone`; `LastStatus`: `Spec => []LastStatusIsNewest`;
  `RunQueueImplemented`: `Spec => ImplementsRunQueue`, the refinement of `RunQueue`, safety part.

That a forgotten agent must be excepted is the program's doing: a stale answer, or the backup a
failed load falls back to, brings back a document without an open run, and the agent is started
beside itself (section 5). That no other agent need be is what the theorems say: invocations of
forgotten runs go on writing to a document that shows these runs differently or not at all, new
runs draw ids that older copies of the document do not have, and nothing of this reaches the runs
of another agent. The invariant `KnownInv` reads the document and the invocations without the
forgotten agents (`Known`, `Busy`) and says of what is left (`Truth`)

* what the document tells of its runs (`History`: its runs belong to agents that were created, an
  agent's open run is its newest, and its status is the one shown),
* which run is behind every invocation (`Execs`: it is open in the document until it is closing,
  unless the agent was deleted), and that no agent has two (`Alone`).

Neither follows without the other: a run is closed through its invocation, and a new one is let
in by what the document says. The last part, `Drawn`, is about ids: every copy of the document,
in the cache, the file, the fallback and the loads under way, gives a run's id to the same agent
or to none, so that a forgotten invocation finds its own run or nothing. Every action is a
replacement of the cache followed by one of six steps of the runs (`Does`: quiet, dispatch,
queue, delete, create, set; `StepDoes`). A replacement takes agents out of what is known
(`ReplaceForgets`), each step keeps the rest true (`KnownDoes`), or touches only a forgotten
agent, and maps to a step of `RunQueue` (`QueueStep`).

### AgentProofs

Of `AgentTasks`, for any number of requests, subtasks, attempts, queued commands, executions,
restarts and panel switches. The inductive invariant is `Typed`: the types, that a
request whose engine is at work holds a task with status `running` (otherwise
`LoopTimesOut` could finalise nothing and `Publish` could publish a task that is
over), that an execution has a step, and `TaskAndCheckpointAgree`, which every
writer of the two fields preserves. One lemma per action, with a lemma for each
of the shared parts `Publish`, `StartAttempt`, `EndEngine`, `Verified`, `SyncTask`
and `BeginStep`.

* `TypeCorrect`: `Spec => []TypeOK`; `TasksAgree`: `Spec => []TaskAndCheckpointAgree`,
  both from `Typed`.
* `ExecutingSteps`: `Spec => []ExecutingStepHasApprover`, inductive beside `Typed`.
* `OneLive`: `Spec => [](switches = 0 => OneLiveRequest)`. The invariant is
  `LiveIsControlled`: a request that is served and not aborted is the one
  `abortControllerRef` points to. A panel switch breaks exactly this.
* `GateImplemented`: `~ApproveAllUsed => (Spec => ImplementsApprovalGate)`, the
  refinement of `ApprovalGate`. The invariant `Ledger` relates the number of times
  a command ran to the status of its step and says that no execution has further
  steps to go on with; that last part is what Approve All breaks.

Of `AgentLoop`, whose own initial states and steps are `LoopInit` and `LoopNext`, for any
budget, any number of rounds and sizes of turns:

* `CallsPaired`: `LoopSpec => []CallsHaveResults`. The invariant `PInv` adds that an idle chat
  holds no history, and `CallsOpen`: while a round's calls are at work the last turn is their
  answer and everything before it is paired. It is proved over sequences of any length, from
  lemmas on what appending a plain turn, or an answer and its results, does to `Paired`.
* `LiveQueries`: `LoopSpec => []LiveQueriesAreBounded`. A call reads the budget before its first
  await and adds to it after its last, so the count alone bounds nothing. `SentOnce` says that a
  signature not yet seen was never sent, and that of the calls still in their checks no two have
  the same; `WithinBudget` counts the calls still open (`Open`) as if they had returned, which
  bounds the overrun by the calls of one answer.

### QueryProofs

`Permits`: `Spec => []PermitsMatch`. The invariant `IInv` adds to `PermitsMatch` the types of
the native variables, the shape of calls and tabs, and `Handshakes`: in each phase of a call it
fixes what was asked, what was answered and whether the task may hold a permit. Without it a
call could be launched over a task at work and the permit of the old connection be given back on
the new one. Lemmas `Enters`, `Leaves` and `Keeps` count the holders with cardinalities; the
actions reduce to steps of one call (`OneCallStep`) and steps of none (`NoCallStep`).

`SettledStays`: `Spec => SettledIsSilent`, over `IInv`. What must be known of a settled query is
that it can hear nothing: it has stopped to listen and will not listen again (`Deaf`), or its
last batch has been delivered and its task is past the stream (`Silent`), which is what keeps a
query that completed before its `listen` returned from hearing more. That needs `LastIsLast`,
over the queue of events: nothing of a query follows its last batch; and `HandleIsLive`: Stop
only reaches a query whose listener is there to be removed.

What the frontend shows rests on `RInv`, over the two invariants above:

* `Flights` says where the queries in flight are as long as the ghost `upset` is silent: in the
  active tab, one at a time, none once Stop was pressed. It contains `StopReachesQuery`, which
  gives `StopReaches`.
* `Orders` says of a query that is neither settled nor missed a batch that its rows are the
  first batches and that the queue holds all the others that were sent, in order. `DeadSettled`:
  a call that was abandoned is settled.
* `AllShown` says of every tab that its results are of one query, settled, complete and in its
  tab: `Complete` and `OwnTab`.
* `StoreIsOwn` says that the shared store holds the last rows of the query it names, and that
  who may still feed it is that query: `OwnRows`, for any size of the ring buffer.

### ConnectionsProofs

`PolicyOfPool`: `Spec => []ConfigMatchesPool`, and `SidebarTrue`: `Spec => []SidebarShowsOpen`.
A pool, its configuration and the sidebar are written in three steps that others may come
between, so neither is inductive. A connection that was not raced has one writer at most, a flow
or the monitor; `Sound` says of it how far that writer has come and what is still to be written,
`Awaits` what a flow may have asked of the native side in each stage. A step of anyone else
leaves the connection aside. A connection whose `db_connect` failed at the keychain is open, listed
or not. The ghost counts writers with `Cardinality`, which is usable
because the callers are finitely many.

### PipelinesProofs

`RowsAreOwn`: `Spec => []RowsOfOneRun`. The invariant adds the types of executions
and targets, `Reserved` (who executes is in `inFlightPipelines`), `OneExecutor`, `Marked` (two
runs that execute on one table are `crossed`) and `FillsItsOwn` (the run that fills a table is
the one that cleared it, unless it is `crossed`). The set kept in memory, not the documents, is
what keeps a second run of a pipeline out: stale loads may take any run out of the cache. It
says nothing of tables, so `Marked` is all that holds between pipelines; the theorem is for any
assignment of tables to pipelines.

`RunsTell`: `Spec => []RunsMatch`. The invariant `PInv` says of a pipeline that is not `lost`
that its open records are those of its live run (`Tells`), and adds the types of the documents,
also of those in the queue (`Docs`), that a run waits for a save that is in the queue
(`Leaving`), that numbers not yet given out are nowhere (`Fresh`), and that who keeps a pipeline
in flight executes it (`Reserves`). The part that makes it inductive is `Before`: a run that is
queued while another one leaves waits for a save that is written after the one the other waits
for. Saves are answered in their order, so it never finds its pipeline still in flight, where it
would return and stay open for ever.

### WorkspaceProofs

`DraftsMatch`: `Spec => []DraftMatchesHead`. The invariant says it of the window
(`WindowAgrees`) and of the session in the file (`FileAgrees`), because a restart
makes the one of the other, and adds `LastIsNewest`: revision numbers grow along a
history, so that cutting its oldest end never cuts the one the head names.

`RefreshKeepsWork`: `Spec => RefreshLosesNothing`. The invariant `RInv` says that the review
shows what it rests on (`ReviewHolds`) and that ids are given out once (`IdsAreUsed`), so that a
session that is loaded holds no other report under the id of the one reviewed.

`SavedWorkIsKept`: `Spec => []WorkIsKept`. The invariant `Kept` says of the file, also while the
window is ready, what `WorkIsKept` says only while it is not. `WorkspaceAssumption` states that
the values standing for a missing and for a torn file are no sessions, which a model value is
not but the prover cannot tell from the shape of a record.

`SessionCanOpen`: `Spec => []SessionOpens`. `ActiveIsOpen` says of the window and of the file
that the active tab is among the tabs; `Shows` that a window that is ready shows a view that
settles, and that only such a window has something to save, so that the same is true of what is
saved. Closing the last tab opens another one, whose id must be new: the assumption that there
is always one is stated by cardinality.

### TableGridProofs

`FiltersSettle`: `Spec => []LastFilterWins`. The invariant `FiltersMeant` says what holds while
a text waits: as long as nothing crossed it, it is the only one, the active tab's filters
become those meant when its timer fires, and those of every other tab are so already.

`EditsHit`: `Spec => []EditsHitTheirRow`, `DeletesHit`: `Spec => []DeleteNamesSelection`,
`RowsFollow`: `Spec => []RowsFollowView`, from `GInv`. Its parts:

* `Line`, of the queries in flight: one is answered only when those asked before it have become
  late, and the last one of a tab that is not late asks for the view of that tab. So the answer
  that comes last is the one that was meant.
* `Owned`, of the rows while `own` holds: all of the table of the columns; if a query has
  answered it is the only one, and it streams (`Streams`): it was heard from its first batch, the
  rows are a `Window` of its answer and what it has still to bring is the `Rest`; if none has,
  they are the rows of the view, or a query of the tab will answer (`Calm`); the selection is of
  rows there are (`Picked`). A listener that lost a batch ends `own`.
* `Edited`: the cell that is edited is still on the row it was opened on. `Bare`: an empty grid
  selects nothing.

Batches, the row limit, tables and orders are arbitrary; sequences are reasoned about by their
elements, without induction.

### StoresProofs

Each store is proved by itself, under the assumptions of `MCStores`. `StoresKept`: `StoresSpec`
implies all five promises, because what the stores do together is for each of them what it does
alone or nothing.

* `SavedOpens`: `Saved!Spec => []SavedReconnects`. The file and the keychain are written in
  calls that others cross, so the invariant `SavedInv` looks at everything that carries a
  password: unless a connection is excused, the vault has the one its server took last, and the
  entry of the keychain, the list in the window and what every flow holds have that one or a
  veiled word (`PasswordKept`). A flow completes a veiled word from the vault, so it never
  brings an older password back.
* `KeyFound`: `Keys!Spec => []KeyIsFound`. `KeySettled`: without an excuse there is one save at
  a time, the backup has what it saves and the keychain the same or nothing; an older name is
  there only until the first load, before which nothing is saved.
* `SignInStays`: `Google!Spec => []SignedInStays`. `SignInInv` says it of the backup alone,
  which every writer fills before it asks the keychain, and that no sign-in that is not mixed
  writes while a disconnect is under way.
* `ListsKept`: `Docs!Spec => []ListIsKept`, for lists of any length and any number of calls. The
  property speaks of a document whose calls are answered; `DocsInv` says what the calls under
  way carry. `QueueOrder`: they are first saves of edits, which nobody awaits, then at most a
  delete, then loads and what these save. `QueueCarries`: the last of the edits' saves, and
  every later save, has the list that is wanted; so a load is answered with it (`AllInFile`).
  `Unknown`: before the cache is known to be whole, only loads are under way. A restart serves
  any number of the calls, and each leaves a file of which the same holds.
* `MemoryKept`: `Spec => []MemoryAgrees`, over statements that interleave in any number of
  calls. `EpisodesKept`: from the first statement of a clear until its second every episode in
  the table was inserted meanwhile and is excused; so the second statement takes the outcome of
  none that is not. `HistoryKept`: as long as no two updates overlapped, the one that has read
  the profile is the only one and has read what is there, which is the last of what was applied.
  `RowsKept`: rows of an edge are only added, so a row that was found is there when its weight
  is raised. That the weights then add up to one more needs what a recursive sum gives for a
  longer and for a changed sequence: two sums that differed would differ at a least place, and
  the library's well-foundedness of `<` gives one. This is the only induction over numbers.

### Assumptions on constants

Beside the types and that `None`, `Torn`, `NoQuery` and the like are none of the values they
stand beside: a history and the budget of fast queries are at least 1, as in the code
(`FastQueries`, `HistoryLimit`, `MaxTabs`), and there are more ids of tabs than tabs may be open
(in the code an id is the time of its making). A place to sign in, a reader of the token and the
disconnect are three different writers; a masked or blank word is no password; a list is neither
`None` nor `Torn`. Those of the small stores are definitions of their modules, which
`StoresAssumption` brings together. Every one is evaluated by the runs.

### Only model-checked

* Liveness (`OpenRunsEnd`, `RequestsEnd`, `StepsAreDecided`, `QueriesSettle`, `LockComesFree`):
  the prover derives nothing from fairness.
* What the sequence operators that are recursive compute (`Compacted`, `Sorted`) would need
  induction over data; but for the sum of weights the proofs use only what their definitions
  give directly, or a ghost that excuses them.
* `RejectedStepsDoNotRun`, which is violated.

## 7. Plan

Done: background agents, chat tasks, the agent loop, queries on both sides, the result grid,
connections, pipelines, artifacts and the session, the small stores; a theorem for every safety
property of the passing runs. What would come next, in this order:

1. Proofs: abstract specifications of the workspace's artifacts and of a query's life, and that
   the modules implement them, as they now do for runs and for the plan queue.
2. The columns of a sheet and its edits, once they reach the grid.
3. The dashboards, once something opens them.

## 8. Not modelled

Most lines of the program draw, format or build text: charts and the graph builder's
controls, dashboards (nothing in the application opens them), the editor, dialogs and
panels, the SQL of the schema tree, data change review, scoring and rule matching in
the harness, conversion of rows in the drivers, prompts and tool descriptions, tables of
models and types. They keep no state that two activities share, and a model of
them would restate them. The semantic index scores text of snapshots; the intelligence store and the
tables of customers and usage are single SQL statements on a local database. The
development agents in `src/agents` are a script nothing in the application starts.
`PROJECT.json` lists every component with its reason. Within the modelled ones: what
text the model or a tool returns, and everything under "Left out" in section 3.
