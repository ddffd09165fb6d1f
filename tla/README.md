# TP-Voyager: TLA+ models, model checking and proofs

TP-Voyager is a local MCP server ("Agent Runtime") that hands tasks to coding
agents (Crews: CodeBuddy and Qoder), runs each of them in a worker thread and
keeps what happened in a SQLite database that survives the process.  Several
Runtime processes may open one database, one after another or at the same time.
What has to be right is seldom in one function: it is in the order in which a
worker thread, a cancel call, a lease heartbeat and a later process write the
same row.  This directory models that part, and the services a task is dispatched through and
judged by, checks them with TLC and proves the core with TLAPS.

Contents: [1 Inventory](#1-inventory) · [2 Modules](#2-modules) ·
[3 What is checked](#3-what-is-checked) · [4 What is proved](#4-what-is-proved) ·
[5 Where code and comments disagree](#5-where-code-and-comments-disagree) ·
[6 Not modelled](#6-not-modelled) · [7 Plan](#7-plan)

## 1 Inventory

Paths are below `src/agent_runtime/`.

### Components, their state and their operations

| component | state | operations |
|---|---|---|
| **Session lease** `runtime/lease.py`, `persistence/session_repository.py` | `sessions.lease_owner`, `lease_generation`, `lease_expires_at`; one `LeaseInfo` per holder in memory | acquire (takes over an expired lease, generation + 1), renew (fenced, not after expiry), release (fenced on owner and generation), the fence in every other write |
| **Durable task lifecycle** `api/mcp_server.py`, `application/task_service.py`, `persistence/task_repository.py`, `runtime/handles.py` | row of `tasks` (status, version, cancel times, result), events, dispatch claim; in memory the `TaskState` handle with its `ownership_lock`, `version`, `finalizing` | status changes, dispatch gate, result, failure, cancel request, cancel confirmation |
| **Restart reconciliation** `application/reconciliation_service.py` | one pass per process start; its own lease on each session it takes over | acquire, re-read, classify (never dispatched / ask the backend), write with three tries, release |
| **Durable launch and run control** `application/task_service.py`, `persistence/idempotency_repository.py`, `persistence/run_control_repository.py` | `idempotency`, unique (run, step), `run_controls`; in memory the worker slots | first lookup, slot, `create_task`, thread start and its failure, slot return |
| **Crew backends** `backends/base.py`, `backends/*/backend.py` | live-execution registry (client, pending cancels), snapshot directory of a read-only call | run, cancel, reconcile, clean up |
| **ACP clients** `backends/*/acp_client.py`, `backends/codebuddy/process.py` | flags, response slots, write lock, a reader thread, a thread per request of the program, its terminals | request, wait with three timeouts, answer the program, cancel, close |
| **Workflow** `application/workflow_service.py`, `persistence/workflow_repository.py` | linear stages with a bound task each, approvals, workflow status | create, bind, refresh, approve, cancel |
| **Plan execution** `application/plan_execution_service.py` | execution row, its workflow, per-step requests in memory | start, pump, resume, cancel, reconcile at start, terminal result |
| **Planner** `application/planner_service.py` | plan with its steps, dependencies and events (draft, validated, prepared) | create, validate, prepare |
| **Captain dispatch** `application/dispatch/*`, `backends/*/captain_dispatch.py`, `application/task_launch_service.py` | worktrees and research directories on disk | look the key up, apply the rules, prepare a directory, render the files, launch, clean up |
| **Tool runtime** `application/tool_service.py` | one audit row for each invocation | list, stat, digest, read, Git status and diff, SQLite query |
| **Knowledge and context** `application/knowledge_service.py`, `application/context_service.py` | manifests of files by content, collections, audit rows of searches | register, verify, render, search, cut into segments |
| **Verification, artifacts, outcome** `verification/*`, `application/outcome_service.py`, `domain/structured_result.py` | baseline and captured patch of a task | observe with Git, capture, check, run commands, judge, advise |
| **Usage** `backends/*/acp_client.py`, `backends/qoder/sdk_usage.py`, `TaskService.append_usage_evidence`, `latest_usage_evidence` | samples in the client, append-only evidence rows | hear, merge, report, summarise |
| **Event, evidence, artifact, lineage stores** `persistence/*` | append-only rows | append inside the transactions above |
| **Schema and ids** `persistence/migrations.py`, `persistence/database.py` | tables, the schema version | migrations, several openers at once |
| **Catalogue, routing, health** `application/crew/*`, `application/capability_service.py` | static facts, scores | list, score |
| **MCP surface, panel, CLI, configuration** `api/*`, `cli.py`, `configuration/*` | configuration file | present, configure, diagnose |

### How they interact

* *Through the database.*  Every write is one `BEGIN IMMEDIATE` transaction
  (`persistence/database.py`), so writes of all threads and processes are
  totally ordered; what a thread read before is not protected.  The protection
  is optimistic: `WHERE version = ?`, and the lease fence
  `lease_owner = ? AND lease_generation = ? AND lease_expires_at > now`, with
  `now` read inside the transaction.
* *Through the handle.*  Worker and cancel call of one process share `TaskState`
  under `ownership_lock`, but not every access is inside the lock
  (`mcp_server.py:952`).
* *Through callbacks.*  The backend calls `on_dispatch_accepted`, `on_activity`
  and `on_result` on the worker's thread (`_make_backend_callbacks`).
* *Through pipes.*  A backend talks to the vendor's program over its standard input
  and output; worker, request handlers and canceller share one write lock
  (`acp_client.py:649`).
* *Through the file system.*  Worktrees are shared by name, and the files that
  tools, contexts and verification look at belong to a user who goes on working.
* *By calls.*  Plan execution drives a workflow, which reads durable tasks;
  launches come from the MCP tools, from captain dispatch and from the pump.

### What is hard here

Interleaving of worker, canceller, heartbeat and reconciler over one row;
takeover of a lease from a process that is slow rather than dead; a cancel that
arrives before there is anything to cancel; two launches under one key; a slot
given back on a dozen exits of two threads; crash between any two transactions;
a failing transaction followed by a weaker one; approval, refresh and cancel of
a workflow while its tasks move; a plan resumed after its inputs are gone; a vendor's
program that may answer twice or never, ask for things or stop reading; files
that change between being looked at and being read; a Git that does not answer;
a database that two processes upgrade at once.
`PROJECT.json` lists the hazards with their lines and the properties that cover
them.

### What makes each component correct

* Lease: one holder passes the fence at a time, generations are never handed out
  twice, an expired lease is never revived, writes arrive in generation order.
* Task: a terminal row is final; `never_dispatched` is true; a result that is
  being persisted shuts out a cancel; an early cancel reaches the backend; every
  thread comes back; and the row follows the task contract.
* Launch: a name makes one task; answers agree; slots are accounted for; run
  ceilings are not pierced.
* Workflow: stages open in order and one at a time, a task counts for one stage,
  a completed stage has earned it, an approval is given on results, one refresh
  is enough, an ended workflow stays as it ended.
* Crew call: it ends once, completes only on the program's answer to its own
  prompt, honours a cancel that came first, returns, and leaves nothing behind.
* Dispatch: every directory has an owner who will remove or keep it; a task is
  told the text that was checked.
* Tools, context, knowledge: an answer was true at some moment of the call and
  says where it was cut; a collection is what its manifest says; segments of a
  scope hold each file once.
* Verification: what passed was captured, and advice rests on evidence.
* Usage: each request counts once.  Schema: a version promises what is there,
  and no upgrade loses a row.  Planner: stages are what the intent asks for.
* Plan: no task is launched out of turn or lost between launch and binding, an
  ended execution agrees with its workflow, a process has all the prompts it
  needs or none, the pump does not spin.

## 2 Modules

| module | models | stands on |
|---|---|---|
| `SingleWriter` | what a lease promises: holders come one after another, with rising numbers | |
| `SessionLease` | the lease columns of one `sessions` row and the `LeaseInfo` of each holder | |
| `TaskContract` | what the row of a task promises its readers | |
| `TaskLifecycle` | one task: its worker, cancel call, heartbeat, backend entry and later processes | extends `SessionLease`, whose actions it calls |
| `TaskAdmission` | launches: keys, step keys, run ceilings, worker slots | |
| `StageByStage` | what a workflow promises: stages finished one after another, then an outcome | |
| `Workflow` | workflows, their stages and approvals, over tasks that come and end | |
| `PlanExecution` | the controller of one plan, in several threads and processes | extends `Workflow`, whose actions it calls |
| `RouteContract` | what one call of a backend promises its caller | |
| `CrewRoute` | one call over ACP: worker, reader, handler, canceller, and the vendor's program | |
| `WorkspaceDispatch` | `task_dispatch`: the key, the directory, the text of the files, the launch, the removal | |
| `ToolRuntime` | one invocation of a tool on a path that changes | |
| `ProjectContext` | manifests, scopes, collections, searches and segments over files that change | |
| `Planner` | plans created, validated and prepared by several clients | |
| `Verification` | from the agent's last edit to the stored verdict and the advice | |
| `UsageLedger` | from the vendor's usage updates to the summary of an attempt | |
| `SchemaMigration` | the upgrade of one database file by several processes | |
| `TaskLifecycleProofs`, `TaskAdmissionProofs`, `WorkflowProofs`, `PlanExecutionProofs`, `CrewRouteProofs` | theorems about the module each is named for; the first holds those about the lease too | extend that module; `PlanExecutionProofs` also `WorkflowProofs` |
| `RequestProofs` | theorems and lemmas about `WorkspaceDispatch` and `ToolRuntime` | extends both |
| `ServicesProofs` | theorems about the scenes of the services | extends `MCServices`, `RequestProofs` |
| `DataLemmas` | lemmas about sets of numbers, recursive functions and sums | extended by `TaskAdmissionProofs` and `RequestProofs` |
| `MC*` | values for TLC, situations and scenes | extend the modules they check |

Some MC modules add a variable that is chosen at the start and kept.
`MCTaskAdmission` and `MCPlanExecution` call it the *situation*: it says which actors and inputs
a behaviour has and holds the others back, so that several small state
spaces replace one large one; each behaviour is one of `Spec` all the same.  `MCServices`
calls it the *scene*: the service that acts while the others rest.  The services
share no variable, so mixing them would add nothing.  A property of a scene is the module's own
property behind `scene = ...`.

`PROJECT.json`, "map", gives the lines behind every definition.  The rules the
translation follows:

*One transaction, one step.*  All writes are `BEGIN IMMEDIATE`, so a transaction
is atomic and ordered with the others.  What happens between two transactions of
a thread (a Python assignment, a backend call) is in the step of the transaction
before it, unless somebody else can see the difference; then it is a step of its
own.  `StatusCommit` and `StatusBump` are such a pair: the row is written, and
`task.version += 1` comes later and outside the lock.

*A place per thread.*  A thread's program counter (`wpc`, `wsub`, `cpc`,
`rec[r].pc`, `caller[c].place`, `thread[c].place`) names what the thread does
next; what it read and will use later is kept beside it (`cver`,
`rec[r].version`, `thread[c].goal`), so that it can go stale as it can in the
program.

*Refusals are actions.*  Each conditional write has a second action for the
version or fence that does not match, and, where the run allows faults, a third
for the transaction that fails.

*Prompts, results, names and times* are abstracted to what a decision reads:
a result is there or not and has a verdict, a prompt has been given or not,
durations are small numbers.

### SessionLease

`owner`, `generation`, `expires` are the columns; `held[h]` is the generation in
the `LeaseInfo` of holder h (a worker's handle, a pass of a reconciler); `now` is
the database's clock, read inside the transaction.  `Acquire`, `Renew`, `Release` are the
methods of `SessionRepository`; `Fenced` is `ensure_lease`; `FencedWrite` is any
other write; `Forget` is the death of a holder; `Tick` is the clock, which may
step back if `ClockStepsBack`.  `lastWriter` is a history variable.

### TaskLifecycle

`row` is the `tasks` row with the session's dispatch claim; `handle` the
`TaskState`; `backend` the entry in the backend's live registry (registered,
cancel pending, prompted).  The worker goes through `_run_official_cli_task`:
acquire, `connecting`, `running`, register with the backend, dispatch gate,
prompt, `observing`, await, and one of the terminal writes, each of which can be
refused and then falls to the weaker one.  The cancel call is
`RequestCancel`, `SyncCancel` (the assignment of the new version to the handle),
`SendCancel`.  The heartbeat renews or loses the lease.  A reconciler of a later
process acquires, re-reads, classifies, asks the backend, writes (three tries)
and releases.

### TaskAdmission

A call of a launch tool takes a worker slot, runs `create_task` in one
transaction (idempotency key, step key, ceilings of the run, insert), then
starts the thread; every exit gives the slot back.  `tasks` is the table,
`idem` the idempotency table, `runs` the ceilings, `slots` the semaphore of each
process.  `Reserved` and `Committed` are the ledger's arithmetic: a queued task
is charged its whole limit, a running one the time so far or its limit, an ended
one what it took.

### Workflow

`flow[w]` is the workflow's row and its stages, `decision` the approval rows,
`task` what a refresh reads of a task: its status and its verdict.  `Refreshed` is
`_refresh_in_connection`: recompute each stage from its task, open the next one
if all before it are complete, compute the workflow's status.  `BindTask` and
`RecordApproval` refresh in their own transaction, so their actions do too.
Tasks start and end on their own (`TaskStarts`, `TaskEnds`), which is all a
workflow sees of `TaskLifecycle`.

### PlanExecution

The thread of a call to start, status, resume or cancel walks through `pump`:
read the execution, refresh the workflow, and then either write the status the
workflow asks for or dispatch the stage that is ready (look the step's key up,
find the prompt, launch, bind).  `exec` and `result` are durable, `materials` and
`thread` die with their process.  `Launch` uses only what `TaskAdmission` checks of a key:
one name makes one task.

### CrewRoute

`worker.at` is the place in `_run_acp` and `AcpClient.run`; `worker.req` the request it waits for:
initialize, session, config or prompt.  `client.slot` is the response slot of the pending request,
`client.writing` who holds the write lock; `agent` is the vendor's program with its two pipes.
A write into a full pipe (`WriteBlocks`) keeps the lock, as `_send` does.  `Read` is one turn of the reader
thread, `HandleRequest` to `HandlerReplies` the thread it starts for a request of the program,
`CancelEarly` to `CancelKills` the backend's `cancel`, which may come at any point, before the call registers
too.  `Poll` looks at the deadlines in the order of the loop.  Both vendors run
the same machine; `job.vendor` selects what differs: who takes the snapshot
away, and when usage is told.  Of an update of consumption `usage` keeps whether the program has
counted it (`due`), whether the reader has it (`heard`), whether it is in the copy that `Get` makes when the prompt is
answered (`copied`), and whether it was told.  CodeBuddy tells that copy, and nothing for a call without an
answer; Qoder tells in its `finally` what it has heard by then.

### WorkspaceDispatch

`dispatch[c]` is one call of `task_dispatch`, which goes through the places its `Route` lists;
`rooms` the directories; `job[c]` the task a call made; `userText` the version of the user's files.
Parsing, profiles, capabilities and policies are one condition (`fits`): they decide before anything
exists.  `MakeWorktree` and `CheckRoom` are `PatchWorkspaceService.prepare`, which hands out a directory that is there.  A Git
that is ended by its limit of 60 s, or with its process, leaves a directory half made, which is nobody's (`HalfMade`).  `Retire`,
`EndJob` and `RetireAgain` are the worker's removal of the worktree before, and once more after, the end is
on record.

### ToolRuntime, ProjectContext

Contents are numbers or sizes, and may change between any two reads.
`Look` is all a tool reads in one go, `Hash` the second opening of the file, `Record` the audit row
without which there is no answer.  In `ProjectContext` files are read one by one (`ReadOne`), the total is
looked at (`ReadAll`), and manifest and collection are written in two transactions with a
possible death between them.  `Segments` is `scope_segments`.

### Planner, UsageLedger, SchemaMigration

`Steps` is the policy of `PlannerService` and, with `CreatePlan`, `ValidatePlan` and `PreparePlan`, one transaction
each.  In `UsageLedger` a client merges updates (`Heard`), the worker turns samples into facts and appends them
(`AppendEvidence`; the same fact twice is one row, and rows of one millisecond have no order), and
`Summary` is `latest_usage_evidence`.  In `SchemaMigration` versions 1 to 10 are lists of statements that commit one by
one, 11 to 13 are one transaction each that looks at the version again (`Reread`, `Skip`); an opener may fail after
any statement.

### Verification

`tree`, `committed` and `origin` are what the files hold, held in the last commit and at dispatch.  `ReadStatus`, `ReadDiff` and
`ReadHead` are the three questions to Git, each of which may remain unanswered (`Blind`).  A new file may be missing from the patch
although Git answers (too large, or unreadable), and a patch that is too long is cut and marked (`work.cut`).  Then come capture, the checks, the digest before
and after the commands, the commands themselves, which may change files, the verdict and the advice.

## 3 What is checked

TLC checks each configuration completely, with no state constraint; what bounds
a run is in the guards (`Max...`) and in the values of the constants.  Deadlock
is not checked, because every model can stop: tasks end, calls are bounded, and
nothing in the code runs for ever.  `AllReturn` and `RouteReturns` ask instead that
nobody is left waiting.  Each property is also run against a version of the
model with one plausible defect in one definition (the operators marked "A
defect"; `PROJECT.json`, "mutants"), which it has to catch.

| run | what | bounds, and why they are enough |
|---|---|---|
| `TaskLifecycle_cancel` | contract; cancel against worker against takeover; the lease implements `SingleWriter`; `AllReturn` under fairness | 2 cancel calls (a second one meets what the first left), 1 reconciler with each outcome a backend can report, 3 ticks at a lease of 2: one expiry; no faults |
| `TaskLifecycle_faults` | finality and `never_dispatched`, with one failed transaction anywhere, and crashes | 1 fault: each handler then falls to the next weaker write; a second fault in the same chain leaves the row untouched |
| `TaskAdmission` | one task per name, equal answers, slots; ceilings of a run | situation *keys*: 3 threads in 2 processes, 1 key with 2 bodies and 1 request without key, 1 fault, crashes; *runs*: 2 threads, 5 kinds of request, 3 tasks, 3 ticks, so that both ceilings are reached |
| `PlanExecution` | everything about workflows and plans | *processes*: a thread in each of 2 processes, 3 calls, crashes, refused transactions; *operator*: 2 threads of one process, 2 calls, and an operator who binds a task of his own; *flows*: 2 workflows of 2 stages, one for each completion policy, all verdicts, 3 tasks, one of which does not fit one stage |
| `CrewRoute_one` | contract; own reply; nothing left behind; the call returns | 1 call, 1 canceller, 1 line the program was not asked for (a second reply, a request, garbage, a report of consumption), 1 unread line, deadlines of 1 tick: each can come first |
| `Services` | the eight scenes below | see below |

| scene of `Services` | properties | bounds |
|---|---|---|
| *lease* | `Exclusive`, `WritesOrdered` | 3 holders, two of them in one process (the fence must tell them apart), 4 ticks at a lease of 2, 4 generations, a clock that may be set back |
| *tools* | `ToolsAnswer` | each tool on 7 contents (missing, directory, files below and above the limit, a repository, databases), limits 1 and 2, 2 changes during the call |
| *dispatch* | `RoomsStand`, `TextStands` | 2 calls of 9 demands under one key or none, one of them with other extras, deaths, one save |
| *migration* | `SchemaStands`, `RowsStand` | files of version 0, 3 (before the back-fill), 10 and 12 (before and inside the versions that are functions), 2 openers with 2 attempts each |
| *context* | `ContextStands` | 2 callers with 10 demands, 3 files, 2 contents and absence, limits that 2 of the files reach |
| *planner* | `PlansStand` | 2 clients with 3 requests each, 1 id, 6 intents covering each kind, risk, approval and verification that change the steps |
| *verification* | `VerdictsStand`, `AdviceStands` | 2 files, one of them new, 2 edits or commits, 4 plans, 1 command |
| *usage* | `UsageStands` | 3 updates of 2 requests and of none, 1 refused append, 1 pair of rows in one millisecond, all 3 routes |

Two stages show every transition of a linear workflow between a stage and its
successor, and the last; a third would repeat the first.  Three calls are what
it takes for a stale pump, the pump that overtakes it and one that finds what
both left.  `SYMMETRY` is used in `TaskAdmission` only, for the two threads of
one process, which the constants do not tell apart; that run has invariants
only.  `SlotsStand`, `TasksStand`, `RouteStands` and the properties of scenes (these last in
`MCServices`) are conjunctions of the typing of a module and the properties named in them.

**Fairness** is assumed in two runs.  In `TaskLifecycle_cancel`: weak fairness of the worker's
steps, of the cancel call once it holds the lock, and of a reconciler that has
started.  Each of these is a thread that runs straight on; it waits only for
SQLite (with a busy timeout), for the lock, and for the backend, whose `run` returns
by its own deadlines (`max_task_duration_seconds`, `idle_timeout_seconds`).  That the backend
does return is what `CrewRoute_one` looks at: the threads of a call run (weak
fairness of worker, reader, handler and a canceller that has begun) and time
passes; the program owes nothing and nobody has to ask for a cancel.  A write has no deadline, so
`RouteReturns` excepts a program that stops reading its input again and again, or for good.
Nothing is assumed of calls, faults, crashes, heartbeats or the users.

The properties are stated with their reasons beside the definitions.  Those that
took the most to find: `NeverDispatchedIsTrue` (a reconciler says a prompt never
went out: it must not go out later), `FinalizingShutsOutCancel`, `ReconcilerSeesNoConflict`,
`RuntimeBudget`, `CompletedIsEarned`, `MaterialsSuffice`, `NothingLeftBehind`, `RoomsAccounted`,
`SchemaComplete`, `PassedMeansCaptured`, `CountedOnce`.

## 4 What is proved

The theorems hold for every value of the constants: any number of holders,
processes, reconcilers, cancel calls and faults, any durations; any number of
workflows, stages and tasks, any mixture of completion policies; any launches, keys, runs
and ceilings; any jobs, files, demands, disks and ages of a database file.  Of the constants they assume only
what the modules' `...Assumption(s)` say, and TLC evaluates those on every run: that they have their types;
that the worker is not a reconciler and runs in another process than every
reconciler; that a workflow has at least one stage (`WorkflowService._validate_specs`);
that finitely many threads call and a request's text decides its run, step and ceilings (the
fingerprint covers them); that a plan's steps have tasks of their own; that no two files have one path;
that an update's numbers are numbers; that an intent is well formed.
Four theorems also assume `~ClockStepsBack`, and say so.

**TaskLifecycleProofs, the lease.**  `LeaseInv` is typing and: nobody holds a generation above
the row's, and two holders never hold the same one (`GenerationsDistinct`); the
last write carried a generation no higher than the row's.  That is inductive because a generation is
only handed out by `Acquire`, which raises the row's.  From it:
`LeaseTypeCorrect`, `GenerationsStayDistinct`, `LeaseExclusive`,
`LeaseWritesOrdered`, `LeaseEndsByHolder`, whatever the clock does; and, assuming
`~ClockStepsBack`, `LeaseNeverRevived` and the refinement
`LeaseImplementsSingleWriter`.  The assumption is needed: with a clock set back an
expired lease is live again.

**TaskLifecycleProofs, the task.**  `LifecycleUsesLease` shows that every step of the
lifecycle is a step of the lease or leaves it alone, so the theorems above hold
of the lifecycle.  `LifecycleInv` is `LeaseInv`, `TypeInv`, `VersionInv` and `DispatchInv`:

* `TypeInv`: typing, and a status change in two steps belongs to a place that
  changes the status.
* `VersionInv` relates every copy of the row's version (the handle's, the one a
  cancel call brings back, the one a reconciler read) to the row: no copy is
  ahead of it once the row is terminal.  The handle may run ahead of a live row,
  by the late `version += 1`, which is why the lease has to come in: a worker
  that still holds the row's generation is the only one who can have made the row
  terminal.
* `DispatchInv` says where the dispatch stands by the worker's place and by what a
  reconciler has classified: one that goes to write `never_dispatched` with the
  row's generation knows that nothing went out, and the gate is fenced.

`LifecycleTypeCorrect`, `LifecycleTerminalStable` and `LifecycleNeverDispatched` follow
from it, and so do `LifecycleFinalizing` and `LifecycleImplementsContract`: every step of any actor is a step
of `TaskContract` on the row or leaves it.  `LifecycleEarlyCancel` needs `ReachInv`: a
transport that was sent reached a registered execution, and an execution is live only where the worker
executes.  Two more assume `~ClockStepsBack`.  `LifecycleReconcilerSeesNoConflict` holds because whoever moves the
row's version under a reconciler passed the fence, and then the reconciler does not.  `LifecycleOwnerLeavesTerminal` carries `InStep`:
as long as no cancel, fault or takeover has touched the row, the version of the handle is the row's but for a bump not yet done, so
the last write cannot be refused.

**TaskAdmissionProofs.**  `AdmissionInv` is typing; the idempotency table and the rows agree in both directions (`BindingsName`,
`TasksBound`); two tasks of a run are two steps; whoever was answered was answered with a row that exists, and of
his own text; and `HandOver`: between the insert and the start of its worker a task belongs to one launch of its own
process.  Without `HandOver` the slots cannot be counted: `SlotsAccounted` equates a counter
with the cardinality of the set of those who hold a slot, which passes from launch to worker, and two
launches with one task would pass on one slot twice.  From it `AdmissionOneTaskPerName`, `AdmissionAnswersAgree`,
`AdmissionSlotsStand` and `AdmissionDispatchBudget`.

`AdmissionRuntimeBudget` is not inductive, since what a run has committed grows with the clock by itself.  `RuntimeInv` replaces the sum by one that no step but a
launch raises: each task is *charged* its whole limit while it may still consume it, what it consumed, up to its limit, once it has ended,
and nothing if it was lost.  A launch reserves at least the charges of the others at whatever time it looks, so the
charges stay within the ceiling (`AdmissionCharges`); and a run whose committed time is beyond it has a task that outlived its own limit.

**WorkflowProofs.**  The invariant has three parts.  `WorkflowInv` is typing, with the
record of each workflow spelt out, and `OneStagePerTask`.  `SoundInv` says of each
workflow (`Sound`):

* `Orderly`, unless it was cancelled: a stage without a task waits for one; a stage
  with a task shows what the task says of it (`Judged`), or "running" if nobody has
  looked since the task ended; a stage that is not pending has been reached.
* `Stopped`, if it was cancelled: what was completed or failed is so for the same
  reasons as before.  A workflow is also cancelled by a cancelled task, and the
  lemma `CancelledByTask` shows that its stages are then as a cancel leaves them.
* Its status is what its stages say, and every decision was made about a completed
  task and is shown by its stage (`Decisive`).

`OpenInv` adds that a live workflow has a stage before which all is completed and after which nothing has happened.
None of the properties is inductive without them.  `InTurn` needs to know that a
completed stage stays completed when it is read again, which it does because a task
that has ended does not change and neither does a decision.  The facts about
one refresh (`ReadFacts`, `RefreshOrderly`, `RefreshTwice`, `EndedStays`) are lemmas
of their own, and each operation is then a change to the workflow followed by a
refresh.  From it: `WorkflowTypeCorrect`, `WorkflowOneStagePerTask`, `WorkflowInTurn`,
`WorkflowCompletedIsEarned`, `WorkflowDecidedOnResults`, `WorkflowOneRefreshSuffices`,
`WorkflowEndedFlowStands`, `WorkflowOneOpenStage`, and the refinement `WorkflowGoesStageByStage`: the number of completed
stages is the counter of `StageByStage`.

**PlanExecutionProofs.**  `PlanDrivesWorkflow` shows every step of the controller to be a step of the workflow, so all that is
proved of workflows holds under it (`PlanKeepsWorkflowsSound`).  `PlanInv` adds what a call knows although others move
the workflow between its transactions (`CallSound`): the stage it is about to dispatch is open or has its task by now, if the workflow is
alive; the status it is about to write is one the workflow already had and, if it is an end, keeps; the
prompts it brings cover what is left; and its turn of the loop is at most one more than the stages that have a task.
These are stable facts where "the stage is ready" is not: a second pump may have bound it.  From it `PlanTasksStand`,
`PlanEndMatchesWorkflow`, `PlanMaterialsSuffice` and `PlanPumpGetsOn`.

**CrewRouteProofs.**  `RouteInv` ties the response slot to what the program wrote: the slot is there only while the worker
waits, and filled only with an answer to the request it waits for (`SlotInv`); a prompt is out only while its answer is waited for or the call
is over (`AskedInv`); what is known of a cancellation somebody asked (`CancelInv`); a call that was doomed before
it registered does not get to wait for its prompt (`DoomInv`); and what is still to be cleaned up at each place
(`CleanInv`).  What the program counted and the reader has not heard lies in the pipe in front of every answer to the prompt
(`UnheardInv`); so the copy made at the answer has it, and so has what is told (`UsageInv`).  From these `RouteOwnReply`, `RouteLeavesNothing` and the refinement `RouteImplementsContract`.

**RequestProofs and ServicesProofs.**  The first has the invariants of the dispatch, of the tools and of the context.  `DispatchInv` says where on its route a call may be, that
a directory it has made is its own until a task takes it over, and of which files a replayed call is
(`DispatchInvariant`).  `ToolInv` says that an answer is true from when it is found, not only when it is given; the lemma `HandlerTrue` goes
through the handlers, with the entries counted and the rows summed for any content.  `KnowledgeInv` follows a reader through its
files: what it has read is what was registered, what is left is the rest (`OnTheWay`), and a registration that has yet to write
its collection has its manifest; the lemma `SegmentsCut` shows, by induction over the files, that the segments of a scope put together
are its files in order and that none is too large.  The second shows that a scene behaves as
its service alone does and concludes `ServicesRooms`, `ServicesText`, `ServicesTools` and `ServicesContext`.  It has two more invariants:
`VerificationInv` says, for each stage of the verification, of which state of the files the evidence is (`EvidenceStands`,
`StabilityStands`), which files the patch may lack (`PatchLacks`) and that what is not on the list of failures was looked at (`ServicesVerdicts`, `ServicesAdvice`); `MigrationInv` says
what is behind an opener at each place is in the schema, whatever version another one writes (`ServicesSchema`, `ServicesRows`), over
the thirteen lists of statements as they are.  The planner has `PlannerInv`: a stored plan
is as far on its way as its version says and its history is exactly that way (`StoredStands`), and whoever was handed stages was handed those of
the plan and, for a create, those of his intent (`ClientsStand`).  That stages honour an intent (`StepsHonour`) is shown of the keys a policy arranges, kind by
kind.  From these `ServicesPlans`.

`UsageInv` follows a number from the update to the row.  A sample and a fact are *true* if what they say of each field was told of
their request; the merges keep that, whichever value goes over the other (`MergedTrue`), and so does the reader of a
finished session, whose recursion over the messages is unwound with true gatherings as its values (`GatheredIs`).  `AllHeard` has every field told of a request in the
samples, and `AllReported` in the rows or in the queue, as far as the worker looked and unless an append was refused.  Then a request is
counted once because the sum is over requests, with a true number because each is that of one true row, and
no anonymous number is added because a true row of none is a snapshot (`ServicesUsage`).

**DataLemmas** replaces the induction theorems that take an operator: induction over a *set* of naturals follows from the
well-foundedness of `<` (`NatSet`), functions defined by recursion exist (`Recursion`) and are what their steps make of the
beginning (`Unwound`), and sums over finite sets are unfolded one
member at a time.

`LeaseEndsByHolder`, `LeaseNeverRevived`, `GenerationsStayDistinct`, `LifecycleTypeCorrect`, `WorkflowTypeCorrect`,
`WorkflowOneRefreshSuffices`, `WorkflowEndedFlowStands`, the invariants themselves and `PlanKeepsWorkflowsSound` are proved and no run
repeats them.

**Only model-checked:**

* `AllReturn` and `RouteReturns`: liveness under fairness is beyond the prover.

Every invariant and every action property of a passing run is stated by a theorem.

## 5 Where code and comments disagree

Six runs expect a violation; each shows a behaviour of the code that a comment,
a doc string or a document excludes.  `PROJECT.json`, "findings", quotes the lines.

| run | what happens |
|---|---|
| `TaskLifecycle_NoPhantomConflict` | The worker's late `version += 1` comes on top of the cancel call's, the handle is one ahead, and the terminal write is refused. |
| `TaskAdmission_TerminalConsumesNoMore` | A task that is lost has no `finished_at`, so the run's ledger charges it for ever. |
| `PlanExecution_FinalMeansEnded` | A stale pump writes over an ended execution whose final result is already stored. |
| `Services_RunsInItsRoom` | Two calls under one key share a worktree; the one that made it is refused or replayed at its launch and removes it under the other's task. |
| `Services_NothingHides` | A verification command rewrites a file of the captured patch while Git does not answer for the state after it: nothing is compared, and the task passes with a patch that is no longer what the file holds. |
| `Services_LatestTotal` | Qoder's samples are told in the order their requests first appeared; an older total of the session is read as the latest. |

More behaviours are allowed by the models because the code has them, and
are worth a reader's attention:

* after a cancel the worker's next status change may overwrite `cancelling` (`mcp_server.py:3054`);
* a heartbeat whose transaction fails cancels the backend, so the task ends `cancelled` though nobody
  asked (`mcp_server.py:1778`);
* a pump past its last look at the execution launches a task after the plan was cancelled
  (`plan_execution_service.py:411`), and the startup pass of a second process marks a plan as lacking
  prompts that live in the first (`mcp_server.py:5265`);
* the fingerprint by which a research call replays leaves out skills, input artifacts, trusted instructions and
  run control, so a reused key with others of these is answered with the old task (`mcp_server.py:1033`);
  `ReplayMeansSame` states the opposite and is in no run, since one thread is enough to see it;
* an error while a setting is applied, the death of the program included, is taken for a setting that was
  not applied (`_apply_config_option`);
* of anonymous usage updates that return to an earlier value Qoder's client keeps the
  earlier place, so the snapshot read is not the last one;
* an update of consumption heard after the copy at the prompt's answer (`codebuddy/acp_client.py:345`) and before the client
  is closed (`codebuddy/backend.py:381`) is told to nobody by CodeBuddy, which also tells nothing of a call without an answer;
  `NothingLeftBehind` speaks of what the program had counted when it answered;
* when Git does not answer, the capture raises or the agent commits, the list of changes is empty and the check of the scope
  passes (`capture.py:353`, `verification/service.py:251`);
* a new file above 20 MB, or one that cannot be read, is left out of the patch without a word, and a patch above 10 MB is cut and
  marked (`capture.py:334`, `capture.py:220`); `PassedMeansCaptured` says what a passed task's patch has nevertheless;
* a `git worktree add` ended by its limit of 60 s leaves a worktree half made that nobody removes (`dispatch/workspace.py:102`,
  `verification/subject.py:160`), and a later call under the same key finds it and may take it for its own;
  `RoomsAccounted` counts it among what a call `left`.

## 6 Not modelled

* **Inside the models.**  `TaskAdmission` leaves out the token and credit ceilings
  and the strict flag (they are compared with usage recorded elsewhere), the
  stored projection of the ledger, and slots of other processes, which do not
  share them.  `Workflow` leaves out the event stream, block reasons, deleted
  tasks and the row version, which cannot mismatch inside the transaction that
  read it; no code sets a stage to `skipped`.  `PlanExecution` leaves out the
  rendering of context and knowledge into the prompt (it may fail, which is
  modelled), the comparison of manifests, the result's payload except its status, and the
  request to stop the current task (a task may end as cancelled at any time
  anyway).  In `TaskLifecycle` what a backend does between the prompt and its
  answer is one step with every outcome it can have.
* **Threads of one process.**  FastMCP runs synchronous tools on its event loop,
  so two calls in one process seldom overlap.  The models let them: the code
  takes locks for it, `tests/test_runtime_stress.py` calls it from threads, and
  every call overlaps with worker threads and other processes in any case.
* **Services.**  `CrewRoute` leaves out resuming a session (the same machine with another
  second request), what observations say, and the SDK's own transport, which is a library's.  `WorkspaceDispatch`
  leaves out the parsing of requests and policies, profiles and skills but for one condition, and
  input artifacts, and the making of a worktree is one step.  `ToolRuntime` reduces the rules on paths to a path that is served or not; size and
  digest of one of its answers may be of two moments, as in the code, and no property joins them.  `ProjectContext` leaves out how
  matches are ranked and the error for a caller's limit below the size of one file (`context_service.py:274`).  `Verification` takes the workspace
  to be the root of its repository.  `Planner` leaves out the wording of steps, `Verification` which artifact a file is, `UsageLedger` an
  account's quota and aliases of request identities, `SchemaMigration` single columns and indices but for those added to a table that exists.
* **Other components.**  The append-only stores are written inside the transactions
  modelled here and read to be shown.  Catalogue, routing and health are static facts and scores.  Presentation,
  diagnostics and configuration read state and decide nothing about it.  The replay of a task is a read-only projection.

## 7 Plan

What is left is the safety half of the two liveness properties: for `AllReturn` and `RouteReturns`, that a call
which has not returned always has a step whose guard holds, stated on the guards themselves, since `ENABLED` is out of the prover's reach, and a measure that
no step raises.
