---------------------------- MODULE TaskAdmission ----------------------------
(***************************************************************************)
(* How a request becomes a durable task: _durable_cli_start in             *)
(* api/mcp_server.py over TaskService.create_task and the run ledger of    *)
(* persistence/run_control_repository.py.  Several threads of several      *)
(* Runtime processes launch tasks against one database; every process has  *)
(* its own worker slots.  A database transaction is one step, and so is    *)
(* each critical section of the slot lock.                                 *)
(***************************************************************************)
EXTENDS Naturals, Sequences, FiniteSetsExt

CONSTANTS Callers,        \* threads serving a launch request
          Processes,      \* Runtime processes
          ProcessOf,      \* the process of each caller
          Requests,       \* the requests callers may make (see RequestType)
          Keys, NoKey,    \* idempotency keys, and the empty one
          Runs, NoRun,    \* RunControl ids, and no run_control at all
          SlotLimit,      \* max_concurrent_tasks
          MaxTasks,       \* bound on tasks ever created
          MaxCalls,       \* bound on launch calls
          MaxFaults,      \* bound on failed transactions
          MaxClock,       \* bound on the clock
          MayCrash        \* may a process die?

\* body stands for everything the request fingerprint covers; the ceilings
\* and the step key are in it, the task's own time limit is not.
RequestType ==
  [key : Keys \cup {NoKey}, body : STRING, run : Runs \cup {NoRun},
   step : STRING, limit : Nat \ {0}, maxDispatches : Nat \ {0},
   maxRuntime : Nat \ {0}]

ASSUME AdmissionAssumptions ==
  /\ IsFiniteSet(Callers)
  /\ ProcessOf \in [Callers -> Processes]
  /\ Requests # {} /\ Requests \subseteq RequestType
  /\ NoKey \notin Keys /\ NoRun \notin Runs
  /\ SlotLimit \in Nat \ {0}
  /\ MaxTasks \in Nat /\ MaxCalls \in Nat /\ MaxFaults \in Nat
  /\ MaxClock \in Nat \ {0}
  /\ MayCrash \in BOOLEAN
  /\ \A p, q \in Requests :
       p.body = q.body => /\ p.run = q.run /\ p.step = q.step
                          /\ p.maxDispatches = q.maxDispatches
                          /\ p.maxRuntime = q.maxRuntime

VARIABLES tasks,    \* rows of tasks (with their sessions), in creation order
          idem,     \* idempotency: per key [body, task], task 0 = unbound
          runs,     \* run_controls: per run its ceilings.  The counters kept
                    \* beside them are recomputed from the rows before each use.
          slots,    \* _CREW_ACTIVE_WORKERS of each process
          caller,   \* per caller: place, request, the time it was read at,
                    \* answer, task answered
          calls, faults, now

vars == <<tasks, idem, runs, slots, caller, calls, faults, now>>

NoTime == 0      \* NULL in a time column; the clock starts at 1
NoTask == 0

Statuses == {"queued", "running", "ended", "lost"}
Places == {"idle", "slot", "create", "return", "start", "report"}
Answers == {"none", "created", "replayed", "conflict", "step_conflict",
            "budget_rejected", "busy", "error", "not_started"}

TaskType ==
  [key : Keys \cup {NoKey}, body : STRING, run : Runs \cup {NoRun},
   step : STRING, limit : Nat \ {0}, home : Processes,
   worker : {"none", "live", "gone"}, status : Statuses, started : Nat,
   finished : Nat]

\* A key that was never bound has no row; here its body is "unbound".
BoundBodies == {q.body : q \in Requests} \cup {"unbound"}

TypeOK ==
  /\ tasks \in Seq(TaskType)
  /\ idem \in [Keys -> [body : BoundBodies, task : 0..Len(tasks)]]
  /\ runs \in [Runs -> [open : BOOLEAN, maxDispatches : Nat, maxRuntime : Nat]]
  /\ slots \in [Processes -> Nat]
  /\ \A c \in Callers :
       /\ caller[c].place \in Places
       /\ caller[c].request \in Requests
       /\ caller[c].since \in Nat
       /\ caller[c].answer \in Answers
       /\ caller[c].task \in 0..Len(tasks)
  /\ calls \in 0..MaxCalls /\ faults \in 0..MaxFaults /\ now \in 1..MaxClock

Init ==
  /\ tasks = << >>
  /\ idem = [k \in Keys |-> [body |-> "unbound", task |-> NoTask]]
  /\ runs = [r \in Runs |-> [open |-> FALSE, maxDispatches |-> 0,
                             maxRuntime |-> 0]]
  /\ slots = [p \in Processes |-> 0]
  /\ caller = [c \in Callers |-> [place |-> "idle",
                                  request |-> CHOOSE q \in Requests : TRUE,
                                  since |-> NoTime, answer |-> "none", task |-> NoTask]]
  /\ calls = 0 /\ faults = 0 /\ now = 1

Home(c) == ProcessOf[c]
Request(c) == caller[c].request
Fault == faults < MaxFaults /\ faults' = faults + 1
Go(c, p) == caller' = [caller EXCEPT ![c].place = p]
Answer(c, p, a, t) ==
  caller' = [caller EXCEPT ![c] =
               [@ EXCEPT !.place = p, !.since = NoTime, !.answer = a, !.task = t]]

(***************************************************************************)
(* The run ledger                                                          *)
(***************************************************************************)

Terminal(t) == t.status \in {"ended", "lost"}

\* A task's consumed seconds at time at: up to finished_at if there is one.
Elapsed(t, at) ==
  LET end == IF t.finished = NoTime THEN at ELSE t.finished IN
  IF t.started = NoTime \/ end <= t.started THEN 0 ELSE end - t.started

\* A defect: a task that runs is taken to reserve nothing any more.
Reserved_QueuedOnly(t, at) == IF t.status = "queued" THEN t.limit ELSE 0

\* Active tasks reserve what is left of their own limit.
Reserved(t, at) ==
  IF Terminal(t) \/ Elapsed(t, at) >= t.limit THEN 0
  ELSE t.limit - Elapsed(t, at)

TasksOf(r) == {i \in DOMAIN tasks : tasks[i].run = r}

\* consumed + reserved of some tasks, as refresh adds them up.
Committed(T, at) ==
  SumFunctionOnSet([i \in T |-> Elapsed(tasks[i], at) + Reserved(tasks[i], at)], T)

\* ensure_baseline: ceilings may stay or become narrower.
Narrower(q) ==
  runs[q.run].open => /\ q.maxDispatches <= runs[q.run].maxDispatches
                      /\ q.maxRuntime <= runs[q.run].maxRuntime

\* A defect: the count is taken as if the row were not in the table yet.
Admissible_OffByOne(q, at) ==
  /\ Narrower(q)
  /\ Cardinality(TasksOf(q.run)) <= q.maxDispatches
  /\ Committed(TasksOf(q.run), at) + q.limit <= q.maxRuntime

\* A defect: the pending reservation of the task at hand is forgotten.
Admissible_ForgetsItself(q, at) ==
  /\ Narrower(q)
  /\ Cardinality(TasksOf(q.run)) + 1 <= q.maxDispatches
  /\ Committed(TasksOf(q.run), at) <= q.maxRuntime

\* admit_current_task, with the time the launch began.  The new row is in the
\* table already, its session is not, so the time it asks for is added by
\* hand.  A refusal rolls the narrowed ceilings back too.
Admissible(q, at) ==
  /\ Narrower(q)
  /\ Cardinality(TasksOf(q.run)) + 1 <= q.maxDispatches
  /\ Committed(TasksOf(q.run), at) + q.limit <= q.maxRuntime

(***************************************************************************)
(* create_task                                                             *)
(***************************************************************************)

Bound(k) == k # NoKey /\ idem[k].task # NoTask

\* (run_id, step_key) is unique among the rows.
StepTasks(q) ==
  IF q.run = NoRun THEN {}
  ELSE {i \in DOMAIN tasks : tasks[i].run = q.run /\ tasks[i].step = q.step}

\* A defect: the binding is taken without looking at the stored fingerprint.
Replayable_AnyBody(q, t) == Bound(q.key) /\ idem[q.key].task = t

\* The key is bound to task t by the same request.
Replayable(q, t) == Bound(q.key) /\ idem[q.key] = [body |-> q.body, task |-> t]

\* A defect: the lookup before the slot is trusted, the key is not claimed.
Verdict_TrustsPrecheck(q, at) ==
  [task |-> Len(tasks) + 1,
   is |-> IF StepTasks(q) # {} THEN "step_conflict"
          ELSE IF q.run # NoRun /\ ~Admissible(q, at) THEN "budget_rejected"
          ELSE "created"]

\* What the transaction decides, and the task it answers with: the step's
\* task first, then the key's, then the budget.
Verdict(q, at) ==
  LET there == IF StepTasks(q) # {} THEN CHOOSE i \in StepTasks(q) : TRUE
               ELSE IF Bound(q.key) THEN idem[q.key].task
               ELSE NoTask
  IN [task |-> IF there = NoTask THEN Len(tasks) + 1 ELSE there,
      is |-> IF there # NoTask /\ Replayable(q, there) THEN "replayed"
             ELSE IF StepTasks(q) # {} THEN "step_conflict"
             ELSE IF there # NoTask THEN "conflict"
             ELSE IF q.run # NoRun /\ ~Admissible(q, at) THEN "budget_rejected"
             ELSE "created"]

Row(c) ==
  LET q == Request(c) IN
  [key |-> q.key, body |-> q.body, run |-> q.run, step |-> q.step,
   limit |-> q.limit, home |-> Home(c), worker |-> "none",
   status |-> "queued", started |-> NoTime, finished |-> NoTime]

(***************************************************************************)
(* _durable_cli_start                                                      *)
(***************************************************************************)

\* The clock is read and the key looked up before anything is taken; a hit
\* answers at once.
Submit(c, q) ==
  /\ caller[c].place = "idle"
  /\ calls < MaxCalls
  /\ calls' = calls + 1
  /\ LET said(p, a, t) == [place |-> p, request |-> q,
                           since |-> IF p = "slot" THEN now ELSE NoTime,
                           answer |-> a, task |-> t]
     IN caller' = [caller EXCEPT ![c] =
          IF ~Bound(q.key) THEN said("slot", "none", NoTask)
          ELSE IF Replayable(q, idem[q.key].task)
            THEN said("idle", "replayed", idem[q.key].task)
          ELSE said("idle", "conflict", NoTask)]
  /\ UNCHANGED <<tasks, idem, runs, slots, faults, now>>

TakeSlot(c) ==
  /\ caller[c].place = "slot"
  /\ IF slots[Home(c)] >= SlotLimit
       THEN Answer(c, "idle", "busy", NoTask) /\ UNCHANGED slots
       ELSE Go(c, "create") /\ slots' = [slots EXCEPT ![Home(c)] = @ + 1]
  /\ UNCHANGED <<tasks, idem, runs, calls, faults, now>>

\* The transaction.  Every verdict but "created" rolls it back whole.
CreateTask(c) ==
  LET q == Request(c)
      v == Verdict(q, caller[c].since)
  IN
  /\ caller[c].place = "create"
  /\ v.is = "created"
  /\ Len(tasks) < MaxTasks
  /\ tasks' = Append(tasks, Row(c))
  /\ idem' = IF q.key = NoKey THEN idem
             ELSE [idem EXCEPT ![q.key] = [body |-> q.body, task |-> v.task]]
  /\ runs' = IF q.run = NoRun THEN runs
             ELSE [runs EXCEPT ![q.run] =
                     [open |-> TRUE, maxDispatches |-> q.maxDispatches,
                      maxRuntime |-> q.maxRuntime]]
  /\ Answer(c, "start", "created", v.task)
  /\ UNCHANGED <<slots, calls, faults, now>>

CreateRefused(c) ==
  LET v == Verdict(Request(c), caller[c].since) IN
  /\ caller[c].place = "create"
  /\ v.is # "created"
  /\ Answer(c, "return", v.is, IF v.is = "replayed" THEN v.task ELSE NoTask)
  /\ UNCHANGED <<tasks, idem, runs, slots, calls, faults, now>>

CreateFails(c) ==
  /\ caller[c].place = "create"
  /\ Fault
  /\ Answer(c, "return", "error", NoTask)
  /\ UNCHANGED <<tasks, idem, runs, slots, calls, now>>

\* _release_crew_worker_slot floors at zero.
Release(p) == slots' = [slots EXCEPT ![p] = IF @ = 0 THEN 0 ELSE @ - 1]

\* A defect: one of the refusals answers without giving the slot back.
ReturnSlot_Kept(c) ==
  /\ caller[c].place = "return"
  /\ IF caller[c].answer = "conflict" THEN UNCHANGED slots ELSE Release(Home(c))
  /\ Go(c, "idle")
  /\ UNCHANGED <<tasks, idem, runs, calls, faults, now>>

ReturnSlot(c) ==
  /\ caller[c].place = "return"
  /\ Release(Home(c))
  /\ Go(c, "idle")
  /\ UNCHANGED <<tasks, idem, runs, calls, faults, now>>

\* The worker thread takes the slot over.
StartWorker(c) ==
  /\ caller[c].place = "start"
  /\ tasks' = [tasks EXCEPT ![caller[c].task].worker = "live"]
  /\ Go(c, "idle")
  /\ UNCHANGED <<idem, runs, slots, calls, faults, now>>

\* The row of task i after a terminal write, which leaves a terminal row alone.
Ended(i, w) ==
  [tasks[i] EXCEPT !.worker = w,
                   !.status = IF Terminal(tasks[i]) THEN @ ELSE "ended",
                   !.finished = IF Terminal(tasks[i]) THEN @ ELSE now]

\* The thread cannot be started: the slot goes back, then the failure is
\* persisted, unless that fails too.
StartFails(c) ==
  /\ caller[c].place = "start"
  /\ Release(Home(c))
  /\ Go(c, "report")
  /\ UNCHANGED <<tasks, idem, runs, calls, faults, now>>

ReportStartFailure(c) ==
  LET t == caller[c].task IN
  /\ caller[c].place = "report"
  /\ \/ /\ tasks' = [tasks EXCEPT ![t] = Ended(t, "gone")]
        /\ UNCHANGED faults
     \/ Fault /\ tasks' = [tasks EXCEPT ![t].worker = "gone"]
  /\ Answer(c, "idle", "not_started", t)
  /\ UNCHANGED <<idem, runs, slots, calls, now>>

(***************************************************************************)
(* The task afterwards, as far as the ledger and the slots see it          *)
(***************************************************************************)

\* _persist_status_change "running" sets started_at, the terminal write of
\* the worker finished_at (module TaskLifecycle has what lies between).
Run(i) ==
  /\ tasks[i].worker = "live"
  /\ tasks[i].status = "queued"
  /\ tasks' = [tasks EXCEPT ![i].status = "running", ![i].started = now]
  /\ UNCHANGED <<idem, runs, slots, caller, calls, faults, now>>

Finish(i) ==
  /\ tasks[i].worker = "live"
  /\ ~Terminal(tasks[i])
  /\ tasks' = [tasks EXCEPT ![i] = Ended(i, "live")]
  /\ UNCHANGED <<idem, runs, slots, caller, calls, faults, now>>

\* A defect: only a worker that settled its task gives its slot back.
WorkerReturns_IfSettled(i) ==
  /\ tasks[i].worker = "live"
  /\ tasks' = [tasks EXCEPT ![i].worker = "gone"]
  /\ IF Terminal(tasks[i]) THEN Release(tasks[i].home) ELSE UNCHANGED slots
  /\ UNCHANGED <<idem, runs, caller, calls, faults, now>>

\* _run_worker_with_crew_slot: however the worker ends, its slot goes back.
WorkerReturns(i) ==
  /\ tasks[i].worker = "live"
  /\ tasks' = [tasks EXCEPT ![i].worker = "gone"]
  /\ Release(tasks[i].home)
  /\ UNCHANGED <<idem, runs, caller, calls, faults, now>>

\* A process that starts settles what it takes for abandoned.  update_status
\* and mark_reconciled_cancelled write finished_at; mark_reconciled_terminal,
\* which records lost and orphaned, does not.
Reconcile(i) ==
  /\ ~Terminal(tasks[i])
  /\ tasks' = [tasks EXCEPT ![i] = Ended(i, @.worker)]
       \/ tasks' = [tasks EXCEPT ![i].status = "lost"]
  /\ UNCHANGED <<idem, runs, slots, caller, calls, faults, now>>

\* A process dies and starts again: its callers and workers are gone, and its
\* slots are counted from zero.
Crash(p) ==
  /\ MayCrash
  /\ slots' = [slots EXCEPT ![p] = 0]
  /\ caller' = [c \in Callers |->
       IF Home(c) # p THEN caller[c]
       ELSE [caller[c] EXCEPT !.place = "idle", !.answer = "none", !.task = NoTask]]
  /\ tasks' = [i \in DOMAIN tasks |->
       IF tasks[i].home = p THEN [tasks[i] EXCEPT !.worker = "gone"] ELSE tasks[i]]
  /\ UNCHANGED <<idem, runs, calls, faults, now>>

Tick == now < MaxClock /\ now' = now + 1
        /\ UNCHANGED <<tasks, idem, runs, slots, caller, calls, faults>>

CallerStep(c) ==
  \/ \E q \in Requests : Submit(c, q)
  \/ TakeSlot(c) \/ CreateTask(c) \/ CreateRefused(c) \/ CreateFails(c)
  \/ ReturnSlot(c) \/ StartWorker(c) \/ StartFails(c) \/ ReportStartFailure(c)

TaskStep(i) == Run(i) \/ Finish(i) \/ WorkerReturns(i) \/ Reconcile(i)

Next ==
  \/ \E c \in Callers : CallerStep(c)
  \/ \E i \in DOMAIN tasks : TaskStep(i)
  \/ \E p \in Processes : Crash(p)
  \/ Tick

Spec == Init /\ [][Next]_vars

-----------------------------------------------------------------------------
(***************************************************************************)
(* Properties                                                              *)
(***************************************************************************)

\* One key makes at most one task, one (run, step) pair makes at most one,
\* across processes and however the lookups before the slot came out.
OneTaskPerName ==
  \A i, j \in DOMAIN tasks :
    \/ i = j
    \/ /\ tasks[i].key = NoKey \/ tasks[i].key # tasks[j].key
       /\ \/ tasks[i].run = NoRun
          \/ <<tasks[i].run, tasks[i].step>> # <<tasks[j].run, tasks[j].step>>

\* Whoever is told of a task under a key is told of the task that the same
\* request made, whichever of the two lookups answered.
AnswersAgree ==
  \A c \in Callers :
    caller[c].answer \in {"created", "replayed"} =>
      LET t == tasks[caller[c].task] IN
      t.key = Request(c).key /\ t.body = Request(c).body

\* A process's slot count is what its launches in flight and its live workers
\* hold, through every refusal, failure and crash; the floor at zero in
\* _release_crew_worker_slot never hides a slot returned twice.
SlotsAccounted ==
  \A p \in Processes :
    slots[p] = Cardinality({c \in Callers :
                 Home(c) = p /\ caller[c].place \in {"create", "return", "start"}})
             + Cardinality({i \in DOMAIN tasks :
                 tasks[i].home = p /\ tasks[i].worker = "live"})

\* Values keep their types, and every slot a process counts is held by a launch
\* or a worker of it.
SlotsStand == TypeOK /\ SlotsAccounted

\* max_dispatches is never pierced by launches of several processes at once,
\* nor by ceilings narrowed in between; a replay is not counted.
DispatchBudget ==
  \A r \in Runs : Cardinality(TasksOf(r)) <= runs[r].maxDispatches

\* Seconds a task has run past its own limit.
Overrun(t) ==
  IF Elapsed(t, now) <= t.limit THEN 0 ELSE Elapsed(t, now) - t.limit

\* The run's time ceiling is only ever passed by tasks that outlive their own
\* limit, although each launch judges it by a clock it read before it queued
\* for its slot and for the database.  Lost tasks are left out: see
\* TerminalConsumesNoMore.
RuntimeBudget ==
  \A r \in Runs :
    LET T == {i \in TasksOf(r) : tasks[i].status # "lost"} IN
    Committed(T, now) <= runs[r].maxRuntime
                           + SumFunctionOnSet([i \in T |-> Overrun(tasks[i])], T)

\* run_control_repository.py: "Terminal tasks release unused runtime budget":
\* a terminal task's consumption stands still.
TerminalConsumesNoMore ==
  [][\A i \in DOMAIN tasks :
       Terminal(tasks[i]) => Elapsed(tasks[i], now)' = Elapsed(tasks[i], now)]_vars
=============================================================================
