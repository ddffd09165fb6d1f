---------------------------- MODULE PlanExecution ----------------------------
(***************************************************************************)
(* The execution of one prepared plan: application/                        *)
(* plan_execution_service.py over persistence/plan_execution_repository.py.*)
(* The controller owns a row of plan_executions and drives a workflow of   *)
(* its own (module Workflow), one task per step.  Nothing runs in the      *)
(* background: the plan moves when somebody calls start, status (which     *)
(* pumps), resume or cancel, from any thread of any Runtime process on the *)
(* database, and once more when a process starts.  Prompts live in the     *)
(* memory of the process that was given them and nowhere else.             *)
(***************************************************************************)
EXTENDS Workflow

CONSTANTS Plan,          \* the workflow of the execution
          StepTask,      \* the task launched under the key of each step
          Threads,       \* threads serving calls
          Processes,     \* Runtime processes
          HomeOf,        \* the process of each thread
          PumpTurns,     \* turns of the pump's loop (16 in the code)
          MaxCalls,      \* bound on calls
          Faults         \* may a process die, or the database refuse a call?

Steps == Positions(Plan)

ASSUME PlanAssumptions ==
  /\ Plan \in Workflows
  /\ \A i \in Steps : Specs[Plan][i].policy = "plan_execution_v2"
  /\ StepTask \in [Steps -> Tasks]
  /\ \A i, j \in Steps : StepTask[i] = StepTask[j] => i = j
  /\ \A i \in Steps : <<Plan, i, StepTask[i]>> \in Fits
  /\ HomeOf \in [Threads -> Processes]
  /\ PumpTurns \in Nat \ {0} /\ MaxCalls \in Nat
  /\ Faults \in BOOLEAN

VARIABLES
  exec,       \* the plan_executions row: [status, reason]
  result,     \* status in the plan_results row, "none" if there is none
  materials,  \* _materials of each process: the steps it has prompts for
  thread,     \* per thread: place, turn of the loop, step, status to be set,
              \* status read for the result, steps to be given
  calls

planVars == <<exec, result, materials, thread, calls>>
vars == <<workflowVars, planVars>>

EndedExec == {"completed", "failed", "cancelled"}
ExecStatuses == {"absent", "ready", "running", "blocked", "needs_review"} \cup EndedExec
Reasons == {"none", "input_required", "other"}
ExecType == [status : ExecStatuses, reason : Reasons]
Places == {"idle", "give", "read", "refresh", "lookup", "rebind", "material",
           "launch", "bind", "set", "build", "save", "clear", "resume",
           "regive", "cancel", "cancel_flow"}
ThreadType == [place : Places, turn : Nat, step : {0} \cup Steps, goal : ExecType,
               payload : ExecStatuses, give : SUBSET Steps]

PlanTypeOK ==
  /\ WorkflowTypeOK
  /\ exec \in ExecType
  /\ result \in {"none"} \cup ExecStatuses
  /\ materials \in [Processes -> SUBSET Steps]
  /\ thread \in [Threads -> ThreadType]
  /\ calls \in 0..MaxCalls

To(status, reason) == [status |-> status, reason |-> reason]
Idle == [place |-> "idle", turn |-> 0, step |-> 0, goal |-> To("absent", "none"),
         payload |-> "absent", give |-> {}]

Init ==
  /\ WorkflowInit
  /\ exec = To("absent", "none")
  /\ result = "none"
  /\ materials = [p \in Processes |-> {}]
  /\ thread = [c \in Threads |-> Idle]
  /\ calls = 0

Home(c) == HomeOf[c]
At(c, place) == thread[c].place = place
Go(c, place) == thread' = [thread EXCEPT ![c].place = place]
Return(c) == thread' = [thread EXCEPT ![c] = Idle]
SetTo(c, goal) == thread' = [thread EXCEPT ![c].place = "set", ![c].goal = goal]
Called(c, place) ==
  /\ At(c, "idle")
  /\ calls < MaxCalls
  /\ calls' = calls + 1
  /\ thread' = [thread EXCEPT ![c].place = place, ![c].turn = 1]

(***************************************************************************)
(* start                                                                   *)
(***************************************************************************)

\* Workflow and execution are made in one transaction; the same plan started
\* again with the same manifest finds them.
CallStart(c) ==
  /\ Called(c, "give")
  /\ IF exec.status = "absent"
       THEN CreateWorkflow(Plan) /\ exec' = To("ready", "none")
       ELSE UNCHANGED <<workflowVars, exec>>
  /\ UNCHANGED <<result, materials>>

Give(c) ==
  /\ At(c, "give")
  /\ materials' = [materials EXCEPT ![Home(c)] = Steps]
  /\ Go(c, "read")
  /\ UNCHANGED <<workflowVars, exec, result, calls>>

(***************************************************************************)
(* pump                                                                    *)
(***************************************************************************)

\* plan_execution_status, and reconcile_all of a process that starts.
CallPump(c) ==
  /\ exec.status # "absent"
  /\ Called(c, "read")
  /\ UNCHANGED <<workflowVars, exec, result, materials>>

ReadExecution(c) ==
  /\ At(c, "read")
  /\ IF thread[c].turn > PumpTurns THEN SetTo(c, To("needs_review", "other"))
     ELSE IF exec.status \in EndedExec THEN Return(c)
     ELSE Go(c, "refresh")
  /\ UNCHANGED <<workflowVars, exec, result, materials, calls>>

CurrentStage(f) ==
  LET open == {i \in Steps : f.stages[i].status # "completed"} IN
  IF open = {} THEN 0 ELSE CHOOSE i \in open : \A j \in open : i <= j

\* A defect: the next step is the first without a task.
Ready_FirstUnbound(f) ==
  LET unbound == {i \in Steps : f.stages[i].task = NoTask} IN
  IF unbound = {} \/ f.status \in EndedFlow THEN 0
  ELSE CHOOSE i \in unbound : \A j \in unbound : i <= j

\* The step to be dispatched, if the workflow has one.
Ready(f) ==
  LET i == CurrentStage(f) IN
  IF i # 0 /\ f.status \notin EndedFlow /\ f.stages[i].status = "ready" THEN i ELSE 0

\* What the execution's status has to be when there is nothing to dispatch.
Mirrored(f) ==
  LET i == CurrentStage(f) IN
  CASE f.status = "completed"                 -> To("completed", "none")
    [] f.status \in {"failed", "cancelled"}   -> To(f.status, "other")
    [] OTHER ->
       IF i = 0 THEN To("needs_review", "other")
       ELSE CASE f.stages[i].status = "running"          -> To("running", "none")
              [] f.stages[i].status = "waiting_approval" -> To("blocked", "other")
              [] OTHER                                   -> To("needs_review", "other")

\* One transaction refreshes the workflow; the rest of the turn goes by what
\* it returned.
RefreshFlow(c) ==
  /\ At(c, "refresh")
  /\ RefreshWorkflow(Plan)
  /\ LET f == flow'[Plan] IN
     IF Ready(f) = 0 THEN SetTo(c, Mirrored(f))
     ELSE thread' = [thread EXCEPT ![c].place = "lookup", ![c].step = Ready(f)]
  /\ UNCHANGED <<exec, result, materials, calls>>

Step(c) == thread[c].step
Its(c) == StepTask[Step(c)]

\* resolve_idempotent: has the step been launched already?
Lookup(c) ==
  /\ At(c, "lookup")
  /\ Go(c, IF task[Its(c)].status = "absent" THEN "material" ELSE "rebind")
  /\ UNCHANGED <<workflowVars, exec, result, materials, calls>>

Refused(c) == ~(Live(Plan) /\ \/ flow[Plan].stages[Step(c)].task = Its(c)
                              \/ Bindable(Plan, Step(c), Its(c)))

\* A defect: the found task is noted and not bound.
Rebind_Forgets(c) ==
  /\ At(c, "rebind")
  /\ thread' = [thread EXCEPT ![c].place = "read", ![c].turn = @ + 1]
  /\ UNCHANGED <<workflowVars, exec, result, materials, calls>>

\* A task that was launched and not bound is bound now, and the loop goes
\* round again.
Rebind(c) ==
  /\ At(c, "rebind")
  /\ BindTask(Plan, Step(c), Its(c))
  /\ thread' = [thread EXCEPT ![c].place = "read", ![c].turn = @ + 1]
  /\ UNCHANGED <<exec, result, materials, calls>>

Material(c) ==
  /\ At(c, "material")
  /\ IF Step(c) \in materials[Home(c)] THEN Go(c, "launch")
     ELSE SetTo(c, To("needs_review", "input_required"))
  /\ UNCHANGED <<workflowVars, exec, result, materials, calls>>

\* The launch makes the task of the step's key or finds it made (module
\* TaskAdmission).
Launch(c) ==
  /\ At(c, "launch")
  /\ TaskStarts(Its(c)) \/ (task[Its(c)].status # "absent" /\ UNCHANGED workflowVars)
  /\ Go(c, "bind")
  /\ UNCHANGED <<exec, result, materials, calls>>

\* Context or knowledge has drifted, or the launch was refused; a launch whose
\* thread could not be started leaves a task behind.
LaunchFails(c) ==
  /\ At(c, "launch")
  /\ TaskStarts(Its(c)) \/ UNCHANGED workflowVars
  /\ SetTo(c, To("needs_review", "other"))
  /\ UNCHANGED <<exec, result, materials, calls>>

\* A defect: the binding is written whatever the workflow has come to.
Bind_Forced(c) ==
  /\ At(c, "bind")
  /\ flow' = [flow EXCEPT ![Plan].stages[Step(c)] = [status |-> "running", task |-> Its(c)]]
  /\ SetTo(c, To("running", "none"))
  /\ UNCHANGED <<decision, task, exec, result, materials, calls>>

Bind(c) ==
  /\ At(c, "bind")
  /\ BindTask(Plan, Step(c), Its(c))
  /\ SetTo(c, To("running", "none"))
  /\ UNCHANGED <<exec, result, materials, calls>>

\* bind_task raises, and the call ends with its error.
BindRefused(c) ==
  /\ At(c, "bind") \/ At(c, "rebind")
  /\ Refused(c)
  /\ Return(c)
  /\ UNCHANGED <<workflowVars, exec, result, materials, calls>>

\* _set_status reads the row and writes it in one transaction; nothing is
\* compared with what the caller read before.
SetStatus(c) ==
  LET goal == thread[c].goal IN
  /\ At(c, "set")
  /\ exec' = goal
  /\ IF goal.status \in EndedExec THEN Go(c, "build")
     ELSE IF goal.status = "ready" THEN Go(c, "read")
     ELSE Return(c)
  /\ UNCHANGED <<workflowVars, result, materials, calls>>

\* _ensure_terminal_result: unless there is a result, one is built from a
\* later read of the row (a result saved between the two reads is kept).
BuildResult(c) ==
  /\ At(c, "build")
  /\ thread' = IF result # "none" THEN [thread EXCEPT ![c].place = "clear"]
               ELSE [thread EXCEPT ![c].place = "save", ![c].payload = exec.status]
  /\ UNCHANGED <<workflowVars, exec, result, materials, calls>>

SaveResult(c) ==
  /\ At(c, "save")
  /\ IF exec.status \in EndedExec
       THEN /\ result' = IF result = "none" THEN thread[c].payload ELSE result
            /\ Go(c, "clear")
       ELSE Return(c) /\ UNCHANGED result
  /\ UNCHANGED <<workflowVars, exec, materials, calls>>

ClearMaterials(c) ==
  /\ At(c, "clear")
  /\ materials' = [materials EXCEPT ![Home(c)] = {}]
  /\ Return(c)
  /\ UNCHANGED <<workflowVars, exec, result, calls>>

(***************************************************************************)
(* resume and cancel                                                       *)
(***************************************************************************)

CallResume(c) ==
  /\ exec = To("needs_review", "input_required")
  /\ Called(c, "resume")
  /\ UNCHANGED <<workflowVars, exec, result, materials>>

\* A defect: only the step that is due is asked for.
Resumable_ReadyOnly(f) == {i \in Steps : f.stages[i] = Unbound("ready")}

Resumable(f) == {i \in Steps : f.stages[i] \in {Unbound("ready"), Unbound("pending")}}

\* The caller brings prompts for exactly the steps that are not dispatched, or
\* is refused.
ResumeRefresh(c) ==
  /\ At(c, "resume")
  /\ RefreshWorkflow(Plan)
  /\ \/ thread' = [thread EXCEPT ![c].place = "regive", ![c].give = Resumable(flow'[Plan])]
     \/ Return(c)
  /\ UNCHANGED <<exec, result, materials, calls>>

Regive(c) ==
  /\ At(c, "regive")
  /\ materials' = [materials EXCEPT ![Home(c)] = thread[c].give]
  /\ SetTo(c, To("ready", "none"))
  /\ UNCHANGED <<workflowVars, exec, result, calls>>

CallCancel(c) ==
  /\ exec.status \notin {"absent"} \cup EndedExec
  /\ Called(c, "cancel")
  /\ UNCHANGED <<workflowVars, exec, result, materials>>

\* What the refresh returns only serves to ask the current task to stop, if
\* the caller wants that.
CancelRefresh(c) ==
  /\ At(c, "cancel")
  /\ RefreshWorkflow(Plan)
  /\ Go(c, "cancel_flow")
  /\ UNCHANGED <<exec, result, materials, calls>>

\* A defect: the refusal of an ended workflow is ignored.
CancelFlow_Anyway(c) ==
  /\ At(c, "cancel_flow")
  /\ CancelWorkflow(Plan) \/ (~Live(Plan) /\ UNCHANGED workflowVars)
  /\ SetTo(c, To("cancelled", "other"))
  /\ UNCHANGED <<exec, result, materials, calls>>

\* cancel_workflow replays on a cancelled workflow and raises on one that has
\* ended otherwise.
CancelFlow(c) ==
  /\ At(c, "cancel_flow")
  /\ \/ CancelWorkflow(Plan) /\ SetTo(c, To("cancelled", "other"))
     \/ /\ ~Live(Plan)
        /\ UNCHANGED workflowVars
        /\ IF flow[Plan].status = "cancelled"
             THEN SetTo(c, To("cancelled", "other")) ELSE Return(c)
  /\ UNCHANGED <<exec, result, materials, calls>>

(***************************************************************************)
(* Everybody else                                                          *)
(***************************************************************************)

\* A process dies with its threads and its prompts.
Crash(p) ==
  /\ Faults
  /\ materials' = [materials EXCEPT ![p] = {}]
  /\ thread' = [c \in Threads |-> IF Home(c) = p THEN Idle ELSE thread[c]]
  /\ UNCHANGED <<workflowVars, exec, result, calls>>

\* The database refuses a transaction; the call ends with the error, between
\* any two of its steps.
CallFails(c) ==
  /\ Faults
  /\ ~At(c, "idle")
  /\ Return(c)
  /\ UNCHANGED <<workflowVars, exec, result, materials, calls>>

StepTasks == {StepTask[i] : i \in Steps}

\* The workflow tools work on the plan's workflow as on any other.
Operator ==
  /\ \/ RefreshWorkflow(Plan)
     \/ \E i \in Steps, t \in Tasks : BindTask(Plan, i, t)
     \/ \E i \in Steps, d \in {"approved", "rejected"} : RecordApproval(Plan, i, d)
     \/ \E t \in Tasks : TaskEnds(t)
     \/ \E t \in Tasks \ StepTasks : TaskStarts(t)
  /\ UNCHANGED planVars

ThreadStep(c) ==
  \/ CallStart(c) \/ CallPump(c) \/ CallResume(c) \/ CallCancel(c)
  \/ Give(c) \/ ReadExecution(c) \/ RefreshFlow(c) \/ Lookup(c) \/ Rebind(c)
  \/ Material(c) \/ Launch(c) \/ LaunchFails(c) \/ Bind(c) \/ BindRefused(c)
  \/ SetStatus(c) \/ BuildResult(c) \/ SaveResult(c) \/ ClearMaterials(c)
  \/ ResumeRefresh(c) \/ Regive(c) \/ CancelRefresh(c) \/ CancelFlow(c)

Next ==
  \/ \E c \in Threads : ThreadStep(c) \/ CallFails(c)
  \/ \E p \in Processes : Crash(p)
  \/ Operator

Spec == Init /\ [][Next]_vars

-----------------------------------------------------------------------------
(***************************************************************************)
(* Properties                                                              *)
(***************************************************************************)

\* No task is launched out of turn or gets lost: while the workflow is live,
\* the task of a launched step is bound to its stage, or the stage is still
\* open for it (pump: "repair the tiny create-task/bind-stage crash window"),
\* unless an operator put another task there.
NoStrayTask ==
  Live(Plan) => \A i \in Steps :
    task[StepTask[i]].status # "absent" =>
      flow[Plan].stages[i].task # NoTask \/ flow[Plan].stages[i].status = "ready"

\* Values keep their types, a task counts for one stage of one workflow, and no
\* task of the plan is launched out of turn or gets lost.
TasksStand == PlanTypeOK /\ OneStagePerTask /\ NoStrayTask

\* An execution that says it has ended is right: its workflow has, the same
\* way, although status is written long after the workflow was read and
\* several calls write it.
EndMatchesWorkflow == exec.status \in EndedExec => flow[Plan].status = exec.status

\* A process has all the prompts it still needs, or none: a resume cannot
\* strand the steps after the one it was asked for.
MaterialsSuffice ==
  Live(Plan) => \A p \in Processes :
    materials[p] # {} => Resumable(flow[Plan]) \subseteq materials[p]

\* The pump's loop goes round once for each step that was launched and not
\* bound, whatever other calls do meanwhile, so its bound is not reached by
\* spinning (pump: "cannot spin forever").
PumpGetsOn ==
  \A c \in Threads : At(c, "read") /\ exec.status \notin EndedExec =>
    thread[c].turn <= 1 + Cardinality({i \in Steps : flow[Plan].stages[i].task # NoTask})

\* Whatever the controller does to the workflow, a crash included, is an
\* operation of the workflow.
DrivesWorkflow == WorkflowSpec

(***************************************************************************)
(* What comments in the code say and the code does not do                  *)
(***************************************************************************)

\* plan_execution_result: "non-terminal executions return final=false"; a
\* saved result is returned with final=true.
FinalMeansEnded == result # "none" => exec.status \in EndedExec
=============================================================================
