------------------------------ MODULE Workflow ------------------------------
(***************************************************************************)
(* Linear workflows over durable tasks: application/workflow_service.py    *)
(* over persistence/workflow_repository.py.  A workflow owns no task: it   *)
(* binds one that runs anyway to its ready stage and reads, each time it   *)
(* is refreshed, what has become of it.  Every operation is one BEGIN      *)
(* IMMEDIATE transaction; tasks move between them on their own, and a      *)
(* refused operation rolls back, so it is no step at all.                  *)
(***************************************************************************)
EXTENDS Naturals, Sequences, FiniteSets

CONSTANTS Workflows,    \* workflow ids
          Specs,        \* per workflow the sequence of its WorkflowStageSpec
          Tasks,        \* durable tasks
          NoTask,       \* task_id IS NULL
          Fits,         \* <<w, i, t>>: task t has the runtime, context and
                        \* profile that stage i of w asks for
          Verdicts      \* verification verdicts that results may carry

Policies == {"legacy", "plan_execution_v2"}
StageSpec == [approval : BOOLEAN, verification : BOOLEAN, policy : Policies]

Positions(w) == 1..Len(Specs[w])

ASSUME WorkflowAssumptions ==
  /\ Specs \in [Workflows -> Seq(StageSpec) \ {<< >>}]
  /\ NoTask \notin Tasks
  /\ Verdicts \subseteq {"PASSED", "FAILED", "NEEDS_REVIEW", "NOT_REQUESTED", "UNAVAILABLE"}
  /\ "UNAVAILABLE" \in Verdicts

VARIABLES
  flow,       \* per workflow its row and stages: [status, stages]
  decision,   \* per workflow and stage the approval row, "none" if there is none
  task        \* per task what a refresh reads of it: [status, verdict]

workflowVars == <<flow, decision, task>>

StageStatuses == {"pending", "ready", "running", "waiting_approval",
                  "needs_review", "completed", "failed", "cancelled"}
EndedFlow == {"completed", "failed", "cancelled"}
FlowStatuses == {"absent", "active", "blocked"} \cup EndedFlow
\* "lost" stands for lost and orphaned, "failed" for every other end.
EndedTask == {"completed", "failed", "cancelled", "lost"}

StageType == [status : StageStatuses, task : Tasks \cup {NoTask}]
TaskType == [status : {"absent", "active"} \cup EndedTask, verdict : Verdicts]

WorkflowTypeOK ==
  /\ DOMAIN flow = Workflows /\ DOMAIN decision = Workflows
  /\ \A w \in Workflows :
       /\ flow[w].status \in FlowStatuses
       /\ flow[w].stages \in [Positions(w) -> StageType]
       /\ decision[w] \in [Positions(w) -> {"none", "approved", "rejected"}]
  /\ task \in [Tasks -> TaskType]

Unbound(s) == [status |-> s, task |-> NoTask]

WorkflowInit ==
  /\ flow = [w \in Workflows |->
       [status |-> "absent", stages |-> [i \in Positions(w) |-> Unbound("pending")]]]
  /\ decision = [w \in Workflows |-> [i \in Positions(w) |-> "none"]]
  /\ task = [t \in Tasks |-> [status |-> "absent", verdict |-> "UNAVAILABLE"]]

(***************************************************************************)
(* What a stage becomes                                                    *)
(***************************************************************************)

\* Work that is good enough passes, unless an operator has to say so.
Proceed(spec, d) ==
  IF ~spec.approval THEN "completed"
  ELSE CASE d = "none"     -> "waiting_approval"
         [] d = "approved" -> "completed"
         [] d = "rejected" -> "failed"

\* Completion policy "legacy": the task's status is all there is.
StageStatusForTask(spec, t, d) ==
  CASE t.status \notin EndedTask -> "running"
    [] t.status = "completed"    -> Proceed(spec, d)
    [] t.status = "cancelled"    -> "cancelled"
    [] OTHER                     -> "failed"

\* A defect: only a FAILED verdict holds a stage back.
StageStateForTask_Lenient(spec, t, d) ==
  IF t.status = "completed" /\ t.verdict # "FAILED" THEN Proceed(spec, d)
  ELSE StageStatusForTask(spec, t, d)

\* Policy "plan_execution_v2": a result that is missing, unreadable or not
\* verified as asked is never taken for success.
StageStateForTask(spec, t, d) ==
  IF spec.policy = "legacy" THEN StageStatusForTask(spec, t, d)
  ELSE CASE t.status \notin EndedTask -> "running"
         [] t.status = "cancelled"    -> "cancelled"
         [] t.status = "lost"         -> "needs_review"
         [] t.status = "failed"       -> "failed"
         [] t.status = "completed"    ->
              IF t.verdict = "FAILED" THEN "failed"
              ELSE IF \/ t.verdict = "PASSED"
                      \/ t.verdict = "NOT_REQUESTED" /\ ~spec.verification
                THEN Proceed(spec, d) ELSE "needs_review"

\* A stage re-read from its task.  One that should have a task and has none
\* is given up on.
Recomputed(spec, stage, d) ==
  [stage EXCEPT !.status =
     IF stage.task # NoTask THEN StageStateForTask(spec, task[stage.task], d)
     ELSE IF stage.status \in {"running", "waiting_approval"} THEN "failed" ELSE @]

\* A defect: the next stage is opened when its predecessor is over, however
\* it ended.
Advanced_PastFailure(stages) ==
  [i \in DOMAIN stages |->
     IF /\ stages[i] = Unbound("pending")
        /\ \A j \in DOMAIN stages : j < i => stages[j].status \in {"completed", "failed"}
       THEN Unbound("ready") ELSE stages[i]]

\* The first stage that is not completed is opened.
Advanced(stages) ==
  [i \in DOMAIN stages |->
     IF /\ stages[i] = Unbound("pending")
        /\ \A j \in DOMAIN stages : j < i => stages[j].status = "completed"
       THEN Unbound("ready") ELSE stages[i]]

\* A defect: blocked is only for approvals.
WorkflowStatus_ApprovalsOnly(stages) ==
  LET found == {stages[i].status : i \in DOMAIN stages} IN
  CASE found = {"completed"} -> "completed"
    [] "failed" \in found -> "failed"
    [] "cancelled" \in found -> "cancelled"
    [] "waiting_approval" \in found -> "blocked"
    [] OTHER -> "active"

WorkflowStatus(stages) ==
  LET found == {stages[i].status : i \in DOMAIN stages} IN
  CASE found = {"completed"} -> "completed"
    [] "failed" \in found    -> "failed"
    [] "cancelled" \in found -> "cancelled"
    [] found \cap {"waiting_approval", "needs_review"} # {} -> "blocked"
    [] OTHER -> "active"

\* A defect: a cancelled workflow is refreshed like any other.
Refreshed_Revives(w, f, d) ==
  LET stages == Advanced([i \in Positions(w) |-> Recomputed(Specs[w][i], f.stages[i], d[i])])
  IN [status |-> WorkflowStatus(stages), stages |-> stages]

\* _refresh_in_connection: every stage re-read, the next one opened, the
\* workflow's status drawn from them.  A cancelled workflow stays as it is.
Refreshed(w, f, d) ==
  IF f.status = "cancelled" THEN f
  ELSE LET read == [i \in Positions(w) |-> Recomputed(Specs[w][i], f.stages[i], d[i])]
           stages == Advanced(read)
       IN [status |-> WorkflowStatus(stages), stages |-> stages]

Live(w) == flow[w].status \in {"active", "blocked"}

(***************************************************************************)
(* The operations                                                          *)
(***************************************************************************)

CreateWorkflow(w) ==
  /\ flow[w].status = "absent"
  /\ flow' = [flow EXCEPT ![w] =
       [status |-> "active",
        stages |-> [i \in Positions(w) |-> Unbound(IF i = 1 THEN "ready" ELSE "pending")]]]
  /\ UNCHANGED <<decision, task>>

RefreshWorkflow(w) ==
  /\ flow[w].status # "absent"
  /\ flow' = [flow EXCEPT ![w] = Refreshed(w, @, decision[w])]
  /\ UNCHANGED <<decision, task>>

BoundSomewhere(t) ==
  \E w \in Workflows : \E i \in Positions(w) : flow[w].stages[i].task = t

\* A defect: a task is looked for in this workflow only.
Bindable_ElsewhereToo(w, i, t) ==
  /\ flow[w].stages[i] = Unbound("ready")
  /\ \A j \in Positions(w) : flow[w].stages[j].task # t
  /\ task[t].status # "absent"
  /\ <<w, i, t>> \in Fits

\* The stage is open and free, and the task is real, free and of the kind the
\* stage asks for.
Bindable(w, i, t) ==
  /\ flow[w].stages[i] = Unbound("ready")
  /\ ~BoundSomewhere(t)
  /\ task[t].status # "absent"
  /\ <<w, i, t>> \in Fits

\* A binding repeated is a refresh.
BindTask(w, i, t) ==
  /\ Live(w)
  /\ LET bound == [flow[w] EXCEPT !.stages[i] =
                     [status |-> StageStateForTask(Specs[w][i], task[t], decision[w][i]),
                      task |-> t]]
     IN \/ /\ flow[w].stages[i].task = t
           /\ flow' = [flow EXCEPT ![w] = Refreshed(w, @, decision[w])]
        \/ /\ Bindable(w, i, t)
           /\ flow' = [flow EXCEPT ![w] = Refreshed(w, bound, decision[w])]
  /\ UNCHANGED <<decision, task>>

\* A defect: a failed workflow can still be cancelled.
CancelWorkflow_EndedToo(w) ==
  /\ flow[w].status \in {"active", "blocked", "failed"}
  /\ flow' = [flow EXCEPT ![w].status = "cancelled"]
  /\ UNCHANGED <<decision, task>>

\* The workflow ends, its unfinished stages with it; the task of a running
\* stage goes on.
CancelWorkflow(w) ==
  /\ Live(w)
  /\ flow' = [flow EXCEPT ![w] =
       [status |-> "cancelled",
        stages |-> [i \in Positions(w) |->
          IF @.stages[i].status \in {"completed", "failed", "cancelled"}
            THEN @.stages[i] ELSE [@.stages[i] EXCEPT !.status = "cancelled"]]]]
  /\ UNCHANGED <<decision, task>>

Decided(d) == IF d = "approved" THEN "completed" ELSE "failed"

\* A defect: an approval may be given in advance.
RecordApproval_InAdvance(w, i, d) ==
  /\ Live(w)
  /\ Specs[w][i].approval
  /\ decision[w][i] = "none"
  /\ decision' = [decision EXCEPT ![w][i] = d]
  /\ flow' = [flow EXCEPT ![w] = Refreshed(w, [@ EXCEPT !.stages[i].status = Decided(d)],
                                           decision'[w])]
  /\ UNCHANGED task

\* The workflow is refreshed first; the same decision again is a replay, a
\* different one is refused.
RecordApproval(w, i, d) ==
  LET f == Refreshed(w, flow[w], decision[w]) IN
  /\ flow[w].status # "absent"
  /\ \/ /\ decision[w][i] = d
        /\ flow' = [flow EXCEPT ![w] = f]
        /\ UNCHANGED decision
     \/ /\ decision[w][i] = "none"
        /\ Specs[w][i].approval
        /\ f.stages[i].status = "waiting_approval"
        /\ decision' = [decision EXCEPT ![w][i] = d]
        /\ flow' = [flow EXCEPT ![w] =
             Refreshed(w, [f EXCEPT !.stages[i].status = Decided(d)], decision'[w])]
  /\ UNCHANGED task

\* A task is launched and ends; module TaskLifecycle says how.
TaskStarts(t) ==
  /\ task[t].status = "absent"
  /\ task' = [task EXCEPT ![t].status = "active"]
  /\ UNCHANGED <<flow, decision>>

TaskEnds(t) ==
  /\ task[t].status = "active"
  /\ \E s \in EndedTask, v \in Verdicts :
       /\ s # "completed" => v = "UNAVAILABLE"
       /\ task' = [task EXCEPT ![t] = [status |-> s, verdict |-> v]]
  /\ UNCHANGED <<flow, decision>>

WorkflowStep(w) ==
  \/ CreateWorkflow(w) \/ RefreshWorkflow(w) \/ CancelWorkflow(w)
  \/ \E i \in Positions(w), t \in Tasks : BindTask(w, i, t)
  \/ \E i \in Positions(w), d \in {"approved", "rejected"} : RecordApproval(w, i, d)

TaskStep(t) == TaskStarts(t) \/ TaskEnds(t)

WorkflowNext ==
  \/ \E w \in Workflows : WorkflowStep(w)
  \/ \E t \in Tasks : TaskStep(t)

WorkflowSpec == WorkflowInit /\ [][WorkflowNext]_workflowVars

-----------------------------------------------------------------------------
(***************************************************************************)
(* Properties                                                              *)
(***************************************************************************)

\* A stage is left alone until all before it are completed: nothing is opened,
\* bound, run or judged out of turn, though every stage is recomputed on every
\* refresh and the workflow may be cancelled at any point.
InTurn ==
  \A w \in Workflows : \A i, j \in Positions(w) :
    j < i /\ flow[w].stages[i].status \notin {"pending", "cancelled"}
      => flow[w].stages[j].status = "completed"

\* A live workflow is never stuck: exactly one stage is open, it is the first
\* that is not completed, and the workflow is blocked if and only if that
\* stage waits for a person.
OneOpenStage ==
  \A w \in Workflows : Live(w) =>
    \E i \in Positions(w) :
      /\ \A j \in Positions(w) \ {i} :
           flow[w].stages[j].status = IF j < i THEN "completed" ELSE "pending"
      /\ IF flow[w].status = "blocked"
           THEN flow[w].stages[i].status \in {"waiting_approval", "needs_review"}
           ELSE flow[w].stages[i].status \in {"ready", "running"}

\* A task counts for one stage of one workflow.
OneStagePerTask ==
  \A v, w \in Workflows : \A i \in Positions(v), j \in Positions(w) :
    flow[v].stages[i].task \in {flow[w].stages[j].task} \ {NoTask}
      => v = w /\ i = j

\* A completed stage has earned it: its task completed, its result verified as
\* its policy asks, and the approval it needs was given.
CompletedIsEarned ==
  \A w \in Workflows : \A i \in Positions(w) :
    LET s == flow[w].stages[i]
        spec == Specs[w][i]
    IN s.status = "completed" =>
         /\ s.task # NoTask
         /\ task[s.task].status = "completed"
         /\ spec.approval => decision[w][i] = "approved"
         /\ spec.policy = "plan_execution_v2" =>
              task[s.task].verdict \in
                {"PASSED"} \cup (IF spec.verification THEN {} ELSE {"NOT_REQUESTED"})

\* An operator only ever decides about work that is finished, and the decision
\* is what the stage then shows.
DecidedOnResults ==
  \A w \in Workflows : \A i \in Positions(w) :
    decision[w][i] # "none" =>
      /\ flow[w].stages[i].task # NoTask
      /\ task[flow[w].stages[i].task].status = "completed"
      /\ flow[w].stages[i].status = Decided(decision[w][i])

\* An ended workflow is never changed again, by a late refresh, a late cancel
\* or a late approval, although its tasks may still be running
\* (_refresh_in_connection: "refresh must not revive cancelled Stages").
EndedFlowStands ==
  [][\A w \in Workflows : flow[w].status \in EndedFlow => flow'[w] = flow[w]]_workflowVars

\* One refresh sees all there is to see: a second one, with nothing happening
\* in between, changes nothing.
OneRefreshSuffices ==
  \A w \in Workflows :
    flow[w].status # "absent" =>
      LET once == Refreshed(w, flow[w], decision[w]) IN
      Refreshed(w, once, decision[w]) = once

\* Every workflow goes stage by stage, one in each transaction at most.
Progress(w) == INSTANCE StageByStage WITH
  Steps   <- Cardinality(Positions(w)),
  done    <- Cardinality({i \in Positions(w) : flow[w].stages[i].status = "completed"}),
  outcome <- IF flow[w].status \in EndedFlow THEN flow[w].status ELSE "open"

\* (The conjunction of Progress(w)!SbSSpec over the workflows, with its box in
\* front.)
ImplementsStageByStage ==
  /\ \A w \in Workflows : Progress(w)!SbSInit
  /\ [][\A w \in Workflows :
          Progress(w)!SbSNext \/ UNCHANGED Progress(w)!sbsVars]_workflowVars
=============================================================================
