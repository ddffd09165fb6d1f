---------------------------- MODULE WorkflowProofs ----------------------------
(***************************************************************************)
(* Proofs about workflows, for any number of workflows, stages and tasks,  *)
(* any mixture of completion policies and any set of verdicts.             *)
(***************************************************************************)
EXTENDS Workflow, FiniteSetTheorems, TLAPS

Decisions == {"none", "approved", "rejected"}
FlowType(w) == [status : FlowStatuses, stages : [Positions(w) -> StageType]]

\* Typing with the record of each workflow spelt out, which a step needs to
\* change one of its fields.
FlowInv ==
  /\ flow = [w \in Workflows |-> flow[w]]
  /\ \A w \in Workflows : flow[w] \in FlowType(w)
  /\ decision = [w \in Workflows |-> decision[w]]
  /\ \A w \in Workflows : decision[w] \in [Positions(w) -> Decisions]
  /\ task \in [Tasks -> TaskType]

WorkflowInv == FlowInv /\ OneStagePerTask

\* The two values of a workflow have the same tasks on their stages.
SameTasks(w, f, g) == \A i \in Positions(w) : g.stages[i].task = f.stages[i].task

(***************************************************************************)
(* What a refresh keeps                                                    *)
(***************************************************************************)

\* Both completion policies answer with the status of a stage.
LEMMA StageStateType ==
  ASSUME NEW spec \in StageSpec, NEW t \in TaskType, NEW d \in Decisions
  PROVE  StageStateForTask(spec, t, d) \in StageStatuses
<1>1. Proceed(spec, d) \in StageStatuses
  BY DEF Proceed, Decisions, StageStatuses
<1>2. StageStatusForTask(spec, t, d) \in StageStatuses
  BY <1>1 DEF StageStatusForTask, StageStatuses
<1>3. t.status \in {"absent", "active"} \cup EndedTask
  BY DEF TaskType
<1> QED
  BY <1>1, <1>2, <1>3 DEF StageStateForTask, StageStatuses, EndedTask

\* A stage that is re-read keeps its task.
LEMMA RecomputedType ==
  ASSUME NEW spec \in StageSpec, NEW stage \in StageType, NEW d \in Decisions,
         task \in [Tasks -> TaskType]
  PROVE  /\ Recomputed(spec, stage, d) \in StageType
         /\ Recomputed(spec, stage, d).task = stage.task
<1>1. stage.task # NoTask => StageStateForTask(spec, task[stage.task], d) \in StageStatuses
  BY StageStateType DEF StageType
<1>2. "failed" \in StageStatuses /\ stage.status \in StageStatuses
  BY DEF StageType, StageStatuses
<1> DEFINE s == IF stage.task # NoTask THEN StageStateForTask(spec, task[stage.task], d)
                ELSE IF stage.status \in {"running", "waiting_approval"} THEN "failed"
                ELSE stage.status
<1>3. s \in StageStatuses
  BY <1>1, <1>2
<1>4. Recomputed(spec, stage, d) = [stage EXCEPT !.status = s]
  BY DEF Recomputed
<1> HIDE DEF s
<1> QED
  BY <1>3, <1>4 DEF StageType

\* Stages that are opened have no task, before or after.
LEMMA AdvancedType ==
  ASSUME NEW D, NEW stages \in [D -> StageType]
  PROVE  /\ Advanced(stages) \in [D -> StageType]
         /\ \A i \in D : Advanced(stages)[i].task = stages[i].task
<1>1. Unbound("ready") \in StageType /\ Unbound("ready").task = Unbound("pending").task
  BY DEF Unbound, StageType, StageStatuses
<1> QED
  BY <1>1 DEF Advanced

\* A refresh keeps the type and the tasks of every stage.
LEMMA RefreshedType ==
  ASSUME NEW w \in Workflows, NEW f \in FlowType(w),
         NEW d \in [Positions(w) -> Decisions], task \in [Tasks -> TaskType]
  PROVE  Refreshed(w, f, d) \in FlowType(w) /\ SameTasks(w, f, Refreshed(w, f, d))
<1> DEFINE read == [i \in Positions(w) |-> Recomputed(Specs[w][i], f.stages[i], d[i])]
<1>1. \A i \in Positions(w) : Specs[w][i] \in StageSpec
  BY WorkflowAssumptions DEF Positions
<1>2. \A i \in Positions(w) : f.stages[i] \in StageType
  BY DEF FlowType
<1>3. /\ read \in [Positions(w) -> StageType]
      /\ \A i \in Positions(w) : read[i].task = f.stages[i].task
  BY <1>1, <1>2, RecomputedType
<1> HIDE DEF read
<1>4. /\ Advanced(read) \in [Positions(w) -> StageType]
      /\ \A i \in Positions(w) : Advanced(read)[i].task = f.stages[i].task
  BY <1>3, AdvancedType
<1>5. WorkflowStatus(Advanced(read)) \in FlowStatuses
  BY DEF WorkflowStatus, FlowStatuses, EndedFlow
<1>6. CASE f.status = "cancelled"
  BY <1>6 DEF Refreshed, SameTasks
<1>7. CASE f.status # "cancelled"
  <2>1. Refreshed(w, f, d) = [status |-> WorkflowStatus(Advanced(read)),
                              stages |-> Advanced(read)]
    BY <1>7 DEF Refreshed, read
  <2> QED
    BY <1>4, <1>5, <2>1 DEF FlowType, SameTasks
<1> QED
  BY <1>6, <1>7

(***************************************************************************)
(* What a transaction does to the invariant                                *)
(***************************************************************************)

\* One workflow is replaced by a value of its type: the types stand.
LEMMA FlowChanges ==
  ASSUME FlowInv, NEW w \in Workflows, NEW g \in FlowType(w),
         flow' = [flow EXCEPT ![w] = g]
  PROVE  /\ flow' = [v \in Workflows |-> flow'[v]]
         /\ flow'[w] = g
         /\ \A v \in Workflows : v # w => flow'[v] = flow[v]
         /\ \A v \in Workflows : flow'[v] \in FlowType(v)
<1>1. DOMAIN flow = Workflows
  BY DEF FlowInv
<1>2. flow'[w] = g /\ \A v \in Workflows : v # w => flow'[v] = flow[v]
  BY <1>1
<1>3. flow' = [v \in Workflows |-> flow'[v]]
  BY <1>1
<1>4. \A v \in Workflows : flow'[v] \in FlowType(v)
  BY <1>2 DEF FlowInv
<1> QED
  BY <1>2, <1>3, <1>4

\* The approvals of one workflow change: the types stand.
LEMMA DecisionChanges ==
  ASSUME FlowInv, NEW w \in Workflows, NEW i \in Positions(w), NEW d \in Decisions,
         decision' = [decision EXCEPT ![w][i] = d]
  PROVE  /\ decision' = [v \in Workflows |-> decision'[v]]
         /\ \A v \in Workflows : decision'[v] \in [Positions(v) -> Decisions]
<1>1. DOMAIN decision = Workflows
      /\ \A v \in Workflows : decision[v] \in [Positions(v) -> Decisions]
  BY DEF FlowInv
<1>2. decision'[w] = [decision[w] EXCEPT ![i] = d]
      /\ \A v \in Workflows : v # w => decision'[v] = decision[v]
  BY <1>1
<1>3. decision'[w] \in [Positions(w) -> Decisions]
  BY <1>1, <1>2
<1>4. decision' = [v \in Workflows |-> decision'[v]]
  BY <1>1
<1> QED
  BY <1>1, <1>2, <1>3, <1>4

\* A workflow that keeps its tasks keeps them apart from all others.
LEMMA TasksKept ==
  ASSUME OneStagePerTask, NEW w \in Workflows,
         \A v \in Workflows : v # w => flow'[v] = flow[v],
         SameTasks(w, flow[w], flow'[w])
  PROVE  OneStagePerTask'
<1>1. \A v \in Workflows : \A i \in Positions(v) :
        flow'[v].stages[i].task = flow[v].stages[i].task
  BY DEF SameTasks
<1> SUFFICES ASSUME NEW u \in Workflows, NEW v \in Workflows,
                    NEW i \in Positions(u), NEW j \in Positions(v),
                    flow'[u].stages[i].task = flow'[v].stages[j].task,
                    flow'[u].stages[i].task # NoTask
             PROVE  u = v /\ i = j
  BY DEF OneStagePerTask
<1> QED
  BY <1>1 DEF OneStagePerTask

\* A stage without a task is given one that no stage has.
LEMMA TaskAdded ==
  ASSUME OneStagePerTask, NEW w \in Workflows, NEW i \in Positions(w), NEW t \in Tasks,
         ~BoundSomewhere(t),
         \A v \in Workflows : v # w => flow'[v] = flow[v],
         \A j \in Positions(w) :
           flow'[w].stages[j].task = IF j = i THEN t ELSE flow[w].stages[j].task
  PROVE  OneStagePerTask'
<1>1. \A v \in Workflows : \A j \in Positions(v) :
        flow'[v].stages[j].task
          = IF v = w /\ j = i THEN t ELSE flow[v].stages[j].task
  OBVIOUS
<1>2. \A v \in Workflows : \A j \in Positions(v) : flow[v].stages[j].task # t
  BY DEF BoundSomewhere
<1> SUFFICES ASSUME NEW u \in Workflows, NEW v \in Workflows,
                    NEW k \in Positions(u), NEW j \in Positions(v),
                    flow'[u].stages[k].task = flow'[v].stages[j].task,
                    flow'[u].stages[k].task # NoTask
             PROVE  u = v /\ k = j
  BY DEF OneStagePerTask
<1>3. flow[u].stages[k].task = flow[v].stages[j].task /\ flow[u].stages[k].task # NoTask
        => u = v /\ k = j
  BY DEF OneStagePerTask
<1> QED
  BY <1>1, <1>2, <1>3

\* A workflow is refreshed and nothing else happens.
LEMMA RefreshKeeps ==
  ASSUME WorkflowInv, NEW w \in Workflows,
         flow' = [flow EXCEPT ![w] = Refreshed(w, flow[w], decision[w])],
         UNCHANGED <<decision, task>>
  PROVE  WorkflowInv'
<1>1. flow[w] \in FlowType(w) /\ decision[w] \in [Positions(w) -> Decisions]
      /\ task \in [Tasks -> TaskType]
  BY DEF WorkflowInv, FlowInv
<1>2. /\ Refreshed(w, flow[w], decision[w]) \in FlowType(w)
      /\ SameTasks(w, flow[w], Refreshed(w, flow[w], decision[w]))
  BY <1>1, RefreshedType
<1>3. FlowInv'
  BY <1>2, FlowChanges DEF WorkflowInv, FlowInv, FlowType, Positions
<1>4. OneStagePerTask'
  BY <1>2, FlowChanges, TasksKept DEF WorkflowInv
<1> QED
  BY <1>3, <1>4 DEF WorkflowInv

(***************************************************************************)
(* One lemma per operation                                                 *)
(***************************************************************************)

\* The invariant, spelt out for one workflow.
LEMMA InvAt ==
  ASSUME WorkflowInv, NEW w \in Workflows
  PROVE  /\ FlowInv /\ OneStagePerTask
         /\ flow[w] \in FlowType(w)
         /\ flow[w].stages \in [Positions(w) -> StageType]
         /\ decision[w] \in [Positions(w) -> Decisions]
         /\ task \in [Tasks -> TaskType]
  BY DEF WorkflowInv, FlowInv, FlowType

\* A new workflow has no tasks.
LEMMA CreateInv ==
  ASSUME WorkflowInv, NEW w \in Workflows, CreateWorkflow(w)
  PROVE  WorkflowInv'
<1> DEFINE g == [status |-> "active",
                 stages |-> [i \in Positions(w) |-> Unbound(IF i = 1 THEN "ready" ELSE "pending")]]
<1>1. g \in FlowType(w) /\ \A i \in Positions(w) : g.stages[i].task = NoTask
  BY DEF FlowType, FlowStatuses, Unbound, StageType, StageStatuses
<1>2. flow' = [flow EXCEPT ![w] = g] /\ decision' = decision /\ task' = task
  BY DEF CreateWorkflow
<1> HIDE DEF g
<1>3. /\ flow' = [v \in Workflows |-> flow'[v]]
      /\ flow'[w] = g
      /\ \A v \in Workflows : v # w => flow'[v] = flow[v]
      /\ \A v \in Workflows : flow'[v] \in FlowType(v)
  BY <1>1, <1>2, InvAt, FlowChanges
<1>4. FlowInv'
  BY <1>2, <1>3, InvAt DEF FlowInv, FlowType, Positions
<1>5. OneStagePerTask'
  <2> SUFFICES ASSUME NEW u \in Workflows, NEW v \in Workflows,
                      NEW k \in Positions(u), NEW j \in Positions(v),
                      flow'[u].stages[k].task = flow'[v].stages[j].task,
                      flow'[u].stages[k].task # NoTask
               PROVE  u = v /\ k = j
    BY DEF OneStagePerTask
  <2>1. u # w /\ v # w
    BY <1>1, <1>3
  <2>2. flow[u].stages[k].task = flow[v].stages[j].task /\ flow[u].stages[k].task # NoTask
    BY <1>3, <2>1
  <2> QED
    BY <2>2, InvAt DEF OneStagePerTask
<1> QED
  BY <1>4, <1>5 DEF WorkflowInv

\* The bound task is on no other stage, and the refresh moves no task.
LEMMA BindInv ==
  ASSUME WorkflowInv, NEW w \in Workflows, NEW i \in Positions(w), NEW t \in Tasks,
         BindTask(w, i, t)
  PROVE  WorkflowInv'
<1> DEFINE st == [status |-> StageStateForTask(Specs[w][i], task[t], decision[w][i]),
                  task |-> t]
           bound == [flow[w] EXCEPT !.stages[i] = st]
<1>1. UNCHANGED <<decision, task>>
  BY DEF BindTask
<1>2. CASE flow' = [flow EXCEPT ![w] = Refreshed(w, flow[w], decision[w])]
  BY <1>1, <1>2, RefreshKeeps
<1>3. CASE /\ Bindable(w, i, t)
           /\ flow' = [flow EXCEPT ![w] = Refreshed(w, bound, decision[w])]
  <2>1. Specs[w][i] \in StageSpec /\ task[t] \in TaskType /\ decision[w][i] \in Decisions
    BY WorkflowAssumptions, InvAt DEF Positions
  <2>2. st \in StageType
    BY <2>1, StageStateType DEF StageType
  <2> HIDE DEF st
  <2>3. /\ bound \in FlowType(w)
        /\ \A j \in Positions(w) :
             bound.stages[j] = IF j = i THEN st ELSE flow[w].stages[j]
    BY <2>2, InvAt DEF FlowType
  <2>4. st.task = t
    BY DEF st
  <2> HIDE DEF bound
  <2>5. /\ Refreshed(w, bound, decision[w]) \in FlowType(w)
        /\ SameTasks(w, bound, Refreshed(w, bound, decision[w]))
    BY <2>3, InvAt, RefreshedType
  <2>6. /\ flow' = [v \in Workflows |-> flow'[v]]
        /\ flow'[w] = Refreshed(w, bound, decision[w])
        /\ \A v \in Workflows : v # w => flow'[v] = flow[v]
        /\ \A v \in Workflows : flow'[v] \in FlowType(v)
    BY <1>3, <2>5, InvAt, FlowChanges
  <2>7. FlowInv'
    BY <1>1, <2>6, InvAt DEF FlowInv, FlowType, Positions
  <2>8. \A j \in Positions(w) :
          flow'[w].stages[j].task = IF j = i THEN t ELSE flow[w].stages[j].task
    BY <2>3, <2>4, <2>5, <2>6 DEF SameTasks
  <2>9. ~BoundSomewhere(t)
    BY <1>3 DEF Bindable
  <2>10. OneStagePerTask'
    BY <2>6, <2>8, <2>9, InvAt, TaskAdded
  <2> QED
    BY <2>7, <2>10 DEF WorkflowInv
<1> QED
  BY <1>2, <1>3 DEF BindTask

\* A workflow takes a value of its type that has the same tasks.
LEMMA KeepsTasks ==
  ASSUME WorkflowInv, NEW w \in Workflows, NEW g \in FlowType(w),
         SameTasks(w, flow[w], g), flow' = [flow EXCEPT ![w] = g],
         decision' = [v \in Workflows |-> decision'[v]],
         \A v \in Workflows : decision'[v] \in [Positions(v) -> Decisions],
         task' = task
  PROVE  WorkflowInv'
<1>1. /\ flow' = [v \in Workflows |-> flow'[v]]
      /\ flow'[w] = g
      /\ \A v \in Workflows : v # w => flow'[v] = flow[v]
      /\ \A v \in Workflows : flow'[v] \in FlowType(v)
  BY InvAt, FlowChanges
<1>2. FlowInv'
  BY <1>1, InvAt DEF FlowInv, FlowType, Positions
<1>3. OneStagePerTask'
  BY <1>1, InvAt, TasksKept
<1> QED
  BY <1>2, <1>3 DEF WorkflowInv

\* A cancel changes the statuses of stages only.
LEMMA CancelInv ==
  ASSUME WorkflowInv, NEW w \in Workflows, CancelWorkflow(w)
  PROVE  WorkflowInv'
<1> DEFINE stage(i) == IF flow[w].stages[i].status \in {"completed", "failed", "cancelled"}
                         THEN flow[w].stages[i]
                         ELSE [flow[w].stages[i] EXCEPT !.status = "cancelled"]
           g == [status |-> "cancelled", stages |-> [i \in Positions(w) |-> stage(i)]]
<1>1. \A i \in Positions(w) : stage(i) \in StageType /\ stage(i).task = flow[w].stages[i].task
  BY InvAt DEF StageType, StageStatuses
<1>2. flow' = [flow EXCEPT ![w] = g] /\ decision' = decision /\ task' = task
  BY DEF CancelWorkflow
<1> HIDE DEF stage
<1>3. g \in FlowType(w) /\ SameTasks(w, flow[w], g)
  BY <1>1 DEF FlowType, FlowStatuses, EndedFlow, SameTasks
<1>4. /\ decision' = [v \in Workflows |-> decision'[v]]
      /\ \A v \in Workflows : decision'[v] \in [Positions(v) -> Decisions]
  BY <1>2, InvAt DEF FlowInv
<1> HIDE DEF g
<1> QED
  BY <1>2, <1>3, <1>4, KeepsTasks

\* An approval is refresh, decision and refresh again.
LEMMA ApprovalInv ==
  ASSUME WorkflowInv, NEW w \in Workflows, NEW i \in Positions(w),
         NEW d \in {"approved", "rejected"}, RecordApproval(w, i, d)
  PROVE  WorkflowInv'
<1> DEFINE f == Refreshed(w, flow[w], decision[w])
           h == [f EXCEPT !.stages[i].status = Decided(d)]
<1>1. task' = task
  BY DEF RecordApproval
<1>2. CASE flow' = [flow EXCEPT ![w] = f] /\ UNCHANGED decision
  BY <1>1, <1>2, RefreshKeeps
<1>3. CASE /\ decision' = [decision EXCEPT ![w][i] = d]
           /\ flow' = [flow EXCEPT ![w] = Refreshed(w, h, decision'[w])]
  <2>1. f \in FlowType(w) /\ SameTasks(w, flow[w], f)
    BY InvAt, RefreshedType
  <2> HIDE DEF f
  <2>2. Decided(d) \in StageStatuses
    BY DEF Decided, StageStatuses
  <2>3. [f.stages[i] EXCEPT !.status = Decided(d)] \in StageType
        /\ [f.stages[i] EXCEPT !.status = Decided(d)].task = f.stages[i].task
    BY <2>1, <2>2 DEF FlowType, StageType
  <2>4. h = [f EXCEPT !.stages[i] = [f.stages[i] EXCEPT !.status = Decided(d)]]
    BY <2>1 DEF FlowType
  <2>5. h \in FlowType(w) /\ SameTasks(w, flow[w], h)
    BY <2>1, <2>3, <2>4 DEF FlowType, SameTasks
  <2> HIDE DEF h
  <2>6. /\ decision' = [v \in Workflows |-> decision'[v]]
        /\ \A v \in Workflows : decision'[v] \in [Positions(v) -> Decisions]
    BY <1>3, InvAt, DecisionChanges DEF Decisions
  <2>7. /\ Refreshed(w, h, decision'[w]) \in FlowType(w)
        /\ SameTasks(w, h, Refreshed(w, h, decision'[w]))
    BY <2>5, <2>6, InvAt, RefreshedType
  <2>8. SameTasks(w, flow[w], Refreshed(w, h, decision'[w]))
    BY <2>5, <2>7 DEF SameTasks
  <2> QED
    BY <1>1, <1>3, <2>6, <2>7, <2>8, KeepsTasks
<1> QED
  BY <1>2, <1>3 DEF RecordApproval

\* A task starts or ends; no workflow looks on.
LEMMA TaskInv ==
  ASSUME WorkflowInv, NEW t \in Tasks, TaskStep(t)
  PROVE  WorkflowInv'
<1>1. flow' = flow /\ decision' = decision
  BY DEF TaskStep, TaskStarts, TaskEnds
<1>2. "UNAVAILABLE" \in Verdicts
  BY WorkflowAssumptions
<1>3. task' \in [Tasks -> TaskType]
  <2>1. CASE TaskStarts(t)
    BY <2>1, InvAt DEF TaskStarts, TaskType, WorkflowInv, FlowInv
  <2>2. CASE TaskEnds(t)
    BY <2>2 DEF TaskEnds, TaskType, WorkflowInv, FlowInv
  <2> QED
    BY <2>1, <2>2 DEF TaskStep
<1>4. FlowInv'
  BY <1>1, <1>3 DEF WorkflowInv, FlowInv, FlowType, Positions
<1>5. OneStagePerTask'
  BY <1>1 DEF WorkflowInv, OneStagePerTask
<1> QED
  BY <1>4, <1>5 DEF WorkflowInv

(***************************************************************************)
(* The order of stages                                                     *)
(***************************************************************************)

\* What the task of a stage says of it.
Judged(w, f, d, i) == StageStateForTask(Specs[w][i], task[f.stages[i].task], d[i])

\* All stages before stage i are completed.
Reached(w, f, i) == \A j \in Positions(w) : j < i => f.stages[j].status = "completed"

\* A workflow that was not cancelled: a stage without a task waits for one, a
\* stage with a task says what the task says (or "running", if nobody has
\* looked since it ended), and a stage that is not pending has been reached.
Orderly(w, f, d) == \A i \in Positions(w) :
  /\ f.stages[i].task = NoTask => f.stages[i].status \in {"pending", "ready"}
  /\ f.stages[i].task # NoTask => f.stages[i].status \in {"running", Judged(w, f, d, i)}
  /\ f.stages[i].status # "pending" => Reached(w, f, i)

\* A cancelled workflow: what was over stays, for the reason it was.
Stopped(w, f, d) == \A i \in Positions(w) :
  /\ f.stages[i].status \in {"pending", "completed", "failed", "cancelled"}
  /\ f.stages[i].status \in {"completed", "failed"} =>
       /\ f.stages[i].task # NoTask
       /\ f.stages[i].status = Judged(w, f, d, i)
       /\ Reached(w, f, i)

\* Decisions were made about completed tasks, and the stages show them.
Decisive(w, f, d) == \A i \in Positions(w) : d[i] # "none" =>
  /\ f.stages[i].task # NoTask
  /\ task[f.stages[i].task].status = "completed"
  /\ f.stages[i].status = Decided(d[i])

Sound(w, f, d) ==
  /\ IF f.status = "cancelled" THEN Stopped(w, f, d) ELSE Orderly(w, f, d)
  /\ f.status \notin {"absent", "cancelled"} => f.status = WorkflowStatus(f.stages)
  /\ f.status = "absent" => \A i \in Positions(w) : f.stages[i] = Unbound("pending")
  /\ Decisive(w, f, d)

\* What a task says of its stage under either policy.
LEMMA JudgedFacts ==
  ASSUME NEW spec \in StageSpec, NEW t \in TaskType, NEW d \in Decisions
  PROVE  LET s == StageStateForTask(spec, t, d) IN
         /\ s \notin {"pending", "ready"}
         /\ s # "running" <=> t.status \in EndedTask
         /\ s = "completed" =>
              /\ t.status = "completed"
              /\ spec.approval => d = "approved"
              /\ spec.policy = "plan_execution_v2" =>
                   \/ t.verdict = "PASSED"
                   \/ t.verdict = "NOT_REQUESTED" /\ ~spec.verification
         /\ s = "waiting_approval" =>
              /\ t.status = "completed"
              /\ d = "none"
              /\ \A e \in {"approved", "rejected"} : StageStateForTask(spec, t, e) = Decided(e)
<1>1. /\ Proceed(spec, d) \in {"completed", "failed", "waiting_approval"}
      /\ Proceed(spec, d) = "completed" /\ spec.approval => d = "approved"
      /\ Proceed(spec, d) = "waiting_approval" =>
           d = "none" /\ \A e \in {"approved", "rejected"} : Proceed(spec, e) = Decided(e)
  BY DEF Proceed, Decisions, Decided, StageSpec
<1>2. t.status \in {"absent", "active", "completed", "failed", "cancelled", "lost"}
  BY DEF TaskType, EndedTask
<1>3. \A e \in Decisions :
        StageStatusForTask(spec, t, e)
          = IF t.status \in {"absent", "active"} THEN "running"
            ELSE IF t.status = "completed" THEN Proceed(spec, e)
            ELSE IF t.status = "cancelled" THEN "cancelled" ELSE "failed"
  BY <1>2 DEF StageStatusForTask, EndedTask
<1>4. \A e \in Decisions :
        StageStateForTask(spec, t, e)
          = IF t.status \in {"absent", "active"} THEN "running"
            ELSE IF t.status = "cancelled" THEN "cancelled"
            ELSE IF t.status = "lost" THEN (IF spec.policy = "legacy" THEN "failed" ELSE "needs_review")
            ELSE IF t.status = "failed" THEN "failed"
            ELSE IF spec.policy = "legacy" \/ t.verdict = "PASSED"
                      \/ (t.verdict = "NOT_REQUESTED" /\ ~spec.verification)
              THEN Proceed(spec, e)
            ELSE IF t.verdict = "FAILED" THEN "failed" ELSE "needs_review"
  BY <1>2, <1>3 DEF StageStateForTask, EndedTask
<1>5. "approved" \in Decisions /\ "rejected" \in Decisions
  BY DEF Decisions
<1> QED
  BY <1>1, <1>2, <1>4, <1>5 DEF EndedTask, StageSpec, Policies

\* Positions are numbers, and a specification is there for each.
LEMMA PositionFacts ==
  ASSUME NEW w \in Workflows
  PROVE  Positions(w) \subseteq Nat /\ \A i \in Positions(w) : Specs[w][i] \in StageSpec
  BY WorkflowAssumptions DEF Positions

\* What the status of a workflow says of its stages.
LEMMA StatusFacts ==
  ASSUME NEW D, NEW stages \in [D -> StageType]
  PROVE  LET s == WorkflowStatus(stages) IN
         /\ s \in {"completed", "failed", "cancelled", "blocked", "active"}
         /\ s = "completed" => \A i \in D : stages[i].status = "completed"
         /\ s = "failed" => \E i \in D : stages[i].status = "failed"
         /\ s = "cancelled" => \E i \in D : stages[i].status = "cancelled"
<1> DEFINE found == {stages[i].status : i \in DOMAIN stages}
<1>1. CASE found = {"completed"}
  <2>1. WorkflowStatus(stages) = "completed"
    BY <1>1, Zenon DEF WorkflowStatus
  <2> QED
    BY <1>1, <2>1
<1>2. CASE found # {"completed"}
  <2>1. WorkflowStatus(stages) \in {"failed", "cancelled", "blocked", "active"}
    BY <1>2, Zenon DEF WorkflowStatus
  <2>2. WorkflowStatus(stages) = "failed" => "failed" \in found
    BY <1>2, Zenon DEF WorkflowStatus
  <2>3. WorkflowStatus(stages) = "cancelled" => "cancelled" \in found
    BY <1>2, Zenon DEF WorkflowStatus
  <2> QED
    BY <2>1, <2>2, <2>3
<1> QED
  BY <1>1, <1>2

\* Every stage of a workflow as its task shows it.
Read(w, f, d) == [i \in Positions(w) |-> Recomputed(Specs[w][i], f.stages[i], d[i])]

\* Reading a stage again changes it only while it is running.
LEMMA ReadFacts ==
  ASSUME NEW w \in Workflows, NEW f \in FlowType(w),
         NEW d \in [Positions(w) -> Decisions], task \in [Tasks -> TaskType],
         Orderly(w, f, d), NEW i \in Positions(w)
  PROVE  LET r == Read(w, f, d)[i]
             s == f.stages[i]
         IN /\ r \in StageType /\ r.task = s.task
            /\ s.status # "running" => r = s
            /\ s.task = NoTask => r = s
            /\ s.task # NoTask => r.status = Judged(w, f, d, i)
            /\ s.task # NoTask => r.status \notin {"pending", "ready"}
            /\ s.status = "running" => s.task # NoTask
            /\ s.status \notin {"pending", "ready"} => s.task # NoTask
            /\ s.status \notin {"pending", "ready", "running"} => s.status = Judged(w, f, d, i)
<1> DEFINE r == Read(w, f, d)[i]
           s == f.stages[i]
<1>1. s \in StageType /\ Specs[w][i] \in StageSpec /\ d[i] \in Decisions
  BY PositionFacts DEF FlowType
<1>2. r = Recomputed(Specs[w][i], s, d[i])
  BY DEF Read
<1>3. r \in StageType /\ r.task = s.task
  BY <1>1, <1>2, RecomputedType
<1>4. /\ s.task = NoTask => s.status \in {"pending", "ready"}
      /\ s.task # NoTask => s.status \in {"running", Judged(w, f, d, i)}
  BY DEF Orderly
<1>5. s.task # NoTask => r = [s EXCEPT !.status = Judged(w, f, d, i)]
  BY <1>2 DEF Recomputed, Judged
<1>6. s.task = NoTask => r = [s EXCEPT !.status = s.status]
  BY <1>2, <1>4 DEF Recomputed
<1>7. s.task # NoTask => Judged(w, f, d, i) \notin {"pending", "ready"}
  BY <1>1, JudgedFacts DEF Judged, StageType
<1> HIDE DEF r, s
<1>8. s = [s EXCEPT !.status = s.status] /\ \A x : [s EXCEPT !.status = x].status = x
  BY <1>1 DEF StageType
<1>9. s.task = NoTask => r = s
  BY <1>6, <1>8
<1>10. s.task # NoTask => r.status = Judged(w, f, d, i)
  BY <1>5, <1>8
<1>11. s.status # "running" => r = s
  BY <1>4, <1>5, <1>8, <1>9
<1> QED
  BY <1>3, <1>4, <1>7, <1>9, <1>10, <1>11 DEF r, s

\* What a refresh makes of a workflow that was not cancelled: the stages as
\* read, but for a pending one that has been reached.
LEMMA RefreshedFacts ==
  ASSUME NEW w \in Workflows, NEW f \in FlowType(w), f.status # "cancelled",
         NEW d \in [Positions(w) -> Decisions]
  PROVE  LET g == Refreshed(w, f, d)
             r == Read(w, f, d)
         IN /\ g.status = WorkflowStatus(g.stages)
            /\ \A i \in Positions(w) :
                 LET opens == /\ r[i] = Unbound("pending")
                              /\ \A j \in Positions(w) : j < i => r[j].status = "completed"
                 IN g.stages[i] = IF opens THEN Unbound("ready") ELSE r[i]
<1> DEFINE r == Read(w, f, d)
<1>1. Refreshed(w, f, d) = [status |-> WorkflowStatus(Advanced(r)), stages |-> Advanced(r)]
  BY DEF Refreshed, Read
<1>2. DOMAIN r = Positions(w)
  BY DEF Read
<1> HIDE DEF r
<1>3. \A i \in Positions(w) :
        Advanced(r)[i] =
          IF /\ r[i] = Unbound("pending")
             /\ \A j \in Positions(w) : j < i => r[j].status = "completed"
            THEN Unbound("ready") ELSE r[i]
  BY <1>2 DEF Advanced
<1> QED
  BY <1>1, <1>3 DEF r

\* A refresh keeps the order of stages, and touches none that has an outcome.
LEMMA RefreshOrderly ==
  ASSUME NEW w \in Workflows, NEW f \in FlowType(w), f.status # "cancelled",
         NEW d \in [Positions(w) -> Decisions], task \in [Tasks -> TaskType],
         Orderly(w, f, d)
  PROVE  /\ Orderly(w, Refreshed(w, f, d), d)
         /\ \A i \in Positions(w) :
              f.stages[i].status \notin {"pending", "ready", "running"}
                => Refreshed(w, f, d).stages[i] = f.stages[i]
<1> DEFINE g == Refreshed(w, f, d)
           r == Read(w, f, d)
           opens(i) == /\ r[i] = Unbound("pending")
                       /\ \A j \in Positions(w) : j < i => r[j].status = "completed"
<1>1. \A i \in Positions(w) : g.stages[i] = IF opens(i) THEN Unbound("ready") ELSE r[i]
  BY RefreshedFacts
<1>2. SameTasks(w, f, g)
  BY RefreshedType
<1>3. \A i \in Positions(w) : Judged(w, g, d, i) = Judged(w, f, d, i)
  BY <1>2 DEF SameTasks, Judged
<1>4. \A i \in Positions(w) : r[i].status = "completed" => g.stages[i].status = "completed"
  <2>1. Unbound("pending").status # "completed"
    BY DEF Unbound
  <2> QED
    BY <1>1, <2>1
<1>5. \A i \in Positions(w) : f.stages[i].status \notin {"pending", "ready", "running"}
        => g.stages[i] = f.stages[i]
  <2>1. Unbound("pending").status = "pending"
    BY DEF Unbound
  <2> QED
    BY <1>1, <2>1, ReadFacts
<1>6. ASSUME NEW i \in Positions(w)
      PROVE  /\ g.stages[i].task = NoTask => g.stages[i].status \in {"pending", "ready"}
             /\ g.stages[i].task # NoTask => g.stages[i].status \in {"running", Judged(w, g, d, i)}
             /\ g.stages[i].status # "pending" => Reached(w, g, i)
  <2>1. CASE opens(i)
    <3>1. g.stages[i] = Unbound("ready")
      BY <1>1, <2>1
    <3>2. Reached(w, g, i)
      BY <1>4, <2>1 DEF Reached
    <3> QED
      BY <3>1, <3>2 DEF Unbound
  <2>2. CASE ~opens(i)
    <3>1. g.stages[i] = r[i]
      BY <1>1, <2>2
    <3>2. r[i].task = NoTask => r[i].status \in {"pending", "ready"}
      BY ReadFacts DEF Orderly
    <3>3. r[i].task # NoTask => r[i].status = Judged(w, g, d, i)
      BY <1>3, ReadFacts
    <3>4. r[i].status # "pending" => f.stages[i].status # "pending"
      BY ReadFacts
    <3>5. f.stages[i].status # "pending" => Reached(w, f, i)
      BY DEF Orderly
    <3>6. Reached(w, f, i) => Reached(w, g, i)
      BY <1>5 DEF Reached
    <3> QED
      BY <3>1, <3>2, <3>3, <3>4, <3>5, <3>6
  <2> QED
    BY <2>1, <2>2
<1> QED
  BY <1>5, <1>6 DEF Orderly

\* Stages are completed one after the other, so the one that is not completed
\* and not pending is the last that anything has happened to.
LEMMA OneFront ==
  ASSUME NEW w \in Workflows, NEW f \in FlowType(w), NEW d, Orderly(w, f, d),
         NEW k \in Positions(w), f.stages[k].status \notin {"pending", "completed"}
  PROVE  \A i \in Positions(w) : /\ i < k => f.stages[i].status = "completed"
                                 /\ k < i => f.stages[i].status = "pending"
  BY DEF Orderly, Reached

\* A workflow whose status says so was cancelled by its task: its stages are
\* as a cancel leaves them.
LEMMA CancelledByTask ==
  ASSUME NEW w \in Workflows, NEW f \in FlowType(w),
         NEW d \in [Positions(w) -> Decisions], task \in [Tasks -> TaskType],
         Orderly(w, f, d), WorkflowStatus(f.stages) = "cancelled"
  PROVE  Stopped(w, f, d)
<1>1. f.stages \in [Positions(w) -> StageType]
  BY DEF FlowType
<1>2. PICK k \in Positions(w) : f.stages[k].status = "cancelled"
  BY <1>1, StatusFacts
<1>3. \A i \in Positions(w) : i = k \/ i < k \/ k < i
  BY PositionFacts
<1>4. \A i \in Positions(w) : f.stages[i].status \in {"pending", "completed", "cancelled"}
  BY <1>2, <1>3, OneFront
<1>5. \A i \in Positions(w) : f.stages[i].status = "completed" =>
        f.stages[i].task # NoTask /\ f.stages[i].status = Judged(w, f, d, i)
  BY ReadFacts
<1>6. \A i \in Positions(w) : f.stages[i].status = "completed" => Reached(w, f, i)
  BY DEF Orderly
<1> QED
  BY <1>4, <1>5, <1>6 DEF Stopped

\* A refresh keeps all of it.
LEMMA RefreshSound ==
  ASSUME NEW w \in Workflows, NEW f \in FlowType(w), f.status # "cancelled",
         NEW d \in [Positions(w) -> Decisions], task \in [Tasks -> TaskType],
         Orderly(w, f, d), Decisive(w, f, d)
  PROVE  Sound(w, Refreshed(w, f, d), d) /\ Refreshed(w, f, d).status # "absent"
<1> DEFINE g == Refreshed(w, f, d)
<1>1. g \in FlowType(w) /\ SameTasks(w, f, g)
  BY RefreshedType
<1>2. /\ Orderly(w, g, d)
      /\ \A i \in Positions(w) :
           f.stages[i].status \notin {"pending", "ready", "running"} => g.stages[i] = f.stages[i]
  BY RefreshOrderly
<1>3. g.status = WorkflowStatus(g.stages)
  BY RefreshedFacts
<1>4. WorkflowStatus(g.stages) # "absent"
  BY <1>1, StatusFacts DEF FlowType
<1> HIDE DEF g
<1>5. g.status = "cancelled" => Stopped(w, g, d)
  BY <1>1, <1>2, <1>3, CancelledByTask
<1>6. Decisive(w, g, d)
  <2>1. \A e : Decided(e) \notin {"pending", "ready", "running"}
    BY DEF Decided
  <2> QED
    BY <1>2, <2>1 DEF Decisive
<1> QED
  BY <1>2, <1>3, <1>4, <1>5, <1>6 DEF g, Sound

\* A refresh that reads nothing new and opens nothing changes nothing.
LEMMA NothingNew ==
  ASSUME NEW w \in Workflows, NEW f \in FlowType(w), f.status # "cancelled",
         NEW d \in [Positions(w) -> Decisions], task \in [Tasks -> TaskType],
         f.status = WorkflowStatus(f.stages),
         \A i \in Positions(w) : Read(w, f, d)[i] = f.stages[i],
         \A i \in Positions(w) :
           ~ /\ f.stages[i] = Unbound("pending")
             /\ \A j \in Positions(w) : j < i => f.stages[j].status = "completed"
  PROVE  Refreshed(w, f, d) = f
<1> DEFINE g == Refreshed(w, f, d)
<1>1. g \in FlowType(w)
  BY RefreshedType
<1>2. /\ g.status = WorkflowStatus(g.stages)
      /\ \A i \in Positions(w) : g.stages[i] = f.stages[i]
  BY RefreshedFacts
<1> HIDE DEF g
<1>3. g.stages = f.stages
  BY <1>1, <1>2 DEF FlowType
<1>4. g.status = f.status
  BY <1>2, <1>3
<1>5. g = f
  BY <1>1, <1>3, <1>4 DEF FlowType
<1> QED
  BY <1>5 DEF g

\* A stage read twice is read once.
LEMMA RefreshTwice ==
  ASSUME NEW w \in Workflows, NEW f \in FlowType(w), f.status # "cancelled",
         NEW d \in [Positions(w) -> Decisions], task \in [Tasks -> TaskType],
         Orderly(w, f, d)
  PROVE  Refreshed(w, Refreshed(w, f, d), d) = Refreshed(w, f, d)
<1> DEFINE g == Refreshed(w, f, d)
           r == Read(w, f, d)
           opens(i) == /\ r[i] = Unbound("pending")
                       /\ \A j \in Positions(w) : j < i => r[j].status = "completed"
<1>1. g \in FlowType(w) /\ SameTasks(w, f, g)
  BY RefreshedType
<1>2. Orderly(w, g, d)
  BY RefreshOrderly
<1>3. /\ g.status = WorkflowStatus(g.stages)
      /\ \A i \in Positions(w) : g.stages[i] = IF opens(i) THEN Unbound("ready") ELSE r[i]
  BY RefreshedFacts
<1>4. \A i \in Positions(w) : /\ r[i] \in StageType /\ r[i].task = f.stages[i].task
                              /\ r[i].status = "running" => r[i].task # NoTask
                              /\ r[i].task # NoTask => r[i].status = Judged(w, f, d, i)
  BY ReadFacts
<1>5. \A i \in Positions(w) : Judged(w, g, d, i) = Judged(w, f, d, i)
  BY <1>1 DEF SameTasks, Judged
<1>6. ASSUME NEW i \in Positions(w) PROVE Read(w, g, d)[i] = g.stages[i]
  <2>1. CASE g.stages[i].status # "running"
    BY <1>1, <1>2, <2>1, ReadFacts
  <2>2. CASE g.stages[i].status = "running"
    <3>1. g.stages[i] = r[i]
      BY <1>3, <2>2 DEF Unbound
    <3>2. /\ Read(w, g, d)[i] \in StageType
          /\ Read(w, g, d)[i].task = g.stages[i].task
          /\ g.stages[i].task # NoTask => Read(w, g, d)[i].status = Judged(w, g, d, i)
      BY <1>1, <1>2, ReadFacts
    <3>3. r[i] \in StageType /\ r[i].task # NoTask /\ r[i].status = Judged(w, f, d, i)
      BY <1>4, <2>2, <3>1
    <3>4. Read(w, g, d)[i].status = r[i].status /\ Read(w, g, d)[i].task = r[i].task
      BY <1>5, <3>1, <3>2, <3>3
    <3> QED
      BY <3>1, <3>2, <3>3, <3>4 DEF StageType
  <2> QED
    BY <2>1, <2>2
<1>7. ASSUME NEW i \in Positions(w), g.stages[i] = Unbound("pending"),
             \A j \in Positions(w) : j < i => g.stages[j].status = "completed"
      PROVE  FALSE
  <2>1. Unbound("ready").status = "ready" /\ Unbound("pending").status = "pending"
    BY DEF Unbound
  <2>2. \A j \in Positions(w) : j < i => r[j].status = "completed"
    BY <1>3, <1>7, <2>1
  <2>3. g.stages[i] = r[i]
    BY <1>3, <1>7, <2>1
  <2> QED
    BY <1>3, <1>7, <2>1, <2>2, <2>3
<1>8. CASE g.status = "cancelled"
  BY <1>8 DEF Refreshed
<1>9. CASE g.status # "cancelled"
  <2> HIDE DEF g
  <2>1. Refreshed(w, g, d) = g
    BY <1>1, <1>3, <1>6, <1>7, <1>9, NothingNew
  <2> QED
    BY <2>1 DEF g
<1> QED
  BY <1>8, <1>9

\* No refresh changes a workflow that has ended, and none of its stages waits.
LEMMA EndedStays ==
  ASSUME NEW w \in Workflows, NEW f \in FlowType(w),
         NEW d \in [Positions(w) -> Decisions], task \in [Tasks -> TaskType],
         Sound(w, f, d), f.status \in EndedFlow
  PROVE  /\ Refreshed(w, f, d) = f
         /\ \A i \in Positions(w) : f.stages[i].status # "waiting_approval"
<1>1. CASE f.status = "cancelled"
  BY <1>1 DEF Refreshed, Sound, Stopped
<1>2. CASE f.status # "cancelled"
  <2>1. /\ Orderly(w, f, d)
        /\ f.status = WorkflowStatus(f.stages)
        /\ f.stages \in [Positions(w) -> StageType]
        /\ f.status \in {"completed", "failed"}
    BY <1>2 DEF Sound, EndedFlow, FlowType
  <2>2. CASE f.status = "completed"
    <3>1. \A i \in Positions(w) : f.stages[i].status = "completed"
      BY <2>1, <2>2, StatusFacts
    <3>2. \A i \in Positions(w) : Read(w, f, d)[i] = f.stages[i]
      BY <2>1, <3>1, ReadFacts
    <3>3. \A i \in Positions(w) : f.stages[i] # Unbound("pending")
      BY <3>1 DEF Unbound
    <3> QED
      BY <1>2, <2>1, <3>1, <3>2, <3>3, NothingNew
  <2>3. CASE f.status = "failed"
    <3>1. PICK k \in Positions(w) : f.stages[k].status = "failed"
      BY <2>1, <2>3, StatusFacts
    <3>2. \A i \in Positions(w) : /\ i = k \/ i < k \/ k < i
                                  /\ i < k => f.stages[i].status = "completed"
                                  /\ k < i => f.stages[i].status = "pending"
      BY <2>1, <3>1, OneFront, PositionFacts
    <3>3. \A i \in Positions(w) : f.stages[i].status \in {"pending", "completed", "failed"}
      BY <3>1, <3>2
    <3>4. \A i \in Positions(w) : Read(w, f, d)[i] = f.stages[i]
      BY <2>1, <3>3, ReadFacts
    <3>5. \A i \in Positions(w) :
            ~ /\ f.stages[i] = Unbound("pending")
              /\ \A j \in Positions(w) : j < i => f.stages[j].status = "completed"
      <4>1. Unbound("pending").status = "pending"
        BY DEF Unbound
      <4> QED
        BY <3>1, <3>2, <4>1
    <3>6. \A i \in Positions(w) : f.stages[i].status # "waiting_approval"
      BY <3>3
    <3> QED
      BY <1>2, <2>1, <3>4, <3>5, <3>6, NothingNew
  <2> QED
    BY <2>1, <2>2, <2>3
<1> QED
  BY <1>1, <1>2

SoundInv == \A w \in Workflows : Sound(w, flow[w], decision[w])

\* The tasks stay as they are: what is sound now is sound after the step.
LEMMA SoundPrimed ==
  ASSUME NEW w \in Workflows, task' = task, Sound(w, flow'[w], decision'[w])
  PROVE  Sound(w, flow[w], decision[w])'
  BY DEF Sound, Orderly, Stopped, Decisive, Judged, Reached

\* One workflow changes, and is sound when it has.
LEMMA SoundChanges ==
  ASSUME WorkflowInv, SoundInv, NEW w \in Workflows, task' = task,
         \A v \in Workflows : v # w => flow'[v] = flow[v] /\ decision'[v] = decision[v],
         Sound(w, flow'[w], decision'[w])
  PROVE  SoundInv'
<1>1. \A v \in Workflows : Sound(v, flow'[v], decision'[v])
  BY DEF SoundInv
<1>2. \A v \in Workflows : Sound(v, flow[v], decision[v])'
  BY <1>1, SoundPrimed
<1> QED
  BY <1>2 DEF SoundInv

\* One workflow takes another value of its type, no decision is made.
LEMMA SoundFlow ==
  ASSUME WorkflowInv, SoundInv, NEW w \in Workflows, NEW g \in FlowType(w),
         flow' = [flow EXCEPT ![w] = g], UNCHANGED <<decision, task>>,
         Sound(w, g, decision[w])
  PROVE  SoundInv'
<1>1. flow'[w] = g /\ \A v \in Workflows : v # w => flow'[v] = flow[v]
  BY InvAt, FlowChanges
<1> QED
  BY <1>1, SoundChanges

\* A new workflow has no decisions, and waits at its first stage.
LEMMA CreateSound ==
  ASSUME WorkflowInv, SoundInv, NEW w \in Workflows, CreateWorkflow(w)
  PROVE  SoundInv'
<1> DEFINE g == [status |-> "active",
                 stages |-> [i \in Positions(w) |-> Unbound(IF i = 1 THEN "ready" ELSE "pending")]]
<1>1. /\ g \in FlowType(w) /\ g.status = "active"
      /\ \A i \in Positions(w) :
           g.stages[i].task = NoTask /\ g.stages[i].status = IF i = 1 THEN "ready" ELSE "pending"
  BY DEF FlowType, FlowStatuses, Unbound, StageType, StageStatuses
<1>2. flow' = [flow EXCEPT ![w] = g] /\ UNCHANGED <<decision, task>>
      /\ flow[w].status = "absent"
  BY DEF CreateWorkflow
<1> HIDE DEF g
<1>3. \A i \in Positions(w) : decision[w][i] = "none"
  <2>1. \A i \in Positions(w) : flow[w].stages[i] = Unbound("pending")
    BY <1>2 DEF SoundInv, Sound
  <2>2. Unbound("pending").task = NoTask
    BY DEF Unbound
  <2> QED
    BY <2>1, <2>2 DEF SoundInv, Sound, Decisive
<1>4. 1 \in Positions(w) /\ \A i \in Positions(w) : i \in Nat /\ 1 <= i
  <2>1. Specs[w] \in Seq(StageSpec) /\ Specs[w] # << >>
    BY WorkflowAssumptions
  <2>2. Len(Specs[w]) \in Nat /\ Len(Specs[w]) # 0
    BY <2>1
  <2> QED
    BY <2>2 DEF Positions
<1>5. Orderly(w, g, decision[w])
  <2>1. \A i, j \in Positions(w) : i = 1 => ~(j < i)
    BY <1>4
  <2> QED
    BY <1>1, <2>1 DEF Orderly, Reached
<1>6. WorkflowStatus(g.stages) = "active"
  <2> DEFINE found == {g.stages[i].status : i \in DOMAIN g.stages}
  <2>1. DOMAIN g.stages = Positions(w)
    BY <1>1 DEF FlowType
  <2>2. "ready" \in found /\ found \subseteq {"ready", "pending"}
    BY <1>1, <1>4, <2>1
  <2> HIDE DEF found
  <2>3. /\ found # {"completed"} /\ "failed" \notin found /\ "cancelled" \notin found
        /\ found \cap {"waiting_approval", "needs_review"} = {}
    BY <2>2
  <2> QED
    BY <2>3, Zenon DEF WorkflowStatus, found
<1>7. Sound(w, g, decision[w])
  BY <1>1, <1>3, <1>5, <1>6 DEF Sound, Decisive
<1> QED
  BY <1>1, <1>2, <1>7, SoundFlow

\* A refresh at any time.
LEMMA RefreshSoundStep ==
  ASSUME WorkflowInv, SoundInv, NEW w \in Workflows, flow[w].status # "absent",
         flow' = [flow EXCEPT ![w] = Refreshed(w, flow[w], decision[w])],
         UNCHANGED <<decision, task>>
  PROVE  SoundInv'
<1> DEFINE g == Refreshed(w, flow[w], decision[w])
<1>1. g \in FlowType(w)
  BY InvAt, RefreshedType
<1>2. Sound(w, g, decision[w])
  <2>1. CASE flow[w].status = "cancelled"
    BY <2>1 DEF Refreshed, SoundInv
  <2>2. CASE flow[w].status # "cancelled"
    BY <2>2, InvAt, RefreshSound DEF SoundInv, Sound
  <2> QED
    BY <2>1, <2>2
<1> QED
  BY <1>1, <1>2, SoundFlow

\* The workflow in which task t has been bound to stage i, before the refresh.
Bound(w, i, t) ==
  [flow[w] EXCEPT !.stages[i] =
     [status |-> StageStateForTask(Specs[w][i], task[t], decision[w][i]), task |-> t]]

\* The stage bound is the one that was open; it says what its task says.
LEMMA BoundStage ==
  ASSUME WorkflowInv, SoundInv, NEW w \in Workflows, NEW i \in Positions(w), NEW t \in Tasks,
         Live(w), Bindable(w, i, t)
  PROVE  LET bound == Bound(w, i, t) IN
         /\ bound \in FlowType(w)
         /\ bound.status = flow[w].status /\ bound.status # "cancelled"
         /\ bound.stages[i].status \notin {"pending", "ready"}
         /\ \A j \in Positions(w) \ {i} : bound.stages[j] = flow[w].stages[j]
         /\ Orderly(w, bound, decision[w])
         /\ Decisive(w, bound, decision[w])
<1> DEFINE d == decision[w]
           st == [status |-> StageStateForTask(Specs[w][i], task[t], d[i]), task |-> t]
           bound == [flow[w] EXCEPT !.stages[i] = st]
<1>1. Specs[w][i] \in StageSpec /\ task[t] \in TaskType /\ d[i] \in Decisions
  BY InvAt, PositionFacts
<1>2. st \in StageType /\ st.task = t /\ t # NoTask
      /\ st.status = StageStateForTask(Specs[w][i], task[t], d[i])
  BY <1>1, StageStateType, WorkflowAssumptions DEF StageType
<1>3. st.status \notin {"pending", "ready"}
  BY <1>1, <1>2, JudgedFacts
<1> HIDE DEF st
<1>4. /\ bound \in FlowType(w) /\ bound.status = flow[w].status
      /\ \A j \in Positions(w) :
           bound.stages[j] = IF j = i THEN st ELSE flow[w].stages[j]
  BY <1>2, InvAt DEF FlowType
<1>5. /\ flow[w].stages[i].status = "ready" /\ flow[w].stages[i].task = NoTask
  BY DEF Bindable, Unbound
<1>6. Orderly(w, flow[w], d) /\ Decisive(w, flow[w], d)
  BY DEF Live, SoundInv, Sound
<1> HIDE DEF bound
<1>7. \A j \in Positions(w) : Reached(w, flow[w], j) => Reached(w, bound, j)
  BY <1>4, <1>5 DEF Reached
<1>8. Orderly(w, bound, d)
  <2> SUFFICES ASSUME NEW j \in Positions(w)
               PROVE  /\ bound.stages[j].task = NoTask
                           => bound.stages[j].status \in {"pending", "ready"}
                      /\ bound.stages[j].task # NoTask
                           => bound.stages[j].status \in {"running", Judged(w, bound, d, j)}
                      /\ bound.stages[j].status # "pending" => Reached(w, bound, j)
    BY DEF Orderly
  <2>1. CASE j = i
    BY <1>2, <1>4, <1>5, <1>6, <1>7, <2>1 DEF Orderly, Judged
  <2>2. CASE j # i
    BY <1>4, <1>6, <1>7, <2>2 DEF Orderly, Judged
  <2> QED
    BY <2>1, <2>2
<1>9. Decisive(w, bound, d)
  <2>1. d[i] = "none"
    BY <1>5, <1>6 DEF Decisive
  <2> QED
    BY <1>4, <1>6, <2>1 DEF Decisive
<1>10. bound = Bound(w, i, t) /\ bound.status # "cancelled"
  BY <1>4 DEF bound, st, Bound, Live
<1> QED
  BY <1>2, <1>3, <1>4, <1>8, <1>9, <1>10

\* A task is bound to the stage that has been reached, and says what it is.
LEMMA BindSound ==
  ASSUME WorkflowInv, SoundInv, NEW w \in Workflows, NEW i \in Positions(w), NEW t \in Tasks,
         BindTask(w, i, t)
  PROVE  SoundInv'
<1> DEFINE d == decision[w]
           g == Refreshed(w, Bound(w, i, t), d)
<1>1. UNCHANGED <<decision, task>> /\ flow[w].status \in {"active", "blocked"}
  BY DEF BindTask, Live
<1>2. CASE flow' = [flow EXCEPT ![w] = Refreshed(w, flow[w], d)]
  BY <1>1, <1>2, RefreshSoundStep
<1>3. CASE Bindable(w, i, t) /\ flow' = [flow EXCEPT ![w] = g]
  <2>1. g \in FlowType(w) /\ Sound(w, g, d)
    BY <1>1, <1>3, BoundStage, InvAt, RefreshedType, RefreshSound DEF Live
  <2> HIDE DEF g
  <2> QED
    BY <1>1, <1>3, <2>1, SoundFlow
<1> QED
  BY <1>2, <1>3 DEF BindTask, Bound

\* A cancel stops what is unfinished, and nothing that has an outcome.
LEMMA CancelSound ==
  ASSUME WorkflowInv, SoundInv, NEW w \in Workflows, CancelWorkflow(w)
  PROVE  SoundInv'
<1> DEFINE s(i) == flow[w].stages[i]
           stage(i) == IF s(i).status \in {"completed", "failed", "cancelled"}
                         THEN s(i) ELSE [s(i) EXCEPT !.status = "cancelled"]
           g == [status |-> "cancelled", stages |-> [i \in Positions(w) |-> stage(i)]]
<1>1. \A i \in Positions(w) :
        /\ stage(i) \in StageType /\ stage(i).task = s(i).task
        /\ stage(i).status = IF s(i).status \in {"completed", "failed", "cancelled"}
                               THEN s(i).status ELSE "cancelled"
  BY InvAt DEF StageType, StageStatuses
<1>2. flow' = [flow EXCEPT ![w] = g] /\ UNCHANGED <<decision, task>>
      /\ flow[w].status \in {"active", "blocked"}
  BY DEF CancelWorkflow, Live
<1> HIDE DEF stage
<1>3. /\ g \in FlowType(w) /\ g.status = "cancelled"
      /\ \A i \in Positions(w) : g.stages[i] = stage(i)
  BY <1>1 DEF FlowType, FlowStatuses, EndedFlow
<1>4. Orderly(w, flow[w], decision[w]) /\ Decisive(w, flow[w], decision[w])
  BY <1>2 DEF SoundInv, Sound
<1> HIDE DEF g
<1>5. \A i \in Positions(w) : Reached(w, flow[w], i) => Reached(w, g, i)
  BY <1>1, <1>3 DEF Reached
<1>6. \A i \in Positions(w) : Judged(w, g, decision[w], i) = Judged(w, flow[w], decision[w], i)
  BY <1>1, <1>3 DEF Judged
<1>7. Stopped(w, g, decision[w])
  <2> SUFFICES ASSUME NEW i \in Positions(w)
               PROVE  /\ g.stages[i].status \in {"pending", "completed", "failed", "cancelled"}
                      /\ g.stages[i].status \in {"completed", "failed"} =>
                           /\ g.stages[i].task # NoTask
                           /\ g.stages[i].status = Judged(w, g, decision[w], i)
                           /\ Reached(w, g, i)
    BY DEF Stopped
  <2>1. s(i).status \in {"completed", "failed"} =>
          /\ s(i).task # NoTask
          /\ s(i).status = Judged(w, flow[w], decision[w], i)
          /\ Reached(w, flow[w], i)
    BY <1>4 DEF Orderly
  <2> QED
    BY <1>1, <1>3, <1>5, <1>6, <2>1
<1>8. Decisive(w, g, decision[w])
  <2>1. \A e : Decided(e) \in {"completed", "failed"}
    BY DEF Decided
  <2> QED
    BY <1>1, <1>3, <1>4, <2>1 DEF Decisive
<1>9. Sound(w, g, decision[w])
  BY <1>3, <1>7, <1>8 DEF Sound
<1> QED
  BY <1>2, <1>3, <1>9, SoundFlow

\* The workflow as a decision about stage i leaves it, before the refresh.
Settled(w, i, e) ==
  [Refreshed(w, flow[w], decision[w]) EXCEPT !.stages[i].status = Decided(e)]

\* A decision is made about a stage that waits for it, and the stage shows it.
LEMMA SettledStage ==
  ASSUME WorkflowInv, SoundInv, NEW w \in Workflows, NEW i \in Positions(w),
         NEW e \in {"approved", "rejected"}, decision[w][i] = "none",
         Refreshed(w, flow[w], decision[w]).stages[i].status = "waiting_approval",
         decision' = [decision EXCEPT ![w][i] = e]
  PROVE  LET f == Refreshed(w, flow[w], decision[w])
             h == Settled(w, i, e)
         IN /\ flow[w].status # "cancelled"
            /\ decision'[w] \in [Positions(w) -> Decisions]
            /\ \A v \in Workflows : v # w => decision'[v] = decision[v]
            /\ h \in FlowType(w) /\ h.status = f.status /\ h.status # "cancelled"
            /\ h.stages[i].status = Decided(e)
            /\ \A j \in Positions(w) : j # i => h.stages[j] = f.stages[j]
            /\ Orderly(w, h, decision'[w])
            /\ Decisive(w, h, decision'[w])
<1> DEFINE d == decision[w]
           f == Refreshed(w, flow[w], d)
           h == [f EXCEPT !.stages[i].status = Decided(e)]
<1> DEFINE d2 == decision'[w]
<1>1. d \in [Positions(w) -> Decisions] /\ task \in [Tasks -> TaskType]
      /\ flow[w] \in FlowType(w) /\ Sound(w, flow[w], d)
  BY InvAt DEF SoundInv
<1>2. /\ d2 \in [Positions(w) -> Decisions]
      /\ d2[i] = e
      /\ \A j \in Positions(w) : j # i => d2[j] = d[j]
      /\ \A v \in Workflows : v # w => decision'[v] = decision[v]
  <2>1. DOMAIN decision = Workflows
    BY DEF WorkflowInv, FlowInv
  <2>2. d2 = [d EXCEPT ![i] = e]
        /\ \A v \in Workflows : v # w => decision'[v] = decision[v]
    BY <2>1
  <2>3. e \in Decisions
    BY DEF Decisions
  <2> QED
    BY <1>1, <2>2, <2>3
<1>3. f \in FlowType(w)
  BY <1>1, RefreshedType
<1>4. flow[w].status # "cancelled"
  BY <1>1 DEF Refreshed, Sound, Stopped
<1>5. Sound(w, f, d) /\ Orderly(w, f, d)
  BY <1>1, <1>4, RefreshSound, RefreshOrderly DEF Sound
<1>6. f.status # "cancelled"
  BY <1>5 DEF Sound, Stopped
<1>0. d[i] = "none" /\ f.stages[i].status = "waiting_approval"
  OBVIOUS
<1> HIDE DEF f, d, d2
<1>7. /\ f.stages[i].task \in Tasks
      /\ Judged(w, f, d, i) = "waiting_approval"
  <2>1. /\ f.stages[i].task # NoTask
        /\ f.stages[i].status = Judged(w, f, d, i)
    BY <1>0, <1>1, <1>3, <1>5, ReadFacts
  <2>2. f.stages[i] \in StageType
    BY <1>3 DEF FlowType
  <2>3. f.stages[i].task \in Tasks
    BY <2>1, <2>2 DEF StageType
  <2> QED
    BY <1>0, <2>1, <2>3
<1>8. /\ task[f.stages[i].task].status = "completed"
      /\ StageStateForTask(Specs[w][i], task[f.stages[i].task], e) = Decided(e)
  BY <1>1, <1>7, PositionFacts, JudgedFacts DEF Judged
<1>9. Decided(e) \in {"completed", "failed"} /\ Decided(e) \in StageStatuses
  BY DEF Decided, StageStatuses
<1>10. /\ h \in FlowType(w) /\ h.status = f.status
       /\ h.stages[i].status = Decided(e)
       /\ \A j \in Positions(w) : /\ h.stages[j].task = f.stages[j].task
                                  /\ j # i => h.stages[j] = f.stages[j]
  <2>1. /\ [f.stages[i] EXCEPT !.status = Decided(e)] \in StageType
        /\ [f.stages[i] EXCEPT !.status = Decided(e)].task = f.stages[i].task
        /\ [f.stages[i] EXCEPT !.status = Decided(e)].status = Decided(e)
    BY <1>3, <1>9 DEF FlowType, StageType
  <2>2. h = [f EXCEPT !.stages[i] = [f.stages[i] EXCEPT !.status = Decided(e)]]
    BY <1>3 DEF FlowType
  <2> HIDE DEF h
  <2> QED
    BY <1>3, <2>1, <2>2 DEF FlowType
<1> HIDE DEF h
<1>11. /\ Judged(w, h, d2, i) = Decided(e)
       /\ \A j \in Positions(w) : j # i => Judged(w, h, d2, j) = Judged(w, f, d, j)
  BY <1>2, <1>8, <1>10 DEF Judged
<1>12. \A j \in Positions(w) : Reached(w, f, j) => Reached(w, h, j)
  BY <1>0, <1>10 DEF Reached
<1>13. Orderly(w, h, d2)
  <2> SUFFICES ASSUME NEW j \in Positions(w)
               PROVE  /\ h.stages[j].task = NoTask
                           => h.stages[j].status \in {"pending", "ready"}
                      /\ h.stages[j].task # NoTask
                           => h.stages[j].status \in {"running", Judged(w, h, d2, j)}
                      /\ h.stages[j].status # "pending" => Reached(w, h, j)
    BY DEF Orderly
  <2>1. CASE j = i
    <3>1. f.stages[i].task # NoTask
      BY <1>7, WorkflowAssumptions
    <3> QED
      BY <1>0, <1>5, <1>10, <1>11, <1>12, <2>1, <3>1 DEF Orderly
  <2>2. CASE j # i
    BY <1>5, <1>10, <1>11, <1>12, <2>2 DEF Orderly
  <2> QED
    BY <2>1, <2>2
<1>14. Decisive(w, h, d2)
  <2>1. \A j \in Positions(w) : d[j] # "none" =>
          /\ f.stages[j].task # NoTask
          /\ task[f.stages[j].task].status = "completed"
          /\ f.stages[j].status = Decided(d[j])
    BY <1>5 DEF Sound, Decisive
  <2>2. f.stages[i].task # NoTask
    BY <1>7, WorkflowAssumptions
  <2> QED
    BY <1>2, <1>8, <1>10, <2>1, <2>2 DEF Decisive
<1>15. h = Settled(w, i, e)
  BY DEF d, f, h, Settled
<1> QED
  BY <1>2, <1>4, <1>6, <1>10, <1>13, <1>14, <1>15 DEF d, f, d2

\* An approval is given to a stage that waits for it, and settles it.
LEMMA ApprovalSound ==
  ASSUME WorkflowInv, SoundInv, NEW w \in Workflows, NEW i \in Positions(w),
         NEW e \in {"approved", "rejected"}, RecordApproval(w, i, e)
  PROVE  SoundInv'
<1> DEFINE f == Refreshed(w, flow[w], decision[w])
           g == Refreshed(w, Settled(w, i, e), decision'[w])
<1>1. task' = task /\ flow[w].status # "absent"
  BY DEF RecordApproval
<1>2. CASE flow' = [flow EXCEPT ![w] = f] /\ UNCHANGED decision
  BY <1>1, <1>2, RefreshSoundStep
<1>3. CASE /\ decision[w][i] = "none"
           /\ f.stages[i].status = "waiting_approval"
           /\ decision' = [decision EXCEPT ![w][i] = e]
           /\ flow' = [flow EXCEPT ![w] = g]
  <2>1. /\ Sound(w, g, decision'[w]) /\ g \in FlowType(w)
        /\ \A v \in Workflows : v # w => decision'[v] = decision[v]
    BY <1>3, SettledStage, InvAt, RefreshSound, RefreshedType
  <2> HIDE DEF g
  <2>2. flow'[w] = g /\ \A v \in Workflows : v # w => flow'[v] = flow[v]
    BY <1>3, <2>1, InvAt, FlowChanges
  <2> QED
    BY <1>1, <2>1, <2>2, SoundChanges
<1> QED
  BY <1>2, <1>3 DEF RecordApproval, Settled

\* What was read of a task that has ended stays true; of one that has not,
\* nothing but "running" was read.
LEMMA TaskSound ==
  ASSUME WorkflowInv, SoundInv, NEW t \in Tasks, TaskStep(t)
  PROVE  SoundInv'
<1>1. /\ flow' = flow /\ decision' = decision
      /\ task[t].status \notin EndedTask
      /\ \A u \in Tasks : u # t => task'[u] = task[u]
  <2>1. task \in [Tasks -> TaskType]
    BY DEF WorkflowInv, FlowInv
  <2>2. CASE TaskStarts(t)
    BY <2>1, <2>2 DEF TaskStarts, EndedTask
  <2>3. CASE TaskEnds(t)
    BY <2>1, <2>3 DEF TaskEnds, EndedTask
  <2> QED
    BY <2>2, <2>3 DEF TaskStep
<1> SUFFICES ASSUME NEW w \in Workflows
             PROVE  Sound(w, flow[w], decision[w])'
  BY DEF SoundInv
<1> DEFINE f == flow[w]
           d == decision[w]
           judged(i) == StageStateForTask(Specs[w][i], task'[f.stages[i].task], d[i])
<1>2. /\ f \in FlowType(w) /\ d \in [Positions(w) -> Decisions]
      /\ task \in [Tasks -> TaskType] /\ Sound(w, f, d)
  BY InvAt DEF SoundInv
<1>3. ASSUME NEW i \in Positions(w), f.stages[i].task # NoTask
      PROVE  /\ Judged(w, f, d, i) # "running" => judged(i) = Judged(w, f, d, i)
             /\ task[f.stages[i].task].status = "completed" => f.stages[i].task # t
             /\ f.stages[i].task \in Tasks
  <2>1. f.stages[i].task \in Tasks
    BY <1>2, <1>3 DEF FlowType, StageType
  <2>2. Judged(w, f, d, i) # "running" => f.stages[i].task # t
    BY <1>1, <1>2, <2>1, PositionFacts, JudgedFacts DEF Judged
  <2> QED
    BY <1>1, <2>1, <2>2 DEF Judged, EndedTask
<1> HIDE DEF judged
<1>4. Orderly(w, f, d) => \A i \in Positions(w) :
        /\ f.stages[i].task = NoTask => f.stages[i].status \in {"pending", "ready"}
        /\ f.stages[i].task # NoTask => f.stages[i].status \in {"running", judged(i)}
        /\ f.stages[i].status # "pending" => Reached(w, f, i)
  BY <1>3 DEF Orderly
<1>5. Stopped(w, f, d) => \A i \in Positions(w) :
        /\ f.stages[i].status \in {"pending", "completed", "failed", "cancelled"}
        /\ f.stages[i].status \in {"completed", "failed"} =>
             /\ f.stages[i].task # NoTask
             /\ f.stages[i].status = judged(i)
             /\ Reached(w, f, i)
  BY <1>3 DEF Stopped
<1>6. \A i \in Positions(w) : d[i] # "none" =>
        /\ f.stages[i].task # NoTask
        /\ task'[f.stages[i].task].status = "completed"
        /\ f.stages[i].status = Decided(d[i])
  BY <1>1, <1>2, <1>3 DEF Sound, Decisive
<1>7. Orderly(w, f, d) => Orderly(w, flow[w], decision[w])'
  BY <1>1, <1>4 DEF Orderly, Reached, Judged, judged
<1>8. Stopped(w, f, d) => Stopped(w, flow[w], decision[w])'
  BY <1>1, <1>5 DEF Stopped, Reached, Judged, judged
<1>9. Decisive(w, flow[w], decision[w])'
  BY <1>1, <1>6 DEF Decisive
<1> QED
  BY <1>1, <1>2, <1>7, <1>8, <1>9 DEF Sound

\* Workflows begin unbound, and every step keeps them sound.
LEMMA SoundAlways ==
  /\ WorkflowInit => SoundInv
  /\ WorkflowInv /\ SoundInv /\ [WorkflowNext]_workflowVars => SoundInv'
<1>1. WorkflowInit => SoundInv
  BY DEF WorkflowInit, SoundInv, Sound, Orderly, Decisive, Unbound
<1>2. ASSUME WorkflowInv, SoundInv, NEW w \in Workflows, WorkflowStep(w) PROVE SoundInv'
  <2>1. CASE CreateWorkflow(w)
    BY <1>2, <2>1, CreateSound
  <2>2. CASE RefreshWorkflow(w)
    BY <1>2, <2>2, RefreshSoundStep DEF RefreshWorkflow
  <2>3. CASE CancelWorkflow(w)
    BY <1>2, <2>3, CancelSound
  <2>4. CASE \E i \in Positions(w), t \in Tasks : BindTask(w, i, t)
    BY <1>2, <2>4, BindSound
  <2>5. CASE \E i \in Positions(w), d \in {"approved", "rejected"} : RecordApproval(w, i, d)
    BY <1>2, <2>5, ApprovalSound
  <2> QED
    BY <1>2, <2>1, <2>2, <2>3, <2>4, <2>5 DEF WorkflowStep
<1>3. ASSUME WorkflowInv, SoundInv, NEW t \in Tasks, TaskStep(t) PROVE SoundInv'
  BY <1>3, TaskSound
<1>4. ASSUME SoundInv, UNCHANGED workflowVars PROVE SoundInv'
  <2>1. task' = task /\ \A w \in Workflows : Sound(w, flow'[w], decision'[w])
    BY <1>4 DEF workflowVars, SoundInv
  <2> QED
    BY <2>1, SoundPrimed DEF SoundInv
<1> QED
  BY <1>1, <1>2, <1>3, <1>4 DEF WorkflowNext

(***************************************************************************)
(* The stage that is open                                                  *)
(***************************************************************************)

\* Everything before stage k is completed, nothing has happened after it.
FrontAt(w, f, k) ==
  /\ f.stages[k].status # "pending"
  /\ \A j \in Positions(w) : /\ j < k => f.stages[j].status = "completed"
                             /\ k < j => f.stages[j].status = "pending"

Open == {"ready", "running", "waiting_approval", "needs_review"}

OpenAt(w, f, k) == FrontAt(w, f, k) /\ f.stages[k].status \in Open

\* Every live workflow has an open stage.
OpenInv == \A w \in Workflows : Live(w) => \E k \in Positions(w) : OpenAt(w, flow[w], k)

Completed(w, f) == {i \in Positions(w) : f.stages[i].status = "completed"}

\* What the front of a workflow that is not yet completed says of its status.
LEMMA FrontStatus ==
  ASSUME NEW w \in Workflows, NEW f \in FlowType(w), NEW k \in Positions(w),
         FrontAt(w, f, k), f.stages[k].status # "completed"
  PROVE  WorkflowStatus(f.stages) =
           CASE f.stages[k].status \in {"failed", "cancelled"} -> f.stages[k].status
             [] f.stages[k].status \in {"waiting_approval", "needs_review"} -> "blocked"
             [] f.stages[k].status \in {"ready", "running"} -> "active"
<1> DEFINE s == f.stages[k].status
           found == {f.stages[i].status : i \in DOMAIN f.stages}
<1>1. DOMAIN f.stages = Positions(w) /\ s \in StageStatuses \ {"pending", "completed"}
  BY DEF FlowType, FrontAt, StageType
<1>2. \A i \in Positions(w) : f.stages[i].status \in {s, "pending", "completed"}
  BY PositionFacts DEF FrontAt
<1>3. s \in found /\ found \subseteq {s, "pending", "completed"}
  BY <1>1, <1>2
<1> HIDE DEF s, found
<1>4. found # {"completed"}
  BY <1>1, <1>3
<1>5. s \in {"failed", "cancelled", "waiting_approval", "needs_review", "ready", "running"}
  BY <1>1 DEF StageStatuses
<1>6. CASE s = "failed"
  <2>1. /\ "failed" \in found /\ "cancelled" \notin found
        /\ found \cap {"waiting_approval", "needs_review"} = {}
    BY <1>3, <1>6
  <2>2. WorkflowStatus(f.stages) = "failed"
    BY <1>4, <2>1, Zenon DEF WorkflowStatus, found
  <2> QED
    BY <1>6, <2>2 DEF s
<1>7. CASE s = "cancelled"
  <2>1. /\ "failed" \notin found /\ "cancelled" \in found
        /\ found \cap {"waiting_approval", "needs_review"} = {}
    BY <1>3, <1>7
  <2>2. WorkflowStatus(f.stages) = "cancelled"
    BY <1>4, <2>1, Zenon DEF WorkflowStatus, found
  <2> QED
    BY <1>7, <2>2 DEF s
<1>8. CASE s \in {"waiting_approval", "needs_review"}
  <2>1. /\ "failed" \notin found /\ "cancelled" \notin found
        /\ found \cap {"waiting_approval", "needs_review"} # {}
    BY <1>3, <1>8
  <2>2. WorkflowStatus(f.stages) = "blocked"
    BY <1>4, <2>1, Zenon DEF WorkflowStatus, found
  <2> QED
    BY <1>8, <2>2 DEF s
<1>9. CASE s \in {"ready", "running"}
  <2>1. /\ "failed" \notin found /\ "cancelled" \notin found
        /\ found \cap {"waiting_approval", "needs_review"} = {}
    BY <1>3, <1>9
  <2>2. WorkflowStatus(f.stages) = "active"
    BY <1>4, <2>1, Zenon DEF WorkflowStatus, found
  <2> QED
    BY <1>9, <2>2 DEF s
<1> QED
  BY <1>5, <1>6, <1>7, <1>8, <1>9

\* A workflow whose stages are all completed is completed.
LEMMA AllCompleted ==
  ASSUME NEW w \in Workflows, NEW f \in FlowType(w),
         \A i \in Positions(w) : f.stages[i].status = "completed"
  PROVE  WorkflowStatus(f.stages) = "completed"
<1> DEFINE found == {f.stages[i].status : i \in DOMAIN f.stages}
<1>1. DOMAIN f.stages = Positions(w)
  BY DEF FlowType
<1>2. 1 \in Positions(w)
  <2>1. Specs[w] \in Seq(StageSpec) /\ Specs[w] # << >>
    BY WorkflowAssumptions
  <2> QED
    BY <2>1 DEF Positions
<1>3. found = {"completed"}
  BY <1>1, <1>2
<1> QED
  BY <1>3, Zenon DEF WorkflowStatus

\* The outcome of a refresh for a workflow whose front is at stage k: the front
\* stays and is not completed, or it is completed and the next stage is opened,
\* or it is the last one and the workflow is completed.
Onward(w, g, k) ==
  \/ /\ FrontAt(w, g, k) /\ g.stages[k].status # "completed"
     /\ \/ g.status \in {"failed", "cancelled"}
        \/ g.status \in {"active", "blocked"} /\ OpenAt(w, g, k)
  \/ /\ k + 1 \in Positions(w)
     /\ FrontAt(w, g, k + 1) /\ g.stages[k + 1].status = "ready"
     /\ g.status \in {"active", "blocked"}
  \/ /\ \A i \in Positions(w) : i <= k
     /\ \A i \in Positions(w) : g.stages[i].status = "completed"
     /\ g.status = "completed"

\* A refresh moves the front by one stage at most.
LEMMA RefreshOnward ==
  ASSUME NEW w \in Workflows, NEW f \in FlowType(w), f.status # "cancelled",
         NEW d \in [Positions(w) -> Decisions], task \in [Tasks -> TaskType],
         Orderly(w, f, d), NEW k \in Positions(w), FrontAt(w, f, k)
  PROVE  Onward(w, Refreshed(w, f, d), k)
<1> DEFINE g == Refreshed(w, f, d)
           r == Read(w, f, d)
<1>1. /\ g.status = WorkflowStatus(g.stages)
      /\ \A i \in Positions(w) :
           LET opens == /\ r[i] = Unbound("pending")
                        /\ \A j \in Positions(w) : j < i => r[j].status = "completed"
           IN g.stages[i] = IF opens THEN Unbound("ready") ELSE r[i]
  BY RefreshedFacts
<1>2. \A i \in Positions(w) :
        /\ f.stages[i].status # "running" => r[i] = f.stages[i]
        /\ f.stages[i].task = NoTask => r[i] = f.stages[i]
        /\ f.stages[i].task # NoTask => r[i].status \notin {"pending", "ready"}
  BY ReadFacts
<1>3. g \in FlowType(w)
  BY RefreshedType
<1>4. Unbound("ready").status = "ready" /\ Unbound("pending").status = "pending"
  BY DEF Unbound
<1>5. Positions(w) \subseteq Nat
  BY PositionFacts
<1>6. \A i \in Positions(w) : f.stages[i].status = "pending" => f.stages[i] = Unbound("pending")
  <2> SUFFICES ASSUME NEW i \in Positions(w), f.stages[i].status = "pending"
               PROVE  f.stages[i] = Unbound("pending")
    OBVIOUS
  <2>1. f.stages[i].task = NoTask
    BY <1>2
  <2>2. f.stages[i] \in StageType
    BY DEF FlowType
  <2> QED
    BY <2>1, <2>2 DEF StageType, Unbound
<1> HIDE DEF g, r
<1>7. \A i \in Positions(w) : i < k => g.stages[i].status = "completed"
  BY <1>1, <1>2, <1>4 DEF FrontAt
<1>8. g.stages[k] = r[k] /\ r[k].status # "pending"
  BY <1>1, <1>2, <1>4 DEF FrontAt
<1>9. \A i \in Positions(w) : k < i => r[i] = Unbound("pending")
  BY <1>2, <1>6 DEF FrontAt
<1>10. CASE r[k].status # "completed"
  <2>1. \A i \in Positions(w) : k < i => g.stages[i] = Unbound("pending")
    BY <1>1, <1>9, <1>10
  <2>2. FrontAt(w, g, k) /\ g.stages[k].status # "completed"
    BY <1>4, <1>7, <1>8, <1>10, <2>1 DEF FrontAt
  <2>3. g.stages[k].status \in StageStatuses \ {"pending", "completed"}
    BY <1>3, <2>2 DEF FlowType, StageType, FrontAt
  <2>4. \/ g.status \in {"failed", "cancelled"}
        \/ g.status \in {"active", "blocked"} /\ g.stages[k].status \in Open
    BY <1>1, <1>3, <2>2, <2>3, FrontStatus DEF StageStatuses, Open
  <2> QED
    BY <2>2, <2>4 DEF Onward, OpenAt, g
<1>11. CASE r[k].status = "completed" /\ k + 1 \in Positions(w)
  <2>1. \A j \in Positions(w) : j < k + 1 => r[j].status = "completed"
    <3>1. \A j \in Positions(w) : j < k + 1 => j = k \/ j < k
      BY <1>5
    <3> QED
      BY <1>2, <1>11, <3>1 DEF FrontAt
  <2>2. r[k + 1] = Unbound("pending")
    BY <1>5, <1>9, <1>11
  <2>3. g.stages[k + 1] = Unbound("ready")
    BY <1>1, <1>11, <2>1, <2>2
  <2>4. \A j \in Positions(w) : k + 1 < j => g.stages[j] = Unbound("pending")
    <3> SUFFICES ASSUME NEW j \in Positions(w), k + 1 < j PROVE g.stages[j] = Unbound("pending")
      OBVIOUS
    <3>1. k < j
      BY <1>5
    <3>2. r[j] = Unbound("pending") /\ r[k + 1].status # "completed"
      BY <1>4, <1>9, <2>2, <3>1
    <3> QED
      BY <1>1, <1>11, <3>2
  <2>5. \A j \in Positions(w) : j < k + 1 => g.stages[j].status = "completed"
    <3>1. \A j \in Positions(w) : j < k + 1 => j = k \/ j < k
      BY <1>5
    <3> QED
      BY <1>7, <1>8, <1>11, <3>1
  <2>6. FrontAt(w, g, k + 1) /\ g.stages[k + 1].status = "ready"
    BY <1>4, <2>3, <2>4, <2>5 DEF FrontAt
  <2>7. WorkflowStatus(g.stages) = "active"
    BY <1>3, <1>11, <2>6, FrontStatus
  <2> QED
    BY <1>1, <1>11, <2>6, <2>7 DEF Onward, OpenAt, Open, g
<1>12. CASE r[k].status = "completed" /\ k + 1 \notin Positions(w)
  <2>1. \A i \in Positions(w) : i <= k
    BY <1>12 DEF Positions
  <2>2. \A i \in Positions(w) : g.stages[i].status = "completed"
    <3>1. \A i \in Positions(w) : i = k \/ i < k
      BY <1>5, <2>1
    <3> QED
      BY <1>7, <1>8, <1>12, <3>1
  <2>3. g.status = "completed"
    BY <1>1, <1>3, <2>2, AllCompleted
  <2> QED
    BY <2>1, <2>2, <2>3 DEF Onward, g
<1> QED
  BY <1>10, <1>11, <1>12

\* What a step does to a live workflow with its open stage at k: Onward, or it
\* is cancelled as it stands.
LEMMA StepOnward ==
  ASSUME WorkflowInv, SoundInv, NEW w \in Workflows, Live(w), WorkflowStep(w),
         NEW k \in Positions(w), OpenAt(w, flow[w], k)
  PROVE  \/ Onward(w, flow'[w], k)
         \/ /\ flow'[w].status = "cancelled"
            /\ Completed(w, flow'[w]) = Completed(w, flow[w])
<1> DEFINE d == decision[w]
<1>1. /\ flow[w] \in FlowType(w) /\ flow[w].status \in {"active", "blocked"}
      /\ d \in [Positions(w) -> Decisions] /\ task \in [Tasks -> TaskType]
      /\ Sound(w, flow[w], d) /\ FlowInv
  BY InvAt DEF Live, SoundInv
<1>2. Orderly(w, flow[w], d) /\ FrontAt(w, flow[w], k) /\ flow[w].status # "cancelled"
  BY <1>1 DEF Sound, OpenAt
<1>3. DOMAIN flow = Workflows
  BY <1>1 DEF FlowInv
<1>4. ~CreateWorkflow(w)
  BY <1>1 DEF CreateWorkflow
<1>5. CASE flow' = [flow EXCEPT ![w] = Refreshed(w, flow[w], d)]
  <2>1. flow'[w] = Refreshed(w, flow[w], d)
    BY <1>3, <1>5
  <2> QED
    BY <1>1, <1>2, <2>1, RefreshOnward
<1>6. CASE CancelWorkflow(w)
  <2>1. flow'[w] = [status |-> "cancelled",
                    stages |-> [i \in Positions(w) |->
                      IF flow[w].stages[i].status \in {"completed", "failed", "cancelled"}
                        THEN flow[w].stages[i]
                        ELSE [flow[w].stages[i] EXCEPT !.status = "cancelled"]]]
    BY <1>3, <1>6 DEF CancelWorkflow
  <2>2. \A i \in Positions(w) :
          flow'[w].stages[i] =
            IF flow[w].stages[i].status \in {"completed", "failed", "cancelled"}
              THEN flow[w].stages[i] ELSE [flow[w].stages[i] EXCEPT !.status = "cancelled"]
    BY <2>1
  <2>3. \A i \in Positions(w) : [flow[w].stages[i] EXCEPT !.status = "cancelled"].status # "completed"
    BY <1>1 DEF FlowType, StageType
  <2>4. \A i \in Positions(w) :
          flow'[w].stages[i].status = "completed" <=> flow[w].stages[i].status = "completed"
    BY <2>2, <2>3
  <2> QED
    BY <2>1, <2>4 DEF Completed
<1>7. ASSUME NEW i \in Positions(w), NEW t \in Tasks, Bindable(w, i, t),
             flow' = [flow EXCEPT ![w] = Refreshed(w, Bound(w, i, t), d)]
      PROVE  Onward(w, flow'[w], k)
  <2> DEFINE b == Bound(w, i, t)
  <2>1. /\ b \in FlowType(w) /\ b.status # "cancelled"
        /\ b.stages[i].status \notin {"pending", "ready"}
        /\ \A j \in Positions(w) \ {i} : b.stages[j] = flow[w].stages[j]
        /\ Orderly(w, b, d)
    BY <1>7, BoundStage
  <2>2. i = k
    <3>1. flow[w].stages[i].status = "ready"
      BY <1>7 DEF Bindable, Unbound
    <3> QED
      BY <1>2, <3>1, PositionFacts DEF FrontAt
  <2>3. flow'[w] = Refreshed(w, b, d)
    BY <1>3, <1>7
  <2> HIDE DEF b
  <2>4. FrontAt(w, b, k)
    BY <1>2, <2>1, <2>2, PositionFacts DEF FrontAt
  <2> QED
    BY <1>1, <2>1, <2>3, <2>4, RefreshOnward
<1>8. ASSUME NEW i \in Positions(w), NEW e \in {"approved", "rejected"}, d[i] = "none",
             Refreshed(w, flow[w], d).stages[i].status = "waiting_approval",
             decision' = [decision EXCEPT ![w][i] = e],
             flow' = [flow EXCEPT ![w] = Refreshed(w, Settled(w, i, e), decision'[w])],
             task' = task
      PROVE  Onward(w, flow'[w], k)
  <2> DEFINE f == Refreshed(w, flow[w], d)
             h == Settled(w, i, e)
             d2 == decision'[w]
  <2>1. /\ d2 \in [Positions(w) -> Decisions]
        /\ h \in FlowType(w) /\ h.status # "cancelled"
        /\ h.stages[i].status = Decided(e)
        /\ \A j \in Positions(w) : j # i => h.stages[j] = f.stages[j]
        /\ Orderly(w, h, d2)
    BY <1>8, SettledStage
  <2>2. Onward(w, f, k)
    BY <1>1, <1>2, RefreshOnward
  <2>3. flow'[w] = Refreshed(w, h, d2)
    BY <1>3, <1>8
  <2>4. Decided(e) # "pending"
    BY DEF Decided
  <2>5. \A j \in Positions(w) : j \in Nat
    BY PositionFacts
  <2>6. f.stages[i].status = "waiting_approval"
    BY <1>8
  <2> HIDE DEF f, h, d2
  <2>7. CASE FrontAt(w, f, k)
    <3>1. i = k
      BY <2>5, <2>6, <2>7 DEF FrontAt
    <3>2. FrontAt(w, h, k)
      BY <2>1, <2>4, <2>5, <2>7, <3>1 DEF FrontAt
    <3> QED
      BY <1>1, <2>1, <2>3, <3>2, RefreshOnward
  <2>8. CASE k + 1 \in Positions(w) /\ FrontAt(w, f, k + 1) /\ f.stages[k + 1].status = "ready"
    <3>1. i = k + 1 \/ i < k + 1 \/ k + 1 < i
      BY <2>5
    <3> QED
      BY <2>6, <2>8, <3>1 DEF FrontAt
  <2> QED
    BY <2>2, <2>6, <2>7, <2>8 DEF Onward
<1> QED
  BY <1>4, <1>5, <1>6, <1>7, <1>8
     DEF WorkflowStep, RefreshWorkflow, BindTask, RecordApproval, Bound, Settled

\* A step of a workflow that is not there creates it, or nothing happens.
LEMMA StepCreates ==
  ASSUME WorkflowInv, SoundInv, NEW w \in Workflows, flow[w].status = "absent", WorkflowStep(w)
  PROVE  /\ flow'[w].status = "active"
         /\ 1 \in Positions(w) /\ OpenAt(w, flow'[w], 1)
         /\ Completed(w, flow'[w]) = {} /\ Completed(w, flow[w]) = {}
<1> DEFINE g == [status |-> "active",
                 stages |-> [i \in Positions(w) |-> Unbound(IF i = 1 THEN "ready" ELSE "pending")]]
<1>1. DOMAIN flow = Workflows /\ Sound(w, flow[w], decision[w])
  BY DEF WorkflowInv, FlowInv, SoundInv
<1>2. flow' = [flow EXCEPT ![w] = g]
  BY DEF WorkflowStep, CreateWorkflow, RefreshWorkflow, CancelWorkflow, BindTask, RecordApproval,
         Live
<1>3. flow'[w] = g
  BY <1>1, <1>2
<1>4. /\ g.status = "active"
      /\ \A i \in Positions(w) : g.stages[i].status = IF i = 1 THEN "ready" ELSE "pending"
  BY DEF Unbound
<1> HIDE DEF g
<1>5. 1 \in Positions(w) /\ \A i \in Positions(w) : i \in Nat /\ 1 <= i
  <2>1. Specs[w] \in Seq(StageSpec) /\ Specs[w] # << >>
    BY WorkflowAssumptions
  <2> QED
    BY <2>1 DEF Positions
<1>6. OpenAt(w, g, 1)
  BY <1>4, <1>5 DEF OpenAt, FrontAt, Open
<1>7. Completed(w, g) = {}
  BY <1>4 DEF Completed
<1>8. Completed(w, flow[w]) = {}
  BY <1>1 DEF Sound, Completed, Unbound
<1> QED
  BY <1>3, <1>4, <1>5, <1>6, <1>7, <1>8

\* A step of one workflow leaves the others alone.
LEMMA StepElsewhere ==
  ASSUME WorkflowInv, NEW w \in Workflows, WorkflowStep(w), NEW v \in Workflows, v # w
  PROVE  flow'[v] = flow[v]
<1>1. DOMAIN flow = Workflows
  BY DEF WorkflowInv, FlowInv
<1> QED
  BY <1>1 DEF WorkflowStep, CreateWorkflow, RefreshWorkflow, CancelWorkflow, BindTask,
              RecordApproval

\* No step changes a workflow that has ended.
LEMMA StepAfterEnd ==
  ASSUME WorkflowInv, SoundInv, NEW w \in Workflows, WorkflowStep(w), flow[w].status \in EndedFlow
  PROVE  flow'[w] = flow[w]
<1>1. DOMAIN flow = Workflows
  BY DEF WorkflowInv, FlowInv
<1>2. /\ flow[w].status \notin {"absent", "active", "blocked"}
      /\ Refreshed(w, flow[w], decision[w]) = flow[w]
      /\ \A i \in Positions(w) : flow[w].stages[i].status # "waiting_approval"
  BY InvAt, EndedStays DEF SoundInv, EndedFlow
<1>3. CASE RefreshWorkflow(w)
  BY <1>1, <1>2, <1>3 DEF RefreshWorkflow
<1>4. CASE \E i \in Positions(w), d \in {"approved", "rejected"} : RecordApproval(w, i, d)
  BY <1>1, <1>2, <1>4 DEF RecordApproval
<1> QED
  BY <1>2, <1>3, <1>4 DEF WorkflowStep, CreateWorkflow, CancelWorkflow, BindTask, Live

\* Every workflow is there or not, live or ended.
LEMMA Phases ==
  ASSUME WorkflowInv, NEW w \in Workflows
  PROVE  flow[w].status = "absent" \/ Live(w) \/ flow[w].status \in EndedFlow
  BY InvAt DEF FlowType, FlowStatuses, EndedFlow, Live

\* What a step leaves of the open stage.
LEMMA OpenAfterStep ==
  ASSUME WorkflowInv, SoundInv, OpenInv, NEW w \in Workflows, WorkflowStep(w),
         flow'[w].status \in {"active", "blocked"}
  PROVE  \E k \in Positions(w) : OpenAt(w, flow'[w], k)
<1>1. CASE flow[w].status = "absent"
  BY <1>1, StepCreates
<1>2. CASE Live(w)
  <2>1. PICK k \in Positions(w) : OpenAt(w, flow[w], k)
    BY <1>2 DEF OpenInv
  <2>2. Onward(w, flow'[w], k)
    BY <1>2, <2>1, StepOnward
  <2> QED
    BY <2>2 DEF Onward, OpenAt, Open
<1>3. CASE flow[w].status \in EndedFlow
  BY <1>3, StepAfterEnd DEF EndedFlow
<1> QED
  BY <1>1, <1>2, <1>3, Phases

\* A live workflow always has an open stage.
LEMMA OpenAlways ==
  /\ WorkflowInit => OpenInv
  /\ WorkflowInv /\ SoundInv /\ OpenInv /\ [WorkflowNext]_workflowVars => OpenInv'
<1>1. WorkflowInit => OpenInv
  BY DEF WorkflowInit, OpenInv, Live
<1>2. ASSUME WorkflowInv, SoundInv, OpenInv, [WorkflowNext]_workflowVars,
             NEW w \in Workflows, flow'[w].status \in {"active", "blocked"}
      PROVE  \E k \in Positions(w) : OpenAt(w, flow'[w], k)
  <2>1. CASE WorkflowStep(w)
    BY <1>2, <2>1, OpenAfterStep
  <2>2. CASE flow'[w] = flow[w]
    BY <1>2, <2>2 DEF OpenInv, Live
  <2>3. ASSUME NEW t \in Tasks, TaskStep(t) PROVE flow' = flow
    BY <2>3 DEF TaskStep, TaskStarts, TaskEnds
  <2>4. WorkflowStep(w) \/ flow'[w] = flow[w]
    BY <1>2, <2>3, StepElsewhere DEF WorkflowNext, workflowVars
  <2> QED
    BY <2>1, <2>2, <2>4
<1>3. (\A w \in Workflows : flow'[w].status \in {"active", "blocked"}
                              => \E k \in Positions(w) : OpenAt(w, flow'[w], k)) => OpenInv'
  BY DEF OpenInv, Live, OpenAt, FrontAt, Positions
<1> QED
  BY <1>1, <1>2, <1>3

(***************************************************************************)
(* The contract: stage by stage                                            *)
(***************************************************************************)

\* Stages completed are counted, the count is Steps when all of them are.
LEMMA Counting ==
  ASSUME NEW w \in Workflows, NEW f
  PROVE  /\ IsFiniteSet(Completed(w, f)) /\ Cardinality(Completed(w, f)) \in Nat
         /\ Cardinality(Positions(w)) \in Nat
         /\ Cardinality(Completed(w, f)) <= Cardinality(Positions(w))
         /\ Cardinality(Completed(w, f)) = Cardinality(Positions(w))
              <=> Completed(w, f) = Positions(w)
<1>1. Len(Specs[w]) \in Nat
  BY WorkflowAssumptions
<1>2. IsFiniteSet(Positions(w))
  BY <1>1, FS_Interval DEF Positions
<1>3. Completed(w, f) \in SUBSET Positions(w)
  BY DEF Completed
<1> QED
  BY <1>2, <1>3, FS_Subset, FS_CardinalityType

\* One more stage is completed: one is added to the count.
LEMMA CountOne ==
  ASSUME NEW w \in Workflows, NEW f, NEW g, NEW k \in Positions(w),
         k \notin Completed(w, f), Completed(w, g) = Completed(w, f) \cup {k}
  PROVE  /\ Cardinality(Completed(w, g)) = Cardinality(Completed(w, f)) + 1
         /\ Cardinality(Completed(w, f)) < Cardinality(Positions(w))
<1>1. Cardinality(Completed(w, g)) = Cardinality(Completed(w, f)) + 1
  BY Counting, FS_AddElement
<1>2. Cardinality(Completed(w, g)) <= Cardinality(Positions(w))
  BY Counting
<1> QED
  BY <1>1, <1>2, Counting

\* What the contract sees of a workflow.
Outcome(f) == IF f.status \in EndedFlow THEN f.status ELSE "open"
Seen(w, f) == <<Cardinality(Completed(w, f)), Outcome(f)>>

\* A step of a live workflow completes the open stage, stops the workflow, or
\* shows nothing.
LEMMA SeenOfStep ==
  ASSUME NEW w \in Workflows, NEW f, NEW g, NEW k \in Positions(w), OpenAt(w, f, k),
         Onward(w, g, k)
  PROVE  \/ Completed(w, g) = Completed(w, f) /\ g.status \in {"failed", "cancelled", "active", "blocked"}
         \/ /\ k \notin Completed(w, f) /\ Completed(w, g) = Completed(w, f) \cup {k}
            /\ \/ g.status \in {"active", "blocked"} /\ Completed(w, g) # Positions(w)
               \/ g.status = "completed" /\ Completed(w, g) = Positions(w)
<1>1. Positions(w) \subseteq Nat
  BY PositionFacts
<1>2. Completed(w, f) = {i \in Positions(w) : i < k}
  BY <1>1 DEF OpenAt, Open, FrontAt, Completed
<1>3. CASE FrontAt(w, g, k) /\ g.stages[k].status # "completed"
  <2>1. Completed(w, g) = {i \in Positions(w) : i < k}
    BY <1>1, <1>3 DEF FrontAt, Completed
  <2> QED
    BY <1>1, <1>2, <1>3, <2>1 DEF Onward
<1>4. CASE /\ k + 1 \in Positions(w)
           /\ FrontAt(w, g, k + 1) /\ g.stages[k + 1].status = "ready"
           /\ g.status \in {"active", "blocked"}
  <2>1. Completed(w, g) = {i \in Positions(w) : i < k + 1}
    BY <1>1, <1>4 DEF FrontAt, Completed
  <2>2. k + 1 \notin Completed(w, g)
    BY <1>1, <2>1
  <2>3. Completed(w, g) = Completed(w, f) \cup {k} /\ k \notin Completed(w, f)
    BY <1>1, <1>2, <2>1
  <2> QED
    BY <1>4, <2>2, <2>3
<1>5. CASE /\ \A i \in Positions(w) : i <= k
           /\ \A i \in Positions(w) : g.stages[i].status = "completed"
           /\ g.status = "completed"
  <2>1. Completed(w, g) = Positions(w)
    BY <1>5 DEF Completed
  <2>2. Completed(w, g) = Completed(w, f) \cup {k} /\ k \notin Completed(w, f)
    BY <1>1, <1>2, <1>5, <2>1
  <2> QED
    BY <1>5, <2>1, <2>2
<1> QED
  BY <1>3, <1>4, <1>5 DEF Onward

(***************************************************************************)
(* The theorems                                                            *)
(***************************************************************************)

\* Workflows begin without tasks.
LEMMA WorkflowInitInv == WorkflowInit => WorkflowInv
<1> SUFFICES ASSUME WorkflowInit PROVE WorkflowInv
  OBVIOUS
<1>1. "UNAVAILABLE" \in Verdicts
  BY WorkflowAssumptions
<1>2. FlowInv
  BY <1>1 DEF WorkflowInit, FlowInv, FlowType, FlowStatuses, Unbound, StageType,
              StageStatuses, Decisions, TaskType
<1>3. OneStagePerTask
  BY DEF WorkflowInit, OneStagePerTask, Unbound
<1> QED
  BY <1>2, <1>3 DEF WorkflowInv

\* Every step keeps the invariant.
LEMMA WorkflowNextInv == WorkflowInv /\ [WorkflowNext]_workflowVars => WorkflowInv'
<1> SUFFICES ASSUME WorkflowInv, [WorkflowNext]_workflowVars PROVE WorkflowInv'
  OBVIOUS
<1>1. ASSUME NEW w \in Workflows, WorkflowStep(w) PROVE WorkflowInv'
  <2>1. CASE CreateWorkflow(w)
    BY <2>1, CreateInv
  <2>2. CASE RefreshWorkflow(w)
    BY <2>2, RefreshKeeps DEF RefreshWorkflow
  <2>3. CASE CancelWorkflow(w)
    BY <2>3, CancelInv
  <2>4. CASE \E i \in Positions(w), t \in Tasks : BindTask(w, i, t)
    BY <2>4, BindInv
  <2>5. CASE \E i \in Positions(w), d \in {"approved", "rejected"} : RecordApproval(w, i, d)
    BY <2>5, ApprovalInv
  <2> QED
    BY <1>1, <2>1, <2>2, <2>3, <2>4, <2>5 DEF WorkflowStep
<1>2. ASSUME NEW t \in Tasks, TaskStep(t) PROVE WorkflowInv'
  BY <1>2, TaskInv
<1>3. CASE UNCHANGED workflowVars
  BY <1>3 DEF workflowVars, WorkflowInv, FlowInv, FlowType, Positions, OneStagePerTask
<1> QED
  BY <1>1, <1>2, <1>3 DEF WorkflowNext

\* The rows of workflows, stages, approvals and tasks keep their types,
\* whatever the specifications of the stages.
THEOREM WorkflowTypeCorrect == WorkflowSpec => []WorkflowTypeOK
<1>1. WorkflowInv => WorkflowTypeOK
  BY DEF WorkflowInv, FlowInv, FlowType, Decisions, WorkflowTypeOK
<1> QED
  BY <1>1, WorkflowInitInv, WorkflowNextInv, PTL DEF WorkflowSpec

\* A task counts for one stage of one workflow, however many workflows bind
\* tasks at once (bind_task: "task is already bound to a workflow stage").
THEOREM WorkflowOneStagePerTask == WorkflowSpec => []OneStagePerTask
<1>1. WorkflowInv => OneStagePerTask
  BY DEF WorkflowInv
<1> QED
  BY <1>1, WorkflowInitInv, WorkflowNextInv, PTL DEF WorkflowSpec

\* A workflow is always typed, its tasks its own, and sound.
LEMMA WorkflowAlwaysSound == WorkflowSpec => [](WorkflowInv /\ SoundInv)
  BY SoundAlways, WorkflowInitInv, WorkflowNextInv, PTL DEF WorkflowSpec

\* Nothing is opened, bound, run or judged before all stages in front of it are
\* completed, in a workflow of any length.
THEOREM WorkflowInTurn == WorkflowSpec => []InTurn
<1>1. SoundInv => InTurn
  <2> SUFFICES ASSUME SoundInv, NEW w \in Workflows, NEW i \in Positions(w), NEW j \in Positions(w),
                      j < i, flow[w].stages[i].status \notin {"pending", "cancelled"}
               PROVE  flow[w].stages[j].status = "completed"
    BY DEF InTurn
  <2>1. Sound(w, flow[w], decision[w])
    BY DEF SoundInv
  <2>2. Reached(w, flow[w], i)
    BY <2>1 DEF Sound, Orderly, Stopped
  <2> QED
    BY <2>2 DEF Reached
<1> QED
  BY <1>1, WorkflowAlwaysSound, PTL

\* A completed stage has a completed task, verified as its policy asks, and the
\* approval it needs (_stage_state_for_task).
THEOREM WorkflowCompletedIsEarned == WorkflowSpec => []CompletedIsEarned
<1>1. WorkflowInv /\ SoundInv => CompletedIsEarned
  <2> SUFFICES ASSUME WorkflowInv, SoundInv, NEW w \in Workflows, NEW i \in Positions(w),
                      flow[w].stages[i].status = "completed"
               PROVE  LET s == flow[w].stages[i]
                          spec == Specs[w][i]
                      IN /\ s.task # NoTask
                         /\ task[s.task].status = "completed"
                         /\ spec.approval => decision[w][i] = "approved"
                         /\ spec.policy = "plan_execution_v2" =>
                              task[s.task].verdict \in
                                {"PASSED"} \cup (IF spec.verification THEN {} ELSE {"NOT_REQUESTED"})
    BY DEF CompletedIsEarned
  <2> DEFINE s == flow[w].stages[i]
  <2>1. s.task # NoTask /\ s.status = Judged(w, flow[w], decision[w], i)
    BY DEF SoundInv, Sound, Orderly, Stopped
  <2>2. s \in StageType /\ decision[w][i] \in Decisions /\ task \in [Tasks -> TaskType]
    BY InvAt
  <2>3. task[s.task] \in TaskType /\ Specs[w][i] \in StageSpec
    BY <2>1, <2>2, PositionFacts DEF StageType
  <2>4. StageStateForTask(Specs[w][i], task[s.task], decision[w][i]) = "completed"
    BY <2>1 DEF Judged
  <2>5. /\ task[s.task].status = "completed"
        /\ Specs[w][i].approval => decision[w][i] = "approved"
        /\ Specs[w][i].policy = "plan_execution_v2" =>
             \/ task[s.task].verdict = "PASSED"
             \/ task[s.task].verdict = "NOT_REQUESTED" /\ ~Specs[w][i].verification
    BY <2>2, <2>3, <2>4, JudgedFacts
  <2> QED
    BY <2>1, <2>5
<1> QED
  BY <1>1, WorkflowAlwaysSound, PTL

\* Decisions are made about finished work only, and the stage shows them for
\* good (record_approval: "stage is not waiting for approval").
THEOREM WorkflowDecidedOnResults == WorkflowSpec => []DecidedOnResults
<1>1. SoundInv => DecidedOnResults
  BY DEF SoundInv, Sound, Decisive, DecidedOnResults
<1> QED
  BY <1>1, WorkflowAlwaysSound, PTL

\* A second refresh, with nothing happening in between, changes nothing.
THEOREM WorkflowOneRefreshSuffices == WorkflowSpec => []OneRefreshSuffices
<1>1. WorkflowInv /\ SoundInv => OneRefreshSuffices
  <2> SUFFICES ASSUME WorkflowInv, SoundInv, NEW w \in Workflows, flow[w].status # "absent"
               PROVE  LET once == Refreshed(w, flow[w], decision[w]) IN
                      Refreshed(w, once, decision[w]) = once
    BY DEF OneRefreshSuffices
  <2>1. CASE flow[w].status = "cancelled"
    BY <2>1 DEF Refreshed
  <2>2. CASE flow[w].status # "cancelled"
    BY <2>2, InvAt, RefreshTwice DEF SoundInv, Sound
  <2> QED
    BY <2>1, <2>2
<1> QED
  BY <1>1, WorkflowAlwaysSound, PTL

\* An ended workflow is never changed again, by a late refresh, cancel, bind or
\* approval, although its tasks may still be running.
THEOREM WorkflowEndedFlowStands == WorkflowSpec => EndedFlowStands
<1>1. ASSUME WorkflowInv, SoundInv, NEW w \in Workflows, WorkflowStep(w),
             NEW v \in Workflows, flow[v].status \in EndedFlow
      PROVE  flow'[v] = flow[v]
  BY <1>1, StepElsewhere, StepAfterEnd
<1>2. ASSUME NEW t \in Tasks, TaskStep(t) PROVE flow' = flow
  BY <1>2 DEF TaskStep, TaskStarts, TaskEnds
<1>3. WorkflowInv /\ SoundInv /\ [WorkflowNext]_workflowVars
        => [\A w \in Workflows : flow[w].status \in EndedFlow => flow'[w] = flow[w]]_workflowVars
  BY <1>1, <1>2 DEF WorkflowNext
<1> QED
  BY <1>3, WorkflowAlwaysSound, PTL DEF WorkflowSpec, EndedFlowStands

\* A live workflow has exactly one open stage, the first that is not completed,
\* and is blocked if and only if that stage waits for a person.
THEOREM WorkflowOneOpenStage == WorkflowSpec => []OneOpenStage
<1>1. WorkflowInv /\ SoundInv /\ OpenInv => OneOpenStage
  <2> SUFFICES ASSUME WorkflowInv, SoundInv, OpenInv, NEW w \in Workflows, Live(w)
               PROVE  \E i \in Positions(w) :
                        /\ \A j \in Positions(w) \ {i} :
                             flow[w].stages[j].status = IF j < i THEN "completed" ELSE "pending"
                        /\ IF flow[w].status = "blocked"
                             THEN flow[w].stages[i].status \in {"waiting_approval", "needs_review"}
                             ELSE flow[w].stages[i].status \in {"ready", "running"}
    BY DEF OneOpenStage
  <2>1. PICK i \in Positions(w) : OpenAt(w, flow[w], i)
    BY DEF OpenInv
  <2>2. \A j \in Positions(w) \ {i} :
          flow[w].stages[j].status = IF j < i THEN "completed" ELSE "pending"
    BY <2>1, PositionFacts DEF OpenAt, FrontAt
  <2>3. flow[w].status = WorkflowStatus(flow[w].stages)
    BY DEF SoundInv, Sound, Live
  <2>4. flow[w].status = IF flow[w].stages[i].status \in {"waiting_approval", "needs_review"}
                           THEN "blocked" ELSE "active"
    BY <2>1, <2>3, InvAt, FrontStatus DEF OpenAt, Open
  <2> QED
    BY <2>1, <2>2, <2>4 DEF OpenAt, Open
<1> QED
  BY <1>1, OpenAlways, WorkflowAlwaysSound, PTL DEF WorkflowSpec

\* Every workflow goes stage by stage, one in each transaction at most: each
\* step of it is a step of StageByStage or is not seen there.
THEOREM WorkflowGoesStageByStage == WorkflowSpec => ImplementsStageByStage
<1>1. WorkflowInit => \A w \in Workflows : Progress(w)!SbSInit
  <2> SUFFICES ASSUME WorkflowInit, NEW w \in Workflows PROVE Progress(w)!SbSInit
    OBVIOUS
  <2>1. Completed(w, flow[w]) = {} /\ flow[w].status \notin EndedFlow
    BY DEF WorkflowInit, Completed, Unbound, EndedFlow
  <2> QED
    BY <2>1, FS_EmptySet DEF Progress!SbSInit, Completed
<1>2. ASSUME WorkflowInv, SoundInv, OpenInv, NEW w \in Workflows, WorkflowStep(w)
      PROVE  Progress(w)!SbSNext \/ UNCHANGED Progress(w)!sbsVars
  <2> DEFINE n == Cardinality(Completed(w, flow[w]))
             m == Cardinality(Completed(w, flow'[w]))
             o == Outcome(flow[w])
             p == Outcome(flow'[w])
             total == Cardinality(Positions(w))
  <2>1. \/ n = m /\ o = p
        \/ n = m /\ o = "open" /\ p \in {"failed", "cancelled"}
        \/ /\ o = "open" /\ n < total /\ m = n + 1
           /\ p = IF m = total THEN "completed" ELSE "open"
    <3>1. CASE flow[w].status = "absent"
      BY <1>2, <3>1, StepCreates DEF Outcome, EndedFlow
    <3>2. CASE Live(w)
      <4>1. PICK k \in Positions(w) : OpenAt(w, flow[w], k)
        BY <1>2, <3>2 DEF OpenInv
      <4>2. o = "open"
        BY <3>2 DEF Outcome, Live, EndedFlow
      <4>3. CASE flow'[w].status = "cancelled" /\ Completed(w, flow'[w]) = Completed(w, flow[w])
        BY <4>2, <4>3 DEF Outcome, EndedFlow
      <4>4. CASE Onward(w, flow'[w], k)
        <5>1. CASE /\ Completed(w, flow'[w]) = Completed(w, flow[w])
                   /\ flow'[w].status \in {"failed", "cancelled", "active", "blocked"}
          BY <4>2, <5>1 DEF Outcome, EndedFlow
        <5>2. CASE /\ k \notin Completed(w, flow[w])
                   /\ Completed(w, flow'[w]) = Completed(w, flow[w]) \cup {k}
                   /\ \/ /\ flow'[w].status \in {"active", "blocked"}
                         /\ Completed(w, flow'[w]) # Positions(w)
                      \/ /\ flow'[w].status = "completed"
                         /\ Completed(w, flow'[w]) = Positions(w)
          <6>1. n < total /\ m = n + 1
            BY <5>2, CountOne
          <6>2. m = total <=> Completed(w, flow'[w]) = Positions(w)
            BY Counting
          <6>3. p = IF m = total THEN "completed" ELSE "open"
            BY <5>2, <6>2 DEF Outcome, EndedFlow
          <6> QED
            BY <4>2, <6>1, <6>3
        <5> QED
          BY <4>1, <4>4, <5>1, <5>2, SeenOfStep
      <4> QED
        BY <1>2, <3>2, <4>1, <4>3, <4>4, StepOnward
    <3>3. CASE flow[w].status \in EndedFlow
      BY <1>2, <3>3, StepAfterEnd
    <3> QED
      BY <1>2, <3>1, <3>2, <3>3, Phases
  <2> QED
    BY <2>1 DEF Progress!SbSNext, Progress!StageDone, Progress!Stop, Progress!sbsVars,
                Completed, Outcome
<1>3. ASSUME NEW w \in Workflows, flow'[w] = flow[w]
      PROVE  UNCHANGED Progress(w)!sbsVars
  BY <1>3 DEF Progress!sbsVars
<1>4. ASSUME NEW t \in Tasks, TaskStep(t) PROVE flow' = flow
  BY <1>4 DEF TaskStep, TaskStarts, TaskEnds
<1>5. ASSUME WorkflowInv, SoundInv, OpenInv, [WorkflowNext]_workflowVars, NEW w \in Workflows
      PROVE  Progress(w)!SbSNext \/ UNCHANGED Progress(w)!sbsVars
  <2>1. WorkflowStep(w) \/ flow'[w] = flow[w]
    BY <1>4, <1>5, StepElsewhere DEF WorkflowNext, workflowVars
  <2> QED
    BY <1>2, <1>3, <1>5, <2>1
<1>6. WorkflowInv /\ SoundInv /\ OpenInv /\ [WorkflowNext]_workflowVars
        => [\A w \in Workflows :
              Progress(w)!SbSNext \/ UNCHANGED Progress(w)!sbsVars]_workflowVars
  BY <1>5
<1> QED
  BY <1>1, <1>6, OpenAlways, WorkflowAlwaysSound, PTL DEF WorkflowSpec, ImplementsStageByStage
=============================================================================
