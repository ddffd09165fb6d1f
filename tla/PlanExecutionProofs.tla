------------------------- MODULE PlanExecutionProofs -------------------------
(***************************************************************************)
(* Proofs about the execution of a plan, for a plan of any length, any     *)
(* number of processes and threads, any bounds, and crashes or refused     *)
(* transactions between any two steps of a call.                           *)
(***************************************************************************)
EXTENDS PlanExecution, WorkflowProofs

\* A call that is dispatching a step.
Dispatching == {"lookup", "rebind", "material", "launch", "bind"}

Alive(f) == f.status \in {"active", "blocked"}
BoundSteps(f) == {i \in Steps : f.stages[i].task # NoTask}

\* The stage has its task, or may have one now.
Opened(f, i) == f.stages[i].task # NoTask \/ f.stages[i].status = "ready"

\* What a call in progress can rely on, whatever has become of the workflow f
\* since it last looked.
CallSound(r, f) ==
  /\ r.place # "idle" => f.status # "absent"
  /\ r.turn <= 1 + Cardinality(BoundSteps(f))
  /\ r.place \in Dispatching =>
       /\ r.step \in Steps
       /\ Alive(f) => Opened(f, r.step)
       /\ r.turn <= 1 + Cardinality(BoundSteps(f) \ {r.step})
  /\ r.place = "set" =>
       /\ r.goal.status # "absent"
       /\ r.goal.status \in EndedExec => f.status = r.goal.status
  /\ r.place = "regive" /\ Alive(f) => Resumable(f) \subseteq r.give

ExecutionTypeOK ==
  /\ exec \in ExecType
  /\ result \in {"none"} \cup ExecStatuses
  /\ materials \in [Processes -> SUBSET Steps]
  /\ thread \in [Threads -> ThreadType]
  /\ calls \in 0..MaxCalls

\* Execution and workflow are made together, before any task of theirs, and
\* before any process has their prompts.
MadeTogether ==
  /\ exec.status = "absent" <=> flow[Plan].status = "absent"
  /\ flow[Plan].status = "absent" =>
       /\ \A i \in Steps : task[StepTask[i]].status = "absent"
       /\ \A p \in Processes : materials[p] = {}

CallsSound == \A c \in Threads : CallSound(thread[c], flow[Plan])

PlanInv == /\ WorkflowInv /\ SoundInv /\ OpenInv /\ ExecutionTypeOK /\ MadeTogether
           /\ NoStrayTask /\ EndMatchesWorkflow /\ MaterialsSuffice /\ CallsSound

(***************************************************************************)
(* What a transaction does to the plan's workflow                          *)
(***************************************************************************)

Waiting == {Unbound("ready"), Unbound("pending")}

\* A stage keeps its task; one that is open stays so until it has a task; one
\* that waits for a task was waiting before.
StageGrows(s, t) ==
  /\ s.task # NoTask => t.task # NoTask
  /\ s.task # NoTask \/ s.status = "ready" => t.task # NoTask \/ t.status = "ready"
  /\ t \in Waiting => s \in Waiting

\* The same of a workflow; what has ended stays as it is.
FlowGrows(f, g) ==
  /\ f.status # "absent" => g.status # "absent"
  /\ f.status \in EndedFlow => g = f
  /\ BoundSteps(f) \subseteq BoundSteps(g)
  /\ f.status # "absent" /\ Alive(g) => \A i \in Steps : Opened(f, i) => Opened(g, i)
  /\ Resumable(g) \subseteq Resumable(f)

LEMMA RefreshGrows ==
  ASSUME NEW w \in Workflows, NEW f \in FlowType(w), f.status # "cancelled",
         NEW d \in [Positions(w) -> Decisions], task \in [Tasks -> TaskType],
         Orderly(w, f, d), NEW i \in Positions(w)
  PROVE  StageGrows(f.stages[i], Refreshed(w, f, d).stages[i])
<1> DEFINE g == Refreshed(w, f, d)
           r == Read(w, f, d)
           s == f.stages[i]
           opens == /\ r[i] = Unbound("pending")
                    /\ \A j \in Positions(w) : j < i => r[j].status = "completed"
<1>1. g.stages[i] = IF opens THEN Unbound("ready") ELSE r[i]
  BY RefreshedFacts
<1>2. g.stages[i].task = s.task
  BY RefreshedType DEF SameTasks
<1>3. /\ r[i].task = s.task
      /\ s.task = NoTask => r[i] = s
  BY ReadFacts
<1> HIDE DEF g, r, opens, s
<1>4. /\ Unbound("ready").task = NoTask /\ Unbound("pending").task = NoTask
      /\ Unbound("pending").status = "pending"
  BY DEF Unbound
<1>5. opens => r[i] = Unbound("pending")
  BY DEF opens
<1>6. s.task = NoTask /\ s.status = "ready" => g.stages[i] = s
  BY <1>1, <1>3, <1>4, <1>5
<1>7. g.stages[i] \in Waiting => s \in Waiting
  BY <1>1, <1>2, <1>3, <1>4, <1>5 DEF Waiting
<1>8. StageGrows(s, g.stages[i])
  BY <1>2, <1>6, <1>7 DEF StageGrows
<1> QED
  BY <1>8 DEF g, s

LEMMA GrowsOn ==
  ASSUME NEW s, NEW t, NEW u, StageGrows(s, t), StageGrows(t, u)
  PROVE  StageGrows(s, u)
  BY DEF StageGrows

\* What is true of each stage of the plan is true of its workflow.
LEMMA StagesGrow ==
  ASSUME NEW f, NEW g, f.status # "absent", g.status # "absent",
         f.status \notin EndedFlow,
         \A i \in Steps : StageGrows(f.stages[i], g.stages[i])
  PROVE  FlowGrows(f, g)
<1>1. BoundSteps(f) \subseteq BoundSteps(g)
  BY DEF BoundSteps, StageGrows
<1>2. \A i \in Steps : Opened(f, i) => Opened(g, i)
  BY DEF Opened, StageGrows
<1>3. Resumable(g) \subseteq Resumable(f)
  BY DEF Resumable, StageGrows, Waiting
<1> QED
  BY <1>1, <1>2, <1>3 DEF FlowGrows

\* Any operation on the plan's workflow.
LEMMA PlanGrows ==
  ASSUME WorkflowInv, SoundInv, WorkflowStep(Plan)
  PROVE  FlowGrows(flow[Plan], flow'[Plan])
<1> DEFINE f == flow[Plan]
           d == decision[Plan]
<1>1. /\ Plan \in Workflows /\ DOMAIN flow = Workflows /\ f \in FlowType(Plan)
      /\ d \in [Positions(Plan) -> Decisions] /\ task \in [Tasks -> TaskType]
      /\ Sound(Plan, f, d)
  BY PlanAssumptions, InvAt DEF SoundInv, FlowInv
<1>2. CASE f.status \in EndedFlow
  BY <1>1, <1>2, StepAfterEnd DEF FlowGrows, Alive
<1>3. CASE f.status = "absent"
  <2> DEFINE stage(i) == Unbound(IF i = 1 THEN "ready" ELSE "pending")
  <2>1. flow' = [flow EXCEPT ![Plan] =
          [status |-> "active", stages |-> [i \in Positions(Plan) |-> stage(i)]]]
    BY <1>3 DEF WorkflowStep, CreateWorkflow, RefreshWorkflow, CancelWorkflow, BindTask,
                RecordApproval, Live
  <2>2. \A i \in Steps : flow'[Plan].stages[i] = stage(i)
    BY <1>1, <2>1 DEF Steps
  <2>3. \A i \in Steps : f.stages[i] = Unbound("pending")
    BY <1>1, <1>3 DEF Sound, Steps
  <2>4. BoundSteps(f) = {} /\ Resumable(f) = Steps
    BY <2>3 DEF BoundSteps, Resumable, Unbound
  <2> QED
    BY <1>3, <2>4 DEF FlowGrows, EndedFlow, Resumable
<1>4. CASE f.status \in {"active", "blocked"}
  <2>1. /\ f.status # "absent" /\ f.status \notin EndedFlow /\ f.status # "cancelled"
        /\ Orderly(Plan, f, d)
    BY <1>1, <1>4 DEF EndedFlow, Sound
  <2>2. Steps = Positions(Plan)
    BY DEF Steps
  <2>3. ASSUME NEW g \in FlowType(Plan), g.status # "cancelled", Orderly(Plan, g, d),
               Decisive(Plan, g, d), \A i \in Steps : StageGrows(f.stages[i], g.stages[i]),
               flow'[Plan] = Refreshed(Plan, g, d)
        PROVE  FlowGrows(f, flow'[Plan])
    <3>1. Refreshed(Plan, g, d).status # "absent"
      BY <1>1, <2>3, RefreshSound
    <3>2. \A i \in Steps : StageGrows(g.stages[i], Refreshed(Plan, g, d).stages[i])
      BY <1>1, <2>2, <2>3, RefreshGrows
    <3>3. \A i \in Steps : StageGrows(f.stages[i], flow'[Plan].stages[i])
      BY <2>3, <3>2, GrowsOn
    <3> QED
      BY <2>1, <2>3, <3>1, <3>3, StagesGrow
  <2>4. CASE flow' = [flow EXCEPT ![Plan] = Refreshed(Plan, f, d)]
    <3>1. flow'[Plan] = Refreshed(Plan, f, d) /\ Decisive(Plan, f, d)
      BY <1>1, <2>4 DEF Sound
    <3>2. \A i \in Steps : StageGrows(f.stages[i], f.stages[i])
      BY DEF StageGrows
    <3> QED
      BY <1>1, <2>1, <2>3, <3>1, <3>2
  <2>5. CASE CancelWorkflow(Plan)
    <3> DEFINE s(i) == f.stages[i]
               stage(i) == IF s(i).status \in {"completed", "failed", "cancelled"}
                             THEN s(i) ELSE [s(i) EXCEPT !.status = "cancelled"]
    <3>1. /\ flow'[Plan].status = "cancelled"
          /\ \A i \in Steps : flow'[Plan].stages[i] = stage(i)
      BY <1>1, <2>2, <2>5 DEF CancelWorkflow
    <3>2. \A i \in Steps : s(i) \in StageType
      BY <1>1, <2>2 DEF FlowType
    <3>3. \A i \in Steps : /\ stage(i).task = s(i).task
                           /\ stage(i).status \in {"completed", "failed", "cancelled"}
      BY <3>2 DEF StageType
    <3> HIDE DEF stage, s
    <3>4. \A i \in Steps : stage(i) \notin Waiting
      BY <3>3 DEF Waiting, Unbound
    <3>5. BoundSteps(f) \subseteq BoundSteps(flow'[Plan])
      BY <3>1, <3>3 DEF BoundSteps, s
    <3>6. Resumable(flow'[Plan]) = {}
      BY <3>1, <3>4 DEF Resumable, Waiting
    <3> QED
      BY <2>1, <3>1, <3>5, <3>6 DEF FlowGrows, Alive
  <2>6. ASSUME NEW i \in Positions(Plan), NEW t \in Tasks, Live(Plan),
               Bindable(Plan, i, t),
               flow' = [flow EXCEPT ![Plan] = Refreshed(Plan, Bound(Plan, i, t), d)]
        PROVE  FlowGrows(f, flow'[Plan])
    <3> DEFINE b == Bound(Plan, i, t)
    <3>1. /\ b \in FlowType(Plan) /\ b.status # "cancelled"
          /\ \A j \in Positions(Plan) \ {i} : b.stages[j] = f.stages[j]
          /\ Orderly(Plan, b, d) /\ Decisive(Plan, b, d)
          /\ b.stages[i].status \notin {"pending", "ready"}
      BY <1>1, <2>6, BoundStage
    <3>2. flow'[Plan] = Refreshed(Plan, b, d)
      BY <1>1, <2>6
    <3> HIDE DEF b
    <3>3. f.stages[i] = Unbound("ready")
      BY <2>6 DEF Bindable
    <3>4. b.stages[i].task # NoTask
      BY <3>1 DEF Orderly
    <3>5. \A j \in Steps : StageGrows(f.stages[j], b.stages[j])
      BY <2>2, <3>1, <3>3, <3>4 DEF StageGrows, Waiting
    <3> QED
      BY <2>3, <3>1, <3>2, <3>5
  <2>7. ASSUME NEW i \in Positions(Plan), NEW e \in {"approved", "rejected"},
               d[i] = "none",
               Refreshed(Plan, f, d).stages[i].status = "waiting_approval",
               decision' = [decision EXCEPT ![Plan][i] = e],
               flow' = [flow EXCEPT ![Plan] =
                          Refreshed(Plan, Settled(Plan, i, e), decision'[Plan])]
        PROVE  FlowGrows(f, flow'[Plan])
    <3> DEFINE once == Refreshed(Plan, f, d)
               h == Settled(Plan, i, e)
               d2 == decision'[Plan]
    <3>1. /\ d2 \in [Positions(Plan) -> Decisions]
          /\ h \in FlowType(Plan) /\ h.status # "cancelled"
          /\ h.stages[i].status = Decided(e)
          /\ \A j \in Positions(Plan) : j # i => h.stages[j] = once.stages[j]
          /\ Orderly(Plan, h, d2) /\ Decisive(Plan, h, d2)
      <4>1. Plan \in Workflows
        BY <1>1
      <4>2. h = Settled(Plan, i, e) /\ d2 = decision'[Plan] /\ once = Refreshed(Plan, f, d)
        OBVIOUS
      <4> HIDE DEF h, d2, once
      <4> QED
        BY <2>7, <4>1, <4>2, SettledStage
    <3>2. flow'[Plan] = Refreshed(Plan, h, d2)
      BY <1>1, <2>7
    <3>3. \A j \in Steps : StageGrows(f.stages[j], once.stages[j])
      BY <1>1, <2>1, <2>2, RefreshGrows
    <3>4. once.stages[i].status = "waiting_approval" /\ Decided(e) \notin {"pending", "ready"}
      BY <2>7 DEF Decided
    <3> HIDE DEF once, h, d2
    <3>5. h.stages[i].task # NoTask
      BY <3>1, <3>4 DEF Orderly
    <3>6. StageGrows(once.stages[i], h.stages[i])
      BY <3>5 DEF StageGrows, Waiting, Unbound
    <3>7. \A j \in Steps : StageGrows(once.stages[j], h.stages[j])
      BY <2>2, <3>1, <3>6 DEF StageGrows
    <3>8. \A j \in Steps : StageGrows(f.stages[j], h.stages[j])
      BY <3>3, <3>7, GrowsOn
    <3>9. \A j \in Steps : StageGrows(h.stages[j], Refreshed(Plan, h, d2).stages[j])
      BY <1>1, <2>2, <3>1, RefreshGrows
    <3>10. \A j \in Steps : StageGrows(f.stages[j], flow'[Plan].stages[j])
      BY <3>2, <3>8, <3>9, GrowsOn
    <3>11. flow'[Plan].status # "absent"
      BY <1>1, <3>1, <3>2, RefreshSound
    <3> QED
      BY <2>1, <3>10, <3>11, StagesGrow
  <2> QED
    BY <1>4, <2>4, <2>5, <2>6, <2>7
       DEF WorkflowStep, CreateWorkflow, RefreshWorkflow, BindTask, RecordApproval,
           Bound, Settled, Steps
<1> QED
  BY <1>1, <1>2, <1>3, <1>4 DEF FlowType, FlowStatuses, EndedFlow

(***************************************************************************)
(* What the other calls keep                                               *)
(***************************************************************************)

\* The stages that have a task are counted.
LEMMA CountBound ==
  ASSUME NEW f, NEW i
  PROVE  /\ IsFiniteSet(BoundSteps(f)) /\ Cardinality(BoundSteps(f)) \in Nat
         /\ IsFiniteSet(BoundSteps(f) \ {i}) /\ Cardinality(BoundSteps(f) \ {i}) \in Nat
         /\ i \notin BoundSteps(f) => BoundSteps(f) \ {i} = BoundSteps(f)
         /\ i \in BoundSteps(f) =>
              Cardinality(BoundSteps(f)) = Cardinality(BoundSteps(f) \ {i}) + 1
         /\ Cardinality(BoundSteps(f) \ {i}) <= Cardinality(BoundSteps(f))
<1>1. IsFiniteSet(Steps)
  <2>1. Len(Specs[Plan]) \in Nat
    BY PlanAssumptions, WorkflowAssumptions
  <2> QED
    BY <2>1, FS_Interval DEF Steps, Positions
<1>2. BoundSteps(f) \subseteq Steps
  BY DEF BoundSteps
<1>3. IsFiniteSet(BoundSteps(f))
  BY <1>1, <1>2, FS_Subset
<1>4. IsFiniteSet(BoundSteps(f) \ {i})
  BY <1>3, FS_Subset
<1>5. Cardinality(BoundSteps(f)) \in Nat /\ Cardinality(BoundSteps(f) \ {i}) \in Nat
  BY <1>3, <1>4, FS_CardinalityType
<1>6. i \in BoundSteps(f) =>
        Cardinality(BoundSteps(f) \ {i}) = Cardinality(BoundSteps(f)) - 1
  BY <1>3, FS_RemoveElement
<1>7. i \notin BoundSteps(f) => BoundSteps(f) \ {i} = BoundSteps(f)
  OBVIOUS
<1>8. i \in BoundSteps(f) =>
        /\ Cardinality(BoundSteps(f)) = Cardinality(BoundSteps(f) \ {i}) + 1
        /\ Cardinality(BoundSteps(f) \ {i}) <= Cardinality(BoundSteps(f))
  BY <1>5, <1>6
<1>9. i \notin BoundSteps(f) =>
        Cardinality(BoundSteps(f) \ {i}) <= Cardinality(BoundSteps(f))
  BY <1>5, <1>7
<1> QED
  BY <1>3, <1>4, <1>5, <1>7, <1>8, <1>9

LEMMA MoreBound ==
  ASSUME NEW f, NEW g, BoundSteps(f) \subseteq BoundSteps(g), NEW i
  PROVE  /\ Cardinality(BoundSteps(f)) <= Cardinality(BoundSteps(g))
         /\ Cardinality(BoundSteps(f) \ {i}) <= Cardinality(BoundSteps(g) \ {i})
<1>1. BoundSteps(f) \ {i} \subseteq BoundSteps(g) \ {i}
  OBVIOUS
<1>2. IsFiniteSet(BoundSteps(g)) /\ IsFiniteSet(BoundSteps(g) \ {i})
  BY CountBound
<1> QED
  BY <1>1, <1>2, FS_Subset

LEMMA GrowsSame == \A f : FlowGrows(f, f)
  BY DEF FlowGrows

\* What a call relies on is not taken from it by the others.
LEMMA CallStays ==
  ASSUME NEW r \in ThreadType, NEW f \in FlowType(Plan), NEW g,
         CallSound(r, f), FlowGrows(f, g)
  PROVE  CallSound(r, g)
<1>1. f.status \in {"absent", "active", "blocked"} \cup EndedFlow
  BY DEF FlowType, FlowStatuses
<1>2. r.turn \in Nat
  BY DEF ThreadType
<1>3. r.place # "idle" => g.status # "absent"
  BY DEF CallSound, FlowGrows
<1>4. BoundSteps(f) \subseteq BoundSteps(g)
  BY DEF FlowGrows
<1>5. r.turn <= 1 + Cardinality(BoundSteps(g))
  <2>1. r.turn <= 1 + Cardinality(BoundSteps(f))
    BY DEF CallSound
  <2>2. Cardinality(BoundSteps(f)) <= Cardinality(BoundSteps(g))
    BY <1>4, MoreBound
  <2>3. Cardinality(BoundSteps(f)) \in Nat /\ Cardinality(BoundSteps(g)) \in Nat
    BY CountBound
  <2> QED
    BY <1>2, <2>1, <2>2, <2>3
<1>6. r.place # "idle" /\ Alive(g) => Alive(f) /\ f.status # "absent"
  BY <1>1 DEF FlowGrows, CallSound, Alive, EndedFlow
<1>7. ASSUME r.place \in Dispatching
      PROVE  /\ r.step \in Steps
             /\ Alive(g) => Opened(g, r.step)
             /\ r.turn <= 1 + Cardinality(BoundSteps(g) \ {r.step})
  <2>1. /\ r.step \in Steps /\ Alive(f) => Opened(f, r.step)
        /\ r.turn <= 1 + Cardinality(BoundSteps(f) \ {r.step})
    BY <1>7 DEF CallSound
  <2>2. r.place # "idle"
    BY <1>7 DEF Dispatching
  <2>3. r.step \in Steps
    BY <1>7 DEF CallSound
  <2>4. Alive(g) => Opened(g, r.step)
    BY <1>6, <2>1, <2>2, <2>3 DEF FlowGrows
  <2>5. Cardinality(BoundSteps(f) \ {r.step}) <= Cardinality(BoundSteps(g) \ {r.step})
    BY <1>4, MoreBound
  <2>6. /\ Cardinality(BoundSteps(f) \ {r.step}) \in Nat
        /\ Cardinality(BoundSteps(g) \ {r.step}) \in Nat
    BY CountBound
  <2> QED
    BY <1>2, <2>1, <2>3, <2>4, <2>5, <2>6
<1>8. ASSUME r.place = "set"
      PROVE  /\ r.goal.status # "absent"
             /\ r.goal.status \in EndedExec => g.status = r.goal.status
  BY <1>8 DEF CallSound, FlowGrows, EndedExec, EndedFlow
<1>9. r.place = "regive" /\ Alive(g) => Resumable(g) \subseteq r.give
  BY <1>6 DEF CallSound, FlowGrows
<1> QED
  BY <1>3, <1>5, <1>7, <1>8, <1>9 DEF CallSound

LEMMA PlanFacts ==
  ASSUME PlanInv
  PROVE  /\ Plan \in Workflows /\ flow[Plan] \in FlowType(Plan)
         /\ DOMAIN flow = Workflows /\ task \in [Tasks -> TaskType]
         /\ decision[Plan] \in [Positions(Plan) -> Decisions]
         /\ Sound(Plan, flow[Plan], decision[Plan])
         /\ flow[Plan].status \in {"absent", "active", "blocked"} \cup EndedFlow
         /\ WorkflowInv /\ SoundInv /\ OpenInv
         /\ exec \in ExecType /\ result \in {"none"} \cup ExecStatuses
         /\ materials \in [Processes -> SUBSET Steps]
         /\ thread \in [Threads -> ThreadType] /\ calls \in 0..MaxCalls
         /\ \A c \in Threads : thread[c] \in ThreadType /\ CallSound(thread[c], flow[Plan])
<1>1. WorkflowInv /\ SoundInv /\ OpenInv /\ ExecutionTypeOK /\ CallsSound
  BY DEF PlanInv
<1>2. Plan \in Workflows /\ flow[Plan] \in FlowType(Plan) /\ FlowInv
  BY <1>1, PlanAssumptions, InvAt
<1> QED
  BY <1>1, <1>2, InvAt DEF ExecutionTypeOK, CallsSound, SoundInv, FlowInv, FlowType,
     FlowStatuses

\* One call moves, the others stay.
LEMMA CallMoves ==
  ASSUME PlanInv, FlowGrows(flow[Plan], flow'[Plan]), NEW c \in Threads,
         NEW r \in ThreadType, thread' = [thread EXCEPT ![c] = r],
         CallSound(r, flow'[Plan])
  PROVE  thread' \in [Threads -> ThreadType] /\ CallsSound'
<1>1. thread' \in [Threads -> ThreadType]
  BY PlanFacts
<1>2. ASSUME NEW x \in Threads PROVE CallSound(thread'[x], flow'[Plan])
  <2>1. CASE x = c
    BY <2>1, PlanFacts
  <2>2. CASE x # c
    <3>1. thread'[x] = thread[x]
      BY <2>2, PlanFacts
    <3> QED
      BY <3>1, PlanFacts, CallStays
  <2> QED
    BY <2>1, <2>2
<1> QED
  BY <1>1, <1>2 DEF CallsSound, CallSound, BoundSteps, Opened, Alive, Resumable

\* A transaction on the plan's workflow, a task's step, or neither.
LEMMA FlowMoves ==
  ASSUME PlanInv,
         \/ WorkflowStep(Plan)
         \/ \E t \in Tasks : TaskStep(t)
         \/ UNCHANGED workflowVars
  PROVE  /\ [WorkflowNext]_workflowVars
         /\ WorkflowInv' /\ SoundInv' /\ OpenInv'
         /\ FlowGrows(flow[Plan], flow'[Plan])
<1>1. [WorkflowNext]_workflowVars
  BY PlanAssumptions DEF WorkflowNext
<1>2. WorkflowInv' /\ SoundInv' /\ OpenInv'
  BY <1>1, PlanFacts, WorkflowNextInv, SoundAlways, OpenAlways
<1>3. FlowGrows(flow[Plan], flow'[Plan])
  <2>1. CASE WorkflowStep(Plan)
    BY <2>1, PlanFacts, PlanGrows
  <2>2. CASE flow' = flow
    BY <2>2, GrowsSame
  <2>3. ASSUME NEW t \in Tasks, TaskStep(t) PROVE flow' = flow
    BY <2>3 DEF TaskStep, TaskStarts, TaskEnds
  <2> QED
    BY <2>1, <2>2, <2>3 DEF workflowVars
<1> QED
  BY <1>1, <1>2, <1>3

\* No task of the plan is made.
NoneStarts ==
  \A i \in Steps : task[StepTask[i]].status = "absent"
                     => task'[StepTask[i]].status = "absent"

LEMMA Unstarted ==
  ASSUME PlanInv, FlowGrows(flow[Plan], flow'[Plan]), NoneStarts
  PROVE  NoStrayTask'
<1> SUFFICES ASSUME Alive(flow'[Plan]), NEW i \in Steps,
                    task'[StepTask[i]].status # "absent"
             PROVE  Opened(flow'[Plan], i)
  BY DEF NoStrayTask, Live, Alive, Opened
<1>1. task[StepTask[i]].status # "absent"
  BY DEF NoneStarts
<1>2. flow[Plan].status # "absent"
  BY <1>1 DEF PlanInv, MadeTogether
<1>3. Alive(flow[Plan])
  BY <1>2, PlanFacts DEF FlowGrows, Alive, EndedFlow
<1>4. Opened(flow[Plan], i)
  BY <1>1, <1>3 DEF PlanInv, NoStrayTask, Live, Alive, Opened
<1> QED
  BY <1>2, <1>4 DEF FlowGrows

LEMMA EndStays ==
  ASSUME PlanInv, FlowGrows(flow[Plan], flow'[Plan]), exec' = exec
  PROVE  EndMatchesWorkflow'
  BY DEF PlanInv, EndMatchesWorkflow, FlowGrows, EndedExec, EndedFlow

LEMMA MaterialsStay ==
  ASSUME PlanInv, FlowGrows(flow[Plan], flow'[Plan]), materials' = materials
  PROVE  MaterialsSuffice'
<1> SUFFICES ASSUME Alive(flow'[Plan]), NEW p \in Processes, materials[p] # {}
             PROVE  Resumable(flow'[Plan]) \subseteq materials[p]
  BY DEF MaterialsSuffice, Live, Alive, Resumable
<1>1. flow[Plan].status # "absent"
  BY DEF PlanInv, MadeTogether
<1>2. Alive(flow[Plan])
  BY <1>1, PlanFacts DEF FlowGrows, Alive, EndedFlow
<1>3. Resumable(flow[Plan]) \subseteq materials[p]
  BY <1>2 DEF PlanInv, MaterialsSuffice, Live, Alive
<1> QED
  BY <1>3 DEF FlowGrows

LEMMA MadeStays ==
  ASSUME PlanInv, FlowGrows(flow[Plan], flow'[Plan]), exec' = exec,
         flow[Plan].status # "absent" \/ flow' = flow, NoneStarts,
         materials' = materials \/ flow[Plan].status # "absent"
  PROVE  MadeTogether'
<1>1. CASE flow[Plan].status # "absent"
  BY <1>1 DEF PlanInv, MadeTogether, FlowGrows
<1>2. CASE flow[Plan].status = "absent"
  BY <1>2 DEF PlanInv, MadeTogether, NoneStarts
<1> QED
  BY <1>1, <1>2

\* A step of a call that leaves execution, prompts and the plan's tasks alone.
LEMMA CallStands ==
  ASSUME PlanInv, NEW c \in Threads, NEW r \in ThreadType,
         thread' = [thread EXCEPT ![c] = r], CallSound(r, flow'[Plan]),
         \/ WorkflowStep(Plan) /\ flow[Plan].status # "absent" /\ task' = task
         \/ UNCHANGED workflowVars,
         exec' = exec, materials' = materials,
         result' \in {"none"} \cup ExecStatuses, calls' \in 0..MaxCalls
  PROVE  PlanInv'
<1>1. WorkflowInv' /\ SoundInv' /\ OpenInv' /\ FlowGrows(flow[Plan], flow'[Plan])
  BY FlowMoves
<1>2. NoneStarts /\ (flow[Plan].status # "absent" \/ flow' = flow)
  BY DEF NoneStarts, workflowVars
<1>3. /\ NoStrayTask' /\ EndMatchesWorkflow' /\ MaterialsSuffice' /\ MadeTogether'
  BY <1>1, <1>2, Unstarted, EndStays, MaterialsStay, MadeStays
<1>4. thread' \in [Threads -> ThreadType] /\ CallsSound'
  BY <1>1, CallMoves
<1>5. ExecutionTypeOK'
  BY <1>4, PlanFacts DEF ExecutionTypeOK
<1> QED
  BY <1>1, <1>3, <1>4, <1>5 DEF PlanInv

(***************************************************************************)
(* The records of a call                                                   *)
(***************************************************************************)

LEMMA GoesTo ==
  ASSUME NEW r \in ThreadType, NEW p \in Places
  PROVE  LET q == [r EXCEPT !.place = p]
         IN  /\ q \in ThreadType /\ q.place = p /\ q.turn = r.turn
             /\ q.step = r.step /\ q.goal = r.goal /\ q.give = r.give
  BY Zenon DEF ThreadType

LEMMA GoesToSet ==
  ASSUME NEW r \in ThreadType, NEW goal \in ExecType
  PROVE  LET q == [r EXCEPT !.place = "set", !.goal = goal]
         IN  q \in ThreadType /\ q.place = "set" /\ q.turn = r.turn /\ q.goal = goal
<1>1. "set" \in Places
  BY DEF Places
<1> QED
  BY <1>1, Zenon DEF ThreadType

LEMMA ToType ==
  ASSUME NEW s \in ExecStatuses, NEW x \in Reasons
  PROVE  To(s, x) \in ExecType /\ To(s, x).status = s
  BY DEF To, ExecType

LEMMA IdleType == Idle \in ThreadType /\ \A f : CallSound(Idle, f)
<1>1. To("absent", "none") \in ExecType /\ "absent" \in ExecStatuses
  BY ToType DEF ExecStatuses, Reasons
<1>2. Idle \in ThreadType
  BY <1>1 DEF Idle, ThreadType, Places
<1>3. Idle.place = "idle" /\ Idle.turn = 0
  BY DEF Idle
<1>4. ASSUME NEW f PROVE CallSound(Idle, f)
  <2>1. 0 <= 1 + Cardinality(BoundSteps(f))
    <3>1. Cardinality(BoundSteps(f)) \in Nat
      BY CountBound, Zenon
    <3> QED
      BY <3>1
  <2> QED
    BY <1>3, <2>1 DEF CallSound, Dispatching
<1> QED
  BY <1>2, <1>4

\* At places where nothing else is relied on.
LEMMA PlainSound ==
  ASSUME NEW r, NEW f, f.status # "absent",
         r.turn <= 1 + Cardinality(BoundSteps(f)),
         r.place \notin Dispatching \cup {"set", "regive"}
  PROVE  CallSound(r, f)
  BY DEF CallSound

LEMMA SetSound ==
  ASSUME NEW r, NEW f, f.status # "absent", r.place = "set",
         r.turn <= 1 + Cardinality(BoundSteps(f)), r.goal.status # "absent",
         r.goal.status \in EndedExec => f.status = r.goal.status
  PROVE  CallSound(r, f)
  BY DEF CallSound, Dispatching

\* What is known of a call in progress.
LEMMA CallFacts ==
  ASSUME PlanInv, NEW c \in Threads
  PROVE  /\ thread[c] \in ThreadType /\ thread[c].turn \in Nat
         /\ thread[c].turn <= 1 + Cardinality(BoundSteps(flow[Plan]))
         /\ thread[c].place # "idle" => flow[Plan].status # "absent"
         /\ thread[c].place \in Dispatching =>
              /\ Step(c) \in Steps /\ Its(c) \in Tasks
              /\ Alive(flow[Plan]) => Opened(flow[Plan], Step(c))
              /\ thread[c].turn <= 1 + Cardinality(BoundSteps(flow[Plan]) \ {Step(c)})
         /\ thread[c].place = "set" =>
              /\ thread[c].goal.status # "absent"
              /\ thread[c].goal.status \in EndedExec
                   => flow[Plan].status = thread[c].goal.status
         /\ thread[c].place = "regive" /\ Alive(flow[Plan])
              => Resumable(flow[Plan]) \subseteq thread[c].give
<1>1. thread[c] \in ThreadType /\ CallSound(thread[c], flow[Plan])
  BY PlanFacts
<1>2. thread[c].turn \in Nat
  BY <1>1 DEF ThreadType
<1>3. Step(c) \in Steps => Its(c) \in Tasks
  BY PlanAssumptions DEF Its
<1> QED
  BY <1>1, <1>2, <1>3 DEF CallSound, Step

(***************************************************************************)
(* One lemma per step of a call                                            *)
(***************************************************************************)

\* A call ends, with or without its answer.
LEMMA ReturnStands ==
  ASSUME PlanInv, NEW c \in Threads, Return(c),
         \/ WorkflowStep(Plan) /\ flow[Plan].status # "absent" /\ task' = task
         \/ UNCHANGED workflowVars,
         exec' = exec, materials' = materials,
         result' \in {"none"} \cup ExecStatuses, calls' = calls
  PROVE  PlanInv'
<1>1. thread' = [thread EXCEPT ![c] = Idle]
  BY DEF Return
<1>2. calls' \in 0..MaxCalls
  BY PlanFacts
<1> QED
  BY <1>1, <1>2, IdleType, CallStands

\* A call goes to a place where nothing more is relied on.
LEMMA GoStands ==
  ASSUME PlanInv, NEW c \in Threads, NEW p \in Places, Go(c, p), ~At(c, "idle"),
         p \notin Dispatching \cup {"set", "regive"},
         \/ WorkflowStep(Plan) /\ flow[Plan].status # "absent" /\ task' = task
         \/ UNCHANGED workflowVars,
         exec' = exec, materials' = materials,
         result' \in {"none"} \cup ExecStatuses, calls' = calls
  PROVE  PlanInv'
<1> DEFINE q == [thread[c] EXCEPT !.place = p]
<1>1. thread' = [thread EXCEPT ![c] = q]
  BY DEF Go
<1>2. q \in ThreadType /\ q.place = p /\ q.turn = thread[c].turn
  BY CallFacts, GoesTo, Zenon
<1> HIDE DEF q
<1>3. FlowGrows(flow[Plan], flow'[Plan])
  BY FlowMoves
<1>4. flow'[Plan].status # "absent"
  BY <1>3, CallFacts DEF At, FlowGrows
<1>5. q.turn <= 1 + Cardinality(BoundSteps(flow'[Plan]))
  <2>1. /\ Cardinality(BoundSteps(flow[Plan])) <= Cardinality(BoundSteps(flow'[Plan]))
        /\ Cardinality(BoundSteps(flow[Plan])) \in Nat
        /\ Cardinality(BoundSteps(flow'[Plan])) \in Nat
    BY <1>3, MoreBound, CountBound DEF FlowGrows
  <2>2. thread[c].turn <= 1 + Cardinality(BoundSteps(flow[Plan])) /\ thread[c].turn \in Nat
    BY CallFacts
  <2> QED
    BY <1>2, <2>1, <2>2
<1>6. CallSound(q, flow'[Plan])
  BY <1>2, <1>4, <1>5, PlainSound
<1>7. calls' \in 0..MaxCalls
  BY PlanFacts
<1> QED
  BY <1>1, <1>2, <1>6, <1>7, CallStands

\* A call is about to set a status: it is one that an execution may have, and
\* says of the workflow what is so.
LEMMA SetToStands ==
  ASSUME PlanInv, NEW c \in Threads, NEW goal \in ExecType, SetTo(c, goal),
         ~At(c, "idle"), goal.status # "absent",
         goal.status \in EndedExec => flow'[Plan].status = goal.status,
         \/ WorkflowStep(Plan) /\ flow[Plan].status # "absent" /\ task' = task
         \/ UNCHANGED workflowVars,
         exec' = exec, materials' = materials, result' = result, calls' = calls
  PROVE  PlanInv'
<1> DEFINE q == [thread[c] EXCEPT !.place = "set", !.goal = goal]
<1>1. thread' = [thread EXCEPT ![c] = q]
  BY DEF SetTo
<1>2. q \in ThreadType /\ q.place = "set" /\ q.turn = thread[c].turn /\ q.goal = goal
  BY CallFacts, GoesToSet, Zenon
<1> HIDE DEF q
<1>3. FlowGrows(flow[Plan], flow'[Plan])
  BY FlowMoves
<1>4. flow'[Plan].status # "absent"
  BY <1>3, CallFacts DEF At, FlowGrows
<1>5. q.turn <= 1 + Cardinality(BoundSteps(flow'[Plan]))
  <2>1. /\ Cardinality(BoundSteps(flow[Plan])) <= Cardinality(BoundSteps(flow'[Plan]))
        /\ Cardinality(BoundSteps(flow[Plan])) \in Nat
        /\ Cardinality(BoundSteps(flow'[Plan])) \in Nat
    BY <1>3, MoreBound, CountBound DEF FlowGrows
  <2>2. thread[c].turn <= 1 + Cardinality(BoundSteps(flow[Plan])) /\ thread[c].turn \in Nat
    BY CallFacts
  <2> QED
    BY <1>2, <2>1, <2>2
<1>6. CallSound(q, flow'[Plan])
  BY <1>2, <1>4, <1>5, SetSound
<1>7. calls' \in 0..MaxCalls /\ result' \in {"none"} \cup ExecStatuses
  BY PlanFacts
<1> QED
  BY <1>1, <1>2, <1>6, <1>7, CallStands

\* A call begins.
LEMMA CalledStands ==
  ASSUME PlanInv, NEW c \in Threads, NEW p \in Places, Called(c, p),
         p \notin Dispatching \cup {"set", "regive"}, flow'[Plan].status # "absent"
  PROVE  LET q == [thread[c] EXCEPT !.place = p, !.turn = 1]
         IN  /\ thread' = [thread EXCEPT ![c] = q] /\ q \in ThreadType
             /\ CallSound(q, flow'[Plan]) /\ calls' \in 0..MaxCalls
<1> DEFINE q == [thread[c] EXCEPT !.place = p, !.turn = 1]
<1>1. thread' = [thread EXCEPT ![c] = q]
  BY DEF Called
<1>2. q \in ThreadType /\ q.place = p /\ q.turn = 1
  <2>1. thread[c] \in ThreadType /\ 1 \in Nat
    BY CallFacts
  <2> QED
    BY <2>1, Zenon DEF ThreadType
<1> HIDE DEF q
<1>3. Cardinality(BoundSteps(flow'[Plan])) \in Nat
  BY CountBound, Zenon
<1>4. CallSound(q, flow'[Plan])
  BY <1>2, <1>3, PlainSound
<1>5. calls' \in 0..MaxCalls
  BY PlanFacts, PlanAssumptions DEF Called
<1> QED
  BY <1>1, <1>2, <1>4, <1>5 DEF q

LEMMA CallPumpStands ==
  ASSUME PlanInv, NEW c \in Threads, CallPump(c)
  PROVE  PlanInv'
<1>1. /\ exec.status # "absent" /\ Called(c, "read")
      /\ UNCHANGED <<workflowVars, exec, result, materials>>
  BY DEF CallPump
<1>2. flow'[Plan].status # "absent"
  BY <1>1 DEF workflowVars, PlanInv, MadeTogether
<1>3. result' \in {"none"} \cup ExecStatuses
  BY <1>1, PlanFacts
<1>4. "read" \in Places /\ "read" \notin Dispatching \cup {"set", "regive"}
  BY DEF Places, Dispatching
<1> QED
  BY <1>1, <1>2, <1>3, <1>4, CalledStands, CallStands

LEMMA CallResumeStands ==
  ASSUME PlanInv, NEW c \in Threads, CallResume(c)
  PROVE  PlanInv'
<1>1. /\ exec = To("needs_review", "input_required") /\ Called(c, "resume")
      /\ UNCHANGED <<workflowVars, exec, result, materials>>
  BY DEF CallResume
<1>2. flow'[Plan].status # "absent"
  BY <1>1 DEF workflowVars, PlanInv, MadeTogether, To
<1>3. result' \in {"none"} \cup ExecStatuses
  BY <1>1, PlanFacts
<1>4. "resume" \in Places /\ "resume" \notin Dispatching \cup {"set", "regive"}
  BY DEF Places, Dispatching
<1> QED
  BY <1>1, <1>2, <1>3, <1>4, CalledStands, CallStands

LEMMA CallCancelStands ==
  ASSUME PlanInv, NEW c \in Threads, CallCancel(c)
  PROVE  PlanInv'
<1>1. /\ exec.status # "absent" /\ Called(c, "cancel")
      /\ UNCHANGED <<workflowVars, exec, result, materials>>
  BY DEF CallCancel
<1>2. flow'[Plan].status # "absent"
  BY <1>1 DEF workflowVars, PlanInv, MadeTogether
<1>3. result' \in {"none"} \cup ExecStatuses
  BY <1>1, PlanFacts
<1>4. "cancel" \in Places /\ "cancel" \notin Dispatching \cup {"set", "regive"}
  BY DEF Places, Dispatching
<1> QED
  BY <1>1, <1>2, <1>3, <1>4, CalledStands, CallStands

LEMMA CallStartStands ==
  ASSUME PlanInv, NEW c \in Threads, CallStart(c)
  PROVE  PlanInv' /\ (WorkflowStep(Plan) \/ UNCHANGED workflowVars)
<1>1. Called(c, "give") /\ UNCHANGED <<result, materials>>
  BY DEF CallStart
<1>2. "give" \in Places /\ "give" \notin Dispatching \cup {"set", "regive"}
  BY DEF Places, Dispatching
<1>3. CASE exec.status # "absent"
  <2>1. UNCHANGED <<workflowVars, exec>>
    BY <1>3 DEF CallStart
  <2>2. flow'[Plan].status # "absent"
    BY <1>3, <2>1 DEF workflowVars, PlanInv, MadeTogether
  <2>3. result' \in {"none"} \cup ExecStatuses
    BY <1>1, PlanFacts
  <2> QED
    BY <1>1, <1>2, <2>1, <2>2, <2>3, CalledStands, CallStands
<1>4. CASE exec.status = "absent"
  <2>1. CreateWorkflow(Plan) /\ exec' = To("ready", "none")
    BY <1>4 DEF CallStart
  <2>2. WorkflowStep(Plan) /\ task' = task
    BY <2>1 DEF WorkflowStep, CreateWorkflow
  <2>3. WorkflowInv' /\ SoundInv' /\ OpenInv' /\ FlowGrows(flow[Plan], flow'[Plan])
    BY <2>2, FlowMoves
  <2>4. flow'[Plan].status = "active"
    BY <2>1, PlanFacts DEF CreateWorkflow
  <2>5. exec' \in ExecType /\ exec'.status = "ready"
    BY <2>1, ToType DEF ExecStatuses, Reasons
  <2>6. NoStrayTask'
    BY <2>2, <2>3, Unstarted DEF NoneStarts
  <2>7. MaterialsSuffice'
    BY <1>1, <2>3, MaterialsStay
  <2>8. MadeTogether' /\ EndMatchesWorkflow'
    BY <2>4, <2>5 DEF MadeTogether, EndMatchesWorkflow, EndedExec
  <2>9. /\ thread' \in [Threads -> ThreadType] /\ CallsSound'
        /\ calls' \in 0..MaxCalls
    BY <1>1, <1>2, <2>3, <2>4, CalledStands, CallMoves
  <2>10. ExecutionTypeOK'
    BY <1>1, <2>5, <2>9, PlanFacts DEF ExecutionTypeOK
  <2> QED
    BY <2>2, <2>3, <2>6, <2>7, <2>8, <2>9, <2>10 DEF PlanInv
<1> QED
  BY <1>3, <1>4 DEF CallStart

LEMMA ReadStands ==
  ASSUME PlanInv, NEW c \in Threads, ReadExecution(c)
  PROVE  PlanInv'
<1>1. At(c, "read") /\ UNCHANGED <<workflowVars, exec, result, materials, calls>>
  BY DEF ReadExecution
<1>2. ~At(c, "idle")
  BY <1>1 DEF At
<1>3. result' \in {"none"} \cup ExecStatuses
  BY <1>1, PlanFacts
<1>4. ASSUME SetTo(c, To("needs_review", "other")) PROVE PlanInv'
  <2>1. /\ To("needs_review", "other") \in ExecType
        /\ To("needs_review", "other").status = "needs_review"
    BY ToType DEF ExecStatuses, Reasons
  <2> QED
    BY <1>1, <1>2, <1>4, <2>1, SetToStands DEF EndedExec
<1>5. ASSUME Go(c, "refresh") PROVE PlanInv'
  <2>1. "refresh" \in Places /\ "refresh" \notin Dispatching \cup {"set", "regive"}
    BY DEF Places, Dispatching
  <2> QED
    BY <1>1, <1>2, <1>3, <1>5, <2>1, GoStands
<1>6. ASSUME Return(c) PROVE PlanInv'
  BY <1>1, <1>3, <1>6, ReturnStands
<1> QED
  BY <1>4, <1>5, <1>6 DEF ReadExecution

\* The stage that is due is the open one, and has no task.
LEMMA ReadyFacts ==
  ASSUME NEW f \in FlowType(Plan), Ready(f) # 0, NEW k \in Positions(Plan),
         OpenAt(Plan, f, k), task \in [Tasks -> TaskType],
         NEW d \in [Positions(Plan) -> Decisions], Sound(Plan, f, d)
  PROVE  /\ Ready(f) \in Steps /\ f.stages[Ready(f)] = Unbound("ready")
<1> DEFINE open == {i \in Steps : f.stages[i].status # "completed"}
           least(i) == \A j \in open : i <= j
<1>1. /\ Ready(f) = CurrentStage(f) /\ CurrentStage(f) # 0 /\ f.status \notin EndedFlow
      /\ f.stages[CurrentStage(f)].status = "ready"
  BY DEF Ready
<1>2. open # {} /\ CurrentStage(f) = CHOOSE i \in open : least(i)
  BY <1>1 DEF CurrentStage
<1>3. \A j \in Positions(Plan) : j \in Nat /\ (j < k => f.stages[j].status = "completed")
  BY PlanAssumptions, PositionFacts DEF OpenAt, FrontAt
<1>4. k \in open
  BY DEF OpenAt, Open, Steps
<1>5. ASSUME NEW j \in open PROVE k <= j
  <2>1. j \in Positions(Plan) /\ ~(j < k)
    BY <1>3, <1>5 DEF Steps
  <2> QED
    BY <1>3, <2>1
<1>6. least(k)
  BY <1>5
<1> HIDE DEF open, least
<1>7. CurrentStage(f) \in open
  BY <1>2, <1>4, <1>6
<1> DEFINE i == CurrentStage(f)
<1>8. i \in Positions(Plan) /\ i \in Steps
  BY <1>7 DEF open, Steps
<1>9. f.stages[i] \in StageType /\ f.stages[i].status = "ready"
  BY <1>1, <1>8 DEF FlowType
<1>10. f.stages[i].task = NoTask
  <2>1. Orderly(Plan, f, d)
    BY <1>1 DEF Sound, EndedFlow
  <2>2. SUFFICES ASSUME f.stages[i].task # NoTask PROVE FALSE
    OBVIOUS
  <2>3. Judged(Plan, f, d, i) = "ready"
    BY <1>8, <1>9, <2>1, <2>2 DEF Orderly
  <2>4. task[f.stages[i].task] \in TaskType
    BY <1>9, <2>2 DEF StageType
  <2>5. Specs[Plan][i] \in StageSpec /\ d[i] \in Decisions
    BY <1>8, PlanAssumptions, PositionFacts
  <2> QED
    BY <2>3, <2>4, <2>5, JudgedFacts DEF Judged
<1>11. f.stages[i] = Unbound("ready")
  BY <1>9, <1>10 DEF StageType, Unbound
<1> QED
  BY <1>1, <1>8, <1>11

\* What an execution is to show, drawn from its workflow.
LEMMA MirroredFacts ==
  ASSUME NEW f \in FlowType(Plan), f.status # "absent"
  PROVE  /\ Mirrored(f) \in ExecType /\ Mirrored(f).status # "absent"
         /\ Mirrored(f).status \in EndedExec => f.status = Mirrored(f).status
<1> DEFINE i == CurrentStage(f)
<1>1. /\ \A s \in {"completed", "failed", "cancelled", "running", "blocked",
                   "needs_review"}, x \in Reasons :
           To(s, x) \in ExecType /\ To(s, x).status = s
      /\ "none" \in Reasons /\ "other" \in Reasons
  BY ToType DEF ExecStatuses, EndedExec, Reasons
<1>2. CASE f.status = "completed"
  BY <1>1, <1>2 DEF Mirrored
<1>3. CASE f.status \in {"failed", "cancelled"}
  BY <1>1, <1>3 DEF Mirrored
<1>4. CASE f.status \notin {"completed", "failed", "cancelled"}
  <2>1. Mirrored(f) \in {To("needs_review", "other"), To("running", "none"),
                         To("blocked", "other")}
    <3> DEFINE s == f.stages[i].status
    <3>1. Mirrored(f) = IF i = 0 THEN To("needs_review", "other")
                        ELSE CASE s = "running" -> To("running", "none")
                               [] s = "waiting_approval" -> To("blocked", "other")
                               [] OTHER -> To("needs_review", "other")
      BY <1>4 DEF Mirrored
    <3> HIDE DEF i, s
    <3> QED
      BY <3>1
  <2> QED
    BY <1>1, <2>1 DEF EndedExec
<1> QED
  BY <1>2, <1>3, <1>4

\* A refresh of the plan's workflow gives a workflow that is there, and sound.
LEMMA PlanRefreshed ==
  ASSUME PlanInv, RefreshWorkflow(Plan)
  PROVE  /\ WorkflowStep(Plan) /\ task' = task /\ flow[Plan].status # "absent"
         /\ flow'[Plan] \in FlowType(Plan) /\ flow'[Plan].status # "absent"
         /\ Sound(Plan, flow'[Plan], decision[Plan])
<1> DEFINE f == flow[Plan]
           d == decision[Plan]
<1>1. /\ WorkflowStep(Plan) /\ task' = task /\ flow[Plan].status # "absent"
      /\ flow'[Plan] = Refreshed(Plan, f, d)
  BY PlanFacts DEF RefreshWorkflow, WorkflowStep
<1>2. flow'[Plan] \in FlowType(Plan)
  BY <1>1, PlanFacts, RefreshedType
<1>3. CASE f.status = "cancelled"
  <2>1. flow'[Plan] = f
    BY <1>1, <1>3 DEF Refreshed
  <2> QED
    BY <1>1, <1>2, <2>1, PlanFacts
<1>4. CASE f.status # "cancelled"
  <2>1. Orderly(Plan, f, d) /\ Decisive(Plan, f, d)
    BY <1>4, PlanFacts DEF Sound
  <2> QED
    BY <1>1, <1>2, <1>4, <2>1, PlanFacts, RefreshSound
<1> QED
  BY <1>3, <1>4

LEMMA RefreshFlowStands ==
  ASSUME PlanInv, NEW c \in Threads, RefreshFlow(c)
  PROVE  PlanInv'
<1> DEFINE g == flow'[Plan]
<1>1. /\ At(c, "refresh") /\ RefreshWorkflow(Plan)
      /\ UNCHANGED <<exec, result, materials, calls>>
  BY DEF RefreshFlow
<1>2. /\ WorkflowStep(Plan) /\ task' = task /\ flow[Plan].status # "absent"
      /\ g \in FlowType(Plan) /\ g.status # "absent"
      /\ Sound(Plan, g, decision[Plan])
  BY <1>1, PlanRefreshed
<1>3. ~At(c, "idle")
  BY <1>1 DEF At
<1>4. CASE Ready(g) = 0
  <2>1. SetTo(c, Mirrored(g))
    BY <1>4 DEF RefreshFlow
  <2>2. /\ Mirrored(g) \in ExecType /\ Mirrored(g).status # "absent"
        /\ Mirrored(g).status \in EndedExec => g.status = Mirrored(g).status
    BY <1>2, MirroredFacts
  <2> QED
    BY <1>1, <1>2, <1>3, <2>1, <2>2, SetToStands
<1>5. CASE Ready(g) # 0
  <2> DEFINE q == [thread[c] EXCEPT !.place = "lookup", !.step = Ready(g)]
  <2>1. thread' = [thread EXCEPT ![c] = q]
    BY <1>5 DEF RefreshFlow
  <2>2. PICK k \in Positions(Plan) : OpenAt(Plan, g, k)
    <3>1. OpenInv'
      BY <1>2, FlowMoves
    <3>2. g.status \in {"active", "blocked"}
      BY <1>2, <1>5 DEF Ready, FlowType, FlowStatuses
    <3>3. Live(Plan)'
      BY <3>2 DEF Live
    <3> QED
      BY <3>1, <3>3, PlanFacts DEF OpenInv, OpenAt, FrontAt, Positions
  <2>3. Ready(g) \in Steps /\ g.stages[Ready(g)] = Unbound("ready")
    BY <1>2, <1>5, <2>2, PlanFacts, ReadyFacts
  <2> HIDE DEF g
  <2>4. /\ q \in ThreadType /\ q.place = "lookup" /\ q.step = Ready(g)
        /\ q.turn = thread[c].turn
    <3>1. "lookup" \in Places /\ Ready(g) \in {0} \cup Steps
      BY <2>3 DEF Places
    <3> QED
      BY <3>1, CallFacts, Zenon DEF ThreadType
  <2> HIDE DEF q
  <2>5. FlowGrows(flow[Plan], g)
    BY <1>2, FlowMoves DEF g
  <2>6. q.turn <= 1 + Cardinality(BoundSteps(g))
    <3>1. /\ Cardinality(BoundSteps(flow[Plan])) <= Cardinality(BoundSteps(g))
          /\ Cardinality(BoundSteps(flow[Plan])) \in Nat
          /\ Cardinality(BoundSteps(g)) \in Nat
      BY <2>5, MoreBound, CountBound DEF FlowGrows
    <3>2. thread[c].turn <= 1 + Cardinality(BoundSteps(flow[Plan])) /\ thread[c].turn \in Nat
      BY CallFacts
    <3> QED
      BY <2>4, <3>1, <3>2
  <2>7. q.step \notin BoundSteps(g) /\ Opened(g, q.step)
    BY <2>3, <2>4 DEF BoundSteps, Opened, Unbound
  <2>8. BoundSteps(g) \ {q.step} = BoundSteps(g)
    BY <2>7
  <2>9. q.turn <= 1 + Cardinality(BoundSteps(g) \ {q.step})
    BY <2>6, <2>8, Zenon
  <2>10. CallSound(q, g)
    BY <1>2, <2>3, <2>4, <2>6, <2>7, <2>9 DEF CallSound
  <2>11. /\ calls' \in 0..MaxCalls /\ result' \in {"none"} \cup ExecStatuses
         /\ exec' = exec /\ materials' = materials
    BY <1>1, PlanFacts
  <2> QED
    BY <1>2, <2>1, <2>4, <2>10, <2>11, CallStands DEF g
<1> QED
  BY <1>4, <1>5

\* A call goes on with the step it is at.
LEMMA GoesOnStands ==
  ASSUME PlanInv, NEW c \in Threads, NEW p \in Dispatching, Go(c, p),
         thread[c].place \in Dispatching,
         UNCHANGED <<workflowVars, exec, result, materials, calls>>
  PROVE  PlanInv'
<1> DEFINE q == [thread[c] EXCEPT !.place = p]
<1>1. thread' = [thread EXCEPT ![c] = q]
  BY DEF Go
<1>2. p \in Places
  BY DEF Dispatching, Places
<1>3. /\ q \in ThreadType /\ q.place = p /\ q.turn = thread[c].turn
      /\ q.step = thread[c].step
  BY <1>2, CallFacts, GoesTo, Zenon
<1> HIDE DEF q
<1>4. flow'[Plan] = flow[Plan]
  BY DEF workflowVars
<1>5. CallSound(q, flow'[Plan])
  <2>1. p # "idle" /\ p # "set" /\ p # "regive" /\ thread[c].place # "idle"
    BY DEF Dispatching
  <2>2. CallSound(thread[c], flow[Plan])
    BY PlanFacts
  <2> QED
    BY <1>3, <1>4, <2>1, <2>2 DEF CallSound
<1>6. calls' \in 0..MaxCalls /\ result' \in {"none"} \cup ExecStatuses
  BY PlanFacts
<1> QED
  BY <1>1, <1>3, <1>5, <1>6, CallStands

LEMMA LookupStands ==
  ASSUME PlanInv, NEW c \in Threads, Lookup(c)
  PROVE  PlanInv'
<1>1. thread[c].place = "lookup"
  BY DEF Lookup, At
<1>2. {"lookup", "material", "rebind"} \subseteq Dispatching
  BY DEF Dispatching
<1> QED
  BY <1>1, <1>2, GoesOnStands DEF Lookup

LEMMA MaterialStands ==
  ASSUME PlanInv, NEW c \in Threads, Material(c)
  PROVE  PlanInv'
<1>1. thread[c].place = "material" /\ ~At(c, "idle")
      /\ UNCHANGED <<workflowVars, exec, result, materials, calls>>
  BY DEF Material, At
<1>2. {"material", "launch"} \subseteq Dispatching
  BY DEF Dispatching
<1>3. CASE Go(c, "launch")
  BY <1>1, <1>2, <1>3, GoesOnStands
<1>4. CASE SetTo(c, To("needs_review", "input_required"))
  <2>1. /\ To("needs_review", "input_required") \in ExecType
        /\ To("needs_review", "input_required").status = "needs_review"
    BY ToType DEF ExecStatuses, Reasons
  <2> QED
    BY <1>1, <1>4, <2>1, SetToStands DEF EndedExec
<1> QED
  BY <1>3, <1>4 DEF Material

LEMMA BindRefusedStands ==
  ASSUME PlanInv, NEW c \in Threads, BindRefused(c)
  PROVE  PlanInv'
<1>1. result' \in {"none"} \cup ExecStatuses
  BY PlanFacts DEF BindRefused
<1> QED
  BY <1>1, ReturnStands DEF BindRefused

\* A task that is bound to its stage is found there by the next look.
LEMMA BindBinds ==
  ASSUME PlanInv, NEW i \in Steps, NEW t \in Tasks, BindTask(Plan, i, t)
  PROVE  /\ WorkflowStep(Plan) /\ task' = task /\ flow[Plan].status # "absent"
         /\ i \in BoundSteps(flow'[Plan])
<1>1. /\ i \in Positions(Plan) /\ Live(Plan) /\ task' = task
      /\ flow[Plan].stages[i].task = t \/ Bindable(Plan, i, t)
  BY DEF BindTask, Steps
<1>2. WorkflowStep(Plan) /\ flow[Plan].status # "absent"
  BY <1>1 DEF WorkflowStep, Live
<1>3. t # NoTask
  BY WorkflowAssumptions
<1>4. CASE flow[Plan].stages[i].task = t
  <2>1. i \in BoundSteps(flow[Plan])
    BY <1>3, <1>4 DEF BoundSteps
  <2> QED
    BY <1>2, <2>1, <1>1, FlowMoves DEF FlowGrows
<1>5. CASE Bindable(Plan, i, t) /\ flow[Plan].stages[i].task # t
  <2> DEFINE b == Bound(Plan, i, t)
             d == decision[Plan]
  <2>1. flow'[Plan] = Refreshed(Plan, b, d)
    BY <1>5, PlanFacts DEF BindTask, Bound
  <2>2. b \in FlowType(Plan)
    BY <1>1, <1>5, PlanFacts, BoundStage
  <2>3. b.stages[i].task = t
    BY <1>1, PlanFacts DEF Bound, FlowType
  <2> HIDE DEF b
  <2>4. flow'[Plan].stages[i].task = t
    BY <1>1, <2>1, <2>2, <2>3, PlanFacts, RefreshedType DEF SameTasks
  <2> QED
    BY <1>1, <1>2, <1>3, <2>4 DEF BoundSteps
<1> QED
  BY <1>1, <1>4, <1>5

LEMMA RebindStands ==
  ASSUME PlanInv, NEW c \in Threads, Rebind(c)
  PROVE  PlanInv'
<1> DEFINE q == [thread[c] EXCEPT !.place = "read", !.turn = thread[c].turn + 1]
           B == BoundSteps(flow[Plan])
           C == BoundSteps(flow'[Plan])
           i == Step(c)
<1>1. /\ thread[c].place = "rebind" /\ BindTask(Plan, i, Its(c))
      /\ UNCHANGED <<exec, result, materials, calls>>
  BY DEF Rebind, At
<1>2. thread' = [thread EXCEPT ![c] = q]
  BY PlanFacts DEF Rebind
<1>3. /\ i \in Steps /\ Its(c) \in Tasks /\ thread[c].turn \in Nat
      /\ thread[c].turn <= 1 + Cardinality(B \ {i})
  BY <1>1, CallFacts DEF Dispatching
<1>4. /\ WorkflowStep(Plan) /\ task' = task /\ flow[Plan].status # "absent" /\ i \in C
  BY <1>1, <1>3, BindBinds
<1>5. q \in ThreadType /\ q.place = "read" /\ q.turn = thread[c].turn + 1
  <2>1. thread[c] \in ThreadType /\ thread[c].turn + 1 \in Nat /\ "read" \in Places
    BY <1>3, CallFacts DEF Places
  <2> QED
    BY <2>1, Zenon DEF ThreadType
<1>6. FlowGrows(flow[Plan], flow'[Plan])
  BY <1>4, FlowMoves
<1>7. q.turn <= 1 + Cardinality(C)
  <2>1. Cardinality(B \ {i}) <= Cardinality(C \ {i})
    BY <1>6, MoreBound DEF FlowGrows
  <2>2. /\ Cardinality(B \ {i}) \in Nat /\ Cardinality(C \ {i}) \in Nat
        /\ Cardinality(C) = Cardinality(C \ {i}) + 1
    BY <1>4, CountBound
  <2> HIDE DEF B, C, i, q
  <2> QED
    BY <1>3, <1>5, <2>1, <2>2
<1> HIDE DEF q
<1>8. CallSound(q, flow'[Plan])
  BY <1>4, <1>5, <1>6, <1>7, PlainSound DEF FlowGrows, Dispatching
<1>9. calls' \in 0..MaxCalls /\ result' \in {"none"} \cup ExecStatuses
  BY <1>1, PlanFacts
<1> QED
  BY <1>1, <1>2, <1>4, <1>5, <1>8, <1>9, CallStands

LEMMA BindStands ==
  ASSUME PlanInv, NEW c \in Threads, Bind(c)
  PROVE  PlanInv'
<1>1. /\ thread[c].place = "bind" /\ ~At(c, "idle") /\ BindTask(Plan, Step(c), Its(c))
      /\ SetTo(c, To("running", "none")) /\ UNCHANGED <<exec, result, materials, calls>>
  BY DEF Bind, At
<1>2. Step(c) \in Steps /\ Its(c) \in Tasks
  BY <1>1, CallFacts DEF Dispatching
<1>3. WorkflowStep(Plan) /\ task' = task /\ flow[Plan].status # "absent"
  BY <1>1, <1>2, BindBinds
<1>4. To("running", "none") \in ExecType /\ To("running", "none").status = "running"
  BY ToType DEF ExecStatuses, Reasons
<1> QED
  BY <1>1, <1>3, <1>4, SetToStands DEF EndedExec

\* The task of the step that a call dispatches is made: no other step of the
\* plan has it, and the stage of this one is open, or has it.
LEMMA LaunchedStands ==
  ASSUME PlanInv, NEW c \in Threads, thread[c].place \in Dispatching,
         NEW r \in ThreadType, thread' = [thread EXCEPT ![c] = r],
         CallSound(r, flow[Plan]), TaskStarts(Its(c)),
         UNCHANGED <<exec, result, materials, calls>>
  PROVE  PlanInv'
<1>1. /\ Step(c) \in Steps /\ Its(c) \in Tasks /\ flow[Plan].status # "absent"
      /\ Alive(flow[Plan]) => Opened(flow[Plan], Step(c))
  BY CallFacts DEF Dispatching
<1>2. flow' = flow /\ task' = [task EXCEPT ![Its(c)].status = "active"]
  BY DEF TaskStarts
<1>3. \E t \in Tasks : TaskStep(t)
  BY <1>1 DEF TaskStep
<1>4. WorkflowInv' /\ SoundInv' /\ OpenInv' /\ FlowGrows(flow[Plan], flow'[Plan])
  BY <1>3, FlowMoves
<1>5. NoStrayTask'
  <2> SUFFICES ASSUME Alive(flow[Plan]), NEW i \in Steps,
                      task'[StepTask[i]].status # "absent"
               PROVE  Opened(flow[Plan], i)
    BY <1>2 DEF NoStrayTask, Live, Alive, Opened
  <2>1. CASE i = Step(c)
    BY <1>1, <2>1
  <2>2. CASE i # Step(c)
    <3>1. StepTask[i] # Its(c) /\ StepTask[i] \in Tasks
      BY <1>1, <2>2, PlanAssumptions DEF Its
    <3>2. task'[StepTask[i]] = task[StepTask[i]]
      BY <1>2, <3>1, PlanFacts
    <3> QED
      BY <3>2 DEF PlanInv, NoStrayTask, Live, Alive, Opened
  <2> QED
    BY <2>1, <2>2
<1>6. EndMatchesWorkflow' /\ MaterialsSuffice'
  BY <1>4, EndStays, MaterialsStay
<1>7. MadeTogether'
  BY <1>1, <1>2 DEF PlanInv, MadeTogether
<1>8. thread' \in [Threads -> ThreadType] /\ CallsSound'
  BY <1>2, <1>4, CallMoves
<1>9. ExecutionTypeOK'
  BY <1>8, PlanFacts DEF ExecutionTypeOK
<1> QED
  BY <1>4, <1>5, <1>6, <1>7, <1>8, <1>9 DEF PlanInv

LEMMA LaunchStands ==
  ASSUME PlanInv, NEW c \in Threads, Launch(c)
  PROVE  PlanInv' /\ ((\E t \in Tasks : TaskStep(t)) \/ UNCHANGED workflowVars)
<1> DEFINE q == [thread[c] EXCEPT !.place = "bind"]
<1>1. /\ thread[c].place = "launch" /\ Go(c, "bind")
      /\ UNCHANGED <<exec, result, materials, calls>>
      /\ TaskStarts(Its(c)) \/ UNCHANGED workflowVars
  BY DEF Launch, At
<1>2. /\ thread[c].place \in Dispatching /\ "bind" \in Dispatching /\ "bind" \in Places
      /\ thread[c].place # "idle"
  BY <1>1 DEF Dispatching, Places
<1>3. CASE UNCHANGED workflowVars
  BY <1>1, <1>2, <1>3, GoesOnStands
<1>4. CASE TaskStarts(Its(c))
  <2>1. thread' = [thread EXCEPT ![c] = q]
    BY <1>1 DEF Go
  <2>2. /\ q \in ThreadType /\ q.place = "bind" /\ q.turn = thread[c].turn
        /\ q.step = thread[c].step
    BY <1>2, CallFacts, GoesTo, Zenon
  <2> HIDE DEF q
  <2>3. CallSound(q, flow[Plan])
    <3>1. CallSound(thread[c], flow[Plan])
      BY PlanFacts
    <3> QED
      BY <1>2, <2>2, <3>1 DEF CallSound
  <2>4. Its(c) \in Tasks
    BY <1>2, CallFacts
  <2> QED
    BY <1>1, <1>2, <1>4, <2>1, <2>2, <2>3, <2>4, LaunchedStands DEF TaskStep
<1> QED
  BY <1>1, <1>3, <1>4

LEMMA LaunchFailsStands ==
  ASSUME PlanInv, NEW c \in Threads, LaunchFails(c)
  PROVE  PlanInv' /\ ((\E t \in Tasks : TaskStep(t)) \/ UNCHANGED workflowVars)
<1> DEFINE goal == To("needs_review", "other")
           q == [thread[c] EXCEPT !.place = "set", !.goal = goal]
<1>1. /\ thread[c].place = "launch" /\ ~At(c, "idle") /\ SetTo(c, goal)
      /\ UNCHANGED <<exec, result, materials, calls>>
      /\ TaskStarts(Its(c)) \/ UNCHANGED workflowVars
  BY DEF LaunchFails, At
<1>2. goal \in ExecType /\ goal.status = "needs_review"
  BY ToType DEF ExecStatuses, Reasons
<1>3. thread' = [thread EXCEPT ![c] = q]
  BY <1>1 DEF SetTo
<1>4. q \in ThreadType /\ q.place = "set" /\ q.turn = thread[c].turn /\ q.goal = goal
  BY <1>2, CallFacts, GoesToSet, Zenon
<1> HIDE DEF q, goal
<1>5. CASE UNCHANGED workflowVars
  BY <1>1, <1>2, <1>5, SetToStands DEF EndedExec
<1>6. CASE TaskStarts(Its(c))
  <2>1. /\ thread[c].place \in Dispatching /\ thread[c].place # "idle"
        /\ Its(c) \in Tasks
    BY <1>1, CallFacts DEF Dispatching
  <2>2. /\ flow[Plan].status # "absent"
        /\ thread[c].turn <= 1 + Cardinality(BoundSteps(flow[Plan]))
    BY <2>1, CallFacts
  <2>3. CallSound(q, flow[Plan])
    BY <1>2, <1>4, <2>2, SetSound DEF EndedExec
  <2> QED
    BY <1>1, <1>3, <1>4, <1>6, <2>1, <2>3, LaunchedStands DEF TaskStep
<1> QED
  BY <1>1, <1>5, <1>6

\* The record of a call that goes to a place where nothing more is relied on.
LEMMA PlainCall ==
  ASSUME PlanInv, NEW c \in Threads, NEW p \in Places, Go(c, p), ~At(c, "idle"),
         p \notin Dispatching \cup {"set", "regive"}
  PROVE  \E r \in ThreadType :
           thread' = [thread EXCEPT ![c] = r] /\ CallSound(r, flow[Plan])
<1> DEFINE q == [thread[c] EXCEPT !.place = p]
<1>1. thread' = [thread EXCEPT ![c] = q]
  BY DEF Go
<1>2. q \in ThreadType /\ q.place = p /\ q.turn = thread[c].turn
  BY CallFacts, GoesTo, Zenon
<1>3. /\ flow[Plan].status # "absent"
      /\ thread[c].turn <= 1 + Cardinality(BoundSteps(flow[Plan]))
  BY CallFacts DEF At
<1> HIDE DEF q
<1>4. CallSound(q, flow[Plan])
  BY <1>2, <1>3, PlainSound
<1> QED
  BY <1>1, <1>2, <1>4

\* A step of a call that writes the execution or the prompts, and leaves the
\* workflow alone.
LEMMA CallWrites ==
  ASSUME PlanInv, NEW c \in Threads, NEW r \in ThreadType,
         thread' = [thread EXCEPT ![c] = r], CallSound(r, flow[Plan]),
         UNCHANGED <<workflowVars, calls>>, flow[Plan].status # "absent",
         exec' \in ExecType, exec'.status # "absent", EndMatchesWorkflow',
         materials' \in [Processes -> SUBSET Steps], MaterialsSuffice',
         result' \in {"none"} \cup ExecStatuses
  PROVE  PlanInv'
<1>1. WorkflowInv' /\ SoundInv' /\ OpenInv' /\ FlowGrows(flow[Plan], flow'[Plan])
  BY FlowMoves
<1>2. flow' = flow /\ task' = task
  BY DEF workflowVars
<1>3. NoStrayTask'
  BY <1>1, <1>2, Unstarted DEF NoneStarts
<1>4. MadeTogether'
  BY <1>2 DEF MadeTogether
<1>5. thread' \in [Threads -> ThreadType] /\ CallsSound'
  BY <1>1, <1>2, CallMoves
<1>6. ExecutionTypeOK'
  BY <1>5, PlanFacts DEF ExecutionTypeOK
<1> QED
  BY <1>1, <1>3, <1>4, <1>5, <1>6 DEF PlanInv

LEMMA SetStatusStands ==
  ASSUME PlanInv, NEW c \in Threads, SetStatus(c)
  PROVE  PlanInv'
<1> DEFINE goal == thread[c].goal
<1>1. /\ thread[c].place = "set" /\ exec' = goal /\ thread[c].place # "idle"
      /\ UNCHANGED <<workflowVars, result, materials, calls>>
  BY DEF SetStatus, At
<1>2. /\ goal \in ExecType /\ goal.status # "absent" /\ flow[Plan].status # "absent"
      /\ goal.status \in EndedExec => flow[Plan].status = goal.status
      /\ thread[c].turn <= 1 + Cardinality(BoundSteps(flow[Plan]))
      /\ thread[c] \in ThreadType
  BY <1>1, CallFacts DEF ThreadType
<1>3. /\ flow' = flow /\ EndMatchesWorkflow'
  BY <1>1, <1>2 DEF workflowVars, EndMatchesWorkflow
<1>4. MaterialsSuffice'
  BY <1>1, <1>3, GrowsSame, MaterialsStay
<1>5. materials' \in [Processes -> SUBSET Steps] /\ result' \in {"none"} \cup ExecStatuses
  BY <1>1, PlanFacts
<1>6. PICK r \in ThreadType : thread' = [thread EXCEPT ![c] = r] /\ CallSound(r, flow[Plan])
  <2>1. CASE Return(c)
    BY <2>1, IdleType DEF Return
  <2>2. ASSUME NEW p \in {"build", "read"}, Go(c, p)
        PROVE  \E r \in ThreadType :
                 thread' = [thread EXCEPT ![c] = r] /\ CallSound(r, flow[Plan])
    BY <1>1, <2>2, PlainCall DEF At, Places, Dispatching
  <2> QED
    BY <2>1, <2>2 DEF SetStatus
<1> HIDE DEF goal
<1> QED
  BY <1>1, <1>2, <1>3, <1>4, <1>5, <1>6, CallWrites

LEMMA GiveStands ==
  ASSUME PlanInv, NEW c \in Threads, Give(c)
  PROVE  PlanInv'
<1>1. /\ At(c, "give") /\ ~At(c, "idle") /\ Go(c, "read")
      /\ materials' = [materials EXCEPT ![Home(c)] = Steps]
      /\ UNCHANGED <<workflowVars, exec, result, calls>>
  BY DEF Give, At
<1>2. Home(c) \in Processes
  BY PlanAssumptions DEF Home
<1>3. /\ flow' = flow /\ flow[Plan].status # "absent" /\ exec.status # "absent"
  BY <1>1, CallFacts DEF At, workflowVars, PlanInv, MadeTogether
<1>4. /\ materials' \in [Processes -> SUBSET Steps] /\ exec' \in ExecType
      /\ result' \in {"none"} \cup ExecStatuses /\ exec'.status # "absent"
  BY <1>1, <1>3, PlanFacts
<1>5. MaterialsSuffice'
  <2> SUFFICES ASSUME Alive(flow[Plan]), NEW p \in Processes, materials'[p] # {}
               PROVE  Resumable(flow[Plan]) \subseteq materials'[p]
    BY <1>3 DEF MaterialsSuffice, Live, Alive, Resumable
  <2>1. CASE p = Home(c)
    BY <1>1, <1>2, <2>1, PlanFacts DEF Resumable
  <2>2. CASE p # Home(c)
    BY <1>1, <2>2, PlanFacts DEF PlanInv, MaterialsSuffice, Live, Alive
  <2> QED
    BY <2>1, <2>2
<1>6. EndMatchesWorkflow'
  BY <1>1, <1>3, GrowsSame, EndStays
<1>7. PICK r \in ThreadType : thread' = [thread EXCEPT ![c] = r] /\ CallSound(r, flow[Plan])
  BY <1>1, PlainCall DEF Places, Dispatching
<1> QED
  BY <1>1, <1>3, <1>4, <1>5, <1>6, <1>7, CallWrites

LEMMA BuildStands ==
  ASSUME PlanInv, NEW c \in Threads, BuildResult(c)
  PROVE  PlanInv'
<1> DEFINE q == [thread[c] EXCEPT !.place = "save", !.payload = exec.status]
<1>1. /\ At(c, "build") /\ ~At(c, "idle")
      /\ UNCHANGED <<workflowVars, exec, result, materials, calls>>
  BY DEF BuildResult, At
<1>2. result' \in {"none"} \cup ExecStatuses /\ calls' \in 0..MaxCalls
  BY <1>1, PlanFacts
<1>3. CASE result # "none"
  <2>1. Go(c, "clear") /\ "clear" \in Places
        /\ "clear" \notin Dispatching \cup {"set", "regive"}
    BY <1>3 DEF BuildResult, Go, Places, Dispatching
  <2> QED
    BY <1>1, <1>2, <2>1, GoStands
<1>4. CASE result = "none"
  <2>1. thread' = [thread EXCEPT ![c] = q]
    BY <1>4 DEF BuildResult
  <2>2. q \in ThreadType /\ q.place = "save" /\ q.turn = thread[c].turn
    <3>1. "save" \in Places /\ exec.status \in ExecStatuses
      BY PlanFacts DEF Places, ExecType
    <3> QED
      BY <3>1, CallFacts, Zenon DEF ThreadType
  <2> HIDE DEF q
  <2>3. /\ flow'[Plan] = flow[Plan] /\ flow[Plan].status # "absent"
        /\ thread[c].turn <= 1 + Cardinality(BoundSteps(flow[Plan]))
    BY <1>1, CallFacts DEF At, workflowVars
  <2>4. CallSound(q, flow'[Plan])
    BY <2>2, <2>3, PlainSound DEF Dispatching
  <2> QED
    BY <1>1, <1>2, <2>1, <2>2, <2>4, CallStands
<1> QED
  BY <1>3, <1>4

LEMMA SaveStands ==
  ASSUME PlanInv, NEW c \in Threads, SaveResult(c)
  PROVE  PlanInv'
<1>1. /\ At(c, "save") /\ ~At(c, "idle")
      /\ UNCHANGED <<workflowVars, exec, materials, calls>>
  BY DEF SaveResult, At
<1>2. result' \in {"none"} \cup ExecStatuses
  <2>1. result' \in {result, thread[c].payload}
    BY DEF SaveResult
  <2>2. thread[c].payload \in ExecStatuses
    BY CallFacts DEF ThreadType
  <2> QED
    BY <2>1, <2>2, PlanFacts
<1>3. CASE Go(c, "clear")
  <2>1. "clear" \in Places /\ "clear" \notin Dispatching \cup {"set", "regive"}
    BY DEF Places, Dispatching
  <2> QED
    BY <1>1, <1>2, <1>3, <2>1, GoStands
<1>4. CASE Return(c)
  BY <1>1, <1>2, <1>4, ReturnStands
<1> QED
  BY <1>3, <1>4 DEF SaveResult

LEMMA ClearStands ==
  ASSUME PlanInv, NEW c \in Threads, ClearMaterials(c)
  PROVE  PlanInv'
<1>1. /\ At(c, "clear") /\ Return(c)
      /\ materials' = [materials EXCEPT ![Home(c)] = {}]
      /\ UNCHANGED <<workflowVars, exec, result, calls>>
  BY DEF ClearMaterials
<1>2. /\ flow' = flow /\ flow[Plan].status # "absent" /\ exec.status # "absent"
  BY <1>1, CallFacts DEF At, workflowVars, PlanInv, MadeTogether
<1>3. /\ materials' \in [Processes -> SUBSET Steps] /\ exec' \in ExecType
      /\ result' \in {"none"} \cup ExecStatuses /\ exec'.status # "absent"
  BY <1>1, <1>2, PlanFacts
<1>4. MaterialsSuffice'
  <2>1. \A p \in Processes : materials'[p] # {} => materials'[p] = materials[p]
    BY <1>1, PlanFacts
  <2> QED
    BY <1>2, <2>1 DEF PlanInv, MaterialsSuffice, Live, Resumable
<1>5. EndMatchesWorkflow'
  BY <1>1, <1>2, GrowsSame, EndStays
<1>6. thread' = [thread EXCEPT ![c] = Idle]
  BY <1>1 DEF Return
<1> QED
  BY <1>1, <1>2, <1>3, <1>4, <1>5, <1>6, IdleType, CallWrites

LEMMA RegiveStands ==
  ASSUME PlanInv, NEW c \in Threads, Regive(c)
  PROVE  PlanInv'
<1> DEFINE goal == To("ready", "none")
           q == [thread[c] EXCEPT !.place = "set", !.goal = goal]
           give == thread[c].give
<1>1. /\ thread[c].place = "regive" /\ SetTo(c, goal)
      /\ materials' = [materials EXCEPT ![Home(c)] = give]
      /\ UNCHANGED <<workflowVars, exec, result, calls>>
  BY DEF Regive, At
<1>2. Home(c) \in Processes /\ give \in SUBSET Steps
  BY PlanAssumptions, CallFacts DEF Home, ThreadType
<1>3. /\ flow' = flow /\ flow[Plan].status # "absent" /\ exec.status # "absent"
      /\ Alive(flow[Plan]) => Resumable(flow[Plan]) \subseteq give
      /\ thread[c].turn <= 1 + Cardinality(BoundSteps(flow[Plan]))
  BY <1>1, CallFacts DEF workflowVars, PlanInv, MadeTogether
<1>4. /\ materials' \in [Processes -> SUBSET Steps] /\ exec' \in ExecType
      /\ result' \in {"none"} \cup ExecStatuses /\ exec'.status # "absent"
  BY <1>1, <1>2, <1>3, PlanFacts
<1>5. goal \in ExecType /\ goal.status = "ready"
  BY ToType DEF ExecStatuses, Reasons
<1>6. thread' = [thread EXCEPT ![c] = q]
  BY <1>1 DEF SetTo
<1>7. q \in ThreadType /\ q.place = "set" /\ q.turn = thread[c].turn /\ q.goal = goal
  BY <1>5, CallFacts, GoesToSet, Zenon
<1> HIDE DEF q, goal, give
<1>8. CallSound(q, flow[Plan])
  BY <1>3, <1>5, <1>7, SetSound DEF EndedExec
<1>9. MaterialsSuffice'
  <2> SUFFICES ASSUME Alive(flow[Plan]), NEW p \in Processes, materials'[p] # {}
               PROVE  Resumable(flow[Plan]) \subseteq materials'[p]
    BY <1>3 DEF MaterialsSuffice, Live, Alive, Resumable
  <2>1. CASE p = Home(c)
    BY <1>1, <1>2, <1>3, <2>1, PlanFacts
  <2>2. CASE p # Home(c)
    BY <1>1, <2>2, PlanFacts DEF PlanInv, MaterialsSuffice, Live, Alive
  <2> QED
    BY <2>1, <2>2
<1>10. EndMatchesWorkflow'
  BY <1>1, <1>3, GrowsSame, EndStays
<1> QED
  BY <1>1, <1>3, <1>4, <1>6, <1>7, <1>8, <1>9, <1>10, CallWrites

LEMMA ResumeStands ==
  ASSUME PlanInv, NEW c \in Threads, ResumeRefresh(c)
  PROVE  PlanInv'
<1> DEFINE g == flow'[Plan]
           q == [thread[c] EXCEPT !.place = "regive", !.give = Resumable(g)]
<1>1. /\ At(c, "resume") /\ RefreshWorkflow(Plan)
      /\ UNCHANGED <<exec, result, materials, calls>>
  BY DEF ResumeRefresh
<1>2. /\ WorkflowStep(Plan) /\ task' = task /\ flow[Plan].status # "absent"
      /\ g.status # "absent"
  BY <1>1, PlanRefreshed
<1>3. result' \in {"none"} \cup ExecStatuses /\ calls' \in 0..MaxCalls
  BY <1>1, PlanFacts
<1>4. CASE Return(c)
  BY <1>1, <1>2, <1>3, <1>4, ReturnStands
<1>5. CASE thread' = [thread EXCEPT ![c] = q]
  <2>1. /\ q \in ThreadType /\ q.place = "regive" /\ q.turn = thread[c].turn
        /\ q.give = Resumable(g)
    <3>1. "regive" \in Places /\ Resumable(g) \in SUBSET Steps
      BY DEF Places, Resumable
    <3> HIDE DEF g
    <3> QED
      BY <3>1, CallFacts, Zenon DEF ThreadType
  <2>2. FlowGrows(flow[Plan], g)
    BY <1>2, FlowMoves
  <2> HIDE DEF q, g
  <2>3. q.turn <= 1 + Cardinality(BoundSteps(g))
    <3>1. /\ Cardinality(BoundSteps(flow[Plan])) <= Cardinality(BoundSteps(g))
          /\ Cardinality(BoundSteps(flow[Plan])) \in Nat
          /\ Cardinality(BoundSteps(g)) \in Nat
      BY <2>2, MoreBound, CountBound DEF FlowGrows
    <3>2. thread[c].turn <= 1 + Cardinality(BoundSteps(flow[Plan])) /\ thread[c].turn \in Nat
      BY CallFacts
    <3> QED
      BY <2>1, <3>1, <3>2
  <2>4. CallSound(q, g)
    BY <1>2, <2>1, <2>3 DEF CallSound, Dispatching
  <2> QED
    BY <1>1, <1>2, <1>3, <1>5, <2>1, <2>4, CallStands DEF g
<1> QED
  BY <1>4, <1>5 DEF ResumeRefresh

LEMMA CancelRefreshStands ==
  ASSUME PlanInv, NEW c \in Threads, CancelRefresh(c)
  PROVE  PlanInv'
<1>1. /\ At(c, "cancel") /\ ~At(c, "idle") /\ RefreshWorkflow(Plan)
      /\ Go(c, "cancel_flow") /\ UNCHANGED <<exec, result, materials, calls>>
  BY DEF CancelRefresh, At
<1>2. WorkflowStep(Plan) /\ task' = task /\ flow[Plan].status # "absent"
  BY <1>1, PlanRefreshed
<1>3. /\ "cancel_flow" \in Places
      /\ "cancel_flow" \notin Dispatching \cup {"set", "regive"}
  BY DEF Places, Dispatching
<1>4. result' \in {"none"} \cup ExecStatuses
  BY <1>1, PlanFacts
<1> QED
  BY <1>1, <1>2, <1>3, <1>4, GoStands

LEMMA CancelFlowStands ==
  ASSUME PlanInv, NEW c \in Threads, CancelFlow(c)
  PROVE  PlanInv' /\ (WorkflowStep(Plan) \/ UNCHANGED workflowVars)
<1> DEFINE goal == To("cancelled", "other")
<1>1. /\ At(c, "cancel_flow") /\ ~At(c, "idle")
      /\ UNCHANGED <<exec, result, materials, calls>>
  BY DEF CancelFlow, At
<1>2. goal \in ExecType /\ goal.status = "cancelled"
  BY ToType DEF ExecStatuses, EndedExec, Reasons
<1>3. result' \in {"none"} \cup ExecStatuses
  BY <1>1, PlanFacts
<1>4. CASE CancelWorkflow(Plan) /\ SetTo(c, goal)
  <2>1. /\ WorkflowStep(Plan) /\ task' = task /\ flow[Plan].status # "absent"
        /\ flow'[Plan].status = "cancelled"
    BY <1>4, PlanFacts DEF WorkflowStep, CancelWorkflow, Live
  <2> HIDE DEF goal
  <2> QED
    BY <1>1, <1>2, <1>4, <2>1, SetToStands
<1>5. CASE UNCHANGED workflowVars /\ flow[Plan].status = "cancelled" /\ SetTo(c, goal)
  <2>1. flow'[Plan].status = "cancelled"
    BY <1>5 DEF workflowVars
  <2> HIDE DEF goal
  <2> QED
    BY <1>1, <1>2, <1>5, <2>1, SetToStands
<1>6. CASE UNCHANGED workflowVars /\ Return(c)
  BY <1>1, <1>3, <1>6, ReturnStands
<1> QED
  BY <1>4, <1>5, <1>6 DEF CancelFlow

(***************************************************************************)
(* Crashes, refused transactions, and everybody else                       *)
(***************************************************************************)

LEMMA CallFailsStands ==
  ASSUME PlanInv, NEW c \in Threads, CallFails(c)
  PROVE  PlanInv'
<1>1. result' \in {"none"} \cup ExecStatuses
  BY PlanFacts DEF CallFails
<1> QED
  BY <1>1, ReturnStands DEF CallFails

LEMMA CrashStands ==
  ASSUME PlanInv, NEW p \in Processes, Crash(p)
  PROVE  PlanInv'
<1>1. /\ materials' = [materials EXCEPT ![p] = {}]
      /\ thread' = [c \in Threads |-> IF Home(c) = p THEN Idle ELSE thread[c]]
      /\ UNCHANGED <<workflowVars, exec, result, calls>>
  BY DEF Crash
<1>2. flow' = flow /\ task' = task
  BY <1>1 DEF workflowVars
<1>3. WorkflowInv' /\ SoundInv' /\ OpenInv' /\ FlowGrows(flow[Plan], flow'[Plan])
  BY <1>1, FlowMoves
<1>4. NoStrayTask' /\ EndMatchesWorkflow'
  BY <1>1, <1>2, <1>3, Unstarted, EndStays DEF NoneStarts
<1>5. /\ materials' \in [Processes -> SUBSET Steps]
      /\ \A r \in Processes : materials'[r] # {} => materials'[r] = materials[r]
      /\ \A r \in Processes : materials[r] = {} => materials'[r] = {}
  BY <1>1, PlanFacts
<1>6. MaterialsSuffice'
  BY <1>2, <1>5 DEF PlanInv, MaterialsSuffice, Live, Resumable
<1>7. MadeTogether'
  BY <1>1, <1>2, <1>5 DEF PlanInv, MadeTogether
<1>8. thread' \in [Threads -> ThreadType]
  BY <1>1, PlanFacts, IdleType
<1>9. \A c \in Threads : CallSound(thread'[c], flow[Plan])
  BY <1>1, PlanFacts, IdleType
<1>10. CallsSound'
  BY <1>2, <1>9 DEF CallsSound, CallSound, BoundSteps, Opened, Alive, Resumable
<1>11. ExecutionTypeOK'
  BY <1>1, <1>5, <1>8, PlanFacts DEF ExecutionTypeOK
<1> QED
  BY <1>3, <1>4, <1>6, <1>7, <1>10, <1>11 DEF PlanInv

\* The workflow tools start no task of the plan's and leave its execution alone.
LEMMA OperatorStands ==
  ASSUME PlanInv, Operator
  PROVE  /\ PlanInv'
         /\ WorkflowStep(Plan) \/ \E t \in Tasks : TaskStep(t)
<1>1. UNCHANGED <<exec, result, materials, thread, calls>>
  BY DEF Operator, planVars
<1>2. \/ WorkflowStep(Plan) /\ flow[Plan].status # "absent" /\ task' = task
      \/ /\ \E t \in Tasks : TaskStep(t)
         /\ flow' = flow /\ NoneStarts
  <2>1. ASSUME RefreshWorkflow(Plan)
        PROVE  WorkflowStep(Plan) /\ flow[Plan].status # "absent" /\ task' = task
    BY <2>1 DEF RefreshWorkflow, WorkflowStep
  <2>2. ASSUME NEW i \in Steps, NEW t \in Tasks, BindTask(Plan, i, t)
        PROVE  WorkflowStep(Plan) /\ flow[Plan].status # "absent" /\ task' = task
    BY <2>2, BindBinds
  <2>3. ASSUME NEW i \in Steps, NEW d \in {"approved", "rejected"},
               RecordApproval(Plan, i, d)
        PROVE  WorkflowStep(Plan) /\ flow[Plan].status # "absent" /\ task' = task
    BY <2>3 DEF RecordApproval, WorkflowStep, Steps
  <2>4. ASSUME NEW t \in Tasks, TaskEnds(t)
        PROVE  TaskStep(t) /\ flow' = flow /\ NoneStarts
    <3>1. /\ task[t].status = "active" /\ flow' = flow
          /\ \A u \in Tasks : u # t => task'[u] = task[u]
      BY <2>4, PlanFacts DEF TaskEnds
    <3>2. \A i \in Steps : StepTask[i] \in Tasks
      BY PlanAssumptions
    <3> QED
      BY <2>4, <3>1, <3>2 DEF TaskStep, NoneStarts
  <2>5. ASSUME NEW t \in Tasks \ StepTasks, TaskStarts(t)
        PROVE  TaskStep(t) /\ flow' = flow /\ NoneStarts
    <3>1. flow' = flow /\ \A u \in Tasks : u # t => task'[u] = task[u]
      BY <2>5, PlanFacts DEF TaskStarts
    <3>2. \A i \in Steps : StepTask[i] \in Tasks /\ StepTask[i] # t
      BY PlanAssumptions DEF StepTasks
    <3> QED
      BY <2>5, <3>1, <3>2 DEF TaskStep, NoneStarts
  <2> QED
    BY <2>1, <2>2, <2>3, <2>4, <2>5 DEF Operator
<1>3. WorkflowInv' /\ SoundInv' /\ OpenInv' /\ FlowGrows(flow[Plan], flow'[Plan])
  BY <1>2, FlowMoves
<1>4. NoneStarts /\ (flow[Plan].status # "absent" \/ flow' = flow)
  BY <1>2 DEF NoneStarts
<1>5. NoStrayTask' /\ EndMatchesWorkflow' /\ MaterialsSuffice' /\ MadeTogether'
  BY <1>1, <1>3, <1>4, Unstarted, EndStays, MaterialsStay, MadeStays
<1>6. \A c \in Threads : CallSound(thread'[c], flow'[Plan])
  BY <1>1, <1>3, PlanFacts, CallStays
<1>7. CallsSound'
  BY <1>6 DEF CallsSound, CallSound, BoundSteps, Opened, Alive, Resumable
<1>8. ExecutionTypeOK'
  BY <1>1, PlanFacts DEF ExecutionTypeOK
<1> QED
  BY <1>2, <1>3, <1>5, <1>7, <1>8 DEF PlanInv

(***************************************************************************)
(* The inductive invariant                                                 *)
(***************************************************************************)

LEMMA PlanInit == Init => PlanInv
<1> SUFFICES ASSUME Init PROVE PlanInv
  OBVIOUS
<1>1. /\ WorkflowInit /\ exec = To("absent", "none") /\ result = "none"
      /\ materials = [p \in Processes |-> {}] /\ thread = [c \in Threads |-> Idle]
      /\ calls = 0
  BY DEF Init
<1>2. WorkflowInv /\ SoundInv /\ OpenInv
  BY <1>1, WorkflowInitInv, SoundAlways, OpenAlways
<1>3. exec \in ExecType /\ exec.status = "absent"
  BY <1>1, ToType DEF ExecStatuses, Reasons
<1>4. flow[Plan].status = "absent" /\ \A i \in Steps : task[StepTask[i]].status = "absent"
  BY <1>1, PlanAssumptions DEF WorkflowInit
<1>5. ExecutionTypeOK
  BY <1>1, <1>3, IdleType, PlanAssumptions DEF ExecutionTypeOK
<1>6. MadeTogether /\ NoStrayTask /\ EndMatchesWorkflow /\ MaterialsSuffice
  BY <1>1, <1>3, <1>4
     DEF MadeTogether, NoStrayTask, EndMatchesWorkflow, MaterialsSuffice, Live, EndedExec
<1>7. CallsSound
  BY <1>1, IdleType DEF CallsSound
<1> QED
  BY <1>2, <1>5, <1>6, <1>7 DEF PlanInv

\* Every step of a call does to the workflows and their tasks what one of the
\* workflow's operations does, or nothing.
LEMMA ThreadStepDrives ==
  ASSUME PlanInv, NEW c \in Threads, ThreadStep(c)
  PROVE  WorkflowStep(Plan) \/ (\E t \in Tasks : TaskStep(t)) \/ UNCHANGED workflowVars
<1>1. CASE CallStart(c)
  BY <1>1, CallStartStands
<1>2. CASE RefreshFlow(c) \/ ResumeRefresh(c) \/ CancelRefresh(c)
  BY <1>2, PlanRefreshed DEF RefreshFlow, ResumeRefresh, CancelRefresh
<1>3. CASE Rebind(c) \/ Bind(c)
  <2>1. thread[c].place \in Dispatching /\ BindTask(Plan, Step(c), Its(c))
    BY <1>3 DEF Rebind, Bind, At, Dispatching
  <2> QED
    BY <2>1, CallFacts, BindBinds
<1>4. CASE Launch(c) \/ LaunchFails(c)
  BY <1>4, LaunchStands, LaunchFailsStands
<1>5. CASE CancelFlow(c)
  BY <1>5, CancelFlowStands
<1>6. CASE \/ CallPump(c) \/ CallResume(c) \/ CallCancel(c) \/ Give(c) \/ ReadExecution(c)
           \/ Lookup(c) \/ Material(c) \/ BindRefused(c) \/ SetStatus(c)
           \/ BuildResult(c) \/ SaveResult(c) \/ ClearMaterials(c) \/ Regive(c)
  BY <1>6 DEF CallPump, CallResume, CallCancel, Give, ReadExecution, Lookup, Material,
              BindRefused, SetStatus, BuildResult, SaveResult, ClearMaterials, Regive
<1> QED
  BY <1>1, <1>2, <1>3, <1>4, <1>5, <1>6 DEF ThreadStep

LEMMA ThreadStepStands ==
  ASSUME PlanInv, NEW c \in Threads, ThreadStep(c)
  PROVE  PlanInv'
BY CallStartStands, CallPumpStands, CallResumeStands, CallCancelStands, GiveStands,
   ReadStands, RefreshFlowStands, LookupStands, RebindStands, MaterialStands,
   LaunchStands, LaunchFailsStands, BindStands, BindRefusedStands, SetStatusStands,
   BuildStands, SaveStands, ClearStands, ResumeStands, RegiveStands,
   CancelRefreshStands, CancelFlowStands
   DEF ThreadStep

LEMMA PlanNext == PlanInv /\ [Next]_vars => PlanInv' /\ [WorkflowNext]_workflowVars
<1> SUFFICES ASSUME PlanInv, [Next]_vars PROVE PlanInv' /\ [WorkflowNext]_workflowVars
  OBVIOUS
<1>1. ASSUME NEW c \in Threads, ThreadStep(c)
      PROVE  PlanInv' /\ [WorkflowNext]_workflowVars
  BY <1>1, ThreadStepStands, ThreadStepDrives, FlowMoves
<1>2. ASSUME NEW c \in Threads, CallFails(c)
      PROVE  PlanInv' /\ [WorkflowNext]_workflowVars
  BY <1>2, CallFailsStands DEF CallFails
<1>3. ASSUME NEW p \in Processes, Crash(p)
      PROVE  PlanInv' /\ [WorkflowNext]_workflowVars
  BY <1>3, CrashStands DEF Crash
<1>4. ASSUME Operator
      PROVE  PlanInv' /\ [WorkflowNext]_workflowVars
  BY <1>4, OperatorStands, FlowMoves
<1>5. CASE UNCHANGED vars
  <2>1. /\ UNCHANGED workflowVars /\ UNCHANGED <<exec, result, materials, thread, calls>>
        /\ UNCHANGED <<flow, decision, task>>
    BY <1>5 DEF vars, planVars, workflowVars
  <2>2. WorkflowInv' /\ SoundInv' /\ OpenInv'
    BY <2>1, FlowMoves
  <2>3. /\ ExecutionTypeOK' /\ MadeTogether' /\ NoStrayTask' /\ EndMatchesWorkflow'
        /\ MaterialsSuffice'
    BY <2>1 DEF PlanInv, ExecutionTypeOK, MadeTogether, NoStrayTask, Live, EndMatchesWorkflow,
                MaterialsSuffice, Resumable
  <2>4. CallsSound'
    BY <2>1 DEF PlanInv, CallsSound, CallSound, BoundSteps, Opened, Alive, Resumable
  <2> QED
    BY <2>1, <2>2, <2>3, <2>4 DEF PlanInv
<1> QED
  BY <1>1, <1>2, <1>3, <1>4, <1>5 DEF Next

\* A call is never wrong about the workflow it dispatches for, whatever happens
\* between the transactions it is made of.
THEOREM PlanInvariant == Spec => []PlanInv
  BY PlanInit, PlanNext, PTL DEF Spec

(***************************************************************************)
(* What follows                                                            *)
(***************************************************************************)

\* The controller does nothing to a workflow that is not one of the workflow's
\* own operations, in any call, with any crash.
THEOREM PlanDrivesWorkflow == Spec => DrivesWorkflow
<1>1. Init => WorkflowInit
  BY DEF Init
<1> QED
  BY <1>1, PlanNext, PlanInvariant, PTL DEF Spec, DrivesWorkflow, WorkflowSpec

\* Values keep their types, a task counts for one stage, and no task of the plan
\* is launched out of turn or lost, though a call may die between launching a
\* task and binding it (pump: "repair the tiny create-task/bind-stage crash
\* window").
THEOREM PlanTasksStand == Spec => []TasksStand
<1>1. PlanInv => TasksStand
  BY DEF PlanInv, WorkflowInv, FlowInv, FlowType, Decisions, WorkflowTypeOK,
         ExecutionTypeOK, PlanTypeOK, TasksStand
<1> QED
  BY <1>1, PlanInvariant, PTL

\* An execution that says it has ended has a workflow that ended the same way,
\* though its status is written long after the workflow was read.
THEOREM PlanEndMatchesWorkflow == Spec => []EndMatchesWorkflow
<1>1. PlanInv => EndMatchesWorkflow
  BY DEF PlanInv
<1> QED
  BY <1>1, PlanInvariant, PTL

\* A process has the prompts of all the steps that are left, or none: a resume
\* gives those of every step that has no task ("resume material must exactly
\* match undispatched stages").
THEOREM PlanMaterialsSuffice == Spec => []MaterialsSuffice
<1>1. PlanInv => MaterialsSuffice
  BY DEF PlanInv
<1> QED
  BY <1>1, PlanInvariant, PTL

\* The pump's loop goes round once for each step that has a task, whatever the
\* others do meanwhile (pump: "cannot spin forever").
THEOREM PlanPumpGetsOn == Spec => []PumpGetsOn
<1>1. PlanInv => PumpGetsOn
  BY CallFacts DEF PumpGetsOn, BoundSteps
<1> QED
  BY <1>1, PlanInvariant, PTL

\* What is true of every workflow is true of the workflow of a plan, and of the
\* others beside it: one open stage, nothing out of turn, nothing completed that
\* has not earned it, nothing decided before it is finished, one stage a time.
THEOREM PlanKeepsWorkflowsSound ==
  Spec => /\ [](OneOpenStage /\ InTurn /\ CompletedIsEarned /\ DecidedOnResults)
          /\ ImplementsStageByStage
  BY PlanDrivesWorkflow, WorkflowOneOpenStage, WorkflowInTurn, WorkflowCompletedIsEarned,
     WorkflowDecidedOnResults, WorkflowGoesStageByStage, PTL DEF DrivesWorkflow
=============================================================================
