------------------------ MODULE TaskAdmissionProofs ------------------------
(***************************************************************************)
(* Proofs about the admission of tasks, for any number of callers and      *)
(* processes, any requests, keys and runs, and any slot limit.  What no    *)
(* step but CreateTask does (add a row, change what a row is called) is a  *)
(* lemma of its own; names, answers, budget and slots then follow one by   *)
(* one.                                                                    *)
(***************************************************************************)
EXTENDS TaskAdmission, DataLemmas, SequenceTheorems, TLAPS

CallerType ==
  [place : Places, request : Requests, since : Nat, answer : Answers, task : Nat]

\* TypeOK, with what it leaves open: callers are records of the declared type.
Typed == TypeOK /\ caller \in [Callers -> CallerType]

\* A key that is bound names a task made under it by the same body.
BindingsName ==
  \A k \in Keys : idem[k].task # NoTask =>
    /\ tasks[idem[k].task].key = k
    /\ tasks[idem[k].task].body = idem[k].body

\* Every task made under a key is the one its key is bound to.
TasksBound ==
  \A i \in DOMAIN tasks : tasks[i].key # NoKey => idem[tasks[i].key].task = i

\* Two tasks of one run are two steps.
StepsDistinct ==
  \A i, j \in DOMAIN tasks :
    tasks[i].run # NoRun /\ tasks[i].run = tasks[j].run
      /\ tasks[i].step = tasks[j].step => i = j

\* Whoever was told of a task was told of one that exists.
AnswersExist ==
  \A c \in Callers :
    caller[c].answer \in {"created", "replayed"} => caller[c].task \in DOMAIN tasks

\* A launch between its row and its worker has a task of its own process that
\* no worker runs and no other such launch has.
Launching(c) == caller[c].place \in {"start", "report"}

HandOver ==
  /\ \A c \in Callers : Launching(c) =>
       /\ caller[c].task \in DOMAIN tasks
       /\ tasks[caller[c].task].worker = "none"
       /\ tasks[caller[c].task].home = Home(c)
  /\ \A c, d \in Callers :
       Launching(c) /\ Launching(d) /\ caller[c].task = caller[d].task => c = d

\* The inductive invariant.
AdmissionInv ==
  /\ Typed
  /\ BindingsName /\ TasksBound /\ StepsDistinct
  /\ AnswersExist /\ AnswersAgree
  /\ HandOver
  /\ SlotsAccounted
  /\ DispatchBudget

-----------------------------------------------------------------------------
(***************************************************************************)
(* Types                                                                   *)
(***************************************************************************)

\* A sequence of rows stays one when a row is exchanged for another.
LEMMA RowReplaced ==
  ASSUME Typed, NEW i \in DOMAIN tasks, NEW t \in TaskType,
         tasks' = [tasks EXCEPT ![i] = t]
  PROVE  /\ tasks' \in Seq(TaskType)
         /\ Len(tasks') = Len(tasks)
         /\ DOMAIN tasks' = DOMAIN tasks
         /\ tasks'[i] = t
         /\ \A j \in DOMAIN tasks : j # i => tasks'[j] = tasks[j]
  BY ExceptSeq, LenProperties DEF Typed, TypeOK

\* Init has the types: no rows, no bindings, every thread idle.
LEMMA InitTyped == Init => Typed
<1> SUFFICES ASSUME Init PROVE Typed
  OBVIOUS
<1> USE DEF Init, NoTime, NoTask
<1>1. tasks \in Seq(TaskType) /\ Len(tasks) = 0
  BY EmptySeq
<1>2. idem \in [Keys -> [body : BoundBodies, task : 0..Len(tasks)]]
<2>1. "unbound" \in BoundBodies /\ 0 \in 0..Len(tasks)
  BY <1>1 DEF BoundBodies
<2> QED
  BY <2>1
<1>3. runs \in [Runs -> [open : BOOLEAN, maxDispatches : Nat, maxRuntime : Nat]]
  OBVIOUS
<1>4. slots \in [Processes -> Nat]
  OBVIOUS
<1>5. (CHOOSE q \in Requests : TRUE) \in Requests
  BY AdmissionAssumptions
<1>6. /\ caller \in [Callers -> CallerType]
      /\ \A c \in Callers : caller[c].task = 0
  BY <1>5 DEF CallerType, Places, Answers
<1>7. calls \in 0..MaxCalls
  BY AdmissionAssumptions
<1>8. faults \in 0..MaxFaults
  BY AdmissionAssumptions
<1>9. now \in 1..MaxClock
  BY AdmissionAssumptions
<1>10. \A c \in Callers :
         /\ caller[c].place \in Places /\ caller[c].request \in Requests
         /\ caller[c].since \in Nat /\ caller[c].answer \in Answers
         /\ caller[c].task \in 0..Len(tasks)
  BY <1>1, <1>6 DEF CallerType
<1> HIDE DEF Init
<1> QED
  BY <1>1, <1>2, <1>3, <1>4, <1>6, <1>7, <1>8, <1>9, <1>10 DEF Typed, TypeOK

\* What a launch puts in the table is a row of the declared type.
LEMMA RowIsTask ==
  ASSUME Typed, NEW c \in Callers
  PROVE  Row(c) \in TaskType
  BY AdmissionAssumptions
     DEF Row, Request, Home, TaskType, Typed, TypeOK, CallerType, RequestType,
         Statuses, NoTime

\* Every row has the declared type.
LEMMA RowTyped ==
  ASSUME Typed, NEW i \in DOMAIN tasks
  PROVE  tasks[i] \in TaskType /\ i \in 1..Len(tasks)
  BY DEF Typed, TypeOK

\* A terminal write leaves a row of the declared type.
LEMMA EndedIsTask ==
  ASSUME Typed, NEW i \in DOMAIN tasks, NEW w \in {"none", "live", "gone"}
  PROVE  Ended(i, w) \in TaskType
<1>1. tasks[i] \in TaskType /\ now \in Nat
  BY RowTyped DEF Typed, TypeOK
<1> QED
  BY <1>1 DEF Ended, TaskType, Statuses

\* The task a verdict names is there, or comes next.
LEMMA VerdictTyped ==
  ASSUME Typed, NEW q \in Requests, NEW at \in Nat
  PROVE  /\ Verdict(q, at).is \in {"created", "replayed", "conflict",
                                   "step_conflict", "budget_rejected"}
         /\ Verdict(q, at).task \in 1..(Len(tasks) + 1)
         /\ Verdict(q, at).is = "replayed" =>
              /\ Verdict(q, at).task \in DOMAIN tasks
              /\ Bound(q.key)
              /\ idem[q.key] = [body |-> q.body, task |-> Verdict(q, at).task]
         /\ Verdict(q, at).is = "created" =>
              /\ Verdict(q, at).task = Len(tasks) + 1
              /\ StepTasks(q) = {}
              /\ ~Bound(q.key)
              /\ q.run # NoRun => Admissible(q, at)
<1> DEFINE there == IF StepTasks(q) # {} THEN CHOOSE i \in StepTasks(q) : TRUE
                    ELSE IF Bound(q.key) THEN idem[q.key].task
                    ELSE NoTask
<1>1. StepTasks(q) \subseteq DOMAIN tasks
  BY DEF StepTasks
<1>2. DOMAIN tasks = 1..Len(tasks) /\ Len(tasks) \in Nat
  BY LenProperties DEF Typed, TypeOK
<1>3. q.key \in Keys \cup {NoKey}
  BY AdmissionAssumptions DEF RequestType
<1>4. Bound(q.key) => idem[q.key].task \in 1..Len(tasks)
  BY <1>2, <1>3 DEF Bound, Typed, TypeOK, NoTask
<1>5. StepTasks(q) # {} => (CHOOSE i \in StepTasks(q) : TRUE) \in StepTasks(q)
  OBVIOUS
<1>6. there = NoTask \/ there \in 1..Len(tasks)
  BY <1>1, <1>2, <1>4, <1>5
<1>7. there = NoTask => StepTasks(q) = {} /\ ~Bound(q.key)
  BY <1>1, <1>2, <1>4, <1>5 DEF NoTask
<1>8. Replayable(q, there) => Bound(q.key) /\ idem[q.key] = [body |-> q.body, task |-> there]
  BY DEF Replayable
<1>9. /\ Verdict(q, at).task = IF there = NoTask THEN Len(tasks) + 1 ELSE there
      /\ Verdict(q, at).is =
           IF there # NoTask /\ Replayable(q, there) THEN "replayed"
           ELSE IF StepTasks(q) # {} THEN "step_conflict"
           ELSE IF there # NoTask THEN "conflict"
           ELSE IF q.run # NoRun /\ ~Admissible(q, at) THEN "budget_rejected"
           ELSE "created"
  BY DEF Verdict
<1> HIDE DEF there
<1> QED
  BY <1>2, <1>6, <1>7, <1>8, <1>9 DEF NoTask

-----------------------------------------------------------------------------
(***************************************************************************)
(* What a step does to the table                                           *)
(***************************************************************************)

\* What a task is called, and where it runs.
SameName(t, u) ==
  /\ t.key = u.key /\ t.body = u.body
  /\ t.run = u.run /\ t.step = u.step
  /\ t.home = u.home

\* The table keeps its rows, and each its name.
RowsKept ==
  /\ tasks' \in Seq(TaskType)
  /\ DOMAIN tasks' = DOMAIN tasks /\ Len(tasks') = Len(tasks)
  /\ \A j \in DOMAIN tasks : SameName(tasks'[j], tasks[j])

\* At most row i changes, its worker is w afterwards, and it keeps its name.
OneRow(i, w) ==
  /\ RowsKept
  /\ i \in DOMAIN tasks
  /\ tasks'[i].worker = w
  /\ \A j \in DOMAIN tasks : j # i => tasks'[j] = tasks[j]

\* Exchanging a row for one of the same name is a step of that kind.
LEMMA OneRowReplaced ==
  ASSUME Typed, NEW i \in DOMAIN tasks, NEW t \in TaskType,
         SameName(t, tasks[i]), tasks' = [tasks EXCEPT ![i] = t]
  PROVE  OneRow(i, t.worker)
  BY RowReplaced DEF OneRow, RowsKept, SameName

\* Assigning the worker of a row is such an exchange.
LEMMA WorkerReplaced ==
  ASSUME Typed, NEW i \in DOMAIN tasks, NEW w \in {"none", "live", "gone"},
         tasks' = [tasks EXCEPT ![i].worker = w]
  PROVE  OneRow(i, w)
<1> DEFINE t == [tasks[i] EXCEPT !.worker = w]
<1>1. t \in TaskType /\ SameName(t, tasks[i]) /\ t.worker = w
  BY RowTyped DEF TaskType, SameName
<1>2. tasks' = [tasks EXCEPT ![i] = t]
  OBVIOUS
<1> HIDE DEF t
<1> QED
  BY <1>1, <1>2, OneRowReplaced

\* A terminal write is such an exchange too.
LEMMA EndedReplaced ==
  ASSUME Typed, NEW i \in DOMAIN tasks, NEW w \in {"none", "live", "gone"},
         tasks' = [tasks EXCEPT ![i] = Ended(i, w)]
  PROVE  OneRow(i, w)
<1>1. Ended(i, w) \in TaskType
  BY EndedIsTask
<1>2. SameName(Ended(i, w), tasks[i]) /\ Ended(i, w).worker = w
  BY RowTyped DEF Ended, SameName, TaskType
<1> QED
  BY <1>1, <1>2, OneRowReplaced

\* The worker of the launch's task starts.
LEMMA StartWorkerRow ==
  ASSUME Typed, HandOver, NEW c \in Callers, StartWorker(c)
  PROVE  OneRow(caller[c].task, "live")
  BY WorkerReplaced DEF StartWorker, HandOver, Launching

\* The launch's task never gets one.
LEMMA ReportRow ==
  ASSUME Typed, HandOver, NEW c \in Callers, ReportStartFailure(c)
  PROVE  OneRow(caller[c].task, "gone")
  BY WorkerReplaced, EndedReplaced DEF ReportStartFailure, HandOver, Launching

\* A worker marks its task running, and keeps it.
LEMMA RunRow ==
  ASSUME Typed, NEW i \in DOMAIN tasks, Run(i)
  PROVE  OneRow(i, "live")
<1> DEFINE t == [[tasks[i] EXCEPT !.status = "running"] EXCEPT !.started = now]
<1>1. t \in TaskType /\ SameName(t, tasks[i]) /\ t.worker = "live"
  <2>1. tasks[i] \in TaskType /\ now \in Nat /\ tasks[i].worker = "live"
    BY RowTyped DEF Typed, TypeOK, Run
  <2> QED
    BY <2>1 DEF TaskType, SameName, Statuses
<1>2. tasks' = [tasks EXCEPT ![i] = t]
  BY DEF Run
<1> HIDE DEF t
<1> QED
  BY <1>1, <1>2, OneRowReplaced

\* A worker finishes its task, and has still to return.
LEMMA FinishRow ==
  ASSUME Typed, NEW i \in DOMAIN tasks, Finish(i)
  PROVE  OneRow(i, "live")
  BY EndedReplaced DEF Finish

\* A worker is gone once it has returned.
LEMMA ReturnsRow ==
  ASSUME Typed, NEW i \in DOMAIN tasks, WorkerReturns(i)
  PROVE  OneRow(i, "gone")
  BY WorkerReplaced DEF WorkerReturns

\* Reconciliation settles the row and leaves the worker as it is.
LEMMA ReconcileRow ==
  ASSUME Typed, NEW i \in DOMAIN tasks, Reconcile(i)
  PROVE  OneRow(i, tasks[i].worker)
<1>1. tasks[i] \in TaskType
  BY RowTyped
<1>2. tasks[i].worker \in {"none", "live", "gone"}
  BY <1>1 DEF TaskType
<1>3. CASE tasks' = [tasks EXCEPT ![i] = Ended(i, @.worker)]
  BY <1>2, <1>3, EndedReplaced
<1>4. CASE tasks' = [tasks EXCEPT ![i].status = "lost"]
  <2> DEFINE t == [tasks[i] EXCEPT !.status = "lost"]
  <2>1. t \in TaskType /\ SameName(t, tasks[i]) /\ t.worker = tasks[i].worker
    BY <1>1 DEF TaskType, SameName, Statuses
  <2>2. tasks' = [tasks EXCEPT ![i] = t]
    BY <1>4
  <2> HIDE DEF t
  <2> QED
    BY <2>1, <2>2, OneRowReplaced
<1> QED
  BY <1>3, <1>4 DEF Reconcile

\* A crash takes the workers of its process and no other's.
LEMMA CrashRows ==
  ASSUME Typed, NEW p \in Processes, Crash(p)
  PROVE  /\ RowsKept
         /\ \A i \in DOMAIN tasks :
              IF tasks[i].home = p THEN tasks'[i].worker = "gone"
              ELSE tasks'[i] = tasks[i]
<1> DEFINE e(i) == IF tasks[i].home = p THEN [tasks[i] EXCEPT !.worker = "gone"]
                   ELSE tasks[i]
<1>1. Len(tasks) \in Nat /\ DOMAIN tasks = 1..Len(tasks)
  BY LenProperties DEF Typed, TypeOK
<1>2. \A i \in DOMAIN tasks : tasks[i] \in TaskType
  BY RowTyped
<1>3. \A i \in DOMAIN tasks : e(i) \in TaskType
  BY <1>2 DEF TaskType
<1>4. tasks' = [i \in 1..Len(tasks) |-> e(i)]
  BY <1>1 DEF Crash
<1>5. tasks' \in [1..Len(tasks) -> TaskType]
  BY <1>1, <1>3, <1>4
<1>6. tasks' \in Seq(TaskType) /\ Len(tasks') = Len(tasks)
  BY <1>1, <1>5, SeqDef
<1>7. \A i \in DOMAIN tasks : SameName(e(i), tasks[i])
  BY <1>2 DEF SameName, TaskType
<1>8. \A i \in DOMAIN tasks : tasks[i].home = p => e(i).worker = "gone"
  BY <1>2 DEF TaskType
<1> QED
  BY <1>1, <1>4, <1>6, <1>7, <1>8 DEF RowsKept

\* CreateTask adds one row at the end, and does so on the verdict "created".
LEMMA CreateRow ==
  ASSUME Typed, NEW c \in Callers, CreateTask(c)
  PROVE  /\ tasks' \in Seq(TaskType)
         /\ Len(tasks) \in Nat /\ Len(tasks') = Len(tasks) + 1
         /\ DOMAIN tasks = 1..Len(tasks) /\ DOMAIN tasks' = 1..(Len(tasks) + 1)
         /\ \A i \in DOMAIN tasks : tasks'[i] = tasks[i]
         /\ tasks'[Len(tasks) + 1] = Row(c)
         /\ Verdict(Request(c), caller[c].since).task = Len(tasks) + 1
         /\ StepTasks(Request(c)) = {}
         /\ ~Bound(Request(c).key)
         /\ Request(c).run # NoRun => Admissible(Request(c), caller[c].since)
<1>1. tasks \in Seq(TaskType) /\ Row(c) \in TaskType
  BY RowIsTask DEF Typed, TypeOK
<1>2. Request(c) \in Requests /\ caller[c].since \in Nat
  BY DEF Typed, CallerType, Request
<1>3. Verdict(Request(c), caller[c].since).is = "created"
      /\ tasks' = Append(tasks, Row(c))
  BY DEF CreateTask
<1>4. /\ Verdict(Request(c), caller[c].since).task = Len(tasks) + 1
      /\ StepTasks(Request(c)) = {}
      /\ ~Bound(Request(c).key)
      /\ Request(c).run # NoRun => Admissible(Request(c), caller[c].since)
  BY <1>2, <1>3, VerdictTyped
<1>5. Len(tasks) \in Nat /\ DOMAIN tasks = 1..Len(tasks)
  BY <1>1, LenProperties
<1>6. /\ tasks' \in Seq(TaskType) /\ Len(tasks') = Len(tasks) + 1
      /\ \A i \in 1..Len(tasks) : tasks'[i] = tasks[i]
      /\ tasks'[Len(tasks) + 1] = Row(c)
  BY <1>1, <1>3, AppendProperties
<1>7. DOMAIN tasks' = 1..(Len(tasks) + 1)
  BY <1>6, LenProperties
<1> QED
  BY <1>4, <1>5, <1>6, <1>7

-----------------------------------------------------------------------------
(***************************************************************************)
(* What a step does to the callers, and the types of the rest              *)
(***************************************************************************)

OthersStay(c) == \A d \in Callers : d # c => caller'[d] = caller[d]

\* Going on changes the place of one caller.
LEMMA GoMoves ==
  ASSUME Typed, NEW c \in Callers, NEW p \in Places, Go(c, p)
  PROVE  /\ caller' \in [Callers -> CallerType]
         /\ caller'[c] = [caller[c] EXCEPT !.place = p]
         /\ caller'[c].place = p /\ caller'[c].task = caller[c].task
         /\ caller'[c].answer = caller[c].answer
         /\ caller'[c].request = caller[c].request
         /\ OthersStay(c)
<1>1. caller \in [Callers -> CallerType] /\ caller[c] \in CallerType
  BY DEF Typed
<1>2. /\ [caller[c] EXCEPT !.place = p] \in CallerType
      /\ [caller[c] EXCEPT !.place = p].place = p
      /\ [caller[c] EXCEPT !.place = p].task = caller[c].task
      /\ [caller[c] EXCEPT !.place = p].answer = caller[c].answer
      /\ [caller[c] EXCEPT !.place = p].request = caller[c].request
  BY <1>1 DEF CallerType
<1>3. caller' = [caller EXCEPT ![c] = [caller[c] EXCEPT !.place = p]]
  BY <1>1 DEF Go
<1> QED
  BY <1>1, <1>2, <1>3 DEF OthersStay

\* Answering changes one caller, whose request stays.
LEMMA AnswerMoves ==
  ASSUME Typed, NEW c \in Callers, NEW p \in Places, NEW a \in Answers,
         NEW t \in Nat, Answer(c, p, a, t)
  PROVE  /\ caller' \in [Callers -> CallerType]
         /\ caller'[c].place = p /\ caller'[c].answer = a /\ caller'[c].task = t
         /\ caller'[c].request = caller[c].request
         /\ OthersStay(c)
<1>1. caller \in [Callers -> CallerType] /\ caller[c] \in CallerType
  BY DEF Typed
<1> DEFINE r == [caller[c] EXCEPT !.place = p, !.since = NoTime,
                                  !.answer = a, !.task = t]
<1>2. r \in CallerType /\ r.place = p /\ r.answer = a /\ r.task = t
      /\ r.request = caller[c].request
  BY <1>1 DEF CallerType, NoTime
<1>3. caller' = [caller EXCEPT ![c] = r]
  BY <1>1 DEF Answer
<1> HIDE DEF r
<1> QED
  BY <1>1, <1>2, <1>3 DEF OthersStay

\* What a caller may be told of by Submit, and where it goes.
LEMMA SubmitMoves ==
  ASSUME Typed, NEW c \in Callers, NEW q \in Requests, Submit(c, q)
  PROVE  /\ caller' \in [Callers -> CallerType]
         /\ caller'[c].request = q
         /\ caller'[c].place \in {"slot", "idle"}
         /\ caller'[c].answer \in {"none", "replayed", "conflict"}
         /\ caller'[c].task \in 0..Len(tasks)
         /\ caller'[c].answer = "replayed" =>
              /\ Bound(q.key)
              /\ idem[q.key] = [body |-> q.body, task |-> caller'[c].task]
         /\ OthersStay(c)
<1>1. caller \in [Callers -> CallerType] /\ caller[c] \in CallerType
      /\ now \in Nat /\ Len(tasks) \in Nat
  BY LenProperties DEF Typed, TypeOK
<1>2. q.key \in Keys \cup {NoKey}
  BY AdmissionAssumptions DEF RequestType
<1>3. Bound(q.key) => idem[q.key].task \in 0..Len(tasks)
  BY <1>2 DEF Bound, Typed, TypeOK
<1> DEFINE r == IF ~Bound(q.key)
                  THEN [place |-> "slot", request |-> q, since |-> now,
                        answer |-> "none", task |-> NoTask]
                ELSE IF Replayable(q, idem[q.key].task)
                  THEN [place |-> "idle", request |-> q, since |-> NoTime,
                        answer |-> "replayed", task |-> idem[q.key].task]
                ELSE [place |-> "idle", request |-> q, since |-> NoTime,
                      answer |-> "conflict", task |-> NoTask]
<1>4. caller' = [caller EXCEPT ![c] = r]
  BY DEF Submit
<1>5. /\ r \in CallerType /\ r.request = q /\ r.place \in {"slot", "idle"}
      /\ r.answer \in {"none", "replayed", "conflict"}
      /\ r.task \in 0..Len(tasks)
  BY <1>1, <1>3 DEF CallerType, Places, Answers, NoTime, NoTask
<1>6. r.answer = "replayed" =>
        Bound(q.key) /\ idem[q.key] = [body |-> q.body, task |-> r.task]
  BY DEF Replayable
<1> HIDE DEF r
<1> QED
  BY <1>1, <1>4, <1>5, <1>6 DEF OthersStay

\* A crash sends the callers of its process home without an answer.
LEMMA CrashMoves ==
  ASSUME Typed, NEW p \in Processes, Crash(p)
  PROVE  /\ caller' \in [Callers -> CallerType]
         /\ \A c \in Callers :
              IF Home(c) # p THEN caller'[c] = caller[c]
              ELSE /\ caller'[c].place = "idle" /\ caller'[c].answer = "none"
                   /\ caller'[c].task = NoTask
                   /\ caller'[c].request = caller[c].request
<1> DEFINE r(c) == IF Home(c) # p THEN caller[c]
                   ELSE [caller[c] EXCEPT !.place = "idle", !.answer = "none",
                                          !.task = NoTask]
<1>1. \A c \in Callers : caller[c] \in CallerType
  BY DEF Typed
<1>2. caller' = [c \in Callers |-> r(c)]
  BY DEF Crash
<1>3. \A c \in Callers : r(c) \in CallerType
  BY <1>1 DEF CallerType, Places, Answers, NoTask
<1>4. \A c \in Callers : Home(c) = p =>
         /\ r(c).place = "idle" /\ r(c).answer = "none" /\ r(c).task = NoTask
         /\ r(c).request = caller[c].request
  BY <1>1 DEF CallerType
<1> QED
  BY <1>2, <1>3, <1>4

-----------------------------------------------------------------------------
(***************************************************************************)
(* Every step keeps the types                                              *)
(***************************************************************************)

\* Only CreateTask adds a row, binds a key or touches a run's ceilings.
LEMMA RowsStep ==
  ASSUME Typed, HandOver, [Next]_vars
  PROVE  \/ \E c \in Callers : CreateTask(c)
         \/ RowsKept /\ UNCHANGED <<idem, runs>>
<1>1. UNCHANGED tasks => RowsKept
  BY LenProperties DEF RowsKept, SameName, Typed, TypeOK
<1>2. ASSUME NEW c \in Callers, CallerStep(c), ~CreateTask(c)
      PROVE  RowsKept /\ UNCHANGED <<idem, runs>>
  <2>1. ASSUME NEW q \in Requests, Submit(c, q) PROVE RowsKept /\ UNCHANGED <<idem, runs>>
    BY <1>1, <2>1 DEF Submit
  <2>2. CASE TakeSlot(c)
    BY <1>1, <2>2 DEF TakeSlot
  <2>3. CASE CreateRefused(c)
    BY <1>1, <2>3 DEF CreateRefused
  <2>4. CASE CreateFails(c)
    BY <1>1, <2>4 DEF CreateFails
  <2>5. CASE ReturnSlot(c)
    BY <1>1, <2>5 DEF ReturnSlot
  <2>6. CASE StartWorker(c)
    BY <2>6, StartWorkerRow DEF StartWorker, OneRow
  <2>7. CASE StartFails(c)
    BY <1>1, <2>7 DEF StartFails
  <2>8. CASE ReportStartFailure(c)
    BY <2>8, ReportRow DEF ReportStartFailure, OneRow
  <2> QED
    BY <1>2, <2>1, <2>2, <2>3, <2>4, <2>5, <2>6, <2>7, <2>8 DEF CallerStep
<1>3. ASSUME NEW i \in DOMAIN tasks, TaskStep(i)
      PROVE  RowsKept /\ UNCHANGED <<idem, runs>>
  <2>1. CASE Run(i)
    BY <2>1, RunRow DEF Run, OneRow
  <2>2. CASE Finish(i)
    BY <2>2, FinishRow DEF Finish, OneRow
  <2>3. CASE WorkerReturns(i)
    BY <2>3, ReturnsRow DEF WorkerReturns, OneRow
  <2>4. CASE Reconcile(i)
    BY <2>4, ReconcileRow DEF Reconcile, OneRow
  <2> QED
    BY <1>3, <2>1, <2>2, <2>3, <2>4 DEF TaskStep
<1>4. ASSUME NEW p \in Processes, Crash(p)
      PROVE  RowsKept /\ UNCHANGED <<idem, runs>>
  BY <1>4, CrashRows DEF Crash
<1>5. CASE Tick
  BY <1>1, <1>5 DEF Tick
<1>6. CASE UNCHANGED vars
  BY <1>1, <1>6 DEF vars
<1> QED
  BY <1>2, <1>3, <1>4, <1>5, <1>6 DEF Next

\* Rows, bindings and ceilings keep their types.
LEMMA LedgerTyped ==
  ASSUME Typed, HandOver, [Next]_vars
  PROVE  /\ tasks' \in Seq(TaskType)
         /\ Len(tasks) \in Nat /\ Len(tasks') \in Nat /\ Len(tasks) <= Len(tasks')
         /\ idem' \in [Keys -> [body : BoundBodies, task : 0..Len(tasks')]]
         /\ runs' \in [Runs -> [open : BOOLEAN, maxDispatches : Nat, maxRuntime : Nat]]
<1>1. Len(tasks) \in Nat
  BY LenProperties DEF Typed, TypeOK
<1>2. /\ idem \in [Keys -> [body : BoundBodies, task : 0..Len(tasks)]]
      /\ runs \in [Runs -> [open : BOOLEAN, maxDispatches : Nat, maxRuntime : Nat]]
  BY DEF Typed, TypeOK
<1>3. CASE RowsKept /\ UNCHANGED <<idem, runs>>
  BY <1>1, <1>2, <1>3 DEF RowsKept
<1>4. ASSUME NEW c \in Callers, CreateTask(c)
      PROVE  /\ tasks' \in Seq(TaskType)
             /\ Len(tasks) \in Nat /\ Len(tasks') \in Nat /\ Len(tasks) <= Len(tasks')
             /\ idem' \in [Keys -> [body : BoundBodies, task : 0..Len(tasks')]]
             /\ runs' \in [Runs -> [open : BOOLEAN, maxDispatches : Nat, maxRuntime : Nat]]
  <2> DEFINE q == Request(c)
  <2>1. q \in Requests /\ q \in RequestType /\ q.body \in BoundBodies
    BY AdmissionAssumptions DEF Request, Typed, CallerType, BoundBodies
  <2>2. /\ q.key \in Keys \cup {NoKey} /\ q.run \in Runs \cup {NoRun}
        /\ q.maxDispatches \in Nat /\ q.maxRuntime \in Nat
    BY <2>1 DEF RequestType
  <2>3. tasks' \in Seq(TaskType) /\ Len(tasks') = Len(tasks) + 1
        /\ Verdict(q, caller[c].since).task = Len(tasks) + 1
    BY <1>4, CreateRow
  <2>4. idem \in [Keys -> [body : BoundBodies, task : 0..Len(tasks')]]
    <3>1. 0..Len(tasks) \subseteq 0..Len(tasks')
      BY <1>1, <2>3
    <3>2. [body : BoundBodies, task : 0..Len(tasks)]
            \subseteq [body : BoundBodies, task : 0..Len(tasks')]
      BY <3>1
    <3> QED
      BY <1>2, <3>2
  <2>5. [body |-> q.body, task |-> Len(tasks) + 1]
          \in [body : BoundBodies, task : 0..Len(tasks')]
    BY <1>1, <2>1, <2>3
  <2>6. idem' = IF q.key = NoKey THEN idem
                ELSE [idem EXCEPT ![q.key] = [body |-> q.body, task |-> Len(tasks) + 1]]
    BY <1>4, <2>3 DEF CreateTask
  <2>7. idem' \in [Keys -> [body : BoundBodies, task : 0..Len(tasks')]]
    BY <2>2, <2>4, <2>5, <2>6
  <2>8. runs' \in [Runs -> [open : BOOLEAN, maxDispatches : Nat, maxRuntime : Nat]]
    BY <1>2, <1>4, <2>2 DEF CreateTask
  <2> QED
    BY <1>1, <2>3, <2>7, <2>8
<1> QED
  BY <1>3, <1>4, RowsStep

\* The slot counts stay natural numbers.
LEMMA SlotsTyped ==
  ASSUME Typed, [Next]_vars
  PROVE  slots' \in [Processes -> Nat]
<1>1. slots \in [Processes -> Nat]
  BY DEF Typed, TypeOK
<1>2. ASSUME NEW p \in Processes, Release(p) PROVE slots' \in [Processes -> Nat]
  BY <1>1, <1>2 DEF Release
<1>3. \A c \in Callers : Home(c) \in Processes
  BY AdmissionAssumptions DEF Home
<1>4. ASSUME NEW c \in Callers, CallerStep(c) PROVE slots' \in [Processes -> Nat]
  BY <1>1, <1>2, <1>3, <1>4
     DEF CallerStep, Submit, TakeSlot, CreateTask, CreateRefused, CreateFails,
         ReturnSlot, StartWorker, StartFails, ReportStartFailure
<1>5. ASSUME NEW i \in DOMAIN tasks, TaskStep(i) PROVE slots' \in [Processes -> Nat]
  <2>1. tasks[i].home \in Processes
    BY RowTyped DEF TaskType
  <2> QED
    BY <1>1, <1>2, <1>5, <2>1 DEF TaskStep, Run, Finish, WorkerReturns, Reconcile
<1>6. ASSUME NEW p \in Processes, Crash(p) PROVE slots' \in [Processes -> Nat]
  BY <1>1, <1>6 DEF Crash
<1>7. CASE Tick
  BY <1>1, <1>7 DEF Tick
<1>8. CASE UNCHANGED vars
  BY <1>1, <1>8 DEF vars
<1> QED
  BY <1>4, <1>5, <1>6, <1>7, <1>8 DEF Next

\* The bounded counters stay in their bounds.
LEMMA CountersTyped ==
  ASSUME Typed, [Next]_vars
  PROVE  calls' \in 0..MaxCalls /\ faults' \in 0..MaxFaults /\ now' \in 1..MaxClock
<1>1. /\ calls \in 0..MaxCalls /\ faults \in 0..MaxFaults /\ now \in 1..MaxClock
      /\ MaxCalls \in Nat /\ MaxFaults \in Nat /\ MaxClock \in Nat
  BY AdmissionAssumptions DEF Typed, TypeOK
<1>2. calls' = calls \/ (calls < MaxCalls /\ calls' = calls + 1)
  BY DEF Next, vars, CallerStep, Submit, TakeSlot, CreateTask, CreateRefused,
         CreateFails, ReturnSlot, StartWorker, StartFails, ReportStartFailure,
         TaskStep, Run, Finish, WorkerReturns, Reconcile, Crash, Tick
<1>3. faults' = faults \/ (faults < MaxFaults /\ faults' = faults + 1)
  BY DEF Next, vars, CallerStep, Submit, TakeSlot, CreateTask, CreateRefused,
         CreateFails, ReturnSlot, StartWorker, StartFails, ReportStartFailure,
         TaskStep, Run, Finish, WorkerReturns, Reconcile, Crash, Tick, Fault
<1>4. now' = now \/ (now < MaxClock /\ now' = now + 1)
  BY DEF Next, vars, CallerStep, Submit, TakeSlot, CreateTask, CreateRefused,
         CreateFails, ReturnSlot, StartWorker, StartFails, ReportStartFailure,
         TaskStep, Run, Finish, WorkerReturns, Reconcile, Crash, Tick
<1> QED
  BY <1>1, <1>2, <1>3, <1>4

\* The verdict a refused launch answers with, and the task it names.
LEMMA RefusedMoves ==
  ASSUME Typed, NEW c \in Callers, CreateRefused(c)
  PROVE  /\ caller' \in [Callers -> CallerType]
         /\ caller'[c].place = "return"
         /\ caller'[c].answer \in {"replayed", "conflict", "step_conflict",
                                   "budget_rejected"}
         /\ caller'[c].task \in 0..Len(tasks)
         /\ caller'[c].request = caller[c].request
         /\ caller'[c].answer = "replayed" =>
              /\ Bound(Request(c).key)
              /\ idem[Request(c).key] = [body |-> Request(c).body,
                                         task |-> caller'[c].task]
         /\ OthersStay(c)
<1> DEFINE v == Verdict(Request(c), caller[c].since)
           t == IF v.is = "replayed" THEN v.task ELSE NoTask
<1>1. Request(c) \in Requests /\ caller[c].since \in Nat /\ Len(tasks) \in Nat
      /\ DOMAIN tasks = 1..Len(tasks)
  BY LenProperties DEF Typed, TypeOK, CallerType, Request
<1>2. /\ v.is \in {"created", "replayed", "conflict", "step_conflict", "budget_rejected"}
      /\ v.is = "replayed" =>
           /\ v.task \in DOMAIN tasks
           /\ Bound(Request(c).key)
           /\ idem[Request(c).key] = [body |-> Request(c).body, task |-> v.task]
  BY <1>1, VerdictTyped
<1>3. v.is # "created" /\ Answer(c, "return", v.is, t)
  BY DEF CreateRefused
<1> HIDE DEF v
<1>4. t \in Nat /\ t \in 0..Len(tasks)
  BY <1>1, <1>2 DEF NoTask
<1>5. v.is \in Answers /\ "return" \in Places
  BY <1>2 DEF Answers, Places
<1> HIDE DEF t
<1>6. /\ caller' \in [Callers -> CallerType]
      /\ caller'[c].place = "return" /\ caller'[c].answer = v.is
      /\ caller'[c].task = t
      /\ caller'[c].request = caller[c].request
      /\ OthersStay(c)
  BY <1>3, <1>4, <1>5, AnswerMoves
<1>7. v.is = "replayed" => t = v.task
  BY DEF t
<1> QED
  BY <1>2, <1>3, <1>4, <1>6, <1>7

\* Of the callers only c moves, to place p, and it has been told a of task t.
Moves(c, p, a, t) ==
  /\ caller' \in [Callers -> CallerType] /\ OthersStay(c)
  /\ caller'[c].place = p /\ caller'[c].answer = a /\ caller'[c].task = t
  /\ caller'[c].request = caller[c].request

\* Where the other steps of a launch lead.
LEMMA TakeSlotMoves ==
  ASSUME Typed, NEW c \in Callers, TakeSlot(c)
  PROVE  IF slots[Home(c)] >= SlotLimit THEN Moves(c, "idle", "busy", NoTask)
         ELSE Moves(c, "create", caller[c].answer, caller[c].task)
<1>1. "idle" \in Places /\ "create" \in Places /\ "busy" \in Answers /\ NoTask \in Nat
  BY DEF Places, Answers, NoTask
<1>2. CASE slots[Home(c)] >= SlotLimit
  <2>1. Answer(c, "idle", "busy", NoTask)
    BY <1>2 DEF TakeSlot
  <2> QED
    BY <1>1, <1>2, <2>1, AnswerMoves DEF Moves
<1>3. CASE ~(slots[Home(c)] >= SlotLimit)
  <2>1. Go(c, "create")
    BY <1>3 DEF TakeSlot
  <2> QED
    BY <1>1, <1>3, <2>1, GoMoves DEF Moves
<1> QED
  BY <1>2, <1>3

LEMMA CreateMoves ==
  ASSUME Typed, NEW c \in Callers, CreateTask(c)
  PROVE  Moves(c, "start", "created", Len(tasks) + 1)
<1>1. "start" \in Places /\ "created" \in Answers /\ Len(tasks) + 1 \in Nat
  BY CreateRow DEF Places, Answers
<1>2. Answer(c, "start", "created", Len(tasks) + 1)
  BY CreateRow DEF CreateTask
<1> QED
  BY <1>1, <1>2, AnswerMoves DEF Moves

LEMMA FailsMoves ==
  ASSUME Typed, NEW c \in Callers, CreateFails(c)
  PROVE  Moves(c, "return", "error", NoTask)
<1>1. "return" \in Places /\ "error" \in Answers /\ NoTask \in Nat
  BY DEF Places, Answers, NoTask
<1>2. Answer(c, "return", "error", NoTask)
  BY DEF CreateFails
<1> QED
  BY <1>1, <1>2, AnswerMoves DEF Moves

LEMMA ReturnMoves ==
  ASSUME Typed, NEW c \in Callers, ReturnSlot(c) \/ StartWorker(c)
  PROVE  Moves(c, "idle", caller[c].answer, caller[c].task)
<1>1. "idle" \in Places /\ Go(c, "idle")
  BY DEF Places, ReturnSlot, StartWorker
<1> QED
  BY <1>1, GoMoves DEF Moves

LEMMA StartFailsMoves ==
  ASSUME Typed, NEW c \in Callers, StartFails(c)
  PROVE  Moves(c, "report", caller[c].answer, caller[c].task)
<1>1. "report" \in Places /\ Go(c, "report")
  BY DEF Places, StartFails
<1> QED
  BY <1>1, GoMoves DEF Moves

LEMMA ReportMoves ==
  ASSUME Typed, NEW c \in Callers, ReportStartFailure(c)
  PROVE  Moves(c, "idle", "not_started", caller[c].task)
<1>1. "idle" \in Places /\ "not_started" \in Answers /\ caller[c].task \in Nat
  BY DEF Places, Answers, Typed, CallerType
<1>2. Answer(c, "idle", "not_started", caller[c].task)
  BY DEF ReportStartFailure
<1> QED
  BY <1>1, <1>2, AnswerMoves DEF Moves

\* Callers stay records of their type, about tasks that are there.
LEMMA CallersTyped ==
  ASSUME Typed, HandOver, [Next]_vars
  PROVE  /\ caller' \in [Callers -> CallerType]
         /\ \A c \in Callers : caller'[c].task \in 0..Len(tasks')
<1> DEFINE Goal == /\ caller' \in [Callers -> CallerType]
                   /\ \A c \in Callers : caller'[c].task \in 0..Len(tasks')
<1>1. /\ caller \in [Callers -> CallerType]
      /\ \A c \in Callers : caller[c].task \in 0..Len(tasks)
  BY DEF Typed, TypeOK
<1>2. Len(tasks) \in Nat /\ Len(tasks') \in Nat /\ Len(tasks) <= Len(tasks')
  BY LedgerTyped
<1>2a. 0..Len(tasks) \subseteq 0..Len(tasks')
  BY <1>2
<1>3. UNCHANGED caller => Goal
  BY <1>1, <1>2
<1>4. ASSUME NEW c \in Callers, NEW p, NEW a, NEW t \in 0..Len(tasks'), Moves(c, p, a, t)
      PROVE  Goal
  BY <1>1, <1>2, <1>4 DEF Moves, OthersStay
<1>5. ASSUME NEW c \in Callers, CallerStep(c) PROVE Goal
  <2>1. NoTask \in 0..Len(tasks') /\ caller[c].task \in 0..Len(tasks')
    BY <1>1, <1>2 DEF NoTask
  <2>2. ASSUME NEW q \in Requests, Submit(c, q) PROVE Goal
    BY <1>1, <1>2a, <2>2, SubmitMoves DEF OthersStay
  <2>3. CASE TakeSlot(c)
    BY <1>4, <2>1, <2>3, TakeSlotMoves
  <2>4. CASE CreateTask(c)
    <3>1. Len(tasks) + 1 \in 0..Len(tasks')
      BY <1>2, <2>4, CreateRow
    <3> QED
      BY <1>4, <2>4, <3>1, CreateMoves
  <2>5. CASE CreateRefused(c)
    BY <1>1, <1>2a, <2>5, RefusedMoves DEF OthersStay
  <2>6. CASE CreateFails(c)
    BY <1>4, <2>1, <2>6, FailsMoves
  <2>7. CASE ReturnSlot(c) \/ StartWorker(c)
    BY <1>4, <2>1, <2>7, ReturnMoves
  <2>8. CASE StartFails(c)
    BY <1>4, <2>1, <2>8, StartFailsMoves
  <2>9. CASE ReportStartFailure(c)
    BY <1>4, <2>1, <2>9, ReportMoves
  <2> QED
    BY <1>5, <2>2, <2>3, <2>4, <2>5, <2>6, <2>7, <2>8, <2>9 DEF CallerStep
<1>6. ASSUME NEW i \in DOMAIN tasks, TaskStep(i) PROVE Goal
  BY <1>3, <1>6 DEF TaskStep, Run, Finish, WorkerReturns, Reconcile
<1>7. ASSUME NEW p \in Processes, Crash(p) PROVE Goal
  BY <1>1, <1>2, <1>7, CrashMoves DEF NoTask
<1>8. CASE Tick
  BY <1>3, <1>8 DEF Tick
<1>9. CASE UNCHANGED vars
  BY <1>3, <1>9 DEF vars
<1> QED
  BY <1>5, <1>6, <1>7, <1>8, <1>9 DEF Next

\* Every variable keeps its type.
LEMMA TypeStep ==
  ASSUME Typed, HandOver, [Next]_vars
  PROVE  Typed'
<1>1. \A c \in Callers : caller'[c] \in CallerType
  BY CallersTyped
<1>2. \A c \in Callers : /\ caller'[c].place \in Places
                         /\ caller'[c].request \in Requests
                         /\ caller'[c].since \in Nat
                         /\ caller'[c].answer \in Answers
  BY <1>1 DEF CallerType
<1> QED
  BY <1>2, LedgerTyped, SlotsTyped, CountersTyped, CallersTyped DEF Typed, TypeOK

-----------------------------------------------------------------------------
(***************************************************************************)
(* Names and bindings                                                      *)
(***************************************************************************)

\* The rows and the idempotency table agree.
NamesInv == BindingsName /\ TasksBound /\ StepsDistinct

LEMMA InitNames == Init => NamesInv
  BY DEF Init, NamesInv, BindingsName, TasksBound, StepsDistinct

\* Steps that keep the rows, their names and the bindings keep NamesInv.
LEMMA NamesKept ==
  ASSUME Typed, NamesInv, RowsKept, UNCHANGED idem
  PROVE  NamesInv'
<1>1. \A k \in Keys : idem[k].task # NoTask => idem[k].task \in DOMAIN tasks
  BY LenProperties DEF Typed, TypeOK, NoTask
<1>2. BindingsName'
  BY <1>1 DEF NamesInv, BindingsName, RowsKept, SameName
<1>3. TasksBound'
  BY DEF NamesInv, TasksBound, RowsKept, SameName
<1>4. StepsDistinct'
  BY DEF NamesInv, StepsDistinct, RowsKept, SameName
<1> QED
  BY <1>2, <1>3, <1>4 DEF NamesInv

\* A new task takes a key nobody is bound to and a step its run has not seen.
LEMMA NamesAdded ==
  ASSUME Typed, NamesInv, NEW c \in Callers, CreateTask(c)
  PROVE  NamesInv'
<1> DEFINE q == Request(c)
           n == Len(tasks) + 1
<1>1. /\ Len(tasks) \in Nat
      /\ DOMAIN tasks = 1..Len(tasks) /\ DOMAIN tasks' = 1..n
      /\ \A i \in DOMAIN tasks : tasks'[i] = tasks[i]
      /\ tasks'[n] = Row(c)
      /\ Verdict(q, caller[c].since).task = n
      /\ StepTasks(q) = {} /\ ~Bound(q.key)
  BY CreateRow
<1>2. /\ tasks'[n].key = q.key /\ tasks'[n].body = q.body
      /\ tasks'[n].run = q.run /\ tasks'[n].step = q.step
  BY <1>1 DEF Row
<1>3. q.key \in Keys \cup {NoKey}
  BY AdmissionAssumptions DEF Request, Typed, CallerType, RequestType
<1>4. idem' = IF q.key = NoKey THEN idem
              ELSE [idem EXCEPT ![q.key] = [body |-> q.body, task |-> n]]
  BY <1>1 DEF CreateTask
<1>5. idem \in [Keys -> [body : BoundBodies, task : 0..Len(tasks)]]
  BY DEF Typed, TypeOK
<1>6. \A k \in Keys : idem[k].task # NoTask => idem[k].task \in DOMAIN tasks
  BY <1>1, <1>5 DEF NoTask
<1> HIDE DEF q, n
<1>7. \A k \in Keys : idem'[k] = IF k = q.key THEN [body |-> q.body, task |-> n]
                                 ELSE idem[k]
  BY <1>3, <1>4, <1>5, AdmissionAssumptions
<1>8. q.key # NoKey => idem[q.key].task = NoTask
  BY <1>1 DEF Bound
<1>9. n \in DOMAIN tasks' /\ \A i \in DOMAIN tasks' : i = n \/ i \in DOMAIN tasks
  BY <1>1 DEF n
<1>10. BindingsName'
  <2> SUFFICES ASSUME NEW k \in Keys, idem'[k].task # NoTask
               PROVE  /\ tasks'[idem'[k].task].key = k
                      /\ tasks'[idem'[k].task].body = idem'[k].body
    BY DEF BindingsName
  <2>1. CASE k = q.key
    BY <1>2, <1>7, <2>1
  <2>2. CASE k # q.key
    BY <1>1, <1>6, <1>7, <2>2 DEF NamesInv, BindingsName
  <2> QED
    BY <2>1, <2>2
<1>11. TasksBound'
  <2> SUFFICES ASSUME NEW i \in DOMAIN tasks', tasks'[i].key # NoKey
               PROVE  idem'[tasks'[i].key].task = i
    BY DEF TasksBound
  <2>1. CASE i = n
    BY <1>2, <1>3, <1>7, <2>1
  <2>2. CASE i # n
    <3>1. i \in DOMAIN tasks /\ tasks'[i] = tasks[i] /\ tasks[i].key # NoKey
      BY <1>1, <1>9, <2>2
    <3>2. tasks[i].key \in Keys /\ idem[tasks[i].key].task = i /\ i # NoTask
      BY <3>1, <1>1, RowTyped DEF TaskType, NamesInv, TasksBound, NoTask
    <3>3. tasks[i].key # q.key
      BY <1>8, <3>1, <3>2
    <3> QED
      BY <1>7, <3>1, <3>2, <3>3
  <2> QED
    BY <2>1, <2>2
<1>12. StepsDistinct'
  <2>1. \A i \in DOMAIN tasks : q.run = NoRun \/ tasks[i].run # q.run \/ tasks[i].step # q.step
    BY <1>1 DEF StepTasks
  <2> QED
    BY <1>1, <1>2, <1>9, <2>1 DEF NamesInv, StepsDistinct
<1> QED
  BY <1>10, <1>11, <1>12 DEF NamesInv

LEMMA NamesStep ==
  ASSUME Typed, HandOver, NamesInv, [Next]_vars
  PROVE  NamesInv'
  BY RowsStep, NamesKept, NamesAdded

\* That is what a name standing for one task comes to.
LEMMA NamesAreUnique == Typed /\ NamesInv => OneTaskPerName
<1> SUFFICES ASSUME Typed, NamesInv PROVE OneTaskPerName
  OBVIOUS
<1>1. \A i \in DOMAIN tasks : i \in DOMAIN tasks /\ tasks[i] \in TaskType
  BY RowTyped
<1> QED
  BY <1>1 DEF OneTaskPerName, NamesInv, TasksBound, StepsDistinct

-----------------------------------------------------------------------------
(***************************************************************************)
(* Answers                                                                 *)
(***************************************************************************)

\* What caller c has been told is true: the task is there, and was made by the
\* request c asked with.
ToldTruth(c) ==
  caller[c].answer \in {"created", "replayed"} =>
    /\ caller[c].task \in DOMAIN tasks
    /\ tasks[caller[c].task].key = Request(c).key
    /\ tasks[caller[c].task].body = Request(c).body

LEMMA AnswersAreTruths ==
  AnswersExist /\ AnswersAgree <=> \A c \in Callers : ToldTruth(c)
  BY DEF AnswersExist, AnswersAgree, ToldTruth

\* Rows and their names survive every step.
LEMMA NamesLast ==
  ASSUME Typed, HandOver, [Next]_vars, NEW i \in DOMAIN tasks
  PROVE  /\ i \in DOMAIN tasks'
         /\ tasks'[i].key = tasks[i].key /\ tasks'[i].body = tasks[i].body
         /\ tasks'[i].run = tasks[i].run /\ tasks'[i].home = tasks[i].home
<1>1. CASE RowsKept
  BY <1>1 DEF RowsKept, SameName
<1>2. ASSUME NEW c \in Callers, CreateTask(c)
      PROVE  i \in DOMAIN tasks' /\ tasks'[i] = tasks[i]
  BY <1>2, CreateRow
<1> QED
  BY <1>1, <1>2, RowsStep

\* A binding names a row that is there.
LEMMA BoundIsThere ==
  ASSUME Typed, NamesInv, NEW q \in Requests, Bound(q.key), NEW t,
         idem[q.key] = [body |-> q.body, task |-> t]
  PROVE  t \in DOMAIN tasks /\ tasks[t].key = q.key /\ tasks[t].body = q.body
<1>1. q.key \in Keys
  BY AdmissionAssumptions DEF RequestType, Bound
<1>2. idem[q.key].task = t /\ idem[q.key].body = q.body
  OBVIOUS
<1>3. idem[q.key].task \in 0..Len(tasks) /\ idem[q.key].task # NoTask
  BY <1>1 DEF Bound, Typed, TypeOK
<1> QED
  BY <1>1, <1>2, <1>3, LenProperties DEF NamesInv, BindingsName, Typed, TypeOK, NoTask

\* The answers stay true in every step.
LEMMA AnswersStep ==
  ASSUME Typed, HandOver, NamesInv, \A c \in Callers : ToldTruth(c), [Next]_vars
  PROVE  \A c \in Callers : ToldTruth(c)'
<1>1. ASSUME NEW c \in Callers,
             \/ caller'[c] = caller[c]
             \/ /\ caller'[c].request = caller[c].request
                /\ caller'[c].answer = caller[c].answer
                /\ caller'[c].task = caller[c].task
             \/ caller'[c].answer \notin {"created", "replayed"}
      PROVE  ToldTruth(c)'
  BY <1>1, NamesLast DEF ToldTruth, Request
<1>2. UNCHANGED caller => \A c \in Callers : ToldTruth(c)'
  BY <1>1
<1>3. ASSUME NEW c \in Callers, OthersStay(c), ToldTruth(c)'
      PROVE  \A d \in Callers : ToldTruth(d)'
  BY <1>1, <1>3 DEF OthersStay
<1>4. ASSUME NEW c \in Callers, NEW q \in Requests, OthersStay(c),
             caller'[c].request = q, caller'[c].answer = "replayed", Bound(q.key),
             idem[q.key] = [body |-> q.body, task |-> caller'[c].task]
      PROVE  ToldTruth(c)'
  <2>1. /\ caller'[c].task \in DOMAIN tasks
        /\ tasks[caller'[c].task].key = q.key
        /\ tasks[caller'[c].task].body = q.body
    BY <1>4, BoundIsThere
  <2> QED
    BY <1>4, <2>1, NamesLast DEF ToldTruth, Request
<1>5. ASSUME NEW c \in Callers, CallerStep(c)
      PROVE  \A d \in Callers : ToldTruth(d)'
  <2>1. ASSUME NEW q \in Requests, Submit(c, q)
        PROVE  OthersStay(c) /\ ToldTruth(c)'
    BY <1>1, <1>4, <2>1, SubmitMoves
  <2>2. ASSUME TakeSlot(c) PROVE OthersStay(c) /\ ToldTruth(c)'
    BY <1>1, <2>2, TakeSlotMoves DEF Moves
  <2>3. ASSUME CreateTask(c) PROVE OthersStay(c) /\ ToldTruth(c)'
    <3>1. /\ OthersStay(c)
          /\ caller'[c].task = Len(tasks) + 1
          /\ caller'[c].request = caller[c].request
      BY <2>3, CreateMoves DEF Moves
    <3>2. Len(tasks) + 1 \in DOMAIN tasks' /\ tasks'[Len(tasks) + 1] = Row(c)
      BY <2>3, CreateRow
    <3> QED
      BY <3>1, <3>2 DEF ToldTruth, Request, Row
  <2>4. ASSUME CreateRefused(c) PROVE OthersStay(c) /\ ToldTruth(c)'
    <3>1. Request(c) \in Requests
      BY DEF Request, Typed, CallerType
    <3>2. /\ OthersStay(c)
          /\ caller'[c].answer \in {"replayed", "conflict", "step_conflict",
                                    "budget_rejected"}
          /\ caller'[c].request = Request(c)
          /\ caller'[c].answer = "replayed" =>
               /\ Bound(Request(c).key)
               /\ idem[Request(c).key] = [body |-> Request(c).body,
                                          task |-> caller'[c].task]
      BY <2>4, RefusedMoves DEF Request
    <3>3. CASE caller'[c].answer = "replayed"
      BY <1>4, <3>1, <3>2, <3>3
    <3>4. CASE caller'[c].answer # "replayed"
      BY <1>1, <3>2, <3>4
    <3> QED
      BY <3>2, <3>3, <3>4
  <2>5. ASSUME CreateFails(c) PROVE OthersStay(c) /\ ToldTruth(c)'
    BY <1>1, <2>5, FailsMoves DEF Moves
  <2>6. ASSUME ReturnSlot(c) \/ StartWorker(c) PROVE OthersStay(c) /\ ToldTruth(c)'
    BY <1>1, <2>6, ReturnMoves DEF Moves
  <2>7. ASSUME StartFails(c) PROVE OthersStay(c) /\ ToldTruth(c)'
    BY <1>1, <2>7, StartFailsMoves DEF Moves
  <2>8. ASSUME ReportStartFailure(c) PROVE OthersStay(c) /\ ToldTruth(c)'
    BY <1>1, <2>8, ReportMoves DEF Moves
  <2> QED
    BY <1>3, <1>5, <2>1, <2>2, <2>3, <2>4, <2>5, <2>6, <2>7, <2>8 DEF CallerStep
<1>6. ASSUME NEW i \in DOMAIN tasks, TaskStep(i) PROVE \A c \in Callers : ToldTruth(c)'
  BY <1>2, <1>6 DEF TaskStep, Run, Finish, WorkerReturns, Reconcile
<1>7. ASSUME NEW p \in Processes, Crash(p) PROVE \A c \in Callers : ToldTruth(c)'
  BY <1>1, <1>7, CrashMoves
<1>8. CASE Tick
  BY <1>2, <1>8 DEF Tick
<1>9. CASE UNCHANGED vars
  BY <1>2, <1>9 DEF vars
<1> QED
  BY <1>5, <1>6, <1>7, <1>8, <1>9 DEF Next

-----------------------------------------------------------------------------
(***************************************************************************)
(* The dispatch ceiling                                                    *)
(***************************************************************************)

\* Tasks are finitely many, and so are those of one run.
LEMMA TasksFinite ==
  ASSUME Typed, NEW r
  PROVE  IsFiniteSet(TasksOf(r)) /\ Cardinality(TasksOf(r)) \in Nat
<1>1. Len(tasks) \in Nat /\ DOMAIN tasks = 1..Len(tasks)
  BY LenProperties DEF Typed, TypeOK
<1>2. IsFiniteSet(1..Len(tasks))
  BY <1>1, FS_Interval
<1>3. TasksOf(r) \in SUBSET (1..Len(tasks))
  BY <1>1 DEF TasksOf
<1> QED
  BY <1>2, <1>3, FS_Subset, FS_CardinalityType

\* Nothing but a new task adds to what a run has dispatched; a new task counts
\* for its own run, whose ceiling was looked at with it.
LEMMA BudgetStep ==
  ASSUME Typed, HandOver, DispatchBudget, [Next]_vars
  PROVE  DispatchBudget'
<1>1. CASE RowsKept /\ UNCHANGED <<idem, runs>>
  <2>1. \A r \in Runs : TasksOf(r)' = TasksOf(r)
    BY <1>1 DEF TasksOf, RowsKept, SameName
  <2> QED
    BY <1>1, <2>1 DEF DispatchBudget
<1>2. ASSUME NEW c \in Callers, CreateTask(c) PROVE DispatchBudget'
  <2> DEFINE q == Request(c)
             n == Len(tasks) + 1
  <2>1. /\ DOMAIN tasks = 1..Len(tasks) /\ DOMAIN tasks' = 1..n /\ Len(tasks) \in Nat
        /\ \A i \in DOMAIN tasks : tasks'[i] = tasks[i]
        /\ tasks'[n].run = q.run
        /\ q.run # NoRun => Admissible(q, caller[c].since)
    <3>1. Row(c).run = q.run
      BY DEF Row
    <3>2. /\ DOMAIN tasks = 1..Len(tasks) /\ DOMAIN tasks' = 1..(Len(tasks) + 1)
          /\ Len(tasks) \in Nat
          /\ \A i \in DOMAIN tasks : tasks'[i] = tasks[i]
          /\ tasks'[Len(tasks) + 1] = Row(c)
          /\ q.run # NoRun => Admissible(q, caller[c].since)
      BY <1>2, CreateRow
    <3> QED
      BY <3>1, <3>2
  <2>2. /\ q.run \in Runs \cup {NoRun} /\ q.maxDispatches \in Nat
    BY AdmissionAssumptions DEF Request, Typed, CallerType, RequestType
  <2>3. runs' = IF q.run = NoRun THEN runs
                ELSE [runs EXCEPT ![q.run] =
                        [open |-> TRUE, maxDispatches |-> q.maxDispatches,
                         maxRuntime |-> q.maxRuntime]]
    BY <1>2 DEF CreateTask
  <2> HIDE DEF q
  <2>4. SUFFICES ASSUME NEW r \in Runs
                 PROVE  Cardinality(TasksOf(r)') <= runs'[r].maxDispatches
    BY DEF DispatchBudget, TasksOf
  <2>5. r # NoRun /\ runs \in [Runs -> [open : BOOLEAN, maxDispatches : Nat, maxRuntime : Nat]]
    BY AdmissionAssumptions DEF Typed, TypeOK
  <2>6. CASE r = q.run
    <3>1. TasksOf(r)' = TasksOf(r) \cup {n}
      BY <2>1, <2>6 DEF TasksOf
    <3>2. n \notin TasksOf(r)
      BY <2>1 DEF TasksOf
    <3>3. Cardinality(TasksOf(r)') = Cardinality(TasksOf(r)) + 1
      BY <3>1, <3>2, TasksFinite, FS_AddElement
    <3>4. Cardinality(TasksOf(r)) + 1 <= q.maxDispatches
      BY <2>1, <2>5, <2>6 DEF Admissible
    <3>5. runs'[r].maxDispatches = q.maxDispatches
      BY <2>3, <2>5, <2>6
    <3> QED
      BY <3>3, <3>4, <3>5
  <2>7. CASE r # q.run
    <3>1. TasksOf(r)' = TasksOf(r)
      BY <2>1, <2>7 DEF TasksOf
    <3>2. runs'[r] = runs[r]
      BY <2>3, <2>5, <2>7
    <3> QED
      BY <3>1, <3>2 DEF DispatchBudget
  <2> QED
    BY <2>6, <2>7
<1> QED
  BY <1>1, <1>2, RowsStep

LEMMA InitBudget == Init => DispatchBudget
<1> SUFFICES ASSUME Init, NEW r \in Runs
             PROVE  Cardinality(TasksOf(r)) <= runs[r].maxDispatches
  BY DEF DispatchBudget
<1>1. TasksOf(r) = {}
  BY DEF TasksOf, Init
<1>2. runs[r].maxDispatches = 0
  BY DEF Init
<1> QED
  BY <1>1, <1>2, FS_EmptySet

-----------------------------------------------------------------------------
(***************************************************************************)
(* The time a run may take                                                 *)
(***************************************************************************)

\* What a task that has a finishing time has consumed, whenever one looks.
Used(t) == Elapsed(t, t.finished)

\* What a task takes of its run's ceiling for good: its limit as long as it may
\* still consume it, then what it consumed within its limit.
Charge(t) ==
  CASE t.status = "lost" -> 0
    [] t.status = "ended" /\ Used(t) < t.limit -> Used(t)
    [] OTHER -> t.limit

Charges(r) == [i \in TasksOf(r) |-> Charge(tasks[i])]

\* A task that ended has a finishing time, so that what it took stands still.
EndedTimed == \A i \in DOMAIN tasks : tasks[i].status = "ended" => tasks[i].finished # NoTime

\* The charges of a run's tasks stay within its ceiling.
ChargesFit == \A r \in Runs : SumFunctionOnSet(Charges(r), TasksOf(r)) <= runs[r].maxRuntime

RuntimeInv == EndedTimed /\ ChargesFit

\* How a row may age: it stays as it is, goes on, ends at a time, or is lost.
Ages(t, u) ==
  /\ u.limit = t.limit
  /\ \/ u.status = t.status /\ u.started = t.started /\ u.finished = t.finished
     \/ ~Terminal(t) /\ ~Terminal(u)
     \/ ~Terminal(t) /\ u.status = "ended" /\ u.finished # NoTime
     \/ ~Terminal(t) /\ u.status = "lost"

\* Times are natural numbers, and so is what is made of them.
LEMMA TimesTyped ==
  ASSUME NEW t \in TaskType, NEW at \in Nat
  PROVE  /\ t.limit \in Nat /\ t.limit > 0 /\ t.started \in Nat /\ t.finished \in Nat
         /\ Elapsed(t, at) \in Nat /\ Used(t) \in Nat
         /\ Reserved(t, at) \in Nat
         /\ Charge(t) \in Nat /\ Charge(t) <= t.limit
<1>1. t.limit \in Nat /\ t.limit > 0 /\ t.started \in Nat /\ t.finished \in Nat
  BY DEF TaskType
<1>2. Elapsed(t, at) \in Nat /\ Used(t) \in Nat
  BY <1>1 DEF Elapsed, Used
<1>3. Reserved(t, at) \in Nat
  BY <1>1, <1>2 DEF Reserved
<1>4. Charge(t) \in Nat /\ Charge(t) <= t.limit
  BY <1>1, <1>2 DEF Charge
<1> QED
  BY <1>1, <1>2, <1>3, <1>4

\* The charge is never more than what the ledger counts, at whatever time it
\* looks.
LEMMA ChargeIsCounted ==
  ASSUME NEW t \in TaskType, NEW at \in Nat, t.status = "ended" => t.finished # NoTime
  PROVE  Charge(t) <= Elapsed(t, at) + Reserved(t, at)
<1>1. /\ t.limit \in Nat /\ Elapsed(t, at) \in Nat /\ Reserved(t, at) \in Nat
      /\ Charge(t) \in Nat /\ Charge(t) <= t.limit /\ Used(t) \in Nat
  BY TimesTyped
<1>2. CASE t.status = "lost"
  BY <1>1, <1>2 DEF Charge
<1>3. CASE t.status = "ended"
  <2>1. Used(t) = Elapsed(t, at)
    BY <1>3 DEF Used, Elapsed
  <2>2. Charge(t) <= Used(t)
    BY <1>1, <1>3 DEF Charge
  <2> QED
    BY <1>1, <2>1, <2>2
<1>4. CASE ~Terminal(t)
  <2>1. t.limit <= Elapsed(t, at) + Reserved(t, at)
    BY <1>1, <1>4 DEF Reserved
  <2> QED
    BY <1>1, <2>1
<1> QED
  BY <1>2, <1>3, <1>4 DEF Terminal

\* And what the ledger counts of a task that is not lost is its charge and what
\* it ran beyond its limit.
LEMMA CountedIsCharge ==
  ASSUME NEW t \in TaskType, now \in Nat, t.status # "lost",
         t.status = "ended" => t.finished # NoTime
  PROVE  Elapsed(t, now) + Reserved(t, now) = Charge(t) + Overrun(t)
<1>1. /\ t.limit \in Nat /\ t.limit > 0 /\ Elapsed(t, now) \in Nat /\ Used(t) \in Nat
  BY TimesTyped
<1>2. CASE t.status = "ended"
  <2>1. Used(t) = Elapsed(t, now) /\ Reserved(t, now) = 0
    BY <1>2 DEF Used, Elapsed, Reserved, Terminal
  <2>2. Charge(t) = IF Used(t) < t.limit THEN Used(t) ELSE t.limit
    BY <1>2 DEF Charge
  <2> QED
    BY <1>1, <2>1, <2>2 DEF Overrun
<1>3. CASE t.status # "ended"
  <2>1. Charge(t) = t.limit
    BY <1>3 DEF Charge
  <2>2. Reserved(t, now) = IF Elapsed(t, now) >= t.limit THEN 0
                           ELSE t.limit - Elapsed(t, now)
    BY <1>3 DEF Reserved, Terminal
  <2> QED
    BY <1>1, <2>1, <2>2 DEF Overrun
<1> QED
  BY <1>2, <1>3

\* A row that ages is charged no more than before.
LEMMA ChargeFalls ==
  ASSUME NEW t \in TaskType, NEW u \in TaskType, Ages(t, u)
  PROVE  Charge(u) <= Charge(t)
<1>1. /\ t.limit \in Nat /\ u.limit = t.limit
      /\ Charge(t) \in Nat /\ Charge(u) \in Nat /\ Charge(u) <= u.limit
  BY TimesTyped DEF Ages
<1>2. CASE u.status = t.status /\ u.started = t.started /\ u.finished = t.finished
  BY <1>1, <1>2 DEF Charge, Used, Elapsed
<1>3. CASE ~Terminal(t)
  <2>1. Charge(t) = t.limit
    BY <1>3 DEF Charge, Terminal
  <2> QED
    BY <1>1, <2>1
<1> QED
  BY <1>2, <1>3 DEF Ages

LEMMA EndedAges ==
  ASSUME Typed, NEW i \in DOMAIN tasks, NEW w
  PROVE  Ages(tasks[i], Ended(i, w))
<1>1. tasks[i] \in TaskType /\ now # NoTime
  BY RowTyped DEF Typed, TypeOK, NoTime
<1> QED
  BY <1>1 DEF Ended, Ages, TaskType, Terminal

\* Every step but CreateTask lets the rows age.
LEMMA AgesStep ==
  ASSUME Typed, HandOver, [Next]_vars
  PROVE  \/ \E c \in Callers : CreateTask(c)
         \/ \A j \in DOMAIN tasks : Ages(tasks[j], tasks'[j])
<1> DEFINE Aged == \A j \in DOMAIN tasks : Ages(tasks[j], tasks'[j])
<1>1. UNCHANGED tasks => Aged
  BY DEF Ages
<1>2. ASSUME NEW i \in DOMAIN tasks, NEW t, Ages(tasks[i], t),
             tasks' = [tasks EXCEPT ![i] = t]
      PROVE  Aged
  <2>1. \A j \in DOMAIN tasks : tasks'[j] = IF j = i THEN t ELSE tasks[j]
    BY <1>2
  <2> QED
    BY <1>2, <2>1 DEF Ages
<1>3. ASSUME NEW i \in DOMAIN tasks, NEW w, tasks' = [tasks EXCEPT ![i].worker = w]
      PROVE  Aged
  <2>1. tasks[i] \in TaskType
    BY RowTyped
  <2>2. Ages(tasks[i], [tasks[i] EXCEPT !.worker = w])
    BY <2>1 DEF TaskType, Ages
  <2>3. tasks' = [tasks EXCEPT ![i] = [tasks[i] EXCEPT !.worker = w]]
    BY <1>3
  <2> QED
    BY <1>2, <2>2, <2>3
<1>4. ASSUME NEW c \in Callers, CallerStep(c), ~CreateTask(c) PROVE Aged
  <2>1. CASE StartWorker(c)
    BY <1>3, <2>1 DEF StartWorker, HandOver, Launching
  <2>2. CASE ReportStartFailure(c)
    <3>1. caller[c].task \in DOMAIN tasks
      BY <2>2 DEF ReportStartFailure, HandOver, Launching
    <3>2. \/ tasks' = [tasks EXCEPT ![caller[c].task] = Ended(caller[c].task, "gone")]
          \/ tasks' = [tasks EXCEPT ![caller[c].task].worker = "gone"]
      BY <2>2 DEF ReportStartFailure
    <3> QED
      BY <1>2, <1>3, <3>1, <3>2, EndedAges
  <2>3. CASE ~StartWorker(c) /\ ~ReportStartFailure(c)
    <3>1. UNCHANGED tasks
      BY <1>4, <2>3 DEF CallerStep, Submit, TakeSlot, CreateRefused, CreateFails,
                        ReturnSlot, StartFails
    <3> QED
      BY <1>1, <3>1
  <2> QED
    BY <2>1, <2>2, <2>3
<1>5. ASSUME NEW i \in DOMAIN tasks, TaskStep(i) PROVE Aged
  <2>1. tasks[i] \in TaskType
    BY RowTyped
  <2>2. CASE Run(i)
    <3> DEFINE t == [[tasks[i] EXCEPT !.status = "running"] EXCEPT !.started = now]
    <3>1. Ages(tasks[i], t)
      BY <2>1, <2>2 DEF Run, Ages, TaskType, Terminal
    <3>2. tasks' = [tasks EXCEPT ![i] = t]
      BY <2>2 DEF Run
    <3> HIDE DEF t
    <3> QED
      BY <1>2, <3>1, <3>2
  <2>3. CASE Finish(i)
    BY <1>2, <2>3, EndedAges DEF Finish
  <2>4. CASE WorkerReturns(i)
    BY <1>3, <2>4 DEF WorkerReturns
  <2>5. CASE Reconcile(i)
    <3>1. CASE tasks' = [tasks EXCEPT ![i] = Ended(i, @.worker)]
      BY <1>2, <3>1, EndedAges
    <3>2. CASE tasks' = [tasks EXCEPT ![i].status = "lost"]
      <4> DEFINE t == [tasks[i] EXCEPT !.status = "lost"]
      <4>1. Ages(tasks[i], t)
        BY <2>1, <2>5 DEF Reconcile, Ages, TaskType, Terminal
      <4>2. tasks' = [tasks EXCEPT ![i] = t]
        BY <3>2
      <4> HIDE DEF t
      <4> QED
        BY <1>2, <4>1, <4>2
    <3> QED
      BY <2>5, <3>1, <3>2 DEF Reconcile
  <2> QED
    BY <1>5, <2>2, <2>3, <2>4, <2>5 DEF TaskStep
<1>6. ASSUME NEW p \in Processes, Crash(p) PROVE Aged
  <2> SUFFICES ASSUME NEW j \in DOMAIN tasks PROVE Ages(tasks[j], tasks'[j])
    OBVIOUS
  <2>1. tasks[j] \in TaskType
    BY RowTyped
  <2>2. tasks'[j] = IF tasks[j].home = p THEN [tasks[j] EXCEPT !.worker = "gone"]
                    ELSE tasks[j]
    BY <1>6 DEF Crash
  <2> QED
    BY <2>1, <2>2 DEF Ages, TaskType
<1>7. CASE UNCHANGED tasks
  BY <1>1, <1>7
<1> QED
  BY <1>4, <1>5, <1>6, <1>7 DEF Next, Tick, vars

\* The rows of a run can be added up, and their charges too.
LEMMA ChargesTyped ==
  ASSUME Typed, NEW r
  PROVE  /\ IsFiniteSet(TasksOf(r))
         /\ \A i \in TasksOf(r) : Charges(r)[i] = Charge(tasks[i]) /\ Charge(tasks[i]) \in Nat
         /\ SumFunctionOnSet(Charges(r), TasksOf(r)) \in Nat
<1>1. \A i \in TasksOf(r) : Charges(r)[i] = Charge(tasks[i])
  BY DEF Charges
<1>2. \A i \in TasksOf(r) : Charge(tasks[i]) \in Nat
  BY RowTyped, TimesTyped DEF TasksOf
<1>3. IsFiniteSet(TasksOf(r))
  BY TasksFinite
<1>4. \A i \in TasksOf(r) : Charges(r)[i] \in Nat
  BY <1>1, <1>2
<1> QED
  BY <1>1, <1>2, <1>3, <1>4, SumIsNatural

\* The charges of a run fit before a task is added: the ledger was asked, and
\* it counts no less.
LEMMA ChargesAtAdmission ==
  ASSUME Typed, EndedTimed, NEW q \in Requests, NEW at \in Nat, Admissible(q, at)
  PROVE  SumFunctionOnSet(Charges(q.run), TasksOf(q.run)) + q.limit <= q.maxRuntime
<1> DEFINE T == TasksOf(q.run)
           g == [i \in T |-> Elapsed(tasks[i], at) + Reserved(tasks[i], at)]
           f == Charges(q.run)
<1>1. /\ IsFiniteSet(T) /\ SumFunctionOnSet(f, T) \in Nat
      /\ \A i \in T : f[i] = Charge(tasks[i]) /\ Charge(tasks[i]) \in Nat
  BY ChargesTyped
<1>2. \A i \in T : tasks[i] \in TaskType /\ (tasks[i].status = "ended" => tasks[i].finished # NoTime)
  BY RowTyped DEF TasksOf, EndedTimed
<1>3. ASSUME NEW i \in T PROVE g[i] \in Nat /\ f[i] <= g[i]
  <2>1. Elapsed(tasks[i], at) \in Nat /\ Reserved(tasks[i], at) \in Nat
    BY <1>2, TimesTyped
  <2>2. Charge(tasks[i]) <= Elapsed(tasks[i], at) + Reserved(tasks[i], at)
    BY <1>2, ChargeIsCounted
  <2>3. g[i] = Elapsed(tasks[i], at) + Reserved(tasks[i], at)
    OBVIOUS
  <2> QED
    BY <1>1, <2>1, <2>2, <2>3
<1>4. Committed(T, at) = SumFunctionOnSet(g, T)
  BY DEF Committed
<1>5. Committed(T, at) + q.limit <= q.maxRuntime
  BY DEF Admissible
<1>6. q.limit \in Nat /\ q.maxRuntime \in Nat
  BY AdmissionAssumptions DEF RequestType
<1> HIDE DEF T, g, f
<1>7. SumFunctionOnSet(f, T) <= SumFunctionOnSet(g, T) /\ SumFunctionOnSet(g, T) \in Nat
  <2>1. T \in SUBSET T /\ \A i \in T : f[i] \in Nat
    BY <1>1
  <2> QED
    BY <1>1, <1>3, <2>1, SumOfLess, SumIsNatural
<1>8. SumFunctionOnSet(f, T) + q.limit <= q.maxRuntime
  BY <1>1, <1>4, <1>5, <1>6, <1>7
<1> QED
  BY <1>8 DEF f, T

\* A row that was there is charged no more; a new one is charged its limit to a
\* run that was asked.
LEMMA RuntimeStep ==
  ASSUME Typed, Typed', HandOver, RuntimeInv, [Next]_vars
  PROVE  RuntimeInv'
<1> DEFINE Sum(r) == SumFunctionOnSet(Charges(r), TasksOf(r))
<1>1. ASSUME RowsKept, UNCHANGED runs, \A j \in DOMAIN tasks : Ages(tasks[j], tasks'[j])
      PROVE  RuntimeInv'
  <2>1. EndedTimed'
    BY <1>1 DEF RuntimeInv, EndedTimed, RowsKept, Ages, Terminal
  <2>2. ASSUME NEW r \in Runs PROVE Sum(r)' <= runs'[r].maxRuntime
    <3> DEFINE T == TasksOf(r)
               f == Charges(r)'
               g == Charges(r)
    <3>1. TasksOf(r)' = T
      BY <1>1 DEF TasksOf, RowsKept, SameName
    <3>2. /\ IsFiniteSet(T) /\ Sum(r) \in Nat
          /\ \A i \in T : g[i] = Charge(tasks[i]) /\ Charge(tasks[i]) \in Nat
      BY ChargesTyped
    <3>3. \A i \in T : tasks[i] \in TaskType /\ tasks'[i] \in TaskType
      BY <1>1, RowTyped DEF TasksOf, RowsKept, Typed, TypeOK
    <3>4. \A i \in T : Ages(tasks[i], tasks'[i])
      BY <1>1 DEF TasksOf
    <3>5. \A i \in T : f[i] = Charge(tasks'[i])
      BY <3>1 DEF Charges, Charge, Used, Elapsed
    <3>6. \A i \in T : f[i] \in Nat /\ f[i] <= g[i] /\ g[i] \in Nat
      BY <3>2, <3>3, <3>4, <3>5, ChargeFalls, TimesTyped
    <3>7. Sum(r)' = SumFunctionOnSet(f, T)
      BY <3>1
    <3>8. Sum(r) <= runs[r].maxRuntime /\ runs[r].maxRuntime \in Nat
      BY DEF RuntimeInv, ChargesFit, Typed, TypeOK
    <3>9. Sum(r) = SumFunctionOnSet(g, T) /\ T \in SUBSET T
      OBVIOUS
    <3> HIDE DEF T, f, g, Sum
    <3>10. SumFunctionOnSet(f, T) \in Nat /\ SumFunctionOnSet(f, T) <= SumFunctionOnSet(g, T)
      BY <3>2, <3>6, <3>9, SumOfLess, SumIsNatural
    <3>11. runs'[r] = runs[r]
      BY <1>1
    <3> QED
      BY <3>2, <3>7, <3>8, <3>9, <3>10, <3>11
  <2> QED
    BY <2>1, <2>2 DEF RuntimeInv, ChargesFit
<1>2. ASSUME NEW c \in Callers, CreateTask(c) PROVE RuntimeInv'
  <2> DEFINE q == Request(c)
             n == Len(tasks) + 1
  <2>1. /\ DOMAIN tasks = 1..Len(tasks) /\ DOMAIN tasks' = 1..n /\ Len(tasks) \in Nat
        /\ \A i \in DOMAIN tasks : tasks'[i] = tasks[i]
        /\ tasks'[n].run = q.run /\ tasks'[n].limit = q.limit /\ tasks'[n].status = "queued"
        /\ q.run # NoRun => Admissible(q, caller[c].since)
    <3>1. Row(c).run = q.run /\ Row(c).limit = q.limit /\ Row(c).status = "queued"
      BY DEF Row
    <3>2. /\ DOMAIN tasks = 1..Len(tasks) /\ DOMAIN tasks' = 1..(Len(tasks) + 1)
          /\ Len(tasks) \in Nat
          /\ \A i \in DOMAIN tasks : tasks'[i] = tasks[i]
          /\ tasks'[Len(tasks) + 1] = Row(c)
          /\ q.run # NoRun => Admissible(q, caller[c].since)
      BY <1>2, CreateRow
    <3> QED
      BY <3>1, <3>2
  <2>2. q \in Requests /\ caller[c].since \in Nat
    BY DEF Request, Typed, CallerType
  <2>3. /\ q.run \in Runs \cup {NoRun} /\ q.maxRuntime \in Nat /\ q.limit \in Nat
    BY <2>2, AdmissionAssumptions DEF RequestType
  <2>4. runs' = IF q.run = NoRun THEN runs
                ELSE [runs EXCEPT ![q.run] =
                        [open |-> TRUE, maxDispatches |-> q.maxDispatches,
                         maxRuntime |-> q.maxRuntime]]
    BY <1>2 DEF CreateTask
  <2>5. q.run # NoRun => Sum(q.run) + q.limit <= q.maxRuntime
    BY <2>1, <2>2, ChargesAtAdmission DEF RuntimeInv
  <2> HIDE DEF q
  <2>6. EndedTimed'
    BY <2>1 DEF RuntimeInv, EndedTimed
  <2>7. ASSUME NEW r \in Runs PROVE Sum(r)' <= runs'[r].maxRuntime
    <3> DEFINE T == TasksOf(r)
               f == Charges(r)'
               g == Charges(r)
    <3>1. r # NoRun /\ runs \in [Runs -> [open : BOOLEAN, maxDispatches : Nat, maxRuntime : Nat]]
      BY AdmissionAssumptions DEF Typed, TypeOK
    <3>2. /\ IsFiniteSet(T) /\ Sum(r) \in Nat
          /\ \A i \in T : g[i] = Charge(tasks[i]) /\ Charge(tasks[i]) \in Nat
      BY ChargesTyped
    <3>3. T \subseteq TasksOf(r)' /\ n \notin T
      BY <2>1 DEF TasksOf
    <3>4. \A i \in TasksOf(r)' : f[i] = Charge(tasks'[i])
      BY DEF Charges, Charge, Used, Elapsed
    <3>5. \A i \in T : f[i] = g[i] /\ g[i] \in Nat
      BY <2>1, <3>2, <3>3, <3>4 DEF TasksOf
    <3>6. Sum(r) = SumFunctionOnSet(g, T)
      OBVIOUS
    <3>7. SumFunctionOnSet(f, T) = SumFunctionOnSet(g, T)
      <4> HIDE DEF T, f, g
      <4> QED
        BY <3>2, <3>5, SumOfSame
    <3>8. CASE r = q.run
      <4>1. TasksOf(r)' = T \cup {n}
        BY <2>1, <3>8 DEF TasksOf
      <4>2. f[n] = q.limit
        BY <2>1, <3>4, <4>1 DEF Charge
      <4>3. \A i \in T \cup {n} : f[i] \in Nat
        BY <2>3, <3>5, <4>2
      <4>4. SumFunctionOnSet(f, T \cup {n}) = f[n] + SumFunctionOnSet(f, T)
        <5> HIDE DEF T, f, n
        <5> QED
          BY <3>2, <3>3, <4>3, SumOfOneMore
      <4>5. Sum(r)' = SumFunctionOnSet(f, T \cup {n})
        BY <4>1
      <4>6. runs'[r].maxRuntime = q.maxRuntime
        BY <2>4, <3>1, <3>8
      <4>7. Sum(r) + q.limit <= q.maxRuntime
        BY <2>5, <3>1, <3>8
      <4> HIDE DEF T, f, g, Sum, n
      <4> QED
        BY <2>3, <3>2, <3>6, <3>7, <4>2, <4>4, <4>5, <4>6, <4>7
    <3>9. CASE r # q.run
      <4>1. TasksOf(r)' = T
        BY <2>1, <3>9 DEF TasksOf
      <4>2. runs'[r] = runs[r]
        BY <2>4, <3>1, <3>9
      <4>3. Sum(r)' = SumFunctionOnSet(f, T)
        BY <4>1
      <4>4. Sum(r) <= runs[r].maxRuntime
        BY DEF RuntimeInv, ChargesFit
      <4> HIDE DEF T, f, g, Sum
      <4> QED
        BY <3>6, <3>7, <4>2, <4>3, <4>4
    <3> QED
      BY <3>8, <3>9
  <2> QED
    BY <2>6, <2>7 DEF RuntimeInv, ChargesFit
<1> QED
  BY <1>1, <1>2, RowsStep, AgesStep

LEMMA InitRuntime == Init => RuntimeInv
<1> SUFFICES ASSUME Init PROVE RuntimeInv
  OBVIOUS
<1>1. \A r \in Runs : TasksOf(r) = {} /\ runs[r].maxRuntime = 0
  BY DEF TasksOf, Init
<1>2. ASSUME NEW r \in Runs PROVE SumFunctionOnSet(Charges(r), TasksOf(r)) = 0
  BY <1>1, SumOfNone
<1>3. EndedTimed
  BY DEF Init, EndedTimed
<1> QED
  BY <1>1, <1>2, <1>3 DEF RuntimeInv, ChargesFit

\* The ceiling on time is passed by overruns only: the ledger counts of each task
\* its charge and its overrun.
LEMMA ChargesBoundTime ==
  ASSUME Typed, RuntimeInv
  PROVE  RuntimeBudget
<1> SUFFICES ASSUME NEW r \in Runs
             PROVE  LET T == {i \in TasksOf(r) : tasks[i].status # "lost"} IN
                    Committed(T, now) <= runs[r].maxRuntime
                      + SumFunctionOnSet([i \in T |-> Overrun(tasks[i])], T)
  BY DEF RuntimeBudget
<1> DEFINE S == TasksOf(r)
           T == {i \in S : tasks[i].status # "lost"}
           g == Charges(r)
           o == [i \in T |-> Overrun(tasks[i])]
           h == [i \in T |-> Elapsed(tasks[i], now) + Reserved(tasks[i], now)]
           max == runs[r].maxRuntime
<1>1. /\ IsFiniteSet(S) /\ SumFunctionOnSet(g, S) \in Nat
      /\ \A i \in S : g[i] = Charge(tasks[i]) /\ Charge(tasks[i]) \in Nat
  BY ChargesTyped
<1>2. T \in SUBSET S /\ IsFiniteSet(T)
  BY <1>1, FS_Subset
<1>3. now \in Nat /\ max \in Nat /\ SumFunctionOnSet(g, S) <= max
  BY DEF Typed, TypeOK, RuntimeInv, ChargesFit
<1>4. ASSUME NEW i \in T
      PROVE  /\ g[i] \in Nat /\ o[i] \in Nat /\ h[i] \in Nat /\ h[i] = g[i] + o[i]
  <2>1. /\ tasks[i] \in TaskType /\ tasks[i].status # "lost"
        /\ tasks[i].status = "ended" => tasks[i].finished # NoTime
    BY RowTyped DEF TasksOf, RuntimeInv, EndedTimed
  <2>2. Elapsed(tasks[i], now) + Reserved(tasks[i], now) = Charge(tasks[i]) + Overrun(tasks[i])
    BY <1>3, <2>1, CountedIsCharge
  <2>3. /\ Elapsed(tasks[i], now) \in Nat /\ tasks[i].limit \in Nat
    BY <1>3, <2>1, TimesTyped
  <2>4. Overrun(tasks[i]) \in Nat
    BY <2>3 DEF Overrun
  <2>5. g[i] = Charge(tasks[i]) /\ Charge(tasks[i]) \in Nat
    BY <1>1, <1>2
  <2>6. o[i] = Overrun(tasks[i]) /\ h[i] = Elapsed(tasks[i], now) + Reserved(tasks[i], now)
    OBVIOUS
  <2> QED
    BY <2>2, <2>4, <2>5, <2>6
<1>5. Committed(T, now) = SumFunctionOnSet(h, T)
  BY DEF Committed
<1> HIDE DEF S, T, g, o, h, max
<1>6. SumFunctionOnSet(h, T) = SumFunctionOnSet(g, T) + SumFunctionOnSet(o, T)
  BY <1>2, <1>4, SumOfSums
<1>7. SumFunctionOnSet(g, T) <= SumFunctionOnSet(g, S)
  BY <1>1, <1>2, <1>4, SumOfLess
<1>8. SumFunctionOnSet(g, T) \in Nat /\ SumFunctionOnSet(o, T) \in Nat
  BY <1>2, <1>4, SumIsNatural
<1>9. Committed(T, now) <= max + SumFunctionOnSet(o, T)
  BY <1>1, <1>3, <1>5, <1>6, <1>7, <1>8
<1> QED
  BY <1>9 DEF S, T, o, max

-----------------------------------------------------------------------------
(***************************************************************************)
(* From the launch to its worker                                           *)
(***************************************************************************)

\* What a launch in flight may rely on.
HasTask(c) ==
  Launching(c) => /\ caller[c].task \in DOMAIN tasks
                  /\ tasks[caller[c].task].worker = "none"
                  /\ tasks[caller[c].task].home = Home(c)

\* A step that lets no caller begin to launch, and starts no worker of a task
\* that is still being launched, keeps HandOver.
LEMMA HandOverKept ==
  ASSUME HandOver,
         \A c \in Callers : Launching(c)' =>
           /\ Launching(c)
           /\ caller'[c].task = caller[c].task
           /\ caller[c].task \in DOMAIN tasks'
           /\ tasks'[caller[c].task] = tasks[caller[c].task]
                \/ /\ tasks'[caller[c].task].worker = "none"
                   /\ tasks'[caller[c].task].home = tasks[caller[c].task].home
  PROVE  HandOver'
  BY DEF HandOver, Home

\* The task of a launch in flight is not the one a worker is running.
LEMMA LaunchedNotLive ==
  ASSUME Typed, HandOver, NEW c \in Callers, Launching(c),
         NEW i \in DOMAIN tasks, tasks[i].worker = "live"
  PROVE  caller[c].task # i
  BY DEF HandOver

LEMMA HandOverStep ==
  ASSUME Typed, HandOver, [Next]_vars
  PROVE  HandOver'
<1>1. ASSUME UNCHANGED tasks, \A d \in Callers : Launching(d)' =>
                                Launching(d) /\ caller'[d].task = caller[d].task
      PROVE  HandOver'
  BY <1>1 DEF HandOver, Home
<1>2. ASSUME NEW c \in Callers, CallerStep(c) PROVE HandOver'
  <2>1. ASSUME NEW q \in Requests, Submit(c, q) PROVE HandOver'
    <3>1. UNCHANGED tasks
      BY <2>1 DEF Submit
    <3>2. OthersStay(c) /\ ~Launching(c)'
      BY <2>1, SubmitMoves DEF Launching
    <3> QED
      BY <1>1, <3>1, <3>2 DEF OthersStay, Launching
  <2>2. CASE TakeSlot(c)
    <3>1. UNCHANGED tasks
      BY <2>2 DEF TakeSlot
    <3>2. OthersStay(c) /\ ~Launching(c)'
      BY <2>2, TakeSlotMoves DEF Launching, Moves
    <3> QED
      BY <1>1, <3>1, <3>2 DEF OthersStay, Launching
  <2>3. CASE CreateTask(c)
    <3> DEFINE n == Len(tasks) + 1
    <3>1. /\ OthersStay(c) /\ caller'[c].task = n
      BY <2>3, CreateMoves DEF Moves
    <3>2. /\ n \notin DOMAIN tasks /\ n \in DOMAIN tasks'
          /\ \A i \in DOMAIN tasks : i \in DOMAIN tasks' /\ tasks'[i] = tasks[i]
          /\ tasks'[n].worker = "none" /\ tasks'[n].home = Home(c)
      <4>1. Row(c).worker = "none" /\ Row(c).home = Home(c)
        BY DEF Row
      <4>2. /\ DOMAIN tasks = 1..Len(tasks) /\ DOMAIN tasks' = 1..(Len(tasks) + 1)
            /\ Len(tasks) \in Nat
            /\ \A i \in DOMAIN tasks : tasks'[i] = tasks[i]
            /\ tasks'[Len(tasks) + 1] = Row(c)
        BY <2>3, CreateRow
      <4> QED
        BY <4>1, <4>2
    <3> HIDE DEF n
    <3>3. \A d \in Callers : d # c /\ Launching(d)' =>
            /\ Launching(d) /\ caller'[d].task = caller[d].task
            /\ caller[d].task \in DOMAIN tasks
      BY <3>1 DEF OthersStay, Launching, HandOver
    <3>4. \A d \in Callers : HasTask(d)'
      BY <3>1, <3>2, <3>3 DEF HasTask, HandOver, Home, Launching
    <3>5. \A d, e \in Callers :
            Launching(d)' /\ Launching(e)' /\ caller'[d].task = caller'[e].task => d = e
      BY <3>1, <3>2, <3>3 DEF HandOver
    <3> QED
      BY <3>4, <3>5 DEF HandOver, HasTask
  <2>4. CASE CreateRefused(c)
    <3>1. UNCHANGED tasks
      BY <2>4 DEF CreateRefused
    <3>2. OthersStay(c) /\ ~Launching(c)'
      BY <2>4, RefusedMoves DEF Launching
    <3> QED
      BY <1>1, <3>1, <3>2 DEF OthersStay, Launching
  <2>5. CASE CreateFails(c)
    <3>1. UNCHANGED tasks
      BY <2>5 DEF CreateFails
    <3>2. OthersStay(c) /\ ~Launching(c)'
      BY <2>5, FailsMoves DEF Launching, Moves
    <3> QED
      BY <1>1, <3>1, <3>2 DEF OthersStay, Launching
  <2>6. CASE ReturnSlot(c)
    <3>1. UNCHANGED tasks
      BY <2>6 DEF ReturnSlot
    <3>2. OthersStay(c) /\ ~Launching(c)'
      BY <2>6, ReturnMoves DEF Launching, Moves
    <3> QED
      BY <1>1, <3>1, <3>2 DEF OthersStay, Launching
  <2>7. CASE StartFails(c)
    <3>1. UNCHANGED tasks
      BY <2>7 DEF StartFails
    <3>2. OthersStay(c) /\ Launching(c) /\ caller'[c].task = caller[c].task
      BY <2>7, StartFailsMoves DEF StartFails, Launching, Moves
    <3> QED
      BY <1>1, <3>1, <3>2 DEF OthersStay, Launching
  <2>8. CASE StartWorker(c) \/ ReportStartFailure(c)
    <3>1. OthersStay(c) /\ ~Launching(c)'
      BY <2>8, ReturnMoves, ReportMoves DEF Launching, Moves
    <3>2. PICK w : OneRow(caller[c].task, w)
      BY <2>8, StartWorkerRow, ReportRow
    <3>3. \A d \in Callers : Launching(d)' =>
            /\ d # c /\ Launching(d) /\ caller'[d].task = caller[d].task
            /\ caller[d].task \in DOMAIN tasks /\ caller[d].task # caller[c].task
      <4>1. Launching(c)
        BY <2>8 DEF StartWorker, ReportStartFailure, Launching
      <4> QED
        BY <3>1, <4>1 DEF OthersStay, Launching, HandOver
    <3> QED
      BY <3>2, <3>3, HandOverKept DEF OneRow, RowsKept
  <2> QED
    BY <1>2, <2>1, <2>2, <2>3, <2>4, <2>5, <2>6, <2>7, <2>8 DEF CallerStep
<1>3. ASSUME NEW i \in DOMAIN tasks, TaskStep(i) PROVE HandOver'
  <2>1. UNCHANGED caller
    BY <1>3 DEF TaskStep, Run, Finish, WorkerReturns, Reconcile
  <2>2. \A c \in Callers : Launching(c) => caller[c].task \in DOMAIN tasks
    BY DEF HandOver
  <2>3. CASE Reconcile(i)
    <3>1. OneRow(i, tasks[i].worker)
      BY <2>3, ReconcileRow
    <3>2. \A j \in DOMAIN tasks : /\ j \in DOMAIN tasks'
                                  /\ tasks'[j].worker = tasks[j].worker
                                  /\ tasks'[j].home = tasks[j].home
      BY <3>1 DEF OneRow, RowsKept, SameName
    <3> QED
      BY <2>1, <2>2, <3>2 DEF HandOver, Launching, Home
  <2>4. CASE Run(i) \/ Finish(i) \/ WorkerReturns(i)
    <3>1. tasks[i].worker = "live"
      BY <2>4 DEF Run, Finish, WorkerReturns
    <3>2. PICK w : OneRow(i, w)
      BY <2>4, RunRow, FinishRow, ReturnsRow
    <3>3. \A c \in Callers : Launching(c) => caller[c].task # i
      BY <3>1, LaunchedNotLive
    <3> QED
      BY <2>1, <2>2, <3>2, <3>3, HandOverKept DEF OneRow, RowsKept, Launching
  <2> QED
    BY <1>3, <2>3, <2>4 DEF TaskStep
<1>4. ASSUME NEW p \in Processes, Crash(p) PROVE HandOver'
  <2>1. \A c \in Callers : Launching(c)' =>
          Home(c) # p /\ Launching(c) /\ caller'[c] = caller[c]
    BY <1>4, CrashMoves DEF Launching
  <2>2. /\ DOMAIN tasks' = DOMAIN tasks
        /\ \A i \in DOMAIN tasks : tasks[i].home # p => tasks'[i] = tasks[i]
    BY <1>4, CrashRows DEF RowsKept
  <2>3. \A c \in Callers : Launching(c) =>
          caller[c].task \in DOMAIN tasks /\ tasks[caller[c].task].home = Home(c)
    BY DEF HandOver
  <2> QED
    BY <2>1, <2>2, <2>3, HandOverKept
<1>5. CASE Tick
  BY <1>1, <1>5 DEF Tick, Launching
<1>6. CASE UNCHANGED vars
  BY <1>1, <1>6 DEF vars, Launching
<1> QED
  BY <1>2, <1>3, <1>4, <1>5, <1>6 DEF Next

-----------------------------------------------------------------------------
(***************************************************************************)
(* Slots                                                                   *)
(***************************************************************************)

\* The launches of process p that hold a slot, and its workers that do.
HoldsSlot(c) == caller[c].place \in {"create", "return", "start"}
Holding(p) == {c \in Callers : Home(c) = p /\ HoldsSlot(c)}
Working(p) == {i \in DOMAIN tasks : tasks[i].home = p /\ tasks[i].worker = "live"}

LEMMA SlotsAre ==
  SlotsAccounted <=>
    \A p \in Processes : slots[p] = Cardinality(Holding(p)) + Cardinality(Working(p))
  BY DEF SlotsAccounted, Holding, HoldsSlot, Working

LEMMA SlotsAreNext ==
  SlotsAccounted' <=>
    \A p \in Processes : slots'[p] = Cardinality(Holding(p)') + Cardinality(Working(p)')
  BY DEF SlotsAccounted, Holding, HoldsSlot, Working

\* Both are finite sets.
LEMMA HoldersFinite ==
  ASSUME Typed, NEW p
  PROVE  /\ IsFiniteSet(Holding(p)) /\ IsFiniteSet(Working(p))
         /\ Cardinality(Holding(p)) \in Nat /\ Cardinality(Working(p)) \in Nat
<1>1. Holding(p) \in SUBSET Callers /\ IsFiniteSet(Callers)
  BY AdmissionAssumptions DEF Holding
<1>2. Len(tasks) \in Nat /\ DOMAIN tasks = 1..Len(tasks)
  BY LenProperties DEF Typed, TypeOK
<1>3. Working(p) \in SUBSET (1..Len(tasks))
  BY <1>2 DEF Working
<1>3a. IsFiniteSet(1..Len(tasks))
  BY <1>2, FS_Interval
<1>4. IsFiniteSet(Holding(p)) /\ IsFiniteSet(Working(p))
  BY <1>1, <1>3, <1>3a, FS_Subset
<1> QED
  BY <1>4, FS_CardinalityType

\* How the holders of process p may move: c takes a slot, gives it back, or
\* nobody does either.
HoldersSame(p) == Holding(p)' = Holding(p)
HolderGone(c, p) == c \in Holding(p) /\ Holding(p)' = Holding(p) \ {c}
HolderComes(c, p) == c \notin Holding(p) /\ Holding(p)' = Holding(p) \cup {c}
WorkersSame(p) == Working(p)' = Working(p)
WorkerGone(i, p) == i \in Working(p) /\ Working(p)' = Working(p) \ {i}
WorkerComes(i, p) == i \notin Working(p) /\ Working(p)' = Working(p) \cup {i}

\* One caller moves: only its own process can gain or lose a holder.
LEMMA OneHolder ==
  ASSUME NEW c \in Callers, OthersStay(c), NEW p \in Processes
  PROVE  /\ Home(c) # p => HoldersSame(p)
         /\ HoldsSlot(c)' = HoldsSlot(c) => HoldersSame(p)
         /\ Home(c) = p /\ HoldsSlot(c) /\ ~HoldsSlot(c)' => HolderGone(c, p)
         /\ Home(c) = p /\ ~HoldsSlot(c) /\ HoldsSlot(c)' => HolderComes(c, p)
<1>1. \A d \in Callers : d # c => HoldsSlot(d)' = HoldsSlot(d)
  BY DEF OthersStay, HoldsSlot
<1>2. \A d \in Callers : Home(d)' = Home(d)
  BY DEF Home
<1>3. /\ \A d : d \in Holding(p) <=> d \in Callers /\ Home(d) = p /\ HoldsSlot(d)
      /\ \A d : d \in Holding(p)' <=> d \in Callers /\ Home(d) = p /\ HoldsSlot(d)'
  BY DEF Holding, Home
<1>4. Home(c) # p => Holding(p)' = Holding(p)
  BY <1>1, <1>3
<1>5. HoldsSlot(c)' = HoldsSlot(c) => Holding(p)' = Holding(p)
  BY <1>1, <1>3
<1>6. Home(c) = p /\ HoldsSlot(c) /\ ~HoldsSlot(c)' =>
        c \in Holding(p) /\ Holding(p)' = Holding(p) \ {c}
  BY <1>1, <1>3
<1>7. Home(c) = p /\ ~HoldsSlot(c) /\ HoldsSlot(c)' =>
        c \notin Holding(p) /\ Holding(p)' = Holding(p) \cup {c}
  BY <1>1, <1>3
<1> QED
  BY <1>4, <1>5, <1>6, <1>7 DEF HoldersSame, HolderGone, HolderComes

\* One row changes: only its own process can gain or lose a worker.
LEMMA OneWorker ==
  ASSUME NEW i, NEW w, OneRow(i, w), NEW p \in Processes
  PROVE  /\ tasks[i].home # p => WorkersSame(p)
         /\ (w = "live") = (tasks[i].worker = "live") => WorkersSame(p)
         /\ tasks[i].home = p /\ tasks[i].worker = "live" /\ w # "live" => WorkerGone(i, p)
         /\ tasks[i].home = p /\ tasks[i].worker # "live" /\ w = "live" => WorkerComes(i, p)
<1>1. /\ i \in DOMAIN tasks /\ DOMAIN tasks' = DOMAIN tasks
      /\ tasks'[i].worker = w /\ tasks'[i].home = tasks[i].home
      /\ \A j \in DOMAIN tasks : j # i => tasks'[j] = tasks[j]
  BY DEF OneRow, RowsKept, SameName
<1> QED
  BY <1>1 DEF Working, WorkersSame, WorkerGone, WorkerComes

\* How the counts follow.
LEMMA HolderCounts ==
  ASSUME Typed, NEW c, NEW p \in Processes
  PROVE  /\ HolderGone(c, p) =>
              Cardinality(Holding(p)') = Cardinality(Holding(p)) - 1
                /\ Cardinality(Holding(p)) > 0
         /\ HolderComes(c, p) => Cardinality(Holding(p)') = Cardinality(Holding(p)) + 1
         /\ WorkerGone(c, p) =>
              Cardinality(Working(p)') = Cardinality(Working(p)) - 1
                /\ Cardinality(Working(p)) > 0
         /\ WorkerComes(c, p) => Cardinality(Working(p)') = Cardinality(Working(p)) + 1
<1>1. /\ IsFiniteSet(Holding(p)) /\ IsFiniteSet(Working(p))
      /\ Cardinality(Holding(p)) \in Nat /\ Cardinality(Working(p)) \in Nat
  BY HoldersFinite
<1>2. HolderGone(c, p) => Cardinality(Holding(p)) # 0 /\
        Cardinality(Holding(p)') = Cardinality(Holding(p)) - 1
  BY <1>1, FS_RemoveElement, FS_EmptySet DEF HolderGone
<1>3. HolderComes(c, p) => Cardinality(Holding(p)') = Cardinality(Holding(p)) + 1
  BY <1>1, FS_AddElement DEF HolderComes
<1>4. WorkerGone(c, p) => Cardinality(Working(p)) # 0 /\
        Cardinality(Working(p)') = Cardinality(Working(p)) - 1
  BY <1>1, FS_RemoveElement, FS_EmptySet DEF WorkerGone
<1>5. WorkerComes(c, p) => Cardinality(Working(p)') = Cardinality(Working(p)) + 1
  BY <1>1, FS_AddElement DEF WorkerComes
<1> QED
  BY <1>1, <1>2, <1>3, <1>4, <1>5

\* A step keeps the account of process p when what its holders and workers
\* gain and lose is what the count gains or loses.
LEMMA AccountKept ==
  ASSUME Typed, SlotsAccounted, NEW p \in Processes, NEW c, NEW i,
         \/ HoldersSame(p) /\ WorkersSame(p) /\ slots'[p] = slots[p]
         \/ HolderComes(c, p) /\ WorkersSame(p) /\ slots'[p] = slots[p] + 1
         \/ /\ HolderGone(c, p) /\ WorkersSame(p)
            /\ slots'[p] = IF slots[p] = 0 THEN 0 ELSE slots[p] - 1
         \/ /\ HoldersSame(p) /\ WorkerGone(i, p)
            /\ slots'[p] = IF slots[p] = 0 THEN 0 ELSE slots[p] - 1
         \/ HolderGone(c, p) /\ WorkerComes(i, p) /\ slots'[p] = slots[p]
  PROVE  slots'[p] = Cardinality(Holding(p)') + Cardinality(Working(p)')
<1> DEFINE h == Cardinality(Holding(p))
           w == Cardinality(Working(p))
           hh == Cardinality(Holding(p)')
           ww == Cardinality(Working(p)')
<1>1. slots[p] = h + w /\ h \in Nat /\ w \in Nat
  BY SlotsAre, HoldersFinite
<1>2. /\ HolderGone(c, p) => hh = h - 1 /\ h > 0
      /\ HolderComes(c, p) => hh = h + 1
  BY HolderCounts
<1>3. /\ WorkerGone(i, p) => ww = w - 1 /\ w > 0
      /\ WorkerComes(i, p) => ww = w + 1
  BY HolderCounts
<1>4. /\ HoldersSame(p) => hh = h
      /\ WorkersSame(p) => ww = w
  BY DEF HoldersSame, WorkersSame
<1> HIDE DEF h, w, hh, ww
<1>5. slots'[p] = hh + ww
  BY <1>1, <1>2, <1>3, <1>4
<1> QED
  BY <1>5 DEF hh, ww

\* In particular a step that moves nobody and leaves the count alone.
LEMMA AccountUntouched ==
  ASSUME Typed, SlotsAccounted, UNCHANGED slots, NEW p \in Processes,
         HoldersSame(p), WorkersSame(p)
  PROVE  slots'[p] = Cardinality(Holding(p)') + Cardinality(Working(p)')
  BY AccountKept

LEMMA SlotsStep ==
  ASSUME Typed, HandOver, SlotsAccounted, [Next]_vars
  PROVE  SlotsAccounted'
<1> DEFINE Kept(p) == slots'[p] = Cardinality(Holding(p)') + Cardinality(Working(p)')
<1>1. SUFFICES \A p \in Processes : Kept(p)
  BY SlotsAreNext
<1>2. slots \in [Processes -> Nat] /\ \A c \in Callers : Home(c) \in Processes
  BY AdmissionAssumptions DEF Typed, TypeOK, Home
<1>3. UNCHANGED tasks => \A p \in Processes : WorkersSame(p)
  BY DEF WorkersSame, Working
<1>4. UNCHANGED caller => \A p \in Processes : HoldersSame(p)
  BY DEF HoldersSame, Holding, HoldsSlot, Home
<1>5. ASSUME NEW p \in Processes, Release(p)
      PROVE  /\ slots'[p] = IF slots[p] = 0 THEN 0 ELSE slots[p] - 1
             /\ \A q \in Processes : q # p => slots'[q] = slots[q]
  BY <1>2, <1>5 DEF Release
<1>6. ASSUME NEW c \in Callers, CallerStep(c) PROVE \A p \in Processes : Kept(p)
  <2> DEFINE h == Home(c)
  <2>1. ASSUME UNCHANGED tasks, OthersStay(c), UNCHANGED slots,
               HoldsSlot(c)' = HoldsSlot(c)
        PROVE  \A p \in Processes : Kept(p)
    BY <1>3, <2>1, OneHolder, AccountKept
  <2>2. ASSUME UNCHANGED tasks, OthersStay(c), Release(h),
               HoldsSlot(c), ~HoldsSlot(c)'
        PROVE  \A p \in Processes : Kept(p)
    BY <1>2, <1>3, <1>5, <2>2, OneHolder, AccountKept
  <2>3. ASSUME NEW q \in Requests, Submit(c, q) PROVE \A p \in Processes : Kept(p)
    <3>1. UNCHANGED tasks /\ UNCHANGED slots /\ caller[c].place = "idle"
      BY <2>3 DEF Submit
    <3>2. OthersStay(c) /\ caller'[c].place \in {"slot", "idle"}
      BY <2>3, SubmitMoves
    <3>3. HoldsSlot(c)' = HoldsSlot(c)
      BY <3>1, <3>2 DEF HoldsSlot
    <3> QED
      BY <2>1, <3>1, <3>2, <3>3
  <2>4. CASE TakeSlot(c)
    <3>1. UNCHANGED tasks /\ caller[c].place = "slot"
      BY <2>4 DEF TakeSlot
    <3>2. CASE slots[h] >= SlotLimit
      <4>1. OthersStay(c) /\ caller'[c].place = "idle" /\ UNCHANGED slots
        BY <2>4, <3>2, TakeSlotMoves DEF TakeSlot, Moves
      <4> QED
        BY <2>1, <3>1, <4>1 DEF HoldsSlot
    <3>3. CASE ~(slots[h] >= SlotLimit)
      <4>1. /\ OthersStay(c) /\ caller'[c].place = "create"
            /\ slots' = [slots EXCEPT ![h] = @ + 1]
        BY <2>4, <3>3, TakeSlotMoves DEF TakeSlot, Moves
      <4>2. ~HoldsSlot(c) /\ HoldsSlot(c)'
        BY <3>1, <4>1 DEF HoldsSlot
      <4>3. slots'[h] = slots[h] + 1 /\ \A p \in Processes : p # h => slots'[p] = slots[p]
        BY <1>2, <4>1
      <4> QED
        BY <1>2, <1>3, <3>1, <4>1, <4>2, <4>3, OneHolder, AccountKept
    <3> QED
      BY <3>2, <3>3
  <2>5. CASE CreateTask(c)
    <3> SUFFICES ASSUME NEW p \in Processes PROVE Kept(p)
      OBVIOUS
    <3>1. UNCHANGED slots /\ OthersStay(c) /\ HoldsSlot(c)' = HoldsSlot(c)
      BY <2>5, CreateMoves DEF CreateTask, Moves, HoldsSlot
    <3>2. WorkersSame(p)
      <4>1. Row(c).worker = "none"
        BY DEF Row
      <4>2. /\ DOMAIN tasks = 1..Len(tasks) /\ DOMAIN tasks' = 1..(Len(tasks) + 1)
            /\ Len(tasks) \in Nat
            /\ \A i \in DOMAIN tasks : tasks'[i] = tasks[i]
            /\ tasks'[Len(tasks) + 1] = Row(c)
        BY <2>5, CreateRow
      <4>3. \A i : i \in DOMAIN tasks' <=> i \in DOMAIN tasks \/ i = Len(tasks) + 1
        BY <4>2
      <4> QED
        BY <4>1, <4>2, <4>3 DEF WorkersSame, Working
    <3>3. HoldersSame(p)
      BY <3>1, OneHolder
    <3> QED
      BY <3>1, <3>2, <3>3, AccountUntouched
  <2>6. CASE CreateRefused(c)
    <3>1. UNCHANGED tasks /\ UNCHANGED slots /\ caller[c].place = "create"
      BY <2>6 DEF CreateRefused
    <3>2. OthersStay(c) /\ caller'[c].place = "return"
      BY <2>6, RefusedMoves
    <3>3. HoldsSlot(c)' = HoldsSlot(c)
      BY <3>1, <3>2 DEF HoldsSlot
    <3> QED
      BY <2>1, <3>1, <3>2, <3>3
  <2>7. CASE CreateFails(c)
    BY <2>1, <2>7, FailsMoves DEF CreateFails, HoldsSlot, Moves
  <2>8. CASE ReturnSlot(c)
    BY <2>2, <2>8, ReturnMoves DEF ReturnSlot, HoldsSlot, Moves
  <2>9. CASE StartFails(c)
    BY <2>2, <2>9, StartFailsMoves DEF StartFails, HoldsSlot, Moves
  <2>10. CASE StartWorker(c)
    <3> DEFINE i == caller[c].task
    <3>1. UNCHANGED slots /\ OthersStay(c) /\ HoldsSlot(c) /\ ~HoldsSlot(c)'
      BY <2>10, ReturnMoves DEF StartWorker, Moves, HoldsSlot
    <3>2. OneRow(i, "live")
      BY <2>10, StartWorkerRow
    <3>3. tasks[i].worker = "none" /\ tasks[i].home = h
      BY <2>10 DEF StartWorker, HandOver, Launching
    <3> HIDE DEF i, h
    <3>4. \A p \in Processes : p # h => WorkersSame(p)
      BY <3>2, <3>3, OneWorker
    <3>5. h \in Processes /\ WorkerComes(i, h)
      BY <1>2, <3>2, <3>3, OneWorker DEF h
    <3>6. /\ HolderGone(c, h)
          /\ \A p \in Processes : p # h => HoldersSame(p)
      BY <3>1, <3>5, OneHolder DEF h
    <3>7. Kept(h)
      BY <3>1, <3>5, <3>6, AccountKept
    <3>8. \A p \in Processes : p # h => Kept(p)
      BY <3>1, <3>4, <3>6, AccountKept
    <3> QED
      BY <3>7, <3>8
  <2>11. CASE ReportStartFailure(c)
    <3> DEFINE i == caller[c].task
    <3>1. UNCHANGED slots /\ OthersStay(c) /\ HoldsSlot(c)' = HoldsSlot(c)
      BY <2>11, ReportMoves DEF ReportStartFailure, Moves, HoldsSlot
    <3>2. OneRow(i, "gone") /\ tasks[i].worker = "none"
      BY <2>11, ReportRow DEF ReportStartFailure, HandOver, Launching
    <3>3. \A p \in Processes : WorkersSame(p)
      BY <3>2, OneWorker
    <3>4. \A p \in Processes : HoldersSame(p)
      BY <3>1, OneHolder
    <3> QED
      BY <3>1, <3>3, <3>4, AccountKept
  <2> QED
    BY <1>6, <2>3, <2>4, <2>5, <2>6, <2>7, <2>8, <2>9, <2>10, <2>11 DEF CallerStep
<1>7. ASSUME NEW i \in DOMAIN tasks, TaskStep(i) PROVE \A p \in Processes : Kept(p)
  <2>1. \A p \in Processes : HoldersSame(p)
    BY <1>4, <1>7 DEF TaskStep, Run, Finish, WorkerReturns, Reconcile
  <2>2. CASE WorkerReturns(i)
    <3>1. tasks[i].worker = "live" /\ OneRow(i, "gone") /\ Release(tasks[i].home)
      BY <2>2, ReturnsRow DEF WorkerReturns
    <3>2. tasks[i].home \in Processes
      BY RowTyped DEF TaskType
    <3> QED
      BY <1>5, <2>1, <3>1, <3>2, OneWorker, AccountKept
  <2>3. CASE Run(i) \/ Finish(i) \/ Reconcile(i)
    <3>1. UNCHANGED slots
      BY <2>3 DEF Run, Finish, Reconcile
    <3>2. PICK w : OneRow(i, w) /\ (w = "live") = (tasks[i].worker = "live")
      BY <2>3, RunRow, FinishRow, ReconcileRow DEF Run, Finish
    <3>3. \A p \in Processes : WorkersSame(p)
      BY <3>2, OneWorker
    <3> QED
      BY <2>1, <3>1, <3>3, AccountKept
  <2> QED
    BY <1>7, <2>2, <2>3 DEF TaskStep
<1>8. ASSUME NEW p \in Processes, Crash(p) PROVE \A q \in Processes : Kept(q)
  <2>1. slots'[p] = 0 /\ \A q \in Processes : q # p => slots'[q] = slots[q]
    BY <1>2, <1>8 DEF Crash
  <2>2. /\ \A c \in Callers : IF Home(c) # p THEN caller'[c] = caller[c]
                              ELSE caller'[c].place = "idle"
        /\ \A c \in Callers : Home(c)' = Home(c)
    BY <1>8, CrashMoves DEF Home
  <2>3. /\ DOMAIN tasks' = DOMAIN tasks
        /\ \A i \in DOMAIN tasks : IF tasks[i].home = p THEN tasks'[i].worker = "gone"
                                   ELSE tasks'[i] = tasks[i]
        /\ \A i \in DOMAIN tasks : tasks'[i].home = tasks[i].home
    BY <1>8, CrashRows DEF RowsKept, SameName
  <2>4. Holding(p)' = {} /\ Working(p)' = {}
    BY <2>2, <2>3 DEF Holding, HoldsSlot, Working
  <2>5. \A q \in Processes : q # p => HoldersSame(q)
    BY <2>2 DEF Holding, HoldsSlot, HoldersSame
  <2>6. \A q \in Processes : q # p => WorkersSame(q)
    BY <2>3 DEF Working, WorkersSame
  <2>7. Kept(p)
    BY <2>1, <2>4, FS_EmptySet
  <2> QED
    BY <2>1, <2>5, <2>6, <2>7, AccountKept
<1>9. CASE UNCHANGED <<tasks, caller, slots>>
  BY <1>3, <1>4, <1>9, AccountKept
<1> QED
  BY <1>6, <1>7, <1>8, <1>9 DEF Next, Tick, vars

LEMMA InitSlots == Init => SlotsAccounted
<1> SUFFICES ASSUME Init, NEW p \in Processes
             PROVE  slots[p] = Cardinality(Holding(p)) + Cardinality(Working(p))
  BY SlotsAre
<1>1. Holding(p) = {} /\ Working(p) = {} /\ slots[p] = 0
  BY DEF Init, Holding, HoldsSlot, Working
<1> QED
  BY <1>1, FS_EmptySet

-----------------------------------------------------------------------------
(***************************************************************************)
(* The theorems                                                            *)
(***************************************************************************)

LEMMA InitAdmission == Init => AdmissionInv
<1> SUFFICES ASSUME Init PROVE AdmissionInv
  OBVIOUS
<1>1. \A c \in Callers : caller[c].place = "idle" /\ caller[c].answer = "none"
  BY DEF Init
<1>2. HandOver /\ AnswersExist /\ AnswersAgree
  BY <1>1 DEF HandOver, Launching, AnswersExist, AnswersAgree
<1> QED
  BY <1>2, InitTyped, InitNames, InitSlots, InitBudget DEF AdmissionInv, NamesInv

LEMMA AdmissionStep == AdmissionInv /\ [Next]_vars => AdmissionInv'
<1> SUFFICES ASSUME AdmissionInv, [Next]_vars PROVE AdmissionInv'
  OBVIOUS
<1>1. Typed /\ HandOver /\ NamesInv /\ SlotsAccounted /\ DispatchBudget
  BY DEF AdmissionInv, NamesInv
<1>2. \A c \in Callers : ToldTruth(c)
  BY AnswersAreTruths DEF AdmissionInv
<1>3. \A c \in Callers : ToldTruth(c)'
  BY <1>1, <1>2, AnswersStep
<1>4. AnswersExist' /\ AnswersAgree'
  BY <1>3 DEF AnswersExist, AnswersAgree, ToldTruth
<1>5. Typed' /\ HandOver' /\ NamesInv' /\ SlotsAccounted' /\ DispatchBudget'
  BY <1>1, TypeStep, HandOverStep, NamesStep, SlotsStep, BudgetStep
<1> QED
  BY <1>4, <1>5 DEF AdmissionInv, NamesInv

\* The inductive invariant holds in every reachable state.
THEOREM AdmissionInvariant == Spec => []AdmissionInv
  BY InitAdmission, AdmissionStep, PTL DEF Spec

\* What the tasks of a run may still take of its time ceiling stays within it.
THEOREM AdmissionCharges == Spec => []RuntimeInv
<1>1. AdmissionInv => Typed /\ HandOver
  BY DEF AdmissionInv
<1>2. AdmissionInv /\ AdmissionInv' /\ RuntimeInv /\ [Next]_vars => RuntimeInv'
  BY <1>1, RuntimeStep DEF AdmissionInv
<1> QED
  BY <1>2, InitRuntime, AdmissionInvariant, PTL DEF Spec

\* One key makes at most one task and one step of a run at most one, for any
\* number of callers and processes that ask at the same time.
THEOREM AdmissionOneTaskPerName == Spec => []OneTaskPerName
<1>1. AdmissionInv => OneTaskPerName
  BY NamesAreUnique DEF AdmissionInv, NamesInv
<1> QED
  BY <1>1, AdmissionInvariant, PTL

\* A caller told of a task is told of the one its own request made.
THEOREM AdmissionAnswersAgree == Spec => []AnswersAgree
<1>1. AdmissionInv => AnswersAgree
  BY DEF AdmissionInv
<1> QED
  BY <1>1, AdmissionInvariant, PTL

\* Every slot counted is held by a launch or a worker of its process, and none
\* is returned twice, through any refusals, failures and crashes.
THEOREM AdmissionSlotsStand == Spec => []SlotsStand
<1>1. AdmissionInv => SlotsStand
  BY DEF AdmissionInv, Typed, SlotsStand
<1> QED
  BY <1>1, AdmissionInvariant, PTL

\* No run dispatches more tasks than its ceiling allows, however many launches
\* race and however its ceilings are narrowed in between.
THEOREM AdmissionDispatchBudget == Spec => []DispatchBudget
<1>1. AdmissionInv => DispatchBudget
  BY DEF AdmissionInv
<1> QED
  BY <1>1, AdmissionInvariant, PTL

\* The ceiling on a run's time is passed only by tasks that outlive their own
\* limit, whatever time each launch judged it by and however many raced.
THEOREM AdmissionRuntimeBudget == Spec => []RuntimeBudget
<1>1. AdmissionInv /\ RuntimeInv => RuntimeBudget
  BY ChargesBoundTime DEF AdmissionInv
<1> QED
  BY <1>1, AdmissionInvariant, AdmissionCharges, PTL
=============================================================================
