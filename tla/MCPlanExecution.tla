--------------------------- MODULE MCPlanExecution ---------------------------
(* A plan of two steps, the second of which has to be approved, in three    *)
(* situations of which each behaviour has one:                              *)
(*   "processes"  one thread in each of two processes, which may die;       *)
(*   "operator"   two calls in one process, while an operator starts and    *)
(*                binds a task of his own;                                  *)
(*   "flows"      no plan: two other workflows, one of each completion      *)
(*                policy, compete for the tasks.                            *)
(* What a situation does not need is held back, so that each stays small;   *)
(* every behaviour of the first two is one of Spec, every behaviour of the  *)
(* third one of WorkflowSpec.                                               *)
EXTENDS PlanExecution, TLC

CONSTANTS Situations, plan, old, new, t1, t2, other, P, Q, c1, c2, c3

VARIABLE situation

Stage(a, v, p) == [approval |-> a, verification |-> v, policy |-> p]

MCSpecs == [w \in {plan, old, new} |->
  CASE w = plan -> <<Stage(FALSE, FALSE, "plan_execution_v2"),
                     Stage(TRUE, FALSE, "plan_execution_v2")>>
    [] w = old  -> <<Stage(TRUE, FALSE, "legacy"), Stage(FALSE, FALSE, "legacy")>>
    [] w = new  -> <<Stage(FALSE, TRUE, "plan_execution_v2"),
                     Stage(TRUE, FALSE, "plan_execution_v2")>>]

\* Task other is of a kind the second stage of new does not take.
MCFits == {<<w, i, t>> \in {plan, old, new} \X {1, 2} \X Tasks :
             ~(w = new /\ i = 2 /\ t = other)}
MCStepTask == <<t1, t2>>
MCHomeOf == [c \in Threads |-> IF c = c1 THEN P ELSE Q]

Said(verdicts) == \A t \in Tasks : task'[t].verdict \in verdicts

TwoProcesses ==
  /\ situation = "processes"
  /\ \/ \E c \in {c1, c2} : ThreadStep(c) \/ CallFails(c)
     \/ \E p \in Processes : Crash(p)
     \/ Operator
  /\ task'[other].status = "absent"
  /\ Said({"PASSED", "UNAVAILABLE"})
  /\ UNCHANGED situation

OneProcess ==
  /\ situation = "operator"
  /\ \/ \E c \in {c2, c3} : ThreadStep(c)
     \/ Operator
  /\ Said({"UNAVAILABLE"})
  /\ calls' <= 2
  /\ UNCHANGED situation

OtherFlows ==
  /\ situation = "flows"
  /\ \/ \E w \in {old, new} : WorkflowStep(w)
     \/ \E t \in Tasks : TaskStep(t)
  /\ UNCHANGED <<situation, planVars>>

MCInit == Init /\ situation \in Situations
MCNext == TwoProcesses \/ OneProcess \/ OtherFlows
MCSpec == MCInit /\ [][MCNext]_<<vars, situation>>
=============================================================================
