-------------------------------- MODULE Planner --------------------------------
(***************************************************************************)
(* Plans made from an explicit intent by a fixed policy.  A plan is        *)
(* created as a draft, validated, then prepared, each in one transaction   *)
(* with its event; preparing hands out the stages of a workflow that the   *)
(* caller makes.  Nothing is dispatched here.  Callers repeat and race.    *)
(***************************************************************************)
EXTENDS Naturals, Sequences, FiniteSets, SequencesExt

CONSTANTS Clients, PlanIds,
          Intents,       \* what plans may be asked for
          MaxRequests    \* bound: requests of a client

VARIABLES plans,         \* per id: the stored plan, or NoPlan
          planEvents,    \* the history
          known,         \* references: the contexts and collections registered
          clients        \* per client: requests made, the last answer, what it reads

plannerVars == <<plans, planEvents, known, clients>>

BasePolicies ==
  [analysis |-> <<"analyze", "report">>,
   implementation |-> <<"analyze", "implement", "verify">>,
   review |-> <<"inspect", "review", "report">>,
   documentation |-> <<"analyze", "document", "verify">>,
   maintenance |-> <<"diagnose", "remediate", "verify">>]

StepKeys == UNION {ToSet(BasePolicies[kind]) : kind \in DOMAIN BasePolicies}
Changing == {"implement", "remediate", "document"}

IntentType == [kind : DOMAIN BasePolicies, level : {"low", "medium", "high"},
               approval : BOOLEAN, verify : BOOLEAN, text : STRING,
               knowledge : STRING, context : STRING]

ASSUME PlannerAssumption == MaxRequests \in Nat /\ Intents \subseteq IntentType

\* What of a sequence is in a set, in its order.
Only(s, T) ==
  LET upTo[i \in 0 .. Len(s)] ==
        IF i = 0 THEN <<>>
        ELSE IF s[i] \in T THEN Append(upTo[i - 1], s[i]) ELSE upTo[i - 1]
  IN upTo[Len(s)]

\* The steps of a kind, without verification if none is wanted, and with a
\* review, before the report or last, if the work is complex.
PolicyKeys(intent) ==
  LET base == IF intent.verify THEN BasePolicies[intent.kind]
              ELSE Only(BasePolicies[intent.kind], StepKeys \ {"verify"})
  IN CASE intent.level # "high" \/ "review" \in ToSet(base) -> base
       [] intent.level = "high" /\ "review" \notin ToSet(base)
          /\ "report" \in ToSet(base) ->
            InsertAt(base, CHOOSE i \in DOMAIN base : base[i] = "report", "review")
       [] OTHER -> Append(base, "review")

\* The first of some keys that is among those of a plan, or else its last.
Preferred(wanted, keys) ==
  LET there == {i \in DOMAIN wanted : wanted[i] \in ToSet(keys)}
  IN IF there # {} THEN wanted[Min(there)] ELSE Last(keys)

\* Defect: a review is preferred to the step that changes something.
ApprovalKey_ReviewFirst(keys) ==
  Preferred(<<"review", "implement", "remediate", "document", "report">>, keys)

\* The step that waits for an approval.
ApprovalKey(keys) ==
  Preferred(<<"implement", "remediate", "document", "review", "report">>, keys)

Steps(intent) ==
  LET keys == PolicyKeys(intent) IN
  [i \in DOMAIN keys |->
     [key |-> keys[i], approval |-> intent.approval /\ keys[i] = ApprovalKey(keys),
      verification |-> keys[i] = "verify"]]

\* Every step depends on the one before it.
Chain(steps) == {<<i, i - 1>> : i \in DOMAIN steps \ {1}}

NoPlan == [status |-> "none", version |-> 0, kind |-> "none", level |-> "none",
           text |-> "none", knowledge |-> "none", context |-> "none",
           steps |-> <<>>, dependencies |-> {}]
Stored(intent) ==
  [status |-> "draft", version |-> 1, kind |-> intent.kind, level |-> intent.level,
   text |-> intent.text, knowledge |-> intent.knowledge, context |-> intent.context,
   steps |-> Steps(intent), dependencies |-> Chain(Steps(intent))]

PlanStatuses == {"none", "draft", "validated", "prepared"}

PlannerTypeOK ==
  /\ \A id \in PlanIds :
       /\ plans[id].status \in PlanStatuses
       /\ plans[id].version \in 0 .. 3
       /\ \A i \in DOMAIN plans[id].steps : plans[id].steps[i].key \in StepKeys
  /\ \A i \in DOMAIN planEvents :
       planEvents[i] \in [plan : PlanIds, status : PlanStatuses]
  /\ \A c \in Clients : clients[c].made \in 0 .. MaxRequests

Silent == [to |-> "none", plan |-> "none", said |-> "none", stages |-> <<>>]

PlannerInit ==
  /\ plans = [id \in PlanIds |-> NoPlan]
  /\ planEvents = <<>>
  /\ known = {}
  /\ clients = [c \in Clients |-> [made |-> 0, intent |-> "none", answer |-> Silent]]

\* A collection of the same name as its context, registered with it or later.
RegisterReference ==
  /\ \E r \in {"context", "knowledge"} :
       /\ r \notin known /\ (r = "knowledge" => "context" \in known)
       /\ known' = known \cup {r}
  /\ UNCHANGED <<plans, planEvents, clients>>

\* A collection is known, and belongs to the context if one is named.
ReferencesValid(knowledge, context) ==
  /\ knowledge # "none" => /\ knowledge \in known
                           /\ context \in {"none", "context"}
  /\ context # "none" => context \in known

StructureValid(plan) ==
  /\ plan.steps # <<>>
  /\ plan.dependencies = Chain(plan.steps)

Tell(c, intent, to, id, said, stages) ==
  clients' = [clients EXCEPT ![c] =
    [made |-> @.made + 1, intent |-> intent,
     answer |-> [to |-> to, plan |-> id, said |-> said, stages |-> stages]]]

MayAsk(c) == clients[c].made < MaxRequests

\* Whether an id that is taken was created with this intent: what the plan
\* stores is compared with what the policy would make.
SameIntent(plan, intent) ==
  /\ plan.kind = intent.kind /\ plan.level = intent.level
  /\ plan.text = intent.text
  /\ plan.knowledge = intent.knowledge /\ plan.context = intent.context
  /\ plan.steps = Steps(intent)

Event(id, status) == planEvents' = Append(planEvents, [plan |-> id, status |-> status])

CreatePlan(c, id, intent) ==
  /\ MayAsk(c)
  /\ \/ /\ plans[id] = NoPlan /\ ReferencesValid(intent.knowledge, intent.context)
        /\ plans' = [plans EXCEPT ![id] = Stored(intent)]
        /\ Event(id, "draft")
        /\ Tell(c, intent, "create", id, "created", Steps(intent))
     \/ /\ plans[id] = NoPlan /\ ~ReferencesValid(intent.knowledge, intent.context)
        /\ Tell(c, intent, "create", id, "rejected", <<>>)
        /\ UNCHANGED <<plans, planEvents>>
     \/ /\ plans[id] # NoPlan
        /\ IF SameIntent(plans[id], intent)
             THEN Tell(c, intent, "create", id, "replayed", plans[id].steps)
             ELSE Tell(c, intent, "create", id, "conflict", <<>>)
        /\ UNCHANGED <<plans, planEvents>>
  /\ UNCHANGED known

MoveTo(id, status) ==
  /\ plans' = [plans EXCEPT ![id].status = status, ![id].version = @ + 1]
  /\ Event(id, status)

Refused(id) ==
  \/ plans[id] = NoPlan
  \/ ~ReferencesValid(plans[id].knowledge, plans[id].context)
  \/ ~StructureValid(plans[id])

ValidatePlan(c, id) ==
  /\ MayAsk(c)
  /\ \/ /\ Refused(id)
        /\ Tell(c, "none", "validate", id, "rejected", <<>>)
        /\ UNCHANGED <<plans, planEvents>>
     \/ /\ ~Refused(id) /\ plans[id].status = "draft"
        /\ MoveTo(id, "validated")
        /\ Tell(c, "none", "validate", id, "validated", plans[id].steps)
     \/ /\ ~Refused(id) /\ plans[id].status \in {"validated", "prepared"}
        /\ Tell(c, "none", "validate", id, "replayed", plans[id].steps)
        /\ UNCHANGED <<plans, planEvents>>
  /\ UNCHANGED known

\* Defect: a repeated preparation moves the plan again.
PreparePlan_Again(c, id) ==
  /\ MayAsk(c)
  /\ ~Refused(id) /\ plans[id].status \in {"validated", "prepared"}
  /\ plans[id].version < 3 \/ plans[id].status = "prepared"
  /\ plans' = [plans EXCEPT ![id].status = "prepared"]
  /\ Event(id, "prepared")
  /\ Tell(c, "none", "prepare", id, "prepared", plans[id].steps)
  /\ UNCHANGED known

\* The stages of the workflow are handed out on every preparation.
PreparePlan(c, id) ==
  /\ MayAsk(c)
  /\ \/ /\ Refused(id) \/ plans[id].status = "draft"
        /\ Tell(c, "none", "prepare", id, "rejected", <<>>)
        /\ UNCHANGED <<plans, planEvents>>
     \/ /\ ~Refused(id) /\ plans[id].status = "validated"
        /\ MoveTo(id, "prepared")
        /\ Tell(c, "none", "prepare", id, "prepared", plans[id].steps)
     \/ /\ ~Refused(id) /\ plans[id].status = "prepared"
        /\ Tell(c, "none", "prepare", id, "replayed", plans[id].steps)
        /\ UNCHANGED <<plans, planEvents>>
  /\ UNCHANGED known

PlannerNext ==
  \/ RegisterReference
  \/ \E c \in Clients, id \in PlanIds :
       \/ ValidatePlan(c, id) \/ PreparePlan(c, id)
       \/ \E intent \in Intents : CreatePlan(c, id, intent)

PlannerSpec == PlannerInit /\ [][PlannerNext]_plannerVars

--------------------------------------------------------------------------------

Before(steps, these, those) ==
  \A i, j \in DOMAIN steps : steps[i].key \in these /\ steps[j].key \in those => i < j

\* The stages do what was asked: nothing changes before the approval that was
\* wanted, which is wanted once; what has changed is verified if that was
\* wanted, and then reviewed if the work is complex; a report comes last.
Honours(steps, intent) ==
  LET keys == {steps[i].key : i \in DOMAIN steps}
      gates == {i \in DOMAIN steps : steps[i].approval}
  IN /\ Cardinality(gates) = (IF intent.approval THEN 1 ELSE 0)
     /\ \A g \in gates, i \in DOMAIN steps : steps[i].key \in Changing => g <= i
     /\ keys \cap Changing # {} => (intent.verify <=> "verify" \in keys)
     /\ intent.level = "high" => "review" \in keys
     /\ Before(steps, Changing, {"verify"}) /\ Before(steps, {"verify"}, {"review"})
     /\ Before(steps, keys \ {"report"}, {"report"})

\* Whoever created a plan, or was told that it exists as asked for, has
\* stages that do what was asked.
PlansHonourIntent ==
  \A c \in Clients :
    LET told == clients[c].answer IN
    told.to = "create" /\ told.stages # <<>> => Honours(told.stages, clients[c].intent)

\* The history of a plan is its way to where it stands, each step once however
\* often it was asked for; stages are handed out only of a prepared plan, to
\* all the same.
PlanHistoryTold ==
  \A id \in PlanIds :
    LET its == Only(planEvents, [plan : {id}, status : PlanStatuses]) IN
    /\ [i \in DOMAIN its |-> its[i].status]
         = SubSeq(<<"draft", "validated", "prepared">>, 1, plans[id].version)
    /\ plans[id].version > 0 => its[Len(its)].status = plans[id].status
    /\ \A c \in Clients :
         /\ clients[c].answer.plan = id /\ clients[c].answer.stages # <<>>
         => /\ clients[c].answer.stages = plans[id].steps
            /\ clients[c].answer.to = "prepare" => plans[id].status = "prepared"
================================================================================
