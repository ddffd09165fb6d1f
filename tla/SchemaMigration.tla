---------------------------- MODULE SchemaMigration ----------------------------
(***************************************************************************)
(* Opening the runtime database: every process applies what its file still *)
(* misses.  Versions 1 to 10 are lists of statements, each committed on    *)
(* its own; 11 to 13 are one transaction each.  Nothing keeps two openers  *)
(* apart but SQLite's write lock, an opener may die or find the file       *)
(* locked at any statement, and a process that has opened the file uses it *)
(* while others are still migrating.                                       *)
(*                                                                         *)
(* Indices and single columns are left out but for those that a version    *)
(* adds to an existing table.                                              *)
(***************************************************************************)
EXTENDS Naturals, Sequences

CONSTANTS Openers,   \* processes
          FileAges,  \* versions the file may have been left at
          MaxOpens   \* bound: times a process opens the file

ASSUME MigrationAssumption ==
  FileAges \subseteq 0 .. 13 /\ MaxOpens \in Nat \ {0}

VARIABLES version,  \* PRAGMA user_version
          schema,   \* the tables, and the columns added to a table, it holds
          stored,   \* rows: a stage's completion policy, a task's attempt
          opener    \* per process: how far it is

migrationVars == <<version, schema, stored, opener>>

FirstTables == <<"tasks", "sessions", "attempts", "events", "idempotency">>
TaskColumns == <<"tasks.terminal_reason">>
LeaseColumns == <<"sessions.owner_generation", "tasks.lost_at">>
EvidenceTables == <<"artifacts", "evidences">>
LineageTables == <<"task_lineage">>
WorkflowTables == <<"workflows", "workflow_stages", "workflow_approvals",
                    "workflow_events">>
ContextTables == <<"context_manifests", "context_entries">>
ToolTables == <<"tool_invocations">>
KnowledgeTables == <<"knowledge_collections", "knowledge_sources",
                     "knowledge_resolutions">>
PlannerTables == <<"planner_plans", "planner_steps", "planner_dependencies",
                   "planner_events">>
ExecutionTables == <<"plan_executions", "plan_execution_steps",
                     "plan_execution_events", "plan_results">>

Migrations ==
  <<FirstTables, TaskColumns, LeaseColumns, EvidenceTables, LineageTables,
    WorkflowTables, ContextTables, ToolTables, KnowledgeTables, PlannerTables,
    <<"workflow_stages.completion_policy">> \o ExecutionTables,
    <<"evidences.usage">>, <<"tasks.run_id", "run_controls">> >>
Versions == 1 .. 13
Lists == 1 .. 10

Objects(v) == {Migrations[v][i] : i \in DOMAIN Migrations[v]}
UpTo(v) == UNION {Objects(w) : w \in 1 .. v}
AllObjects == UpTo(13)

\* The tables whose rows a table's rows point at.
Parents(t) ==
  CASE t \in {"sessions", "attempts", "events", "idempotency", "task_lineage"}
         -> {"tasks"}
    [] t = "artifacts" -> {"attempts"}
    [] t = "evidences" -> {"attempts", "artifacts"}
    [] t = "workflow_stages" -> {"workflows", "tasks"}
    [] t \in {"workflow_approvals", "workflow_events"}
         -> {"workflows", "workflow_stages"}
    [] t = "context_entries" -> {"context_manifests"}
    [] t = "tool_invocations" -> {"tasks", "context_manifests"}
    [] t = "knowledge_collections" -> {"context_manifests"}
    [] t = "knowledge_sources" -> {"knowledge_collections", "context_entries"}
    [] t = "knowledge_resolutions" -> {"knowledge_collections", "tasks"}
    [] t = "planner_plans" -> {"knowledge_collections", "context_manifests"}
    [] t \in {"planner_steps", "planner_events"} -> {"planner_plans"}
    [] t = "planner_dependencies" -> {"planner_steps"}
    [] t = "plan_executions" -> {"planner_plans", "workflows"}
    [] t = "plan_execution_steps" -> {"plan_executions", "planner_steps",
                                      "workflow_stages", "knowledge_collections"}
    [] t = "plan_execution_events" -> {"plan_executions", "planner_steps"}
    [] t = "plan_results" -> {"plan_executions"}
    [] OTHER -> {}

\* list, next: the version and the statement it is at; known: the version as it
\* last read it; opens: how often it opened the file.
OpenerType == [at : {"closed", "listed", "rebuild", "reread", "open", "failed"},
               list : 0 .. 13, next : Nat, known : 0 .. 13, opens : 0 .. MaxOpens]

MigrationTypeOK ==
  /\ version \in 0 .. 13
  /\ schema \subseteq AllObjects
  /\ stored \in [policy : {"none", "legacy", "plan"},
                 attempt : {"none", "null", "latest", "named"}]
  /\ opener \in [Openers -> OpenerType]

\* A file left at a version holds its tables, and rows of its time.
MigrationInit ==
  /\ version \in FileAges
  /\ schema = UpTo(version)
  /\ stored = [policy |-> IF version >= 11 THEN "plan"
                          ELSE IF version >= 6 THEN "legacy" ELSE "none",
               attempt |-> IF version >= 4 THEN "named"
                           ELSE IF version >= 1 THEN "null" ELSE "none"]
  /\ opener = [p \in Openers |-> [at |-> "closed", list |-> 0, next |-> 1,
                                  known |-> 0, opens |-> 0]]

Turn(p, at) == opener' = [opener EXCEPT ![p].at = at]

\* The version is read once before the lists, which are run from there.
Open(p) ==
  /\ opener[p].at \in {"closed", "failed"} /\ opener[p].opens < MaxOpens
  /\ opener' = [opener EXCEPT ![p] =
       [at |-> IF version < 10 THEN "listed" ELSE "rebuild",
        list |-> IF version < 10 THEN version + 1 ELSE 11,
        next |-> 1, known |-> version, opens |-> @.opens + 1]]
  /\ UNCHANGED <<version, schema, stored>>

\* The next statement of the list, unless it is the one that begins a
\* transaction; a column that is there already is passed over.
Statement(p) ==
  LET o == opener[p] IN
  /\ o.at = "listed" /\ o.list # 4
  /\ o.next <= Len(Migrations[o.list])
  /\ schema' = schema \cup {Migrations[o.list][o.next]}
  /\ opener' = [opener EXCEPT ![p].next = @ + 1]
  /\ UNCHANGED <<version, stored>>

NextList(p) ==
  opener' = [opener EXCEPT ![p] =
    [@ EXCEPT !.at = IF opener[p].list = 10 THEN "rebuild" ELSE "listed",
              !.list = opener[p].list + 1, !.next = 1, !.known = opener[p].list]]

\* Defect: a list counts as applied before its last statement has run.
Publish_Early(p) ==
  LET o == opener[p] IN
  /\ o.at = "listed" /\ o.list # 4
  /\ o.next >= Len(Migrations[o.list])
  /\ version' = o.list
  /\ NextList(p)
  /\ UNCHANGED <<schema, stored>>

\* The version of the list is written, whatever it has become since.
Publish(p) ==
  LET o == opener[p] IN
  /\ o.at = "listed" /\ o.list # 4
  /\ o.next > Len(Migrations[o.list])
  /\ version' = o.list
  /\ NextList(p)
  /\ UNCHANGED <<schema, stored>>

\* The attempts of tasks older than version 4 are filled in; the update begins
\* the transaction that the rest of the list and the version belong to.
Backfill(p) ==
  /\ opener[p].at = "listed" /\ opener[p].list = 4
  /\ stored' = [stored EXCEPT !.attempt = IF @ = "null" THEN "latest" ELSE @]
  /\ schema' = schema \cup Objects(4)
  /\ version' = 4
  /\ NextList(p)

Due(p, v) == opener[p].at = "rebuild" /\ opener[p].list = v

\* The version is read again after each.
Done(p) == opener' = [opener EXCEPT ![p].at = "reread"]

Reread(p) ==
  /\ opener[p].at = "reread"
  /\ opener' = [opener EXCEPT ![p] =
       IF @.list = 13 THEN [@ EXCEPT !.at = "open"]
       ELSE [@ EXCEPT !.at = "rebuild", !.list = opener[p].list + 1, !.known = version]]
  /\ UNCHANGED <<version, schema, stored>>

Skip(p) ==
  /\ opener[p].at = "rebuild" /\ opener[p].known >= opener[p].list
  /\ Done(p)
  /\ UNCHANGED <<version, schema, stored>>

\* Defect: the stages are copied whether or not they have a policy.
V11_Always(p) ==
  /\ Due(p, 11) /\ opener[p].known < 11
  /\ stored' = [stored EXCEPT !.policy = IF @ = "none" THEN @ ELSE "legacy"]
  /\ schema' = schema \cup Objects(11)
  /\ version' = 11
  /\ Done(p)

\* Stages without a policy are copied into a table that has one.
V11(p) ==
  /\ Due(p, 11) /\ opener[p].known < 11
  /\ stored' = [stored EXCEPT !.policy =
       IF @ = "none" \/ "workflow_stages.completion_policy" \in schema THEN @
       ELSE "legacy"]
  /\ schema' = schema \cup Objects(11)
  /\ version' = 11
  /\ Done(p)

\* Evidence is copied into a table that takes usage, each time.
V12(p) ==
  /\ Due(p, 12) /\ opener[p].known < 12
  /\ schema' = schema \cup Objects(12)
  /\ version' = 12
  /\ Done(p)
  /\ UNCHANGED stored

V13(p) ==
  /\ Due(p, 13) /\ opener[p].known < 13
  /\ schema' = schema \cup Objects(13)
  /\ version' = 13
  /\ Done(p)
  /\ UNCHANGED stored

\* The process dies, or the file is locked for longer than it waits.
Fail(p) ==
  /\ opener[p].at \in {"listed", "rebuild", "reread"}
  /\ Turn(p, "failed")
  /\ UNCHANGED <<version, schema, stored>>

\* A process with the file open writes a task with its attempt, and a stage of
\* a plan.
Use(p) ==
  /\ opener[p].at = "open"
  /\ stored' = [policy |-> IF stored.policy = "none" THEN "plan" ELSE stored.policy,
                attempt |-> IF stored.attempt = "none" THEN "named"
                            ELSE stored.attempt]
  /\ stored' # stored
  /\ UNCHANGED <<version, schema, opener>>

MigrationNext ==
  \E p \in Openers : \/ Open(p) \/ Statement(p) \/ Publish(p) \/ Backfill(p)
                     \/ V11(p) \/ V12(p) \/ V13(p) \/ Skip(p) \/ Reread(p)
                     \/ Fail(p) \/ Use(p)

MigrationSpec == MigrationInit /\ [][MigrationNext]_migrationVars

--------------------------------------------------------------------------------

\* The version never promises more than the file holds, even after a slow
\* opener has written an older one; a process that has opened the file finds
\* everything in it; and no table is there before the tables it points at.
SchemaComplete ==
  /\ UpTo(version) \subseteq schema
  /\ (\E p \in Openers : opener[p].at = "open") => schema = AllObjects
  /\ \A t \in schema : Parents(t) \subseteq schema

\* Migrating again, as every opener behind another does, changes no row that
\* was written since: the policy of a plan's stage and the attempt of a task
\* stay.
RowsKept ==
  /\ stored.policy = "plan" => stored'.policy = "plan"
  /\ stored.attempt \in {"latest", "named"} => stored'.attempt = stored.attempt
RowsSurvive == [][RowsKept]_migrationVars
================================================================================
