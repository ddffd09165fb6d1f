------------------------------ MODULE MCServices ------------------------------
(* The services around a task and the lease below it, each checked on its    *)
(* own: the scene chosen at the start says which of them acts, the others    *)
(* rest.  They share no variable, so nothing is lost by not mixing them.     *)
EXTENDS SessionLease, ToolRuntime, WorkspaceDispatch, SchemaMigration,
        ProjectContext, Planner, Verification, UsageLedger

CONSTANTS Scenes, c1, c2, f1, f2, f3, w1, w2, r1, A, B

VARIABLE scene

Disk(kind, size, text, rows) ==
  [kind |-> kind, size |-> size, text |-> text, rows |-> rows]
MCDisks ==
  {Disk("missing", 0, TRUE, <<>>), Disk("directory", 2, TRUE, <<>>),
   Disk("file", 1, TRUE, <<>>), Disk("file", 3, FALSE, <<>>),
   Disk("repository", 0, TRUE, <<1, 0, 1>>), Disk("database", 0, TRUE, <<1, 1>>),
   Disk("database", 0, TRUE, <<2, 1, 1>>)}

Wanted(kind, key, fits) ==
  [kind |-> kind, key |-> key, body |-> "body", extras |-> "extras",
   fits |-> fits, target |-> "target"]
MCDemands ==
  {Wanted("patch", "k", TRUE), Wanted("verification", "k", TRUE),
   Wanted("read_only", "k", TRUE), Wanted("research_again", "k", TRUE),
   Wanted("research_again", "none", TRUE), Wanted("research", "none", FALSE),
   [Wanted("research", "k", TRUE) EXCEPT !.extras = "others"],
   Wanted("research", "k", TRUE), Wanted("patch", "none", FALSE)}
MCRoomOfKey == [k \in {"k"} |-> "patch-k"]
MCFreshRoom == (c1 :> "room-1") @@ (c2 :> "room-2")
MCRooms == {"patch-k", "room-1", "room-2", "target"}
MCFileOrder == <<f1, f2, f3>>
MCSizeOf == <<1, 1>>
Asked(op, fs, limit, index) ==
  [op |-> op, files |-> fs, limit |-> limit, index |-> index]
MCAsks ==
  {Asked("register", {f1, f2}, 1, 1), Asked("register", {f1, f2, f3}, 1, 1),
   Asked("knowledge", {f1, f2}, 1, 1), Asked("scope", {f1, f2, f3}, 1, 1),
   Asked("verify", {f1}, 1, 1), Asked("render", {f1}, 1, 1),
   Asked("search", {f1, f2}, 1, 1),
   Asked("search", {f2}, 1, 1), Asked("segment", {f1}, 1, 2),
   Asked("segment", {f1}, 3, 2)}

Meant(kind, level, approval, verify) ==
  [kind |-> kind, level |-> level, approval |-> approval, verify |-> verify,
   text |-> "text", knowledge |-> "none", context |-> "none"]
MCIntents ==
  {Meant("implementation", "high", TRUE, TRUE),
   Meant("implementation", "high", FALSE, TRUE),
   Meant("maintenance", "low", TRUE, FALSE), Meant("analysis", "high", TRUE, TRUE),
   Meant("review", "medium", FALSE, TRUE),
   [Meant("documentation", "high", TRUE, TRUE)
      EXCEPT !.knowledge = "knowledge", !.context = "context"]}

Planned(allowed, forbidden, expected, maxChanged, needsPatch, commands) ==
  [allowed |-> allowed, forbidden |-> forbidden, expected |-> expected,
   maxChanged |-> maxChanged, needsPatch |-> needsPatch, commands |-> commands]
MCPlans ==
  {Planned({}, {}, {}, 0, FALSE, 0), Planned({f1, f2}, {f2}, {}, 0, FALSE, 0),
   Planned({f1}, {}, {f1}, 1, FALSE, 1), Planned({}, {}, {}, 1, TRUE, 1)}

Upd(id, usage) == [id |-> id, usage |-> usage]
MCUpdates ==
  {Upd("r1", "tokens" :> 1), Upd("r1", ("tokens" :> 2) @@ ("credits" :> 1)),
   Upd("r1", "session" :> 3), Upd("r2", ("tokens" :> 1) @@ ("session" :> 2)),
   Upd("", "tokens" :> 4), Upd("", ("tokens" :> 5) @@ ("session" :> 1))}

\* Two threads of one process and one of another share a session.
MCInstanceOf == [h \in {w1, w2, r1} |-> IF h = r1 THEN B ELSE A]

Init ==
  /\ scene \in Scenes
  /\ LeaseInit
  /\ IF scene = "tools" THEN ToolInit
     ELSE disks = "rests" /\ toolCall = "rests" /\ audit = "rests"
  /\ IF scene = "dispatch" THEN DispatchInit
     ELSE /\ rooms = "rests" /\ dispatch = "rests"
          /\ job = "rests" /\ userText = "rests"
  /\ IF scene = "migration" THEN MigrationInit
     ELSE version = 0 /\ schema = {} /\ stored = "rests" /\ opener = "rests"
  /\ IF scene = "context" THEN ContextInit
     ELSE /\ onDisk = "rests" /\ manifests = "rests" /\ collection = "rests"
          /\ calls = "rests" /\ resolutions = "rests"
  /\ IF scene = "planner" THEN PlannerInit
     ELSE plans = "rests" /\ planEvents = "rests" /\ known = "rests"
          /\ clients = "rests"
  /\ IF scene = "verification" THEN VerificationInit
     ELSE tree = "rests" /\ committed = "rests" /\ origin = "rests"
          /\ work = "rests"
  /\ IF scene = "usage" THEN UsageInit
     ELSE /\ said = "rests" /\ samples = "rests" /\ teller = "rests"
          /\ usageRows = "rests" /\ ties = 0 /\ refusals = 0

servicesVars ==
  <<scene, leaseVars, toolVars, dispatchVars, migrationVars, contextVars,
    plannerVars, verificationVars, usageVars>>

LeaseScene ==
  /\ scene = "lease" /\ LeaseNext
  /\ UNCHANGED <<scene, toolVars, dispatchVars, migrationVars, contextVars,
                 plannerVars, verificationVars, usageVars>>
ToolScene ==
  /\ scene = "tools" /\ ToolNext
  /\ UNCHANGED <<scene, leaseVars, dispatchVars, migrationVars, contextVars,
                 plannerVars, verificationVars, usageVars>>
DispatchScene ==
  /\ scene = "dispatch" /\ DispatchNext
  /\ UNCHANGED <<scene, leaseVars, toolVars, migrationVars, contextVars,
                 plannerVars, verificationVars, usageVars>>
MigrationScene ==
  /\ scene = "migration" /\ MigrationNext
  /\ UNCHANGED <<scene, leaseVars, toolVars, dispatchVars, contextVars,
                 plannerVars, verificationVars, usageVars>>
ContextScene ==
  /\ scene = "context" /\ ContextNext
  /\ UNCHANGED <<scene, leaseVars, toolVars, dispatchVars, migrationVars,
                 plannerVars, verificationVars, usageVars>>
PlannerScene ==
  /\ scene = "planner" /\ PlannerNext
  /\ UNCHANGED <<scene, leaseVars, toolVars, dispatchVars, migrationVars,
                 contextVars, verificationVars, usageVars>>
VerificationScene ==
  /\ scene = "verification" /\ VerificationNext
  /\ UNCHANGED <<scene, leaseVars, toolVars, dispatchVars, migrationVars,
                 contextVars, plannerVars, usageVars>>
UsageScene ==
  /\ scene = "usage" /\ UsageNext
  /\ UNCHANGED <<scene, leaseVars, toolVars, dispatchVars, migrationVars,
                 contextVars, plannerVars, verificationVars>>

Next ==
  \/ LeaseScene \/ ToolScene \/ DispatchScene \/ MigrationScene
  \/ ContextScene \/ PlannerScene \/ VerificationScene \/ UsageScene

Spec == Init /\ [][Next]_servicesVars

\* tools: an answer says no more than was read, and says where it was cut.
ToolsAnswer == scene = "tools" => ToolTypeOK /\ ToolsTruthful

\* dispatch: every worktree there is has a call that is making it, could not
\* remove it or left it half made, or a task that runs in it or that keeps it.
RoomsStand == scene = "dispatch" => DispatchTypeOK /\ RoomsAccounted

\* dispatch: what a task is told is the text that was read when it was asked for.
TextStands == scene = "dispatch" => FrozenText

\* migration: a database that says it is of a version has all that version needs,
\* whoever else opens it and wherever an opener stops.
SchemaStands == scene = "migration" => MigrationTypeOK /\ SchemaComplete

\* migration: no step of an upgrade loses a row.
RowsStand == [][scene = "migration" => RowsKept]_migrationVars

\* context: a collection has the manifests it was registered with, a reader is told
\* of a file only what is so, and the segments of a scope hold each file once.
ContextStands ==
  scene = "context" => ContextTypeOK /\ KnowledgeSound /\ SegmentsPartition

\* planner: whoever is answered with a plan has the stages its intent asks for, in
\* their order; its events are the way to where it stands, each step once.
PlansStand ==
  scene = "planner" => PlannerTypeOK /\ PlansHonourIntent /\ PlanHistoryTold

\* verification: what passed was there to be looked at.
VerdictsStand == scene = "verification" => VerificationTypeOK /\ PassedMeansCaptured

\* verification: advice to use a result rests on evidence of the captured work.
AdviceStands == scene = "verification" => AdviceOnEvidence

\* usage: each request is counted once.
UsageStands == scene = "usage" => UsageTypeOK /\ CountedOnce

(***************************************************************************)
(* What is written down of these services and does not hold                *)
(***************************************************************************)

\* dispatch: a task works in the worktree its dispatch made for it.
RoomsRunning == scene = "dispatch" => RunsInItsRoom

\* verification: what the commands of a verification change does not hide.
NothingHides == scene = "verification" => NothingHidesFromPatch

\* usage: the credits of the session are the last ones told.
TotalsLatest == scene = "usage" => LatestTotal
================================================================================
