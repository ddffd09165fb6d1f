------------------------------ MODULE Verification -----------------------------
(***************************************************************************)
(* What becomes of a workspace when its task has ended: what changed is    *)
(* observed with Git and captured, the caller's plan is verified, the      *)
(* result is stored, and an assessment is made of it.  Every question to   *)
(* Git may fail or time out, an agent may commit what it did, and a        *)
(* verification command may itself change files.  The agent is gone when   *)
(* the observation starts.                                                 *)
(***************************************************************************)
EXTENDS Naturals, FiniteSets

CONSTANTS Files,      \* files of the workspace
          AddedFiles, \* those that the repository did not have
          Plans,      \* verification plans
          MaxText,    \* bound: texts a file takes on
          MaxWork     \* bound: edits and commits of the agent

ASSUME VerificationAssumption ==
  AddedFiles \subseteq Files /\ MaxText \in Nat \ {0} /\ MaxWork \in Nat

VARIABLES tree,      \* what the files hold
          committed, \* what they held in the last commit
          origin,    \* what they held when the task was dispatched
          work       \* how far the task is, and what it found

verificationVars == <<tree, committed, origin, work>>

Absent == 0
Trees == [Files -> 0 .. MaxText]
Differing(from, to) == {f \in Files : from[f] # to[f]}
VerificationPlans ==
  [allowed : SUBSET Files, forbidden : SUBSET Files, expected : SUBSET Files,
   maxChanged : Nat, needsPatch : BOOLEAN, commands : Nat]

Stages == {"working", "status", "diff", "head", "files", "checks", "before",
           "commands", "after", "verdict", "saved"}
Outcomes == {"completed", "idle_timeout", "stream_closed", "other"}
Verdicts == {"NOT_REQUESTED", "PASSED", "FAILED", "NEEDS_REVIEW",
             "NOT_RUN_EXECUTION_FAILED", "none"}
Advice == {"accept", "review_for_acceptance", "inspect", "reject", "review",
           "inspect_or_retry", "none"}

\* A patch says what the files hold that it changes.
Patches == UNION {[fs -> 0 .. MaxText] : fs \in SUBSET Files}
NoPatch == [f \in {} |-> Absent]

VerificationTypeOK ==
  /\ tree \in Trees /\ committed \in Trees /\ origin \in Trees
  /\ work.at \in Stages /\ work.outcome \in Outcomes \cup {"none"}
  /\ work.observed \subseteq Files /\ work.captured \subseteq Files
  /\ work.patch \in Patches /\ work.cut \in BOOLEAN
  /\ work.verdict \in Verdicts /\ work.advice \in Advice

\* The baseline is a best effort: without an answer from Git the workspace
\* counts as clean and of no known commit.
VerificationInit ==
  /\ Plans \subseteq VerificationPlans
  /\ committed = [f \in Files |-> IF f \in AddedFiles THEN Absent ELSE 1]
  /\ tree \in {committed, [f \in Files |-> MaxText]}
  /\ origin = tree
  /\ \E plan \in Plans, answered, readOnly \in BOOLEAN :
       work = [at |-> "working", plan |-> plan, readOnly |-> readOnly, did |-> 0,
               dirty |-> answered /\ tree # committed, headKnown |-> answered,
               moved |-> FALSE, outcome |-> "none", claims |-> {},
               observed |-> {}, patch |-> NoPatch, cut |-> FALSE,
               headChanged |-> FALSE, captured |-> {}, sighted |-> answered,
               failed |-> {}, hash |-> NoPatch, hashed |-> FALSE, left |-> plan.commands,
               verdict |-> "none", advice |-> "none"]

Stage(stage) == work.at = stage

Edited(f, x) == tree' = [tree EXCEPT ![f] = x]

AgentEdits ==
  /\ Stage("working") /\ ~work.readOnly /\ work.did < MaxWork
  /\ \E f \in Files, x \in 0 .. MaxText : x # tree[f] /\ Edited(f, x)
  /\ work' = [work EXCEPT !.did = @ + 1]
  /\ UNCHANGED <<committed, origin>>

AgentCommits ==
  /\ Stage("working") /\ ~work.readOnly /\ work.did < MaxWork /\ tree # committed
  /\ committed' = tree
  /\ work' = [work EXCEPT !.did = @ + 1, !.moved = TRUE]
  /\ UNCHANGED <<tree, origin>>

\* The backend ends, with or without a terminal answer.  What it claims to
\* have changed is kept, unless the task may only read.
Finish ==
  /\ Stage("working")
  /\ \E outcome \in Outcomes, claims \in SUBSET Files :
       work' = [work EXCEPT !.outcome = outcome,
                  !.claims = IF work.readOnly THEN {} ELSE claims,
                  !.at = IF work.readOnly THEN "files" ELSE "status"]
  /\ UNCHANGED <<tree, committed, origin>>

\* When Git does not answer, nothing at all has been observed.
Blind ==
  work' = [work EXCEPT !.at = "files", !.observed = {}, !.patch = NoPatch,
                       !.sighted = FALSE]

ReadStatus ==
  /\ Stage("status")
  /\ \/ work' = [work EXCEPT !.at = "diff", !.observed = Differing(committed, tree)]
     \/ work' = [work EXCEPT !.at = "diff", !.sighted = FALSE]
     \/ Blind
  /\ UNCHANGED <<tree, committed, origin>>

\* The difference of the files Git knows, and of those it does not know that
\* the status named the ones that are small enough and can be compared: the
\* others are left out, and nothing says so.
ReadDiff ==
  /\ Stage("diff")
  /\ LET added == {f \in work.observed : committed[f] = Absent /\ tree[f] # Absent}
         edited == {f \in Differing(committed, tree) : committed[f] # Absent}
     IN \/ \E small \in SUBSET added :
             \/ work' = [work EXCEPT !.at = "head",
                           !.patch = [f \in edited \cup small |-> tree[f]]]
             \/ work' = [work EXCEPT !.at = "head", !.sighted = FALSE,
                           !.patch = [f \in small |-> tree[f]]]
        \/ Blind
  /\ UNCHANGED <<tree, committed, origin>>

ReadHead ==
  /\ Stage("head")
  /\ \/ work' = [work EXCEPT !.at = "files",
                   !.headChanged = work.headKnown /\ work.moved]
     \/ work' = [work EXCEPT !.at = "files", !.sighted = FALSE]
     \/ Blind
  /\ UNCHANGED <<tree, committed, origin>>

Requested(plan) ==
  \/ plan.allowed # {} \/ plan.forbidden # {} \/ plan.expected # {}
  \/ plan.maxChanged > 0 \/ plan.needsPatch \/ plan.commands > 0

\* A completed task is verified; of the others those that only lost the
\* terminal answer.
ToVerify ==
  /\ Requested(work.plan)
  /\ work.outcome \in {"completed", "idle_timeout", "stream_closed"}

\* A patch that is too long is cut, and marked as cut.  Claimed, observed and
\* expected files are copied to the store if they are there; if the store
\* fails, everything that was observed is dropped.
CaptureFiles ==
  /\ Stage("files")
  /\ LET named == work.claims \cup work.observed \cup work.plan.expected
         there == {f \in named : tree[f] # Absent}
         next == IF ToVerify THEN "checks" ELSE "verdict"
     IN \/ \E read \in SUBSET there, fits \in SUBSET DOMAIN work.patch :
             work' = [work EXCEPT !.at = next, !.captured = read,
                        !.patch = [f \in fits |-> work.patch[f]],
                        !.cut = fits # DOMAIN work.patch]
        \/ work' = [work EXCEPT !.at = next, !.observed = {}, !.patch = NoPatch,
                      !.headChanged = FALSE, !.sighted = FALSE]
  /\ UNCHANGED <<tree, committed, origin>>

ScopeFails(plan, observed) ==
  \/ observed \cap plan.forbidden # {}
  \/ plan.allowed # {} /\ ~(observed \subseteq plan.allowed)
  \/ plan.maxChanged > 0 /\ Cardinality(observed) > plan.maxChanged

\* The checks on what has been captured: a workspace that was not clean and
\* a commit that moved are for review, the rest fails.
Check ==
  /\ Stage("checks")
  /\ LET plan == work.plan IN
     work' = [work EXCEPT !.at = "before", !.failed =
       {c \in {"scope", "artifact", "patch", "dirty", "head"} :
          \/ c = "scope" /\ ScopeFails(plan, work.observed)
          \/ c = "artifact" /\ ~(plan.expected \subseteq work.captured)
          \/ c = "patch" /\ plan.needsPatch /\ work.patch = NoPatch
                         /\ ~work.cut /\ ~work.headChanged
          \/ c = "dirty" /\ work.dirty
          \/ c = "head" /\ plan.needsPatch /\ work.headChanged}]
  /\ UNCHANGED <<tree, committed, origin>>

\* Defect: only the names of the changed files are compared.
GitVisible_Names == [f \in Differing(committed, tree) |-> 1]

\* The changed files and what they hold.
GitVisible == [f \in Differing(committed, tree) |-> tree[f]]

HashBefore ==
  /\ Stage("before")
  /\ \/ work' = [work EXCEPT !.at = "commands", !.hash = GitVisible,
                           !.hashed = TRUE]
     \/ work' = [work EXCEPT !.at = "commands", !.sighted = FALSE]
  /\ UNCHANGED <<tree, committed, origin>>

\* A command ends well, or with an error, late, or not at all; whichever it
\* does, it may have changed a file.
RunCommand ==
  /\ Stage("commands") /\ work.left > 0
  /\ \/ UNCHANGED tree
     \/ \E f \in Files, x \in 0 .. MaxText : x # tree[f] /\ Edited(f, x)
  /\ \E fails \in {{}, {"command"}} :
       work' = [work EXCEPT !.left = @ - 1, !.failed = @ \cup fails]
  /\ UNCHANGED <<committed, origin>>

\* If the state is not known twice, nothing is compared.
HashAfter ==
  /\ Stage("commands") /\ work.left = 0
  /\ \/ work' = [work EXCEPT !.at = "verdict",
                   !.failed = IF /\ work.hashed /\ work.plan.commands > 0
                                 /\ work.hash # GitVisible
                              THEN @ \cup {"stability"} ELSE @]
     \/ work' = [work EXCEPT !.at = "verdict", !.sighted = FALSE]
  /\ UNCHANGED <<tree, committed, origin>>

VerdictOf ==
  IF ~Requested(work.plan) /\ work.outcome = "completed" THEN "NOT_REQUESTED"
  ELSE IF ~ToVerify THEN "NOT_RUN_EXECUTION_FAILED"
  ELSE IF work.failed \ {"dirty", "head"} # {} THEN "FAILED"
  ELSE IF work.failed # {} THEN "NEEDS_REVIEW"
  ELSE "PASSED"

\* Defect: what the backend claims counts as evidence.
Substantive_Claims(w) ==
  IF w.observed # {} THEN TRUE ELSE w.claims # {} \/ w.captured # {}

\* Without a terminal answer only what was observed counts: changed files,
\* captured artifacts, commands that were run.
Substantive(w) ==
  w.observed # {} \/ w.captured # {} \/ (w.plan.commands > 0 /\ ToVerify)

\* The advice given from a stored result.
Assess(verdict) ==
  CASE verdict = "PASSED" ->
         IF work.outcome = "completed" THEN "accept"
         ELSE IF Substantive(work) THEN "review_for_acceptance" ELSE "inspect"
    [] verdict = "FAILED" -> "reject"
    [] verdict = "NEEDS_REVIEW" -> "review"
    [] OTHER -> "inspect_or_retry"

\* Verification of a task that did not complete may break; then the verdict is
\* left to a review.
SaveResult ==
  /\ Stage("verdict")
  /\ \E verdict \in {VerdictOf} \cup (IF ToVerify /\ work.outcome # "completed"
                                    THEN {"NEEDS_REVIEW"} ELSE {}) :
       work' = [work EXCEPT !.at = "saved", !.verdict = verdict,
                            !.advice = Assess(verdict)]
  /\ UNCHANGED <<tree, committed, origin>>

VerificationNext ==
  \/ AgentEdits \/ AgentCommits \/ Finish \/ ReadStatus \/ ReadDiff \/ ReadHead
  \/ CaptureFiles \/ Check \/ HashBefore \/ RunCommand \/ HashAfter \/ SaveResult

VerificationSpec == VerificationInit /\ [][VerificationNext]_verificationVars

--------------------------------------------------------------------------------

InScope(f) == /\ f \notin work.plan.forbidden
              /\ work.plan.allowed # {} => f \in work.plan.allowed

\* If Git answered every time and no commit was made, all that is changed in
\* what passed was observed and is in scope, and the captured patch says what
\* the files hold, the commands included: no file has been changed after it
\* was captured.  The patch lacks a changed file only if the patch says that
\* it was cut, or if the repository did not have the file.
PassedMeansCaptured ==
  work.verdict = "PASSED" /\ work.sighted /\ ~work.moved /\ ~work.readOnly =>
    /\ work.observed = Differing(committed, tree)
    /\ \A f \in DOMAIN work.patch : work.patch[f] = tree[f]
    /\ \A f \in work.observed \ DOMAIN work.patch : work.cut \/ committed[f] = Absent
    /\ \A f \in Differing(origin, tree) : InScope(f)
    /\ work.plan.expected \subseteq work.captured

\* An execution that did not complete is never accepted without a decision,
\* and is not offered for it on the backend's word alone.
AdviceOnEvidence ==
  /\ work.advice = "accept" => work.outcome = "completed" /\ work.verdict = "PASSED"
  /\ work.advice = "review_for_acceptance" =>
       \/ work.observed # {} \/ work.captured # {} \/ work.plan.commands > 0

\* What a verification command changes cannot hide outside the captured patch:
\* of a task that passed, and of which Git had told where it started and what it
\* changed, the patch says what the files it names hold.
NothingHidesFromPatch ==
  work.verdict = "PASSED" /\ work.headKnown /\ DOMAIN work.patch \subseteq work.observed =>
    \A f \in DOMAIN work.patch : work.patch[f] = tree[f]
================================================================================
