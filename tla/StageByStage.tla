---------------------------- MODULE StageByStage ----------------------------
(***************************************************************************)
(* What a linear workflow promises whoever watches it: stages are done one *)
(* after the other, one at a time, the workflow is completed exactly when  *)
(* the last one is, and an end of any kind is final.                       *)
(***************************************************************************)
EXTENDS Naturals

CONSTANT Steps          \* number of stages

VARIABLES done,         \* stages completed
          outcome       \* "open", or how it ended

sbsVars == <<done, outcome>>

Ends == {"completed", "failed", "cancelled"}

SbSInit == done = 0 /\ outcome = "open"

StageDone ==
  /\ outcome = "open"
  /\ done < Steps
  /\ done' = done + 1
  /\ outcome' = IF done' = Steps THEN "completed" ELSE "open"

Stop ==
  /\ outcome = "open"
  /\ outcome' \in {"failed", "cancelled"}
  /\ UNCHANGED done

SbSNext == StageDone \/ Stop

SbSSpec == SbSInit /\ [][SbSNext]_sbsVars
=============================================================================
