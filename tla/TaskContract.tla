---------------------------- MODULE TaskContract ----------------------------
(***************************************************************************)
(* What a durable task promises its readers, whoever runs, cancels or      *)
(* reconciles it: a terminal status is final, the row's version never goes *)
(* back, a prompt is accepted for dispatch at most once and only before    *)
(* the end, and nothing is reported completed that was never dispatched.   *)
(***************************************************************************)
EXTENDS Naturals

VARIABLES status,      \* tasks.status
          revision,    \* tasks.version
          requested,   \* cancel_requested_at is set
          accepted     \* BACKEND_DISPATCH_ACCEPTED is in the event log

contractVars == <<status, revision, requested, accepted>>

ActiveStatuses == {"queued", "connecting", "running", "observing", "cancelling"}
TerminalStatuses == {"completed", "failed", "cancelled", "lost", "orphaned"}

CInit ==
  /\ status = "queued"
  /\ revision = 1
  /\ requested = FALSE
  /\ accepted = FALSE

Advance ==
  /\ status \in ActiveStatuses
  /\ status' \in ActiveStatuses
  /\ revision' > revision
  /\ UNCHANGED <<requested, accepted>>

RequestCancel ==
  /\ status \in ActiveStatuses
  /\ ~requested
  /\ requested' = TRUE
  /\ status' = "cancelling"
  /\ revision' > revision
  /\ UNCHANGED accepted

AcceptDispatch ==
  /\ status \in ActiveStatuses
  /\ ~accepted
  /\ accepted' = TRUE
  /\ UNCHANGED <<status, revision, requested>>

Finish ==
  /\ status \in ActiveStatuses
  /\ status' \in TerminalStatuses
  /\ status' \in {"completed", "lost", "orphaned"} => accepted
  /\ revision' > revision
  /\ UNCHANGED <<requested, accepted>>

CNext == Advance \/ RequestCancel \/ AcceptDispatch \/ Finish

CSpec == CInit /\ [][CNext]_contractVars
=============================================================================
