---------------------------- MODULE TaskLifecycle ----------------------------
(***************************************************************************)
(* One durable Crew task and everybody who writes its row:                 *)
(*   - the worker thread of the process that launched it                   *)
(*     (_run_official_cli_task in api/mcp_server.py),                      *)
(*   - the thread serving task_cancel in that process (_task_cancel),      *)
(*   - the worker's lease heartbeat (runtime/lease.py),                    *)
(*   - the reconciliation passes of Runtime processes started later        *)
(*     (application/reconciliation_service.py).                            *)
(* They share the tasks row, the session lease (module SessionLease), and, *)
(* inside the launching process, the in-memory handle.  Each database      *)
(* transaction is one step; what a thread does with the answer is the next *)
(* step, so everything else may happen in between.                         *)
(***************************************************************************)
EXTENDS SessionLease

CONSTANTS Worker,             \* the launching worker's LeaseInfo
          Reconcilers,        \* one pass of each later process
          ReconcileOutcomes,  \* what backend.reconcile may answer
          MaxCancelCalls,     \* bound on task_cancel calls
          MaxFaults,          \* bound on failed database transactions
          MayCrash            \* may the launching process die?

ActiveStatuses == {"queued", "connecting", "running", "observing", "cancelling"}
TerminalStatuses == {"completed", "failed", "cancelled", "lost", "orphaned"}
Statuses == ActiveStatuses \cup TerminalStatuses

ASSUME LifecycleAssumptions ==
  /\ Holders = Reconcilers \cup {Worker}
  /\ Worker \notin Reconcilers
  /\ \A r \in Reconcilers : InstanceOf[r] # InstanceOf[Worker]
  /\ ReconcileOutcomes \subseteq TerminalStatuses
  /\ MaxCancelCalls \in Nat
  /\ MaxFaults \in Nat
  /\ MayCrash \in BOOLEAN

VARIABLES
  row,        \* the tasks row and the session's dispatch claim
  handle,     \* TaskState of the launching process
  wpc,        \* where the worker thread is
  wsub,       \* within a status change: "do", "bump" or "resync"
  cpc,        \* where the cancel thread is
  cver,       \* version returned by its request_cancel transaction
  backend,    \* the backend's live-execution registry entry for the task
  heartbeat,  \* "off", "on", "lost"
  rec,        \* per reconciler: place, version read, outcome, tries
  calls,      \* task_cancel calls so far
  faults      \* failed transactions so far

taskVars == <<row, handle, wpc, wsub, cpc, cver, backend, heartbeat, rec,
              calls, faults>>
vars == <<leaseVars, taskVars>>

Terminal(s) == s \in TerminalStatuses

\* The worker advances the row through these statuses, then dispatches.
StatusSteps == {"connecting", "running", "observing"}
After == [s \in StatusSteps |->
            IF s = "connecting" THEN "running"
            ELSE IF s = "running" THEN "register" ELSE "await"]

WorkerPlaces == {"spawned", "register", "gate", "prompt", "await", "complete",
                 "confirm", "fail", "fail_plain", "finish", "done", "dead"}
                  \cup StatusSteps
\* Places at which the backend has a live client for the task.
Executing == {"gate", "prompt", "observing", "await"}

RowType ==
  [status : Statuses, version : Nat, cancelRequested : BOOLEAN,
   cancelConfirmed : BOOLEAN, resultAvailable : BOOLEAN,
   dispatched : BOOLEAN, neverDispatched : BOOLEAN]
HandleType ==
  [version : Nat, leased : BOOLEAN, finalizing : BOOLEAN, locked : BOOLEAN,
   transportSent : BOOLEAN]
BackendType ==
  [live : BOOLEAN, pending : BOOLEAN, cancelled : BOOLEAN, prompted : BOOLEAN]
RecPlaces == {"idle", "read", "snapshot", "write", "release", "gone"}
RecOutcomes == TerminalStatuses \cup {"never_dispatched"}
RecType ==
  [pc : RecPlaces, version : Nat, outcome : RecOutcomes, tries : 0..2]

TypeOK ==
  /\ row \in RowType
  /\ handle \in HandleType
  /\ wpc \in WorkerPlaces
  /\ wsub \in {"do", "bump", "resync"}
  /\ cpc \in {"idle", "sync", "transport"}
  /\ cver \in Nat
  /\ backend \in BackendType
  /\ heartbeat \in {"off", "on", "lost"}
  /\ rec \in [Reconcilers -> RecType]
  /\ calls \in 0..MaxCancelCalls
  /\ faults \in 0..MaxFaults

\* create_task has committed, the handle is registered, the thread started.
Init ==
  /\ LeaseInit
  /\ row = [status |-> "queued", version |-> 1, cancelRequested |-> FALSE,
            cancelConfirmed |-> FALSE, resultAvailable |-> FALSE,
            dispatched |-> FALSE, neverDispatched |-> FALSE]
  /\ handle = [version |-> 1, leased |-> FALSE, finalizing |-> FALSE,
               locked |-> FALSE, transportSent |-> FALSE]
  /\ wpc = "spawned"
  /\ wsub = "do"
  /\ cpc = "idle"
  /\ cver = 0
  /\ backend = [live |-> FALSE, pending |-> FALSE, cancelled |-> FALSE,
                prompted |-> FALSE]
  /\ heartbeat = "off"
  /\ rec = [r \in Reconcilers |-> [pc |-> "idle", version |-> 0,
                                   outcome |-> "failed", tries |-> 0]]
  /\ calls = 0
  /\ faults = 0

(***************************************************************************)
(* Pieces shared by the writers                                            *)
(***************************************************************************)

\* A database transaction fails and leaves nothing behind.
Fault == faults < MaxFaults /\ faults' = faults + 1

\* The process that launched the task is running.
Alive == wpc # "dead"

\* The worker's writes carry handle.lease; without a lease they are unfenced.
WorkerFence == handle.leased => Fenced(Worker)

WorkerWrites(newRow) ==
  /\ row' = newRow
  /\ IF handle.leased THEN FencedWrite(Worker) ELSE UNCHANGED leaseVars

\* (A plausible defect, like those below: a cancel that comes before the
\* registration is not remembered.)
BackendCancel_Forgets ==
  backend' = [backend EXCEPT !.cancelled = @ \/ backend.live]

\* _LiveExecution registry of the backend: a live client is told to stop, a
\* task that is not registered yet is remembered in _pending_cancel.
BackendCancel ==
  backend' = IF backend.live THEN [backend EXCEPT !.cancelled = TRUE]
                             ELSE [backend EXCEPT !.pending = TRUE]

\* client.run has ended: _unregister drops the entry, if it was made.  (The
\* pending cancel it also drops is only recorded while there is no entry.)
Unregister == backend' = [backend EXCEPT !.live = FALSE]

\* (A defect: request_cancel does not ask who owns a session the worker has
\* not leased.)
CancelOwned_Unchecked == handle.leased => Fenced(Worker)

\* request_cancel proves ownership: with the handle's lease, or, before the
\* worker published one, by nobody else owning the session.
CancelOwned == IF handle.leased THEN Fenced(Worker) ELSE Acquirable(now)

(***************************************************************************)
(* Plausible defects, each named after the definition it would replace.    *)
(***************************************************************************)
\* The version of the handle is not moved on after a status change.
StatusBump_Missing ==
  /\ wsub = "bump"
  /\ wsub' = "do"
  /\ wpc' = After[wpc]
  /\ UNCHANGED <<leaseVars, row, handle, cpc, cver, backend, heartbeat, rec,
                 calls, faults>>

\* A refused status change is taken for a conflict although the row is
\* terminal (already_terminal is not told apart from conflict).
StatusConflict_Terminal ==
  /\ wpc \in StatusSteps
  /\ wsub = "do"
  /\ WorkerFence
  /\ row.version # handle.version
  /\ wsub' = "resync"
  /\ UNCHANGED <<leaseVars, row, handle, wpc, cpc, cver, backend, heartbeat,
                 rec, calls, faults>>

\* The status change is tried again without reading the version anew.
StatusResync_Retries ==
  /\ wsub = "resync"
  /\ wsub' = "do"
  /\ UNCHANGED <<leaseVars, row, handle, wpc, cpc, cver, backend, heartbeat,
                 rec, calls, faults>>

\* The gate checks status and version and forgets the lease.
DispatchGate_Unfenced ==
  /\ wpc = "gate"
  /\ ~Terminal(row.status)
  /\ row.version = handle.version
  /\ row' = [row EXCEPT !.dispatched = TRUE]
  /\ wpc' = "prompt"
  /\ UNCHANGED <<leaseVars, handle, wsub, cpc, cver, backend, heartbeat, rec,
                 calls, faults>>

\* finalizing is looked at before the lock is taken and not again under it.
RequestCancel_NoRecheck ==
  /\ Alive
  /\ cpc = "idle"
  /\ calls < MaxCancelCalls
  /\ ~handle.locked
  /\ ~Terminal(row.status)
  /\ CancelOwned
  /\ WorkerWrites([row EXCEPT !.status = "cancelling", !.version = @ + 1,
                              !.cancelRequested = TRUE])
  /\ cver' = row.version + 1
  /\ handle' = [handle EXCEPT !.locked = TRUE]
  /\ cpc' = "sync"
  /\ calls' = calls + 1
  /\ UNCHANGED <<wpc, wsub, backend, heartbeat, rec, faults>>

\* The backend is asked about a session it was never given.
RecClassify_AsksAlways(r) ==
  /\ rec[r].pc = "read"
  /\ IF Terminal(row.status)
       THEN rec' = [rec EXCEPT ![r].pc = "release"]
       ELSE \E o \in ReconcileOutcomes :
              rec' = [rec EXCEPT ![r].pc = "snapshot", ![r].outcome = o]
  /\ UNCHANGED <<leaseVars, row, handle, wpc, wsub, cpc, cver, backend,
                 heartbeat, calls, faults>>

(***************************************************************************)
(* The worker thread                                                       *)
(***************************************************************************)

\* The lease is taken and published under the ownership lock; without it the
\* worker returns and leaves the task to whoever owns the session.
WorkerAcquire ==
  /\ wpc = "spawned"
  /\ ~handle.locked
  /\ Acquire(Worker)
  /\ handle' = [handle EXCEPT !.leased = TRUE]
  /\ heartbeat' = "on"
  /\ wpc' = "connecting"
  /\ UNCHANGED <<row, wsub, cpc, cver, backend, rec, calls, faults>>

WorkerRefused ==
  /\ wpc = "spawned"
  /\ ~handle.locked
  /\ ~Acquirable(now)
  /\ wpc' = "done"
  /\ UNCHANGED <<leaseVars, row, handle, wsub, cpc, cver, backend, heartbeat,
                 rec, calls, faults>>

\* The acquiring transaction itself fails: the worker goes on to report the
\* failure, without a lease to fence that report.
WorkerAcquireFault ==
  /\ wpc = "spawned"
  /\ ~handle.locked
  /\ Fault
  /\ wpc' = "fail"
  /\ UNCHANGED <<leaseVars, row, handle, wsub, cpc, cver, backend, heartbeat,
                 rec, calls>>

\* _durable_cli_start could not start the thread: _persist_failed, no lease.
ThreadStartFails ==
  /\ wpc = "spawned"
  /\ wpc' = "done"
  /\ row' = IF row.version = handle.version
              THEN [row EXCEPT !.status = "failed", !.version = @ + 1]
              ELSE row
  /\ UNCHANGED <<leaseVars, handle, wsub, cpc, cver, backend, heartbeat, rec,
                 calls, faults>>

\* _persist_status_change: the UPDATE matches version and lease and nothing
\* else; the handle's version is bumped afterwards, outside every lock.
StatusCommit ==
  /\ wpc \in StatusSteps
  /\ wsub = "do"
  /\ WorkerFence
  /\ row.version = handle.version
  /\ WorkerWrites([row EXCEPT !.status = wpc, !.version = @ + 1])
  /\ wsub' = "bump"
  /\ UNCHANGED <<handle, wpc, cpc, cver, backend, heartbeat, rec, calls,
                 faults>>

StatusBump ==
  /\ wsub = "bump"
  /\ wsub' = "do"
  /\ wpc' = After[wpc]
  /\ handle' = [handle EXCEPT !.version = @ + 1]
  /\ UNCHANGED <<leaseVars, row, cpc, cver, backend, heartbeat, rec, calls,
                 faults>>

\* Refused with a live lease on an active row: only the version differs.
StatusConflict ==
  /\ wpc \in StatusSteps
  /\ wsub = "do"
  /\ WorkerFence
  /\ row.version # handle.version
  /\ ~Terminal(row.status)
  /\ wsub' = "resync"
  /\ UNCHANGED <<leaseVars, row, handle, wpc, cpc, cver, backend, heartbeat,
                 rec, calls, faults>>

\* The conflict is settled by a second read of the row: a requested cancel
\* explains it, anything else is an error.
StatusResync ==
  /\ wsub = "resync"
  /\ wsub' = "do"
  /\ IF row.cancelRequested
       THEN /\ handle' = [handle EXCEPT !.version = row.version]
            /\ wpc' = After[wpc]
            /\ UNCHANGED backend
       ELSE /\ wpc' = "fail"
            /\ Unregister
            /\ UNCHANGED handle
  /\ UNCHANGED <<leaseVars, row, cpc, cver, heartbeat, rec, calls, faults>>

\* Lease lost, row already terminal, or the transaction failed: BackendError.
StatusRefused ==
  /\ wpc \in StatusSteps
  /\ wsub = "do"
  /\ \/ ~WorkerFence /\ UNCHANGED faults
     \/ Terminal(row.status) /\ row.version # handle.version /\ UNCHANGED faults
     \/ Fault
  /\ wpc' = "fail"
  /\ Unregister
  /\ UNCHANGED <<leaseVars, row, handle, wsub, cpc, cver, heartbeat, rec, calls>>

\* Backend.start registers the execution and applies a cancel that came first.
Register ==
  /\ wpc = "register"
  /\ backend' = [backend EXCEPT !.live = ~backend.pending, !.pending = FALSE]
  /\ wpc' = IF backend.pending THEN "confirm" ELSE "gate"
  /\ UNCHANGED <<leaseVars, row, handle, wsub, cpc, cver, heartbeat, rec, calls,
                 faults>>

\* accept_backend_dispatch: the hard gate before the real prompt is sent.
GateOpen ==
  WorkerFence /\ ~Terminal(row.status) /\ row.version = handle.version

DispatchGate ==
  /\ wpc = "gate"
  /\ GateOpen
  /\ WorkerWrites([row EXCEPT !.dispatched = TRUE])
  /\ wpc' = "prompt"
  /\ UNCHANGED <<handle, wsub, cpc, cver, backend, heartbeat, rec, calls,
                 faults>>

DispatchRefused ==
  /\ wpc = "gate"
  /\ \/ ~GateOpen /\ UNCHANGED faults
     \/ Fault
  /\ wpc' = "fail"
  /\ Unregister
  /\ UNCHANGED <<leaseVars, row, handle, wsub, cpc, cver, heartbeat, rec, calls>>

\* The prompt goes out; the backend may or may not report prompt_accepted,
\* which is what moves the row to observing.
SendPrompt ==
  /\ wpc = "prompt"
  /\ backend' = [backend EXCEPT !.prompted = TRUE]
  /\ wpc' \in {"observing", "await"}
  /\ UNCHANGED <<leaseVars, row, handle, wsub, cpc, cver, heartbeat, rec, calls,
                 faults>>

\* on_result publishes the finalization under the ownership lock.
BackendResult ==
  /\ wpc = "await"
  /\ ~handle.locked
  /\ handle' = [handle EXCEPT !.finalizing = TRUE]
  /\ Unregister
  /\ wpc' = "complete"
  /\ UNCHANGED <<leaseVars, row, wsub, cpc, cver, heartbeat, rec, calls, faults>>

\* The client notices that it was cancelled: BackendCancelledError.
BackendCancelled ==
  /\ wpc \in {"gate", "await"}
  /\ backend.cancelled
  /\ Unregister
  /\ wpc' = "confirm"
  /\ UNCHANGED <<leaseVars, row, handle, wsub, cpc, cver, heartbeat, rec, calls,
                 faults>>

\* Protocol error, exited process or a timeout: any other BackendError.
BackendFails ==
  /\ wpc \in {"gate", "await"}
  /\ Unregister
  /\ wpc' = "fail"
  /\ UNCHANGED <<leaseVars, row, handle, wsub, cpc, cver, heartbeat, rec, calls,
                 faults>>

\* The terminal transactions.  A lost lease is swallowed ("newer truth
\* stands") and so is a lease check that cannot read the database
\* (_ensure_worker_lease); a conflict, a terminal row or a failed transaction
\* goes where the exception is caught.
RefusedTo(matches, caught) ==
  \/ ~matches /\ UNCHANGED faults /\ wpc' = IF WorkerFence THEN caught ELSE "finish"
  \/ Fault /\ wpc' \in (IF handle.leased THEN {caught, "finish"} ELSE {caught})

\* save_result matches version, lease and a non-terminal status.
ResultMatches ==
  WorkerFence /\ row.version = handle.version /\ ~Terminal(row.status)

SavedAs(s) == [row EXCEPT !.status = s, !.version = @ + 2,
                          !.resultAvailable = TRUE]

\* _persist_completed
Complete ==
  /\ wpc = "complete"
  /\ ResultMatches
  /\ WorkerWrites(SavedAs("completed"))
  /\ handle' = [handle EXCEPT !.version = @ + 2]
  /\ wpc' = "finish"
  /\ UNCHANGED <<wsub, cpc, cver, backend, heartbeat, rec, calls, faults>>

CompleteRefused ==
  /\ wpc = "complete"
  /\ RefusedTo(ResultMatches, "fail")
  /\ UNCHANGED <<leaseVars, row, handle, wsub, cpc, cver, backend, heartbeat,
                 rec, calls>>

\* _persist_cancel_confirmed: the UPDATE has no terminal guard.  An exception
\* here leaves the handler, so there is no second attempt.
ConfirmCancel ==
  /\ wpc = "confirm"
  /\ WorkerFence
  /\ row.version = handle.version
  /\ WorkerWrites([row EXCEPT !.status = "cancelled", !.version = @ + 2,
                              !.cancelConfirmed = TRUE])
  /\ handle' = [handle EXCEPT !.version = @ + 2]
  /\ wpc' = "finish"
  /\ UNCHANGED <<wsub, cpc, cver, backend, heartbeat, rec, calls, faults>>

ConfirmRefused ==
  /\ wpc = "confirm"
  /\ RefusedTo(WorkerFence /\ row.version = handle.version, "finish")
  /\ UNCHANGED <<leaseVars, row, handle, wsub, cpc, cver, backend, heartbeat,
                 rec, calls>>

\* _persist_failed_with_partial_artifacts, then _persist_failed if it could
\* not write: the second UPDATE has no terminal guard.
FailWithResult ==
  /\ wpc = "fail"
  /\ ResultMatches
  /\ WorkerWrites(SavedAs("failed"))
  /\ handle' = [handle EXCEPT !.version = @ + 2]
  /\ wpc' = "finish"
  /\ UNCHANGED <<wsub, cpc, cver, backend, heartbeat, rec, calls, faults>>

FailWithResultRefused ==
  /\ wpc = "fail"
  /\ RefusedTo(ResultMatches, "fail_plain")
  /\ UNCHANGED <<leaseVars, row, handle, wsub, cpc, cver, backend, heartbeat,
                 rec, calls>>

FailPlain ==
  /\ wpc = "fail_plain"
  /\ WorkerFence
  /\ row.version = handle.version
  /\ WorkerWrites([row EXCEPT !.status = "failed", !.version = @ + 1])
  /\ handle' = [handle EXCEPT !.version = @ + 1]
  /\ wpc' = "finish"
  /\ UNCHANGED <<wsub, cpc, cver, backend, heartbeat, rec, calls, faults>>

FailPlainRefused ==
  /\ wpc = "fail_plain"
  /\ RefusedTo(WorkerFence /\ row.version = handle.version, "finish")
  /\ UNCHANGED <<leaseVars, row, handle, wsub, cpc, cver, backend, heartbeat,
                 rec, calls>>

\* The finally block: heartbeat stopped, lease released.  The handle keeps its
\* LeaseInfo; a release that fails leaves the lease to run out.
WorkerFinish ==
  /\ wpc = "finish"
  /\ heartbeat' = "off"
  /\ wpc' = "done"
  /\ \/ held[Worker] = 0 /\ UNCHANGED <<leaseVars, faults>>
     \/ Release(Worker) /\ UNCHANGED faults
     \/ Forget(Worker) /\ Fault
  /\ UNCHANGED <<row, handle, wsub, cpc, cver, backend, rec, calls>>

(***************************************************************************)
(* task_cancel, in the launching process                                   *)
(***************************************************************************)

\* Under the ownership lock: finalization re-checked, then the transaction.
\* Refusals (finished, finalizing, lease lost) change nothing.
RequestCancel ==
  /\ Alive
  /\ cpc = "idle"
  /\ calls < MaxCancelCalls
  /\ ~handle.locked
  /\ ~handle.finalizing
  /\ ~Terminal(row.status)
  /\ CancelOwned
  /\ IF row.cancelRequested
       THEN UNCHANGED <<leaseVars, row>> /\ cver' = row.version
       ELSE /\ WorkerWrites([row EXCEPT !.status = "cancelling",
                                        !.version = @ + 1,
                                        !.cancelRequested = TRUE])
            /\ cver' = row.version + 1
  /\ handle' = [handle EXCEPT !.locked = TRUE]
  /\ cpc' = "sync"
  /\ calls' = calls + 1
  /\ UNCHANGED <<wpc, wsub, backend, heartbeat, rec, faults>>

\* handle.version = cancel_result.version, still under the lock; a replay of a
\* cancel whose transport already went out ends here.
SyncCancel ==
  /\ cpc = "sync"
  /\ handle' = [handle EXCEPT !.version = cver, !.locked = FALSE]
  /\ cpc' = IF handle.transportSent THEN "idle" ELSE "transport"
  /\ UNCHANGED <<leaseVars, row, wpc, wsub, cver, backend, heartbeat, rec,
                 calls, faults>>

\* backend.cancel, outside the lock.
SendCancel ==
  /\ cpc = "transport"
  /\ BackendCancel
  /\ handle' = [handle EXCEPT !.transportSent = @ \/ backend.live]
  /\ cpc' = "idle"
  /\ UNCHANGED <<leaseVars, row, wpc, wsub, cver, heartbeat, rec, calls, faults>>

(***************************************************************************)
(* The heartbeat thread                                                    *)
(***************************************************************************)

HeartbeatRenews ==
  /\ heartbeat = "on"
  /\ Renew(Worker)
  /\ UNCHANGED taskVars

\* A refused renewal (on_lost) and a failing one (on_heartbeat_error) both
\* cancel the remote execution and end the thread.
HeartbeatLost ==
  /\ heartbeat = "on"
  /\ \/ ~Fenced(Worker) /\ UNCHANGED faults
     \/ Fault
  /\ heartbeat' = "lost"
  /\ BackendCancel
  /\ UNCHANGED <<leaseVars, row, handle, wpc, wsub, cpc, cver, rec, calls>>

(***************************************************************************)
(* Restart reconciliation: one pass of a process that started later        *)
(***************************************************************************)

\* The list of non-terminal tasks was read some time before this, when the
\* task was one; a session with a live owner is skipped.
RecAcquire(r) ==
  /\ rec[r].pc = "idle"
  /\ IF Acquirable(now)
       THEN Acquire(r) /\ rec' = [rec EXCEPT ![r].pc = "read"]
       ELSE UNCHANGED leaseVars /\ rec' = [rec EXCEPT ![r].pc = "gone"]
  /\ UNCHANGED <<row, handle, wpc, wsub, cpc, cver, backend, heartbeat, calls,
                 faults>>

\* Durable truth re-read under the lease, then classified: a session without
\* a backend id was never dispatched, any other is put to the backend.
RecClassify(r) ==
  /\ rec[r].pc = "read"
  /\ IF Terminal(row.status)
       THEN rec' = [rec EXCEPT ![r].pc = "release"]
       ELSE \E o \in (IF row.dispatched THEN ReconcileOutcomes
                                        ELSE {"never_dispatched"}) :
              rec' = [rec EXCEPT ![r].pc = "snapshot", ![r].outcome = o]
  /\ UNCHANGED <<leaseVars, row, handle, wpc, wsub, cpc, cver, backend,
                 heartbeat, calls, faults>>

\* _write_with_retry reads the row again before each try.
RecSnapshot(r) ==
  /\ rec[r].pc = "snapshot"
  /\ rec' = [rec EXCEPT ![r].pc = IF Terminal(row.status) THEN "release"
                                                           ELSE "write",
                        ![r].version = row.version]
  /\ UNCHANGED <<leaseVars, row, handle, wpc, wsub, cpc, cver, backend,
                 heartbeat, calls, faults>>

\* _mark_never_dispatched and _mark_terminal go through update_status, which
\* has no terminal guard; the other writers have one.
RecMatches(r) ==
  /\ Fenced(r)
  /\ row.version = rec[r].version
  /\ rec[r].outcome \in {"cancelled", "lost", "orphaned"} => ~Terminal(row.status)

RecWrite(r) ==
  LET o == rec[r].outcome IN
  /\ rec[r].pc = "write"
  /\ RecMatches(r)
  /\ FencedWrite(r)
  /\ row' = [row EXCEPT
       !.status = IF o = "never_dispatched" THEN "failed" ELSE o,
       !.version = @ + 1,
       !.neverDispatched = (o = "never_dispatched"),
       !.cancelConfirmed = @ \/ o = "cancelled"]
  /\ rec' = [rec EXCEPT ![r].pc = "release"]
  /\ UNCHANGED <<handle, wpc, wsub, cpc, cver, backend, heartbeat, calls,
                 faults>>

\* A conflict on an active row is retried, three tries in all; a lost lease or
\* a terminal row ends the pass.
RecWriteRefused(r) ==
  /\ rec[r].pc = "write"
  /\ ~RecMatches(r)
  /\ rec' = IF Fenced(r) /\ ~Terminal(row.status) /\ rec[r].tries < 2
              THEN [rec EXCEPT ![r].pc = "snapshot", ![r].tries = @ + 1]
              ELSE [rec EXCEPT ![r].pc = "release"]
  /\ UNCHANGED <<leaseVars, row, handle, wpc, wsub, cpc, cver, backend,
                 heartbeat, calls, faults>>

RecRelease(r) ==
  /\ rec[r].pc = "release"
  /\ Release(r)
  /\ rec' = [rec EXCEPT ![r].pc = "gone"]
  /\ UNCHANGED <<row, handle, wpc, wsub, cpc, cver, backend, heartbeat, calls,
                 faults>>

\* Any transaction of the pass may fail: the task is reported as an error and
\* the lease released, unless that fails as well.
RecFault(r) ==
  /\ rec[r].pc \in {"read", "snapshot", "write", "release"}
  /\ Fault
  /\ IF rec[r].pc = "release"
       THEN Forget(r) /\ rec' = [rec EXCEPT ![r].pc = "gone"]
       ELSE UNCHANGED leaseVars /\ rec' = [rec EXCEPT ![r].pc = "release"]
  /\ UNCHANGED <<row, handle, wpc, wsub, cpc, cver, backend, heartbeat, calls>>

(***************************************************************************)
(* Crashes and the clock                                                   *)
(***************************************************************************)

\* The launching process dies with all its threads; the rows stay.
HomeCrash ==
  /\ MayCrash
  /\ Alive
  /\ wpc' = "dead"
  /\ wsub' = "do"
  /\ cpc' = "idle"
  /\ heartbeat' = "off"
  /\ backend' = [backend EXCEPT !.live = FALSE, !.pending = FALSE]
  /\ IF held[Worker] = 0 THEN UNCHANGED leaseVars ELSE Forget(Worker)
  /\ UNCHANGED <<row, handle, cver, rec, calls, faults>>

RecCrash(r) ==
  /\ MayCrash
  /\ held[r] # 0
  /\ Forget(r)
  /\ rec' = [rec EXCEPT ![r].pc = "gone"]
  /\ UNCHANGED <<row, handle, wpc, wsub, cpc, cver, backend, heartbeat, calls,
                 faults>>

ClockTick == Tick /\ UNCHANGED taskVars

(***************************************************************************)
(* The system                                                              *)
(***************************************************************************)

WorkerStep ==
  \/ WorkerAcquire \/ WorkerRefused \/ WorkerAcquireFault \/ ThreadStartFails
  \/ StatusCommit \/ StatusBump \/ StatusConflict \/ StatusResync \/ StatusRefused
  \/ Register \/ DispatchGate \/ DispatchRefused \/ SendPrompt
  \/ BackendResult \/ BackendCancelled \/ BackendFails
  \/ Complete \/ CompleteRefused \/ ConfirmCancel \/ ConfirmRefused
  \/ FailWithResult \/ FailWithResultRefused \/ FailPlain \/ FailPlainRefused
  \/ WorkerFinish

CancelStep == RequestCancel \/ SyncCancel \/ SendCancel

HeartbeatStep == HeartbeatRenews \/ HeartbeatLost

RecStep(r) ==
  \/ RecAcquire(r) \/ RecClassify(r) \/ RecSnapshot(r) \/ RecWrite(r)
  \/ RecWriteRefused(r) \/ RecRelease(r) \/ RecFault(r) \/ RecCrash(r)

Next ==
  \/ WorkerStep \/ CancelStep \/ HeartbeatStep
  \/ \E r \in Reconcilers : RecStep(r)
  \/ HomeCrash \/ ClockTick

Spec == Init /\ [][Next]_vars

\* A started thread keeps running.  The client's own deadlines make
\* client.run return, so no fairness is asked of the backend's answer; nothing
\* is assumed about new calls, faults, crashes or the clock.
Fairness ==
  /\ WF_vars(WorkerStep)
  /\ WF_vars(SyncCancel \/ SendCancel)
  /\ \A r \in Reconcilers :
       WF_vars(rec[r].pc # "idle" /\ RecStep(r))

FairSpec == Spec /\ Fairness

-----------------------------------------------------------------------------
(***************************************************************************)
(* Properties                                                              *)
(***************************************************************************)

\* A terminal row never changes again, whoever holds which stale version:
\* update_status and mark_cancel_confirmed carry no terminal guard, so this
\* rests on versions and leases alone (reconciliation_service.py: "an old
\* snapshot can never overwrite a newer terminal truth").
TerminalStable == [][Terminal(row.status) => row' = row]_vars

\* "never_dispatched" is never written about a task whose prompt went out, and
\* no prompt goes out after it was written: a pass that classified under its
\* lease cannot be overtaken by the worker it took for dead.
NeverDispatchedIsTrue == row.neverDispatched => ~row.dispatched /\ ~backend.prompted

\* Once on_result has published the finalization no cancel request reaches the
\* row (the lock shared by on_result and _task_cancel).
FinalizingShutsOutCancel ==
  [][handle.finalizing => row'.cancelRequested = row.cancelRequested]_vars

\* While a reconciler owns the session, nobody else moves an active row under
\* it: the version it read is the version it writes over, so the bounded retry
\* of _write_with_retry has nothing to retry.
ReconcilerSeesNoConflict ==
  \A r \in Reconcilers :
    rec[r].pc = "write" /\ Fenced(r) /\ ~Terminal(row.status)
      => row.version = rec[r].version

\* A worker that ends while it still owns the session leaves a terminal row
\* behind, unless a cancel raced it or the database failed it.
OwnerLeavesTerminal ==
  wpc = "finish" /\ Fenced(Worker) /\ ~row.cancelRequested /\ faults = 0
    => Terminal(row.status)

\* A cancel accepted before the execution is registered is waiting for it there
\* when the cancel call is over, so the prompt is never sent.
EarlyCancelReachesBackend ==
  /\ row.cancelRequested /\ cpc = "idle" /\ wpc \in {"spawned", "connecting", "running", "register"}
       => backend.pending
  /\ row.cancelRequested /\ cpc = "idle" /\ backend.live => backend.cancelled

\* The lifecycle implements the task contract.
Promise == INSTANCE TaskContract WITH
  status    <- row.status,
  revision  <- row.version,
  requested <- row.cancelRequested,
  accepted  <- row.dispatched

ImplementsContract == Promise!CSpec

\* Every thread that has started comes back: the worker, the cancel call with
\* the ownership lock it holds, and each reconciliation pass with its lease.
AllReturn ==
  /\ wpc = "connecting" ~> wpc \in {"done", "dead"}
  /\ cpc = "sync" ~> cpc = "idle"
  /\ \A r \in Reconcilers : rec[r].pc = "read" ~> rec[r].pc = "gone"

(***************************************************************************)
(* What comments in the code say and the code does not do                  *)
(***************************************************************************)

\* _persist_status_change: the handle version is re-synced "so the pending
\* backend terminal signal can be persisted without a phantom conflict".
NoPhantomConflict ==
  wpc \in {"confirm", "complete"} /\ Fenced(Worker) /\ ~Terminal(row.status)
    => row.version = handle.version
=============================================================================
