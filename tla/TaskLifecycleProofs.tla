------------------------ MODULE TaskLifecycleProofs ------------------------
(***************************************************************************)
(* Proofs about the session lease, for any number of holders and process   *)
(* instances, and about the task lifecycle built on it, for any number of  *)
(* reconciling processes, of cancel calls, faults and crashes; any lease   *)
(* duration and (unless said otherwise) a clock that may be set back.      *)
(***************************************************************************)
EXTENDS TaskLifecycle, TLAPS

(***************************************************************************)
(* The session lease                                                       *)
(***************************************************************************)

\* The inductive invariant: a generation names the one LeaseInfo that carries
\* it, no LeaseInfo is ahead of the row, and neither is the latest writer.
GenerationInv ==
  /\ GenerationsDistinct
  /\ lastWriter <= generation

LeaseInv == LeaseTypeOK /\ GenerationInv

\* Where the inductive invariant starts: nobody has acquired.
LEMMA LeaseInitInv == LeaseInit => LeaseInv
  BY LeaseAssumptions
     DEF LeaseInit, LeaseInv, LeaseTypeOK, GenerationInv, GenerationsDistinct

\* Every variable keeps its type.  Acquire stores an instance as the owner,
\* and expiry is a natural number whatever the clock does.
LEMMA TypeStep == LeaseTypeOK /\ [LeaseNext]_leaseVars => LeaseTypeOK'
<1> SUFFICES ASSUME LeaseTypeOK, [LeaseNext]_leaseVars
             PROVE  LeaseTypeOK'
  OBVIOUS
<1> USE LeaseAssumptions DEF LeaseTypeOK
<1>1. ASSUME NEW h \in Holders, Acquire(h) PROVE LeaseTypeOK'
  BY <1>1 DEF Acquire
<1>2. ASSUME NEW h \in Holders, Renew(h) PROVE LeaseTypeOK'
  BY <1>2 DEF Renew
<1>3. ASSUME NEW h \in Holders, Release(h) PROVE LeaseTypeOK'
  BY <1>3 DEF Release
<1>4. ASSUME NEW h \in Holders, FencedWrite(h) PROVE LeaseTypeOK'
  BY <1>4 DEF FencedWrite
<1>5. ASSUME NEW h \in Holders, Forget(h) PROVE LeaseTypeOK'
  BY <1>5 DEF Forget
<1>6. CASE Tick
  BY <1>6 DEF Tick
<1>7. CASE UNCHANGED leaseVars
  BY <1>7 DEF leaseVars
<1> QED
  BY <1>1, <1>2, <1>3, <1>4, <1>5, <1>6, <1>7 DEF LeaseNext, HolderStep

\* Every step keeps the generations apart: Acquire hands out one that is above
\* every generation in use, and nothing else hands one out.
LEMMA GenerationStep ==
  LeaseTypeOK /\ GenerationInv /\ [LeaseNext]_leaseVars => GenerationInv'
<1> SUFFICES ASSUME LeaseTypeOK, GenerationInv, [LeaseNext]_leaseVars
             PROVE  GenerationInv'
  OBVIOUS
<1> USE LeaseAssumptions DEF LeaseTypeOK, GenerationInv, GenerationsDistinct
<1>1. ASSUME NEW h \in Holders, Acquire(h) PROVE GenerationInv'
  BY <1>1 DEF Acquire
<1>2. ASSUME NEW h \in Holders, Renew(h) PROVE GenerationInv'
  BY <1>2 DEF Renew
<1>3. ASSUME NEW h \in Holders, Release(h) PROVE GenerationInv'
  BY <1>3 DEF Release
<1>4. ASSUME NEW h \in Holders, FencedWrite(h) PROVE GenerationInv'
  BY <1>4 DEF FencedWrite, Fenced
<1>5. ASSUME NEW h \in Holders, Forget(h) PROVE GenerationInv'
  BY <1>5 DEF Forget
<1>6. CASE Tick
  BY <1>6 DEF Tick
<1>7. CASE UNCHANGED leaseVars
  BY <1>7 DEF leaseVars
<1> QED
  BY <1>1, <1>2, <1>3, <1>4, <1>5, <1>6, <1>7 DEF LeaseNext, HolderStep

\* The inductive invariant holds of every behaviour of the lease.
THEOREM LeaseInvariant == LeaseSpec => []LeaseInv
<1>1. LeaseInv /\ [LeaseNext]_leaseVars => LeaseInv'
  BY TypeStep, GenerationStep DEF LeaseInv
<1> QED
  BY LeaseInitInv, <1>1, PTL DEF LeaseSpec

\* Type correctness of the lease row and of every LeaseInfo.
THEOREM LeaseTypeCorrect == LeaseSpec => []LeaseTypeOK
  BY LeaseInvariant, PTL DEF LeaseInv

\* Two LeaseInfo objects never carry the same owner_generation.
THEOREM GenerationsStayDistinct == LeaseSpec => []GenerationsDistinct
<1>1. LeaseInv => GenerationsDistinct
  BY DEF LeaseInv, GenerationInv
<1> QED
  BY LeaseInvariant, <1>1, PTL

\* Both holders that pass the fence match the row's generation, so they match
\* each other's.
LEMMA FenceIsExclusive == LeaseInv => Exclusive
  BY DEF LeaseInv, GenerationInv, GenerationsDistinct, Exclusive, Fenced

\* At most one holder passes the fence, within a process and across processes,
\* however the clock moves.
THEOREM LeaseExclusive == LeaseSpec => []Exclusive
  BY LeaseInvariant, FenceIsExclusive, PTL

\* Fenced writes arrive in the order of their generations: the writer matches
\* the row's generation, and no earlier writer is above it.
THEOREM LeaseWritesOrdered == LeaseSpec => WritesOrdered
<1>1. LeaseInv /\ [LeaseNext]_leaseVars => [lastWriter' >= lastWriter]_leaseVars
  <2> SUFFICES ASSUME LeaseInv, LeaseNext PROVE lastWriter' >= lastWriter
    BY DEF leaseVars
  <2> USE DEF LeaseInv, LeaseTypeOK, GenerationInv
  <2>1. ASSUME NEW h \in Holders, FencedWrite(h)
        PROVE  lastWriter' >= lastWriter
    BY <2>1 DEF FencedWrite, Fenced
  <2>2. ASSUME NEW h \in Holders, HolderStep(h), ~FencedWrite(h)
        PROVE  lastWriter' = lastWriter
    BY <2>2 DEF HolderStep, Acquire, Renew, Release, Forget
  <2>3. CASE Tick
    BY <2>3 DEF Tick
  <2> QED
    BY <2>1, <2>2, <2>3 DEF LeaseNext
<1> QED
  BY LeaseInvariant, <1>1, PTL DEF LeaseSpec, WritesOrdered

\* Only its holder or the clock ends a live lease: another holder cannot
\* acquire while it is live, and a stale release does not match its generation.
THEOREM LeaseEndsByHolder == LeaseSpec => OnlyHolderEndsLease
<1> DEFINE Ends(h) == Fenced(h) /\ ~Fenced(h)' => held'[h] # held[h] \/ now' # now
<1>1. ASSUME LeaseInv, LeaseNext, NEW h \in Holders PROVE Ends(h)
  <2> SUFFICES ASSUME Fenced(h), held'[h] = held[h], now' = now
               PROVE  Fenced(h)'
    OBVIOUS
  <2> USE <1>1, LeaseAssumptions
      DEF LeaseInv, LeaseTypeOK, GenerationInv, GenerationsDistinct, Fenced
  <2>1. ASSUME NEW g \in Holders, Acquire(g) PROVE Fenced(h)'
    BY <2>1 DEF Acquire, Acquirable
  <2>2. ASSUME NEW g \in Holders, Renew(g) PROVE Fenced(h)'
    BY <2>2 DEF Renew
  <2>3. ASSUME NEW g \in Holders, Release(g) PROVE Fenced(h)'
    BY <2>3 DEF Release
  <2>4. ASSUME NEW g \in Holders, FencedWrite(g) PROVE Fenced(h)'
    BY <2>4 DEF FencedWrite
  <2>5. ASSUME NEW g \in Holders, Forget(g) PROVE Fenced(h)'
    BY <2>5 DEF Forget
  <2>6. CASE Tick
    BY <2>6 DEF Tick
  <2> QED
    BY <2>1, <2>2, <2>3, <2>4, <2>5, <2>6 DEF LeaseNext, HolderStep
<1>2. LeaseInv /\ [LeaseNext]_leaseVars
        => [\A h \in Holders : Ends(h)]_leaseVars
  BY <1>1
<1> QED
  BY LeaseInvariant, <1>2, PTL DEF LeaseSpec, OnlyHolderEndsLease

\* With a clock that is never set back, a LeaseInfo that is kept through a step
\* and passes the fence after it passed it before.
LEMMA StaysFenced ==
  ASSUME ~ClockStepsBack, LeaseInv, [LeaseNext]_leaseVars, NEW h \in Holders,
         held'[h] = held[h], Fenced(h)'
  PROVE  Fenced(h)
<1> USE LeaseAssumptions
    DEF LeaseInv, LeaseTypeOK, GenerationInv, GenerationsDistinct, Fenced
<1>1. ASSUME NEW g \in Holders, Acquire(g) PROVE FALSE
  <2>1. held[h] <= generation /\ held'[h] = generation + 1
    BY <1>1 DEF Acquire
  <2> QED
    BY <2>1
<1>2. ASSUME NEW g \in Holders, Renew(g) PROVE Fenced(h)
  BY <1>2 DEF Renew
<1>3. ASSUME NEW g \in Holders, Release(g) PROVE Fenced(h)
  BY <1>3 DEF Release
<1>4. ASSUME NEW g \in Holders, FencedWrite(g) PROVE Fenced(h)
  BY <1>4 DEF FencedWrite
<1>5. ASSUME NEW g \in Holders, Forget(g) PROVE Fenced(h)
  BY <1>5 DEF Forget
<1>6. CASE Tick
  BY <1>6 DEF Tick
<1>7. CASE UNCHANGED leaseVars
  BY <1>7 DEF leaseVars
<1> QED
  BY <1>1, <1>2, <1>3, <1>4, <1>5, <1>6, <1>7 DEF LeaseNext, HolderStep

\* With a clock that is never set back, a lease that ran out stays run out for
\* the LeaseInfo that carried it: only an acquire brings it back, with a new
\* generation.
THEOREM LeaseNeverRevived ==
  ASSUME ~ClockStepsBack
  PROVE  LeaseSpec => ExpiredNeverRevived
<1> DEFINE Stays(h) ==
             held[h] # 0 /\ held'[h] = held[h] /\ ~Fenced(h) => ~Fenced(h)'
<1>1. ASSUME LeaseInv, LeaseNext, NEW h \in Holders
      PROVE  Stays(h)
  BY <1>1, StaysFenced
<1>2. LeaseInv /\ [LeaseNext]_leaseVars
        => [\A h \in Holders : Stays(h)]_leaseVars
  BY <1>1
<1> QED
  BY LeaseInvariant, <1>2, PTL DEF LeaseSpec, ExpiredNeverRevived

-----------------------------------------------------------------------------
(***************************************************************************)
(* The lease implements the single-writer contract                         *)
(***************************************************************************)

\* Who the contract takes for the present writer.
PresentWriter == IF \E h \in Holders : Fenced(h)
                   THEN CHOOSE h \in Holders : Fenced(h) ELSE NoOwner

\* The present writer is the one holder that passes the fence, if any does.
LEMMA PresentWriterIs ==
  ASSUME Exclusive
  PROVE  /\ \A h \in Holders : Fenced(h) <=> PresentWriter = h
         /\ (\A h \in Holders : ~Fenced(h)) <=> PresentWriter = NoOwner
  BY LeaseAssumptions DEF Exclusive, PresentWriter

\* With a clock that is never set back, every lease transaction is a grant, a
\* revocation, a write or a stutter of the single-writer contract.
THEOREM LeaseImplementsSingleWriter ==
  ASSUME ~ClockStepsBack
  PROVE  LeaseSpec => ImplementsSingleWriter
<1> USE DEF Contract!SWNext, Contract!Grant, Contract!Revoke, Contract!Write,
            Contract!swVars
<1>1. LeaseInit => Contract!SWInit
  BY DEF LeaseInit, Contract!SWInit, Fenced
<1>2. ASSUME LeaseInv, LeaseInv', [LeaseNext]_leaseVars
      PROVE  [Contract!SWNext]_Contract!swVars
  <2> DEFINE Free == \A h \in Holders : ~Fenced(h)
  <2>a. Exclusive /\ Exclusive'
    BY <1>2, FenceIsExclusive DEF LeaseInv, GenerationInv, LeaseTypeOK,
       GenerationsDistinct, Exclusive, Fenced
  <2>b. /\ \A h \in Holders : Fenced(h) <=> PresentWriter = h
        /\ Free <=> PresentWriter = NoOwner
    BY <2>a, PresentWriterIs
  <2>c. /\ \A h \in Holders : Fenced(h)' <=> PresentWriter' = h
        /\ Free' <=> PresentWriter' = NoOwner
    BY <2>a, LeaseAssumptions DEF Exclusive, PresentWriter
  <2>d. [Contract!SWNext]_Contract!swVars <=>
          \/ \E h \in Holders :
               /\ PresentWriter = NoOwner
               /\ PresentWriter' = h
               /\ generation' = generation + 1
               /\ lastWriter' = lastWriter
          \/ /\ PresentWriter # NoOwner
             /\ PresentWriter' = NoOwner
             /\ generation' = generation /\ lastWriter' = lastWriter
          \/ /\ PresentWriter # NoOwner
             /\ lastWriter' = generation
             /\ PresentWriter' = PresentWriter /\ generation' = generation
          \/ /\ PresentWriter' = PresentWriter
             /\ generation' = generation /\ lastWriter' = lastWriter
    BY DEF PresentWriter
  <2>e. ASSUME \A h \in Holders : Fenced(h)' <=> Fenced(h)
        PROVE  PresentWriter' = PresentWriter
    BY <2>e, <2>b, <2>c DEF PresentWriter
  <2>f. ASSUME \A h \in Holders : Fenced(h)' => Fenced(h)
        PROVE  PresentWriter' = PresentWriter \/ PresentWriter' = NoOwner
    <3>1. CASE Free'
      BY <3>1, <2>c
    <3>2. ASSUME NEW h \in Holders, Fenced(h)'
          PROVE  PresentWriter' = PresentWriter
      BY <3>2, <2>f, <2>b, <2>c
    <3> QED
      BY <3>1, <3>2
  <2> USE <1>2, LeaseAssumptions DEF LeaseInv, LeaseTypeOK, GenerationInv,
          GenerationsDistinct
  <2>1. ASSUME NEW h \in Holders, Acquire(h)
        PROVE  [Contract!SWNext]_Contract!swVars
    <3>1. Free
      BY <2>1 DEF Acquire, Acquirable, Fenced
    <3>2. Fenced(h)'
      BY <2>1 DEF Acquire, Fenced
    <3> QED
      BY <2>1, <3>1, <3>2, <2>b, <2>c, <2>d DEF Acquire
  <2>2. ASSUME NEW h \in Holders, Renew(h)
        PROVE  [Contract!SWNext]_Contract!swVars
    <3>1. \A g \in Holders : Fenced(g)' <=> Fenced(g)
      BY <2>2 DEF Renew, Fenced
    <3> QED
      BY <2>2, <3>1, <2>e, <2>d DEF Renew
  <2>3. ASSUME NEW h \in Holders, Release(h)
        PROVE  [Contract!SWNext]_Contract!swVars
    <3>1. \A g \in Holders : Fenced(g)' => Fenced(g)
      BY <2>3 DEF Release, Fenced
    <3> QED
      BY <2>3, <3>1, <2>f, <2>d DEF Release
  <2>4. ASSUME NEW h \in Holders, FencedWrite(h)
        PROVE  [Contract!SWNext]_Contract!swVars
    <3>1. \A g \in Holders : Fenced(g)' <=> Fenced(g)
      BY <2>4 DEF FencedWrite, Fenced
    <3>2. PresentWriter # NoOwner
      BY <2>4, <2>b DEF FencedWrite
    <3>3. lastWriter' = generation
      BY <2>4 DEF FencedWrite, Fenced
    <3> QED
      BY <2>4, <3>1, <3>2, <3>3, <2>e, <2>d DEF FencedWrite
  <2>5. ASSUME NEW h \in Holders, Forget(h)
        PROVE  [Contract!SWNext]_Contract!swVars
    <3>1. \A g \in Holders : Fenced(g)' => Fenced(g)
      BY <2>5 DEF Forget, Fenced
    <3> QED
      BY <2>5, <3>1, <2>f, <2>d DEF Forget
  <2>6. CASE Tick
    <3>1. \A g \in Holders : Fenced(g)' => Fenced(g)
      BY <2>6 DEF Tick, Fenced
    <3> QED
      BY <2>6, <3>1, <2>f, <2>d DEF Tick
  <2>7. CASE UNCHANGED leaseVars
    <3>1. \A g \in Holders : Fenced(g)' <=> Fenced(g)
      BY <2>7 DEF leaseVars, Fenced
    <3> QED
      BY <2>7, <3>1, <2>e, <2>d DEF leaseVars
  <2> QED
    BY <2>1, <2>2, <2>3, <2>4, <2>5, <2>6, <2>7 DEF LeaseNext, HolderStep
<1>3. LeaseInv /\ LeaseInv' /\ [LeaseNext]_leaseVars
        => [Contract!SWNext]_Contract!swVars
  BY <1>2
<1> QED
  BY LeaseInvariant, <1>1, <1>3, PTL
  DEF LeaseSpec, ImplementsSingleWriter, Contract!SWSpec

-----------------------------------------------------------------------------
(***************************************************************************)
(* The lifecycle: the inductive invariant                                  *)
(***************************************************************************)

\* Places at which the worker may still write the row.
Writing == WorkerPlaces \ {"finish", "done", "dead"}

\* A version an actor is about to write over: never ahead of the row, and
\* behind it once the row is terminal.
Behind(v) == v <= row.version /\ (Terminal(row.status) => v < row.version)

\* A worker without a lease wrote nothing, so nothing moved its version ahead.
UnleasedInv ==
  wpc \in Writing /\ ~handle.leased =>
    /\ wpc \in {"spawned", "fail", "fail_plain"}
    /\ wsub = "do"
    /\ Behind(handle.version)

\* A worker whose generation is the row's may run ahead by a phantom bump,
\* but not over a terminal row: nobody else can have made it terminal since.
LeasedInv ==
  wpc \in Writing /\ handle.leased =>
    /\ wpc # "spawned"
    /\ held[Worker] = generation /\ Terminal(row.status)
         => wsub = "do" /\ handle.version < row.version

\* What the cancel thread and the reconcilers carry between two transactions.
CarriedInv ==
  /\ cpc = "sync" => Behind(cver)
  /\ \A r \in Reconcilers : rec[r].pc = "write" => Behind(rec[r].version)

VersionInv == UnleasedInv /\ LeasedInv /\ CarriedInv

\* Where the dispatch event stands, by the worker's place and by what a
\* reconciler made of it.
DispatchInv ==
  /\ wpc \in {"spawned", "connecting", "running", "register", "gate"}
       => ~row.dispatched
  /\ wpc \in {"prompt", "observing", "await", "complete"} => row.dispatched
  /\ backend.prompted => row.dispatched
  /\ row.neverDispatched => Terminal(row.status) /\ ~row.dispatched
  /\ \A r \in Reconcilers : rec[r].pc \in {"snapshot", "write"} =>
       IF rec[r].outcome = "never_dispatched"
         THEN held[r] = generation => ~row.dispatched
         ELSE row.dispatched

\* A status change in two steps belongs to a place that changes the status.
TypeInv == TypeOK /\ (wsub # "do" => wpc \in StatusSteps)

LifecycleInv == LeaseInv /\ TypeInv /\ VersionInv /\ DispatchInv

(***************************************************************************)
(* The lifecycle uses the lease by its transactions only                   *)
(***************************************************************************)

\* Every step of the lifecycle is a lease transaction or leaves the lease be.
LEMMA LeaseStep == [Next]_vars => [LeaseNext]_leaseVars
<1> SUFFICES ASSUME [Next]_vars PROVE [LeaseNext]_leaseVars
  OBVIOUS
<1>1. Worker \in Holders /\ Reconcilers \subseteq Holders
  BY LifecycleAssumptions
<1>2. ASSUME NEW newRow, WorkerWrites(newRow) PROVE [LeaseNext]_leaseVars
  BY <1>1, <1>2 DEF WorkerWrites, HolderStep, LeaseNext
<1>3. CASE WorkerStep
  <2>1. CASE WorkerAcquire \/ WorkerRefused \/ WorkerAcquireFault \/ ThreadStartFails
    BY <2>1, <1>1 DEF WorkerAcquire, WorkerRefused, WorkerAcquireFault,
       ThreadStartFails, HolderStep, LeaseNext
  <2>2. CASE StatusCommit \/ StatusBump \/ StatusConflict \/ StatusResync \/ StatusRefused
    BY <2>2, <1>2 DEF StatusCommit, StatusBump, StatusConflict, StatusResync,
       StatusRefused
  <2>3. CASE Register \/ DispatchGate \/ DispatchRefused \/ SendPrompt
    BY <2>3, <1>2 DEF Register, DispatchGate, DispatchRefused, SendPrompt
  <2>4. CASE BackendResult \/ BackendCancelled \/ BackendFails
    BY <2>4 DEF BackendResult, BackendCancelled, BackendFails
  <2>5. CASE Complete \/ CompleteRefused \/ ConfirmCancel \/ ConfirmRefused
    BY <2>5, <1>2 DEF Complete, CompleteRefused, ConfirmCancel, ConfirmRefused
  <2>6. CASE FailWithResult \/ FailWithResultRefused \/ FailPlain \/ FailPlainRefused
    BY <2>6, <1>2 DEF FailWithResult, FailWithResultRefused, FailPlain,
       FailPlainRefused
  <2>7. CASE WorkerFinish
    BY <2>7, <1>1 DEF WorkerFinish, HolderStep, LeaseNext
  <2> QED
    BY <1>3, <2>1, <2>2, <2>3, <2>4, <2>5, <2>6, <2>7 DEF WorkerStep
<1>4. CASE CancelStep
  BY <1>4, <1>2 DEF CancelStep, RequestCancel, SyncCancel, SendCancel, LeaseNext
<1>5. CASE HeartbeatStep
  BY <1>5, <1>1 DEF HeartbeatStep, HeartbeatRenews, HeartbeatLost, HolderStep,
     LeaseNext
<1>6. ASSUME NEW r \in Reconcilers, RecStep(r) PROVE [LeaseNext]_leaseVars
  BY <1>6, <1>1 DEF RecStep, RecAcquire, RecClassify, RecSnapshot, RecWrite,
     RecWriteRefused, RecRelease, RecFault, RecCrash, HolderStep, LeaseNext
<1>7. CASE HomeCrash
  BY <1>7, <1>1 DEF HomeCrash, HolderStep, LeaseNext
<1>8. CASE ClockTick
  BY <1>8 DEF ClockTick, LeaseNext
<1>9. CASE UNCHANGED vars
  BY <1>9 DEF vars
<1> QED
  BY <1>3, <1>4, <1>5, <1>6, <1>7, <1>8, <1>9 DEF Next

\* The lifecycle is a behaviour of the lease module, so what is proved of the
\* lease holds of every worker and reconciler.
THEOREM LifecycleUsesLease == Spec => LeaseSpec
<1>1. Init => LeaseInit
  BY DEF Init
<1> QED
  BY <1>1, LeaseStep, PTL DEF Spec, LeaseSpec

(***************************************************************************)
(* What updating a record leaves behind                                    *)
(***************************************************************************)

\* The row's status and version are written together with at most one flag.
LEMMA RowStatus ==
  ASSUME row \in RowType, NEW s \in Statuses, NEW n \in Nat
  PROVE  LET q == [row EXCEPT !.status = s, !.version = n]
         IN  /\ q \in RowType /\ q.status = s /\ q.version = n
             /\ q.dispatched = row.dispatched
             /\ q.neverDispatched = row.neverDispatched
             /\ q.cancelRequested = row.cancelRequested
  BY Zenon DEF RowType

\* RequestCancel's update.
LEMMA RowCancel ==
  ASSUME row \in RowType, NEW s \in Statuses, NEW n \in Nat
  PROVE  LET q == [row EXCEPT !.status = s, !.version = n,
                              !.cancelRequested = TRUE]
         IN  /\ q \in RowType /\ q.status = s /\ q.version = n
             /\ q.dispatched = row.dispatched
             /\ q.neverDispatched = row.neverDispatched
             /\ q.cancelRequested = TRUE
  BY Zenon DEF RowType

\* The update of save_result.
LEMMA RowSaved ==
  ASSUME row \in RowType, NEW s \in Statuses, NEW n \in Nat
  PROVE  LET q == [row EXCEPT !.status = s, !.version = n,
                              !.resultAvailable = TRUE]
         IN  /\ q \in RowType /\ q.status = s /\ q.version = n
             /\ q.dispatched = row.dispatched
             /\ q.neverDispatched = row.neverDispatched
             /\ q.cancelRequested = row.cancelRequested
  BY Zenon DEF RowType

\* The update of mark_cancel_confirmed.
LEMMA RowConfirmed ==
  ASSUME row \in RowType, NEW s \in Statuses, NEW n \in Nat
  PROVE  LET q == [row EXCEPT !.status = s, !.version = n,
                              !.cancelConfirmed = TRUE]
         IN  /\ q \in RowType /\ q.status = s /\ q.version = n
             /\ q.dispatched = row.dispatched
             /\ q.neverDispatched = row.neverDispatched
             /\ q.cancelRequested = row.cancelRequested
  BY Zenon DEF RowType

\* The update of a reconciler.
LEMMA RowReconciled ==
  ASSUME row \in RowType, NEW s \in Statuses, NEW n \in Nat,
         NEW b \in BOOLEAN, NEW c \in BOOLEAN
  PROVE  LET q == [row EXCEPT !.status = s, !.version = n,
                              !.neverDispatched = b, !.cancelConfirmed = c]
         IN  /\ q \in RowType /\ q.status = s /\ q.version = n
             /\ q.dispatched = row.dispatched
             /\ q.neverDispatched = b
             /\ q.cancelRequested = row.cancelRequested
  BY Zenon DEF RowType

\* The update of accept_backend_dispatch.
LEMMA RowDispatched ==
  ASSUME row \in RowType
  PROVE  LET q == [row EXCEPT !.dispatched = TRUE]
         IN  /\ q \in RowType /\ q.status = row.status
             /\ q.version = row.version
             /\ q.dispatched = TRUE
             /\ q.neverDispatched = row.neverDispatched
             /\ q.cancelRequested = row.cancelRequested
  BY Zenon DEF RowType

\* The handle's version moves, with the lock let go or not.
LEMMA HandleVersion ==
  ASSUME handle \in HandleType, NEW n \in Nat
  PROVE  /\ LET q == [handle EXCEPT !.version = n]
            IN  /\ q \in HandleType /\ q.version = n
                /\ q.leased = handle.leased
         /\ LET q == [handle EXCEPT !.version = n, !.locked = FALSE]
            IN  /\ q \in HandleType /\ q.version = n
                /\ q.leased = handle.leased
  BY Zenon DEF HandleType

\* Only WorkerAcquire publishes the lease; the other flags leave it and the
\* version alone.
LEMMA HandleFlags ==
  ASSUME handle \in HandleType, NEW b \in BOOLEAN
  PROVE  /\ LET q == [handle EXCEPT !.leased = TRUE]
            IN  /\ q \in HandleType /\ q.version = handle.version
                /\ q.leased = TRUE
         /\ LET q == [handle EXCEPT !.finalizing = TRUE]
            IN  /\ q \in HandleType /\ q.version = handle.version
                /\ q.leased = handle.leased
         /\ LET q == [handle EXCEPT !.locked = TRUE]
            IN  /\ q \in HandleType /\ q.version = handle.version
                /\ q.leased = handle.leased
         /\ LET q == [handle EXCEPT !.transportSent = b]
            IN  /\ q \in HandleType /\ q.version = handle.version
                /\ q.leased = handle.leased
  BY Zenon DEF HandleType

\* Of the registry's updates only SendPrompt's touches prompted.
LEMMA BackendUpdates ==
  ASSUME backend \in BackendType, NEW b \in BOOLEAN
  PROVE  /\ LET q == [backend EXCEPT !.live = FALSE]
            IN  q \in BackendType /\ q.prompted = backend.prompted
         /\ LET q == [backend EXCEPT !.cancelled = TRUE]
            IN  q \in BackendType /\ q.prompted = backend.prompted
         /\ LET q == [backend EXCEPT !.pending = TRUE]
            IN  q \in BackendType /\ q.prompted = backend.prompted
         /\ LET q == [backend EXCEPT !.live = b, !.pending = FALSE]
            IN  q \in BackendType /\ q.prompted = backend.prompted
         /\ [backend EXCEPT !.prompted = TRUE] \in BackendType
  BY Zenon DEF BackendType

\* A reconciler moves: its own entry changes as written, the others not.
LEMMA RecPc ==
  ASSUME rec \in [Reconcilers -> RecType], NEW r \in Reconcilers,
         NEW p \in RecPlaces
  PROVE  LET q == [rec EXCEPT ![r].pc = p]
         IN  /\ q \in [Reconcilers -> RecType] /\ q[r].pc = p
             /\ \A x \in Reconcilers \ {r} : q[x] = rec[x]
  BY Zenon DEF RecType

\* The same with the outcome of a classification.
LEMMA RecOutcome ==
  ASSUME rec \in [Reconcilers -> RecType], NEW r \in Reconcilers,
         NEW p \in RecPlaces, NEW o \in RecOutcomes
  PROVE  LET q == [rec EXCEPT ![r].pc = p, ![r].outcome = o]
         IN  /\ q \in [Reconcilers -> RecType] /\ q[r].pc = p
             /\ q[r].outcome = o
             /\ \A x \in Reconcilers \ {r} : q[x] = rec[x]
  BY Zenon DEF RecType

\* The same with the version of a snapshot.
LEMMA RecVersion ==
  ASSUME rec \in [Reconcilers -> RecType], NEW r \in Reconcilers,
         NEW p \in RecPlaces, NEW n \in Nat
  PROVE  LET q == [rec EXCEPT ![r].pc = p, ![r].version = n]
         IN  /\ q \in [Reconcilers -> RecType] /\ q[r].pc = p
             /\ q[r].version = n
             /\ q[r].outcome = rec[r].outcome
             /\ \A x \in Reconcilers \ {r} : q[x] = rec[x]
  BY Zenon DEF RecType

\* The same with one more try.
LEMMA RecTries ==
  ASSUME rec \in [Reconcilers -> RecType], NEW r \in Reconcilers,
         NEW p \in RecPlaces, NEW n \in 0..2
  PROVE  LET q == [rec EXCEPT ![r].pc = p, ![r].tries = n]
         IN  /\ q \in [Reconcilers -> RecType] /\ q[r].pc = p
             /\ q[r].outcome = rec[r].outcome
             /\ \A x \in Reconcilers \ {r} : q[x] = rec[x]
  BY Zenon DEF RecType

(***************************************************************************)
(* Type correctness, one step per action                                   *)
(***************************************************************************)

\* The fields the updates above are given.
LEMMA TypeFacts ==
  ASSUME TypeInv
  PROVE  /\ row.status \in Statuses
         /\ row.version \in Nat
         /\ row.version + 1 \in Nat
         /\ row.version + 2 \in Nat
         /\ handle.version \in Nat
         /\ handle.version + 1 \in Nat
         /\ handle.version + 2 \in Nat
<1>1. row.status \in Statuses /\ row.version \in Nat /\ handle.version \in Nat
  BY Zenon DEF TypeInv, TypeOK, RowType, HandleType
<1> QED
  BY <1>1

\* A reconciler's step keeps the type of every reconciler's entry.
LEMMA RecStepTypes ==
  ASSUME TypeInv, NEW r \in Reconcilers, RecStep(r)
  PROVE  rec' \in [Reconcilers -> RecType]
<1> USE DEF TypeInv, TypeOK
<1>p. /\ "read" \in RecPlaces /\ "snapshot" \in RecPlaces /\ "write" \in RecPlaces
      /\ "release" \in RecPlaces /\ "gone" \in RecPlaces
  BY DEF RecPlaces
<1>1. ASSUME NEW p \in RecPlaces, rec' = [rec EXCEPT ![r].pc = p]
      PROVE  rec' \in [Reconcilers -> RecType]
  BY <1>1, RecPc, Zenon
<1>2. CASE RecClassify(r)
  <2>1. ASSUME NEW o \in RecOutcomes, rec' = [rec EXCEPT ![r].pc = "snapshot", ![r].outcome = o]
      PROVE  rec' \in [Reconcilers -> RecType]
    BY <2>1, <1>p, RecOutcome, Zenon
  <2>2. ReconcileOutcomes \subseteq RecOutcomes /\ "never_dispatched" \in RecOutcomes
    BY LifecycleAssumptions DEF RecOutcomes
  <2> QED
    BY <1>2, <2>1, <2>2, <1>1, <1>p, Zenon DEF RecClassify
<1>3. CASE RecSnapshot(r)
  <2> DEFINE p == IF Terminal(row.status) THEN "release" ELSE "write"
  <2>1. p \in RecPlaces /\ row.version \in Nat
    BY TypeFacts, <1>p
  <2>2. rec' = [rec EXCEPT ![r].pc = p, ![r].version = row.version]
    BY <1>3 DEF RecSnapshot
  <2> HIDE DEF p
  <2> QED
    BY <2>1, <2>2, RecVersion, Zenon
<1>4. CASE RecWriteRefused(r)
  <2> DEFINE n == rec[r].tries + 1
  <2>1. rec[r].tries < 2 => n \in 0..2
    BY DEF RecType
  <2>2. \/ rec' = [rec EXCEPT ![r].pc = "release"]
        \/ rec[r].tries < 2 /\ rec' = [rec EXCEPT ![r].pc = "snapshot", ![r].tries = n]
    BY <1>4, Zenon DEF RecWriteRefused
  <2> HIDE DEF n
  <2>3. CASE rec' = [rec EXCEPT ![r].pc = "release"]
    BY <2>3, <1>p, <1>1
  <2>4. CASE rec[r].tries < 2 /\ rec' = [rec EXCEPT ![r].pc = "snapshot", ![r].tries = n]
    BY <2>1, <2>4, <1>p, RecTries, Zenon
  <2> QED
    BY <2>2, <2>3, <2>4
<1>5. CASE RecAcquire(r)
    BY <1>5, <1>p, <1>1, Zenon DEF RecAcquire
<1>6. CASE RecWrite(r)
    BY <1>6, <1>p, <1>1, Zenon DEF RecWrite
<1>7. CASE RecFault(r)
    BY <1>7, <1>p, <1>1, Zenon DEF RecFault
<1>8. CASE RecRelease(r) \/ RecCrash(r)
    BY <1>8, <1>p, <1>1, Zenon DEF RecRelease, RecCrash
<1> QED
  BY <1>2, <1>3, <1>4, <1>5, <1>6, <1>7, <1>8 DEF RecStep

\* Every variable keeps its type.
LEMMA TypeInvStep == TypeInv /\ [Next]_vars => TypeInv'
<1> SUFFICES ASSUME TypeInv, [Next]_vars PROVE TypeInv'
  OBVIOUS
<1> USE LifecycleAssumptions DEF TypeInv, TypeOK, StatusSteps, WorkerPlaces
<1>0. /\ StatusSteps \cup {"failed", "cancelled", "cancelling", "completed"}
           \subseteq Statuses
      /\ TRUE \in BOOLEAN
  BY DEF Statuses, ActiveStatuses, TerminalStatuses
<1>1. CASE WorkerAcquire
  <2>1. handle' \in HandleType
    BY <1>1, <1>0, TypeFacts, HandleFlags, Zenon DEF WorkerAcquire
  <2> QED
    BY <1>1, <1>0, <2>1 DEF WorkerAcquire
<1>2. CASE WorkerRefused
  BY <1>2, <1>0 DEF WorkerRefused
<1>3. CASE WorkerAcquireFault
  <2>1. faults' \in 0..MaxFaults
    BY <1>3 DEF WorkerAcquireFault, Fault
  <2> QED
    BY <1>3, <1>0, <2>1 DEF WorkerAcquireFault
<1>4. CASE ThreadStartFails
  <2>1. row' \in RowType
    BY <1>4, <1>0, TypeFacts, RowStatus, Zenon DEF ThreadStartFails
  <2> QED
    BY <1>4, <1>0, <2>1 DEF ThreadStartFails
<1>5. CASE StatusCommit
  <2>1. row' \in RowType
    BY <1>5, <1>0, TypeFacts, RowStatus, Zenon DEF StatusCommit, WorkerWrites
  <2> QED
    BY <1>5, <1>0, <2>1 DEF StatusCommit
<1>6. CASE StatusBump
  <2>1. handle' \in HandleType
    BY <1>6, <1>0, TypeFacts, HandleVersion, Zenon DEF StatusBump
  <2> QED
    BY <1>6, <1>0, <2>1 DEF StatusBump, After
<1>7. CASE StatusConflict
  BY <1>7, <1>0 DEF StatusConflict
<1>8. CASE StatusResync
  <2>1. handle' \in HandleType
    BY <1>8, <1>0, TypeFacts, HandleVersion, Zenon DEF StatusResync
  <2>2. backend' \in BackendType
    BY <1>8, <1>0, BackendUpdates, Zenon DEF StatusResync, Unregister
  <2> QED
    BY <1>8, <1>0, <2>1, <2>2 DEF StatusResync, After, Unregister
<1>9. CASE StatusRefused
  <2>1. backend' \in BackendType
    BY <1>9, <1>0, BackendUpdates, Zenon DEF StatusRefused, Unregister
  <2>2. faults' \in 0..MaxFaults
    BY <1>9 DEF StatusRefused, Fault
  <2> QED
    BY <1>9, <1>0, <2>1, <2>2 DEF StatusRefused
<1>10. CASE Register
  <2>1. backend' \in BackendType
    BY <1>10, <1>0, BackendUpdates, Zenon DEF Register
  <2> QED
    BY <1>10, <1>0, <2>1 DEF Register
<1>11. CASE DispatchGate
  <2>1. row' \in RowType
    BY <1>11, <1>0, TypeFacts, RowDispatched, Zenon DEF DispatchGate,
       WorkerWrites
  <2> QED
    BY <1>11, <1>0, <2>1 DEF DispatchGate
<1>12. CASE DispatchRefused
  <2>1. backend' \in BackendType
    BY <1>12, <1>0, BackendUpdates, Zenon DEF DispatchRefused, Unregister
  <2>2. faults' \in 0..MaxFaults
    BY <1>12 DEF DispatchRefused, Fault
  <2> QED
    BY <1>12, <1>0, <2>1, <2>2 DEF DispatchRefused
<1>13. CASE SendPrompt
  <2>1. backend' \in BackendType
    BY <1>13, <1>0, BackendUpdates, Zenon DEF SendPrompt
  <2> QED
    BY <1>13, <1>0, <2>1 DEF SendPrompt
<1>14. CASE BackendResult
  <2>1. handle' \in HandleType
    BY <1>14, <1>0, TypeFacts, HandleFlags, Zenon DEF BackendResult
  <2>2. backend' \in BackendType
    BY <1>14, <1>0, BackendUpdates, Zenon DEF BackendResult, Unregister
  <2> QED
    BY <1>14, <1>0, <2>1, <2>2 DEF BackendResult
<1>15. CASE BackendCancelled
  <2>1. backend' \in BackendType
    BY <1>15, <1>0, BackendUpdates, Zenon DEF BackendCancelled, Unregister
  <2> QED
    BY <1>15, <1>0, <2>1 DEF BackendCancelled
<1>16. CASE BackendFails
  <2>1. backend' \in BackendType
    BY <1>16, <1>0, BackendUpdates, Zenon DEF BackendFails, Unregister
  <2> QED
    BY <1>16, <1>0, <2>1 DEF BackendFails
<1>17. CASE Complete
  <2>1. row' \in RowType
    BY <1>17, <1>0, TypeFacts, RowSaved, Zenon DEF Complete, WorkerWrites,
       SavedAs
  <2>2. handle' \in HandleType
    BY <1>17, <1>0, TypeFacts, HandleVersion, Zenon DEF Complete
  <2> QED
    BY <1>17, <1>0, <2>1, <2>2 DEF Complete
<1>18. CASE CompleteRefused
  <2>1. faults' \in 0..MaxFaults
    BY <1>18 DEF CompleteRefused, RefusedTo, Fault
  <2> QED
    BY <1>18, <1>0, <2>1 DEF CompleteRefused, RefusedTo
<1>19. CASE ConfirmCancel
  <2>1. row' \in RowType
    BY <1>19, <1>0, TypeFacts, RowConfirmed, Zenon DEF ConfirmCancel,
       WorkerWrites
  <2>2. handle' \in HandleType
    BY <1>19, <1>0, TypeFacts, HandleVersion, Zenon DEF ConfirmCancel
  <2> QED
    BY <1>19, <1>0, <2>1, <2>2 DEF ConfirmCancel
<1>20. CASE ConfirmRefused
  <2>1. faults' \in 0..MaxFaults
    BY <1>20 DEF ConfirmRefused, RefusedTo, Fault
  <2> QED
    BY <1>20, <1>0, <2>1 DEF ConfirmRefused, RefusedTo
<1>21. CASE FailWithResult
  <2>1. row' \in RowType
    BY <1>21, <1>0, TypeFacts, RowSaved, Zenon DEF FailWithResult,
       WorkerWrites, SavedAs
  <2>2. handle' \in HandleType
    BY <1>21, <1>0, TypeFacts, HandleVersion, Zenon DEF FailWithResult
  <2> QED
    BY <1>21, <1>0, <2>1, <2>2 DEF FailWithResult
<1>22. CASE FailWithResultRefused
  <2>1. faults' \in 0..MaxFaults
    BY <1>22 DEF FailWithResultRefused, RefusedTo, Fault
  <2> QED
    BY <1>22, <1>0, <2>1 DEF FailWithResultRefused, RefusedTo
<1>23. CASE FailPlain
  <2>1. row' \in RowType
    BY <1>23, <1>0, TypeFacts, RowStatus, Zenon DEF FailPlain, WorkerWrites
  <2>2. handle' \in HandleType
    BY <1>23, <1>0, TypeFacts, HandleVersion, Zenon DEF FailPlain
  <2> QED
    BY <1>23, <1>0, <2>1, <2>2 DEF FailPlain
<1>24. CASE FailPlainRefused
  <2>1. faults' \in 0..MaxFaults
    BY <1>24 DEF FailPlainRefused, RefusedTo, Fault
  <2> QED
    BY <1>24, <1>0, <2>1 DEF FailPlainRefused, RefusedTo
<1>25. CASE WorkerFinish
  <2>1. faults' \in 0..MaxFaults
    BY <1>25 DEF WorkerFinish, Fault
  <2> QED
    BY <1>25, <1>0, <2>1 DEF WorkerFinish
<1>26. CASE RequestCancel
  <2>1. handle' \in HandleType
    BY <1>26, <1>0, HandleFlags, Zenon DEF RequestCancel
  <2>2. CASE row.cancelRequested
    BY <1>26, <2>1, <2>2, TypeFacts DEF RequestCancel
  <2>3. CASE ~row.cancelRequested
    <3>1. "cancelling" \in Statuses
      BY <1>0
    <3>2. row' = [row EXCEPT !.status = "cancelling",
                             !.version = row.version + 1,
                             !.cancelRequested = TRUE]
      BY <1>26, <2>3, Zenon DEF RequestCancel, WorkerWrites
    <3>3. row' \in RowType
      BY <3>1, <3>2, TypeFacts, RowCancel, Zenon
    <3> QED
      BY <1>26, <2>1, <2>3, <3>3, TypeFacts DEF RequestCancel
  <2> QED
    BY <2>2, <2>3
<1>27. CASE SyncCancel
  <2>1. handle' \in HandleType
    BY <1>27, <1>0, TypeFacts, HandleVersion, Zenon DEF SyncCancel
  <2> QED
    BY <1>27, <1>0, <2>1 DEF SyncCancel
<1>28. CASE SendCancel
  <2>1. handle' \in HandleType
    BY <1>28, <1>0, TypeFacts, HandleFlags, Zenon DEF SendCancel
  <2>2. backend' \in BackendType
    BY <1>28, <1>0, BackendUpdates, Zenon DEF SendCancel, BackendCancel
  <2> QED
    BY <1>28, <1>0, <2>1, <2>2 DEF SendCancel
<1>29. CASE HeartbeatRenews
  BY <1>29, <1>0 DEF HeartbeatRenews, taskVars
<1>30. CASE HeartbeatLost
  <2>1. backend' \in BackendType
    BY <1>30, <1>0, BackendUpdates, Zenon DEF HeartbeatLost, BackendCancel
  <2>2. faults' \in 0..MaxFaults
    BY <1>30 DEF HeartbeatLost, Fault
  <2> QED
    BY <1>30, <1>0, <2>1, <2>2 DEF HeartbeatLost
<1>31. ASSUME NEW r \in Reconcilers, RecAcquire(r) PROVE TypeInv'
  <2>1. rec' \in [Reconcilers -> RecType]
    BY <1>31, RecStepTypes DEF RecStep
  <2> QED
    BY <1>31, <1>0, <2>1 DEF RecAcquire
<1>32. ASSUME NEW r \in Reconcilers, RecClassify(r) PROVE TypeInv'
  <2>1. rec' \in [Reconcilers -> RecType]
    BY <1>32, RecStepTypes DEF RecStep
  <2> QED
    BY <1>32, <1>0, <2>1 DEF RecClassify
<1>33. ASSUME NEW r \in Reconcilers, RecSnapshot(r) PROVE TypeInv'
  <2>1. rec' \in [Reconcilers -> RecType]
    BY <1>33, RecStepTypes DEF RecStep
  <2> QED
    BY <1>33, <1>0, <2>1 DEF RecSnapshot
<1>34. ASSUME NEW r \in Reconcilers, RecWrite(r) PROVE TypeInv'
  <2>1. row' \in RowType
    <3> DEFINE o == rec[r].outcome
               st == IF o = "never_dispatched" THEN "failed" ELSE o
               nd == o = "never_dispatched"
               cc == row.cancelConfirmed \/ o = "cancelled"
    <3>1. st \in Statuses /\ nd \in BOOLEAN /\ cc \in BOOLEAN
      BY <1>0 DEF RecType, RecOutcomes, Statuses
    <3>2. row' = [row EXCEPT !.status = st, !.version = row.version + 1,
                             !.neverDispatched = nd, !.cancelConfirmed = cc]
      BY <1>34 DEF RecWrite
    <3> HIDE DEF st, nd, cc
    <3> QED
      BY <3>1, <3>2, TypeFacts, RowReconciled, Zenon
  <2>2. rec' \in [Reconcilers -> RecType]
    BY <1>34, RecStepTypes DEF RecStep
  <2> QED
    BY <1>34, <1>0, <2>1, <2>2 DEF RecWrite
<1>35. ASSUME NEW r \in Reconcilers, RecWriteRefused(r) PROVE TypeInv'
  <2>1. rec' \in [Reconcilers -> RecType]
    BY <1>35, RecStepTypes DEF RecStep
  <2> QED
    BY <1>35, <1>0, <2>1 DEF RecWriteRefused
<1>36. ASSUME NEW r \in Reconcilers, RecRelease(r) PROVE TypeInv'
  <2>1. rec' \in [Reconcilers -> RecType]
    BY <1>36, RecStepTypes DEF RecStep
  <2> QED
    BY <1>36, <1>0, <2>1 DEF RecRelease
<1>37. ASSUME NEW r \in Reconcilers, RecFault(r) PROVE TypeInv'
  <2>1. rec' \in [Reconcilers -> RecType]
    BY <1>37, RecStepTypes DEF RecStep
  <2>2. faults' \in 0..MaxFaults
    BY <1>37 DEF RecFault, Fault
  <2> QED
    BY <1>37, <1>0, <2>1, <2>2 DEF RecFault
<1>38. ASSUME NEW r \in Reconcilers, RecCrash(r) PROVE TypeInv'
  <2>1. rec' \in [Reconcilers -> RecType]
    BY <1>38, RecStepTypes DEF RecStep
  <2> QED
    BY <1>38, <1>0, <2>1 DEF RecCrash
<1>39. CASE HomeCrash
  <2>1. backend' \in BackendType
    BY <1>39, <1>0, BackendUpdates, Zenon DEF HomeCrash
  <2> QED
    BY <1>39, <1>0, <2>1 DEF HomeCrash
<1>40. CASE ClockTick
  BY <1>40, <1>0 DEF ClockTick, taskVars
<1>41. CASE UNCHANGED vars
  BY <1>41 DEF vars, taskVars
<1> QED
  BY <1>1, <1>2, <1>3, <1>4, <1>5, <1>6, <1>7, <1>8, <1>9, <1>10, <1>11,
     <1>12, <1>13, <1>14, <1>15, <1>16, <1>17, <1>18, <1>19, <1>20, <1>21,
     <1>22, <1>23, <1>24, <1>25, <1>26, <1>27, <1>28, <1>29, <1>30, <1>31,
     <1>32, <1>33, <1>34, <1>35, <1>36, <1>37, <1>38, <1>39, <1>40, <1>41
  DEF Next, WorkerStep, CancelStep, HeartbeatStep, RecStep

\* The initial state is well typed.
LEMMA TypeInvInit == Init => TypeInv
<1> SUFFICES ASSUME Init PROVE TypeInv
  OBVIOUS
<1> USE LifecycleAssumptions DEF Init
<1>1. row \in RowType
  BY DEF RowType, Statuses, ActiveStatuses
<1>2. handle \in HandleType /\ backend \in BackendType
  BY DEF HandleType, BackendType
<1>3. rec \in [Reconcilers -> RecType]
  BY DEF RecType, RecPlaces, RecOutcomes, TerminalStatuses
<1> QED
  BY <1>1, <1>2, <1>3 DEF TypeInv, TypeOK, WorkerPlaces

\* Type correctness of the lifecycle, for all of its behaviours.
THEOREM LifecycleTypeCorrect == Spec => []TypeOK
<1>1. TypeInv => TypeOK
  BY DEF TypeInv
<1> QED
  BY TypeInvInit, TypeInvStep, <1>1, PTL DEF Spec

(***************************************************************************)
(* What each action does to the row, the handle and a reconciler, field by *)
(* field                                                                   *)
(***************************************************************************)

\* The row's status and version are rewritten, the events are not.
RowBecomes(s, n) ==
  /\ row'.status = s
  /\ row'.version = n
  /\ row'.dispatched = row.dispatched
  /\ row'.neverDispatched = row.neverDispatched

\* The three updates that write a status, in terms of the next row.
LEMMA RowUpdates ==
  ASSUME TypeInv, NEW s \in Statuses, NEW n \in Nat
  PROVE  /\ row' = [row EXCEPT !.status = s, !.version = n]
              => RowBecomes(s, n)
         /\ row' = [row EXCEPT !.status = s, !.version = n,
                               !.resultAvailable = TRUE]
              => RowBecomes(s, n)
         /\ row' = [row EXCEPT !.status = s, !.version = n,
                               !.cancelConfirmed = TRUE]
              => RowBecomes(s, n)
         /\ row' = [row EXCEPT !.status = s, !.version = n,
                               !.cancelRequested = TRUE]
              => RowBecomes(s, n)
<1> USE DEF RowBecomes
<1>0. row \in RowType
  BY DEF TypeInv, TypeOK
<1>1. ASSUME row' = [row EXCEPT !.status = s, !.version = n]
      PROVE  RowBecomes(s, n)
  BY <1>0, <1>1, RowStatus, Zenon
<1>2. ASSUME row' = [row EXCEPT !.status = s, !.version = n,
                                !.resultAvailable = TRUE]
      PROVE  RowBecomes(s, n)
  BY <1>0, <1>2, RowSaved, Zenon
<1>3. ASSUME row' = [row EXCEPT !.status = s, !.version = n,
                                !.cancelConfirmed = TRUE]
      PROVE  RowBecomes(s, n)
  BY <1>0, <1>3, RowConfirmed, Zenon
<1>4. ASSUME row' = [row EXCEPT !.status = s, !.version = n,
                                !.cancelRequested = TRUE]
      PROVE  RowBecomes(s, n)
  BY <1>0, <1>4, RowCancel, Zenon
<1> QED
  BY <1>1, <1>2, <1>3, <1>4, Zenon

\* What the writers of the worker and of task_cancel do to the row.
LEMMA RowEffects ==
  ASSUME TypeInv
  PROVE  /\ ThreadStartFails =>
              row' = row \/ (row.version = handle.version
                               /\ RowBecomes("failed", row.version + 1))
         /\ StatusCommit => RowBecomes(wpc, row.version + 1)
         /\ DispatchGate => /\ row'.status = row.status
                            /\ row'.version = row.version
                            /\ row'.dispatched = TRUE
                            /\ row'.neverDispatched = row.neverDispatched
         /\ Complete => RowBecomes("completed", row.version + 2)
         /\ ConfirmCancel => RowBecomes("cancelled", row.version + 2)
         /\ FailWithResult => RowBecomes("failed", row.version + 2)
         /\ FailPlain => RowBecomes("failed", row.version + 1)
         /\ RequestCancel => \/ row' = row /\ cver' = row.version
                             \/ /\ RowBecomes("cancelling", row.version + 1)
                                /\ cver' = row.version + 1
<1>0. StatusSteps \cup {"failed", "cancelled", "cancelling", "completed"}
        \subseteq Statuses
  BY DEF Statuses, ActiveStatuses, TerminalStatuses, StatusSteps
<1>f. "failed" \in Statuses /\ "completed" \in Statuses
        /\ "cancelled" \in Statuses /\ "cancelling" \in Statuses
  BY <1>0
<1>1. ASSUME ThreadStartFails
      PROVE  row' = row \/ (row.version = handle.version
                              /\ RowBecomes("failed", row.version + 1))
  BY <1>1, <1>f, TypeFacts, RowUpdates, Zenon DEF ThreadStartFails
<1>2. ASSUME StatusCommit PROVE RowBecomes(wpc, row.version + 1)
  <2>1. wpc \in Statuses
    BY <1>2, <1>0 DEF StatusCommit
  <2> QED
    BY <1>2, <2>1, TypeFacts, RowUpdates, Zenon DEF StatusCommit, WorkerWrites
<1>3. ASSUME DispatchGate
      PROVE  /\ row'.status = row.status /\ row'.version = row.version
             /\ row'.dispatched = TRUE
             /\ row'.neverDispatched = row.neverDispatched
  BY <1>3, RowDispatched, Zenon DEF DispatchGate, WorkerWrites, TypeInv, TypeOK
<1>4. ASSUME Complete PROVE RowBecomes("completed", row.version + 2)
  BY <1>4, <1>f, TypeFacts, RowUpdates, Zenon
  DEF Complete, WorkerWrites, SavedAs
<1>5. ASSUME ConfirmCancel PROVE RowBecomes("cancelled", row.version + 2)
  BY <1>5, <1>f, TypeFacts, RowUpdates, Zenon DEF ConfirmCancel, WorkerWrites
<1>6. ASSUME FailWithResult PROVE RowBecomes("failed", row.version + 2)
  BY <1>6, <1>f, TypeFacts, RowUpdates, Zenon
  DEF FailWithResult, WorkerWrites, SavedAs
<1>7. ASSUME FailPlain PROVE RowBecomes("failed", row.version + 1)
  BY <1>7, <1>f, TypeFacts, RowUpdates, Zenon DEF FailPlain, WorkerWrites
<1>8. ASSUME RequestCancel
      PROVE  \/ row' = row /\ cver' = row.version
             \/ /\ RowBecomes("cancelling", row.version + 1)
                /\ cver' = row.version + 1
  <2>1. CASE row.cancelRequested
    BY <1>8, <2>1 DEF RequestCancel
  <2>2. CASE ~row.cancelRequested
    <3>1. /\ row' = [row EXCEPT !.status = "cancelling",
                                !.version = row.version + 1,
                                !.cancelRequested = TRUE]
          /\ cver' = row.version + 1
      BY <1>8, <2>2, Zenon DEF RequestCancel, WorkerWrites
    <3> QED
      BY <1>f, <3>1, TypeFacts, RowUpdates, Zenon
  <2> QED
    BY <2>1, <2>2
<1> QED
  BY <1>1, <1>2, <1>3, <1>4, <1>5, <1>6, <1>7, <1>8

\* The status a reconciler writes for an outcome.
WrittenFor(o) == IF o = "never_dispatched" THEN "failed" ELSE o

\* A reconciler's update, in terms of the next row.
LEMMA RowReconciledNext ==
  ASSUME row \in RowType, NEW s \in Statuses, NEW n \in Nat,
         NEW b \in BOOLEAN, NEW c \in BOOLEAN,
         row' = [row EXCEPT !.status = s, !.version = n,
                            !.neverDispatched = b, !.cancelConfirmed = c]
  PROVE  /\ row'.status = s
         /\ row'.version = n
         /\ row'.dispatched = row.dispatched
         /\ row'.neverDispatched = b
  BY Zenon DEF RowType

\* What a reconciler does to the row.
LEMMA RecRowEffect ==
  ASSUME TypeInv, NEW r \in Reconcilers, RecWrite(r)
  PROVE  /\ row'.status = WrittenFor(rec[r].outcome)
         /\ row'.status \in TerminalStatuses
         /\ row'.version = row.version + 1
         /\ row'.dispatched = row.dispatched
         /\ row'.neverDispatched <=> rec[r].outcome = "never_dispatched"
<1> DEFINE st == WrittenFor(rec[r].outcome)
<1>1. PICK nd \in BOOLEAN, cc \in BOOLEAN :
        /\ nd <=> rec[r].outcome = "never_dispatched"
        /\ row' = [row EXCEPT !.status = st, !.version = row.version + 1,
                              !.neverDispatched = nd, !.cancelConfirmed = cc]
  BY DEF RecWrite, WrittenFor
<1>2. st \in TerminalStatuses /\ st \in Statuses
  BY DEF TypeInv, TypeOK, RecType, RecOutcomes, Statuses, TerminalStatuses,
         WrittenFor
<1>3. row \in RowType
  BY DEF TypeInv, TypeOK
<1> HIDE DEF st
<1>4. /\ row'.status = st /\ row'.version = row.version + 1
      /\ row'.dispatched = row.dispatched /\ row'.neverDispatched = nd
  BY <1>1, <1>2, <1>3, TypeFacts, RowReconciledNext, Zenon
<1>5. row'.status \in TerminalStatuses
  BY <1>2, <1>4, Zenon
<1> QED
  BY <1>1, <1>4, <1>5, Zenon DEF st

\* The handle's version and lease flag after a step.
HandleBecomes(v, l) == handle'.version = v /\ handle'.leased = l

\* What each action that touches the handle does to it.
LEMMA HandleEffects ==
  ASSUME TypeInv
  PROVE  /\ WorkerAcquire => HandleBecomes(handle.version, TRUE)
         /\ StatusBump => HandleBecomes(handle.version + 1, handle.leased)
         /\ StatusResync => handle' = handle
              \/ HandleBecomes(row.version, handle.leased)
         /\ BackendResult \/ RequestCancel \/ SendCancel
              => HandleBecomes(handle.version, handle.leased)
         /\ Complete \/ ConfirmCancel \/ FailWithResult \/ FailPlain
              => handle'.leased = handle.leased
         /\ SyncCancel => HandleBecomes(cver, handle.leased)
<1> USE DEF HandleBecomes
<1>0. handle \in HandleType /\ cver \in Nat
  BY DEF TypeInv, TypeOK
<1>1. ASSUME WorkerAcquire PROVE HandleBecomes(handle.version, TRUE)
  BY <1>0, <1>1, HandleFlags, Zenon DEF WorkerAcquire
<1>2. ASSUME StatusBump PROVE HandleBecomes(handle.version + 1, handle.leased)
  BY <1>0, <1>2, TypeFacts, HandleVersion, Zenon DEF StatusBump
<1>3. ASSUME StatusResync
      PROVE  handle' = handle \/ HandleBecomes(row.version, handle.leased)
  <2>1. CASE row.cancelRequested
    <3>1. handle' = [handle EXCEPT !.version = row.version]
      BY <1>3, <2>1 DEF StatusResync
    <3> QED
      BY <1>0, <3>1, TypeFacts, HandleVersion, Zenon
  <2>2. CASE ~row.cancelRequested
    BY <1>3, <2>2 DEF StatusResync
  <2> QED
    BY <2>1, <2>2
<1>4. ASSUME BackendResult PROVE HandleBecomes(handle.version, handle.leased)
  BY <1>0, <1>4, HandleFlags, Zenon DEF BackendResult
<1>5. ASSUME RequestCancel PROVE HandleBecomes(handle.version, handle.leased)
  BY <1>0, <1>5, HandleFlags, Zenon DEF RequestCancel
<1>6. ASSUME SendCancel PROVE HandleBecomes(handle.version, handle.leased)
  <2>1. PICK b \in BOOLEAN : handle' = [handle EXCEPT !.transportSent = b]
    BY <1>6 DEF SendCancel
  <2> QED
    BY <1>0, <2>1, HandleFlags, Zenon
<1>7. ASSUME Complete \/ ConfirmCancel \/ FailWithResult \/ FailPlain
      PROVE  handle'.leased = handle.leased
  <2>1. \/ handle' = [handle EXCEPT !.version = handle.version + 1]
        \/ handle' = [handle EXCEPT !.version = handle.version + 2]
    BY <1>7 DEF Complete, ConfirmCancel, FailWithResult, FailPlain
  <2> QED
    BY <1>0, <2>1, SMT DEF HandleType
<1>8. ASSUME SyncCancel PROVE HandleBecomes(cver, handle.leased)
  BY <1>0, <1>8, HandleVersion, Zenon DEF SyncCancel
<1> QED
  BY <1>1, <1>2, <1>3, <1>4, <1>5, <1>6, <1>7, <1>8

\* A reconciler's updates, in terms of its next entry.
LEMMA RecNext ==
  ASSUME rec \in [Reconcilers -> RecType], NEW r \in Reconcilers,
         NEW p \in RecPlaces
  PROVE  /\ \A o \in RecOutcomes :
              rec' = [rec EXCEPT ![r].pc = p, ![r].outcome = o] =>
                /\ rec'[r].pc = p /\ rec'[r].outcome = o
                /\ \A x \in Reconcilers \ {r} : rec'[x] = rec[x]
         /\ \A n \in Nat :
              rec' = [rec EXCEPT ![r].pc = p, ![r].version = n] =>
                /\ rec'[r].pc = p /\ rec'[r].version = n
                /\ rec'[r].outcome = rec[r].outcome
                /\ \A x \in Reconcilers \ {r} : rec'[x] = rec[x]
         /\ \A n \in 0..2 :
              rec' = [rec EXCEPT ![r].pc = p, ![r].tries = n] =>
                /\ rec'[r].pc = p
                /\ rec'[r].outcome = rec[r].outcome
                /\ \A x \in Reconcilers \ {r} : rec'[x] = rec[x]
<1>1. ASSUME NEW o \in RecOutcomes,
             rec' = [rec EXCEPT ![r].pc = p, ![r].outcome = o]
      PROVE  /\ rec'[r].pc = p /\ rec'[r].outcome = o
             /\ \A x \in Reconcilers \ {r} : rec'[x] = rec[x]
  BY <1>1, Zenon DEF RecType
<1>2. ASSUME NEW n \in Nat,
             rec' = [rec EXCEPT ![r].pc = p, ![r].version = n]
      PROVE  /\ rec'[r].pc = p /\ rec'[r].version = n
             /\ rec'[r].outcome = rec[r].outcome
             /\ \A x \in Reconcilers \ {r} : rec'[x] = rec[x]
  BY <1>2, Zenon DEF RecType
<1>3. ASSUME NEW n \in 0..2,
             rec' = [rec EXCEPT ![r].pc = p, ![r].tries = n]
      PROVE  /\ rec'[r].pc = p
             /\ rec'[r].outcome = rec[r].outcome
             /\ \A x \in Reconcilers \ {r} : rec'[x] = rec[x]
  BY <1>3, Zenon DEF RecType
<1> QED
  BY <1>1, <1>2, <1>3

\* What a reconciler's step does to its entry, and that it leaves the others.
LEMMA RecEffects ==
  ASSUME TypeInv, NEW r \in Reconcilers, RecStep(r)
  PROVE  /\ \A x \in Reconcilers \ {r} : rec'[x] = rec[x]
         /\ \/ rec'[r].pc \in {"read", "release", "gone"}
            \/ /\ rec[r].pc = "read" /\ RecClassify(r)
               /\ rec'[r].pc = "snapshot"
               /\ rec'[r].outcome \in (IF row.dispatched
                                          THEN TerminalStatuses
                                          ELSE {"never_dispatched"})
            \/ /\ rec[r].pc = "snapshot" /\ RecSnapshot(r)
               /\ rec'[r].pc = "write"
               /\ rec'[r].outcome = rec[r].outcome
               /\ rec'[r].version = row.version
               /\ ~Terminal(row.status)
            \/ /\ rec[r].pc = "write" /\ RecWriteRefused(r)
               /\ rec'[r].pc = "snapshot"
               /\ rec'[r].outcome = rec[r].outcome
<1> DEFINE Others == \A x \in Reconcilers \ {r} : rec'[x] = rec[x]
<1> HIDE DEF Others
<1>0. rec \in [Reconcilers -> RecType] /\ row.version \in Nat
  BY TypeFacts DEF TypeInv, TypeOK
<1>p. /\ "read" \in RecPlaces /\ "snapshot" \in RecPlaces
      /\ "write" \in RecPlaces /\ "release" \in RecPlaces
      /\ "gone" \in RecPlaces
  BY DEF RecPlaces
<1>1. ASSUME NEW p \in RecPlaces, rec' = [rec EXCEPT ![r].pc = p]
      PROVE  rec'[r].pc = p /\ Others
  BY <1>0, <1>1, RecPc, Zenon DEF Others
<1>2. CASE RecClassify(r)
  <2>1. CASE Terminal(row.status)
    BY <1>2, <2>1, <1>p, <1>1 DEF RecClassify, Others
  <2>2. CASE ~Terminal(row.status)
    <3>1. PICK o \in (IF row.dispatched THEN ReconcileOutcomes
                                        ELSE {"never_dispatched"}) :
            rec' = [rec EXCEPT ![r].pc = "snapshot", ![r].outcome = o]
      BY <1>2, <2>2, Zenon DEF RecClassify
    <3>2. o \in RecOutcomes /\ (row.dispatched => o \in TerminalStatuses)
          /\ (~row.dispatched => o = "never_dispatched")
      BY LifecycleAssumptions DEF RecOutcomes
    <3>3. rec'[r].pc = "snapshot" /\ rec'[r].outcome = o /\ Others
      BY <1>0, <1>p, <3>1, <3>2, RecNext, Zenon DEF Others
    <3> QED
      BY <1>2, <3>2, <3>3 DEF RecClassify, Others
  <2> QED
    BY <2>1, <2>2
<1>3. CASE RecSnapshot(r)
  <2> DEFINE p == IF Terminal(row.status) THEN "release" ELSE "write"
  <2>1. p \in RecPlaces
    BY <1>p
  <2>2. rec' = [rec EXCEPT ![r].pc = p, ![r].version = row.version]
    BY <1>3 DEF RecSnapshot
  <2> HIDE DEF p
  <2>3. /\ rec'[r].pc = p /\ rec'[r].version = row.version
        /\ rec'[r].outcome = rec[r].outcome /\ Others
    BY <1>0, <2>1, <2>2, RecNext, Zenon DEF Others
  <2> QED
    BY <1>3, <2>3 DEF RecSnapshot, Others, p
<1>4. CASE RecWriteRefused(r)
  <2> DEFINE n == rec[r].tries + 1
  <2>1. rec[r].tries < 2 => n \in 0..2
    BY <1>0 DEF RecType
  <2>2. \/ rec' = [rec EXCEPT ![r].pc = "release"]
        \/ /\ rec[r].tries < 2
           /\ rec' = [rec EXCEPT ![r].pc = "snapshot", ![r].tries = n]
    BY <1>4, Zenon DEF RecWriteRefused
  <2> HIDE DEF n
  <2>3. CASE rec' = [rec EXCEPT ![r].pc = "release"]
    BY <2>3, <1>p, <1>1 DEF Others
  <2>4. CASE /\ rec[r].tries < 2
             /\ rec' = [rec EXCEPT ![r].pc = "snapshot", ![r].tries = n]
    <3>1. /\ rec'[r].pc = "snapshot" /\ rec'[r].outcome = rec[r].outcome
          /\ Others
      BY <1>0, <2>1, <2>4, <1>p, RecNext, Zenon DEF Others
    <3> QED
      BY <1>4, <3>1 DEF RecWriteRefused, Others
  <2> QED
    BY <2>2, <2>3, <2>4
<1>5. CASE RecAcquire(r)
  <2>1. \/ rec' = [rec EXCEPT ![r].pc = "read"]
        \/ rec' = [rec EXCEPT ![r].pc = "gone"]
    BY <1>5 DEF RecAcquire
  <2>2. rec'[r].pc \in {"read", "gone"} /\ Others
    BY <2>1, <1>p, <1>1
  <2> QED
    BY <2>2 DEF Others
<1>6. CASE RecWrite(r) \/ RecFault(r) \/ RecRelease(r) \/ RecCrash(r)
  <2>1. \/ rec' = [rec EXCEPT ![r].pc = "release"]
        \/ rec' = [rec EXCEPT ![r].pc = "gone"]
    BY <1>6 DEF RecWrite, RecFault, RecRelease, RecCrash
  <2>2. rec'[r].pc \in {"release", "gone"} /\ Others
    BY <2>1, <1>p, <1>1
  <2> QED
    BY <2>2 DEF Others
<1> QED
  BY <1>2, <1>3, <1>4, <1>5, <1>6 DEF RecStep

(***************************************************************************)
(* Who changes what                                                        *)
(***************************************************************************)
RowWriters ==
  \/ ThreadStartFails \/ StatusCommit \/ DispatchGate
  \/ Complete \/ ConfirmCancel \/ FailWithResult \/ FailPlain
  \/ RequestCancel
  \/ \E r \in Reconcilers : RecWrite(r)

HandleWriters ==
  \/ WorkerAcquire \/ StatusBump \/ StatusResync \/ BackendResult
  \/ Complete \/ ConfirmCancel \/ FailWithResult \/ FailPlain
  \/ RequestCancel \/ SyncCancel \/ SendCancel

LeaseTakers ==
  \/ WorkerAcquire \/ WorkerFinish \/ HomeCrash
  \/ \E r \in Reconcilers : RecAcquire(r) /\ Acquire(r)

\* The lease transactions that hand out or take away no generation of the
\* worker's.
LeaseQuiet ==
  \/ UNCHANGED leaseVars \/ Tick
  \/ FencedWrite(Worker) \/ Renew(Worker)
  \/ \E r \in Reconcilers : FencedWrite(r) \/ Release(r) \/ Forget(r)

BackendWriters ==
  \/ StatusResync \/ StatusRefused \/ Register \/ DispatchRefused \/ SendPrompt
  \/ BackendResult \/ BackendCancelled \/ BackendFails
  \/ SendCancel \/ HeartbeatLost \/ HomeCrash

\* Every variable has its writers, and every other step leaves it alone.
LEMMA Frame ==
  [Next]_vars =>
    /\ row' = row \/ RowWriters
    /\ handle' = handle \/ HandleWriters
    /\ (cpc' = cpc /\ cver' = cver) \/ CancelStep \/ cpc' = "idle"
    /\ rec' = rec \/ \E r \in Reconcilers : RecStep(r)
    /\ (wpc' = wpc /\ wsub' = wsub) \/ WorkerStep \/ HomeCrash
    /\ backend' = backend \/ BackendWriters
    /\ LeaseQuiet \/ LeaseTakers
<1> SUFFICES ASSUME [Next]_vars
             PROVE  /\ row' = row \/ RowWriters
                    /\ handle' = handle \/ HandleWriters
                    /\ \/ cpc' = cpc /\ cver' = cver
                       \/ CancelStep \/ cpc' = "idle"
                    /\ rec' = rec \/ \E r \in Reconcilers : RecStep(r)
                    /\ \/ wpc' = wpc /\ wsub' = wsub
                       \/ WorkerStep \/ HomeCrash
                    /\ backend' = backend \/ BackendWriters
                    /\ LeaseQuiet \/ LeaseTakers
  OBVIOUS
<1> USE DEF Next, vars, taskVars, WorkerAcquire, WorkerRefused,
        WorkerAcquireFault, ThreadStartFails, StatusCommit, StatusBump,
        StatusConflict, StatusResync, StatusRefused, Register, DispatchGate,
        DispatchRefused, SendPrompt, BackendResult, BackendCancelled,
        BackendFails, Complete, CompleteRefused, ConfirmCancel, ConfirmRefused,
        FailWithResult, FailWithResultRefused, FailPlain, FailPlainRefused,
        WorkerFinish, RequestCancel, SyncCancel, SendCancel, HeartbeatStep,
        HeartbeatRenews, HeartbeatLost, RecAcquire, RecClassify, RecSnapshot,
        RecWrite, RecWriteRefused, RecRelease, RecFault, RecCrash, HomeCrash,
        ClockTick
<1>1. row' = row \/ RowWriters
  BY DEF WorkerStep, CancelStep, RecStep, RowWriters
<1>2. handle' = handle \/ HandleWriters
  BY DEF WorkerStep, CancelStep, RecStep, HandleWriters
<1>3. (cpc' = cpc /\ cver' = cver) \/ CancelStep \/ cpc' = "idle"
  BY DEF WorkerStep, RecStep
<1>4. rec' = rec \/ \E r \in Reconcilers : RecStep(r)
  BY DEF WorkerStep, CancelStep
<1>5. (wpc' = wpc /\ wsub' = wsub) \/ WorkerStep \/ HomeCrash
  BY DEF CancelStep, RecStep
<1>6. backend' = backend \/ BackendWriters
  BY DEF WorkerStep, CancelStep, RecStep, BackendWriters
<1>7. LeaseQuiet \/ LeaseTakers
  BY DEF WorkerStep, CancelStep, RecStep, WorkerWrites, LeaseQuiet, LeaseTakers
<1> QED
  BY <1>1, <1>2, <1>3, <1>4, <1>5, <1>6, <1>7

\* Only SendPrompt prompts.
LEMMA PromptFrame ==
  TypeInv /\ [Next]_vars
    => backend'.prompted = backend.prompted \/ SendPrompt
<1> SUFFICES ASSUME TypeInv, [Next]_vars, ~SendPrompt
             PROVE  backend'.prompted = backend.prompted
  OBVIOUS
<1>1. backend \in BackendType
  BY DEF TypeInv, TypeOK
<1>2. \/ backend' = backend
      \/ backend' = [backend EXCEPT !.live = FALSE]
      \/ backend' = [backend EXCEPT !.cancelled = TRUE]
      \/ backend' = [backend EXCEPT !.pending = TRUE]
      \/ \E b \in BOOLEAN :
           backend' = [backend EXCEPT !.live = b, !.pending = FALSE]
  <2>1. CASE Register
    BY <2>1 DEF Register
  <2>2. CASE BackendWriters /\ ~Register
    BY <2>2 DEF BackendWriters, StatusResync, StatusRefused, DispatchRefused,
       BackendResult, BackendCancelled, BackendFails, SendCancel,
       HeartbeatLost, HomeCrash, Unregister, BackendCancel
  <2> QED
    BY <2>1, <2>2, Frame
<1>3. \A b \in BOOLEAN :
        [backend EXCEPT !.live = b, !.pending = FALSE].prompted
          = backend.prompted
  BY <1>1, BackendUpdates, Zenon
<1>4. /\ [backend EXCEPT !.live = FALSE].prompted = backend.prompted
      /\ [backend EXCEPT !.cancelled = TRUE].prompted = backend.prompted
      /\ [backend EXCEPT !.pending = TRUE].prompted = backend.prompted
  BY <1>1, BackendUpdates, TRUE \in BOOLEAN, Zenon
<1> QED
  BY <1>2, <1>3, <1>4, Zenon

\* Unless one of LeaseTakers ran, the worker's generation and the row's stay.
LEMMA GenerationFrame ==
  LeaseTypeOK /\ [Next]_vars =>
    \/ held'[Worker] = held[Worker] /\ generation' = generation
    \/ LeaseTakers
<1> SUFFICES ASSUME LeaseTypeOK, LeaseQuiet
             PROVE  held'[Worker] = held[Worker] /\ generation' = generation
  BY Frame
<1> QED
  BY LifecycleAssumptions
  DEF LeaseQuiet, LeaseTypeOK, leaseVars, Tick, FencedWrite, Renew, Release,
      Forget

(***************************************************************************)
(* The versions the actors carry                                           *)
(***************************************************************************)
QuietRow == row'.status = row.status /\ row'.version = row.version

\* The row keeps its status and version or gets a higher version, and it only
\* turns terminal as the worker's last write or by a reconciler's.
LEMMA RowMoves ==
  TypeInv /\ [Next]_vars =>
    /\ row'.version \in Nat
    /\ QuietRow \/ row'.version > row.version
    /\ Terminal(row'.status) => \/ QuietRow
                                \/ wpc' \in {"finish", "done"}
                                \/ \E r \in Reconcilers : RecWrite(r)
<1> SUFFICES ASSUME TypeInv, [Next]_vars
             PROVE  /\ row'.version \in Nat
                    /\ QuietRow \/ row'.version > row.version
                    /\ Terminal(row'.status) =>
                         \/ QuietRow
                         \/ wpc' \in {"finish", "done"}
                         \/ \E r \in Reconcilers : RecWrite(r)
  OBVIOUS
<1> USE RowEffects, TypeFacts DEF RowBecomes, QuietRow
<1>1. CASE row' = row
  BY <1>1
<1>2. CASE ThreadStartFails
  <2>1. wpc' = "done"
    BY <1>2 DEF ThreadStartFails
  <2> QED
    BY <1>2, <2>1
<1>3. CASE StatusCommit
  <2>1. wpc \in StatusSteps
    BY <1>3 DEF StatusCommit
  <2>2. ~Terminal(wpc)
    BY <2>1 DEF StatusSteps, Terminal, TerminalStatuses
  <2> QED
    BY <1>3, <2>2
<1>4. CASE DispatchGate
  BY <1>4
<1>5. CASE Complete \/ ConfirmCancel \/ FailWithResult \/ FailPlain
  <2>1. wpc' = "finish"
    BY <1>5 DEF Complete, ConfirmCancel, FailWithResult, FailPlain
  <2> QED
    BY <1>5, <2>1
<1>6. CASE RequestCancel
  BY <1>6 DEF Terminal, TerminalStatuses
<1>7. ASSUME NEW r \in Reconcilers, RecWrite(r)
      PROVE  row'.version \in Nat /\ row'.version > row.version
  BY <1>7, RecRowEffect
<1> QED
  BY <1>1, <1>2, <1>3, <1>4, <1>5, <1>6, <1>7, Frame DEF RowWriters

\* A version that is behind stays behind, whatever happens to the row.
LEMMA BehindStays ==
  ASSUME TypeInv, [Next]_vars, NEW v \in Nat, Behind(v)
  PROVE  v <= row'.version /\ (Terminal(row'.status) => v < row'.version)
<1>1. /\ QuietRow \/ row'.version > row.version
      /\ row'.version \in Nat /\ row.version \in Nat
  BY RowMoves, TypeFacts
<1> QED
  BY <1>1 DEF Behind, QuietRow

\* What the cancel thread carries: request_cancel returns the row's version.
LEMMA CancelCarries ==
  ASSUME TypeInv, CarriedInv, [Next]_vars, cpc' = "sync"
  PROVE  cver' <= row'.version /\ (Terminal(row'.status) => cver' < row'.version)
<1>1. CASE RequestCancel
  <2>1. ~Terminal(row.status)
    BY <1>1 DEF RequestCancel
  <2> QED
    BY <1>1, <2>1, RowEffects, TypeFacts
    DEF RowBecomes, Terminal, TerminalStatuses
<1>2. CASE cpc' = cpc /\ cver' = cver
  <2>1. cver \in Nat /\ Behind(cver)
    BY <1>2 DEF TypeInv, TypeOK, CarriedInv
  <2> QED
    BY <1>2, <2>1, BehindStays
<1>3. ~SyncCancel /\ ~SendCancel
  BY DEF SyncCancel, SendCancel
<1> QED
  BY <1>1, <1>2, <1>3, Frame DEF CancelStep

\* What a reconciler carries: the version of a row that was active.
LEMMA RecCarries ==
  ASSUME TypeInv, CarriedInv, [Next]_vars,
         NEW r \in Reconcilers, rec'[r].pc = "write"
  PROVE  /\ rec'[r].version <= row'.version
         /\ Terminal(row'.status) => rec'[r].version < row'.version
<1>1. CASE rec'[r] = rec[r]
  <2>1. Behind(rec[r].version)
    BY <1>1 DEF CarriedInv
  <2>2. rec[r].version \in Nat
    BY Zenon DEF TypeInv, TypeOK, RecType
  <2> QED
    BY <1>1, <2>1, <2>2, BehindStays
<1>2. CASE RecSnapshot(r)
  <2>1. RecStep(r)
    BY <1>2 DEF RecStep
  <2>2. rec'[r].version = row.version /\ ~Terminal(row.status)
    BY <2>1, RecEffects
  <2>3. row' = row
    BY <1>2 DEF RecSnapshot
  <2> QED
    BY <2>2, <2>3, TypeFacts
<1>3. ASSUME NEW x \in Reconcilers, RecStep(x)
      PROVE  rec'[r] = rec[r] \/ RecSnapshot(r)
  BY <1>3, RecEffects
<1> QED
  BY <1>1, <1>2, <1>3, Frame

\* Where the worker can come from.
LEMMA WorkerMoves ==
  ASSUME TypeInv, [Next]_vars, wpc' \in Writing
  PROVE  /\ wpc \in Writing
         /\ wpc' = "spawned" => wpc = "spawned"
         /\ wpc \in {"fail", "fail_plain"} => wpc' \in {"fail", "fail_plain"}
         /\ wpc = "spawned" => wpc' \in {"spawned", "fail"} \/ WorkerAcquire
         /\ \/ wsub' = wsub \/ wsub' = "do"
            \/ StatusCommit \/ (StatusConflict /\ row' = row)
<1> DEFINE Goal == /\ wpc \in Writing
                   /\ wpc' = "spawned" => wpc = "spawned"
                   /\ wpc \in {"fail", "fail_plain"}
                        => wpc' \in {"fail", "fail_plain"}
                   /\ wpc = "spawned"
                        => wpc' \in {"spawned", "fail"} \/ WorkerAcquire
                   /\ \/ wsub' = wsub \/ wsub' = "do"
                      \/ StatusCommit \/ (StatusConflict /\ row' = row)
<1>0. /\ wpc' \notin {"finish", "done", "dead"} /\ wpc \in WorkerPlaces
      /\ wsub # "do" => wpc \in StatusSteps
  BY DEF Writing, TypeInv, TypeOK
<1> USE <1>0 DEF Writing, StatusSteps
<1>1. CASE WorkerAcquire \/ WorkerRefused \/ WorkerAcquireFault \/ ThreadStartFails
  BY <1>1 DEF WorkerAcquire, WorkerRefused, WorkerAcquireFault, ThreadStartFails
<1>2. CASE StatusCommit \/ StatusConflict
  BY <1>2 DEF StatusCommit, StatusConflict
<1>3. CASE StatusBump \/ StatusResync \/ StatusRefused
  BY <1>3 DEF StatusBump, StatusResync, StatusRefused, After
<1>4. CASE Register \/ DispatchGate \/ DispatchRefused \/ SendPrompt
  BY <1>4 DEF Register, DispatchGate, DispatchRefused, SendPrompt
<1>5. CASE BackendResult \/ BackendCancelled \/ BackendFails
  BY <1>5 DEF BackendResult, BackendCancelled, BackendFails
<1>6. CASE Complete \/ CompleteRefused \/ ConfirmCancel \/ ConfirmRefused
  BY <1>6 DEF Complete, CompleteRefused, ConfirmCancel, ConfirmRefused, RefusedTo
<1>7. CASE FailWithResult \/ FailWithResultRefused \/ FailPlain \/ FailPlainRefused
  BY <1>7 DEF FailWithResult, FailWithResultRefused, FailPlain,
     FailPlainRefused, RefusedTo
<1>8. CASE WorkerFinish \/ HomeCrash
  BY <1>8 DEF WorkerFinish, HomeCrash
<1>9. CASE wpc' = wpc /\ wsub' = wsub
  BY <1>9
<1> QED
  BY <1>1, <1>2, <1>3, <1>4, <1>5, <1>6, <1>7, <1>8, <1>9, Frame DEF WorkerStep

\* Where the handle's version and lease flag can come from.
LEMMA HandleMoves ==
  ASSUME TypeInv, [Next]_vars
  PROVE  /\ handle'.leased = handle.leased
              \/ (WorkerAcquire /\ handle'.leased = TRUE)
         /\ \/ handle'.version = handle.version
            \/ cpc = "sync" /\ handle'.version = cver
            \/ wsub # "do"
            \/ wpc' = "finish"
<1> USE HandleEffects DEF HandleBecomes
<1>1. CASE handle' = handle
  BY <1>1
<1>2. CASE WorkerAcquire
  BY <1>2
<1>3. CASE StatusBump \/ StatusResync
  <2>1. wsub # "do"
    BY <1>3 DEF StatusBump, StatusResync
  <2> QED
    BY <1>3, <2>1
<1>4. CASE BackendResult \/ RequestCancel \/ SendCancel
  BY <1>4
<1>5. CASE Complete \/ ConfirmCancel \/ FailWithResult \/ FailPlain
  <2>1. wpc' = "finish"
    BY <1>5 DEF Complete, ConfirmCancel, FailWithResult, FailPlain
  <2> QED
    BY <1>5, <2>1
<1>6. CASE SyncCancel
  <2>1. cpc = "sync"
    BY <1>6 DEF SyncCancel
  <2> QED
    BY <1>6, <2>1
<1> QED
  BY <1>1, <1>2, <1>3, <1>4, <1>5, <1>6, Frame DEF HandleWriters

\* A worker that never had a lease wrote nothing.
LEMMA UnleasedStep ==
  TypeInv /\ VersionInv /\ [Next]_vars => UnleasedInv'
<1> SUFFICES ASSUME TypeInv, VersionInv, [Next]_vars,
                    wpc' \in Writing, ~handle'.leased
             PROVE  /\ wpc' \in {"spawned", "fail", "fail_plain"}
                    /\ wsub' = "do"
                    /\ handle'.version <= row'.version
                    /\ Terminal(row'.status) => handle'.version < row'.version
  BY DEF UnleasedInv, Behind, Writing
<1>1. ~handle.leased /\ ~WorkerAcquire /\ wpc \in Writing
  BY HandleMoves, HandleEffects, WorkerMoves DEF HandleBecomes
<1>2. wpc \in {"spawned", "fail", "fail_plain"} /\ wsub = "do" /\ Behind(handle.version)
  BY <1>1 DEF VersionInv, UnleasedInv
<1>3. wpc' \in {"spawned", "fail", "fail_plain"}
  BY <1>1, <1>2, WorkerMoves
<1>4. wsub' = "do"
  <2>1. ~StatusCommit /\ ~StatusConflict
    BY <1>2 DEF StatusCommit, StatusConflict, StatusSteps
  <2> QED
    BY <1>2, <2>1, WorkerMoves
<1>5. /\ handle'.version \in Nat /\ Behind(handle'.version)
  <2>1. wpc' # "finish"
    BY DEF Writing
  <2>2. CASE handle'.version = handle.version
    BY <1>2, <2>2, TypeFacts DEF Behind
  <2>3. CASE cpc = "sync" /\ handle'.version = cver
    BY <2>3 DEF VersionInv, CarriedInv, TypeInv, TypeOK, Behind
  <2> QED
    BY <1>2, <2>1, <2>2, <2>3, HandleMoves
<1>6. /\ handle'.version <= row'.version
      /\ Terminal(row'.status) => handle'.version < row'.version
  BY <1>5, BehindStays
<1> QED
  BY <1>3, <1>4, <1>6

\* A worker whose generation is the row's is behind every terminal row.
LEMMA LeasedStep ==
  LeaseInv /\ TypeInv /\ VersionInv /\ [Next]_vars => LeasedInv'
<1> SUFFICES ASSUME LeaseInv, TypeInv, VersionInv, [Next]_vars,
                    wpc' \in Writing, handle'.leased
             PROVE  /\ wpc' # "spawned"
                    /\ held'[Worker] = generation' /\ Terminal(row'.status)
                         => wsub' = "do" /\ handle'.version < row'.version
  BY DEF LeasedInv, Writing
<1>1. CASE WorkerAcquire
  <2>1. wpc = "spawned" /\ wpc' = "connecting" /\ row' = row /\ wsub' = wsub
    BY <1>1 DEF WorkerAcquire
  <2>2. wpc \in Writing
    BY WorkerMoves
  <2>3. wsub = "do" /\ Behind(handle.version)
    BY <2>1, <2>2 DEF VersionInv, UnleasedInv, LeasedInv
  <2> QED
    BY <1>1, <2>1, <2>3, HandleEffects DEF HandleBecomes, Behind
<1>2. CASE ~WorkerAcquire
  <2>1. wpc \in Writing /\ wpc # "spawned" /\ wpc' # "spawned" /\ handle.leased
    BY <1>2, WorkerMoves, HandleMoves DEF VersionInv, LeasedInv
  <2> SUFFICES ASSUME held'[Worker] = generation', Terminal(row'.status)
               PROVE  wsub' = "do" /\ handle'.version < row'.version
    BY <2>1
  <2>2. held[Worker] = generation
    <3>1. wpc' \notin {"done", "dead"}
      BY DEF Writing
    <3>2. ~WorkerFinish /\ ~HomeCrash
      BY <3>1 DEF WorkerFinish, HomeCrash
    <3>3. ASSUME NEW r \in Reconcilers, Acquire(r) PROVE FALSE
      BY <3>3, LifecycleAssumptions
      DEF Acquire, LeaseInv, LeaseTypeOK, GenerationInv, GenerationsDistinct
    <3> QED
      BY <1>2, <3>2, <3>3, GenerationFrame DEF LeaseTakers, LeaseInv
  <2>3. ASSUME NEW r \in Reconcilers, RecWrite(r) PROVE FALSE
    <3>1. held[r] # 0 /\ held[r] = generation
      BY <2>3 DEF RecWrite, RecMatches, Fenced
    <3> QED
      BY <2>2, <3>1, LifecycleAssumptions
      DEF LeaseInv, GenerationInv, GenerationsDistinct
  <2>4. QuietRow /\ Terminal(row.status)
    BY <2>3, RowMoves DEF QuietRow, Writing
  <2>5. wsub = "do" /\ handle.version < row.version
    BY <2>1, <2>2, <2>4 DEF VersionInv, LeasedInv
  <2>6. wsub' = "do"
    <3>1. ~StatusConflict
      BY <2>4 DEF StatusConflict
    <3>2. ASSUME StatusCommit PROVE FALSE
      <4>1. row'.status \in StatusSteps
        BY <3>2, RowEffects DEF RowBecomes, StatusCommit
      <4> QED
        BY <4>1 DEF Terminal, TerminalStatuses, StatusSteps
    <3> QED
      BY <2>5, <3>1, <3>2, WorkerMoves
  <2>7. handle'.version < row'.version
    <3>1. wpc' # "finish"
      BY DEF Writing
    <3>2. CASE handle'.version = handle.version
      BY <2>4, <2>5, <3>2 DEF QuietRow
    <3>3. CASE cpc = "sync" /\ handle'.version = cver
      BY <2>4, <3>3 DEF QuietRow, VersionInv, CarriedInv, Behind
    <3> QED
      BY <2>5, <3>1, <3>2, <3>3, HandleMoves
  <2> QED
    BY <2>6, <2>7
<1> QED
  BY <1>1, <1>2

\* All of VersionInv is preserved.
LEMMA VersionInvStep ==
  LeaseInv /\ TypeInv /\ VersionInv /\ [Next]_vars => VersionInv'
<1> SUFFICES ASSUME LeaseInv, TypeInv, VersionInv, [Next]_vars
             PROVE  VersionInv'
  OBVIOUS
<1>1. CarriedInv'
  BY CancelCarries, RecCarries DEF VersionInv, CarriedInv, Behind
<1> QED
  BY <1>1, UnleasedStep, LeasedStep DEF VersionInv

(***************************************************************************)
(* A terminal row is final                                                 *)
(***************************************************************************)

\* Every writer finds its version behind a terminal row, or is told.
LEMMA TerminalRowStays ==
  ASSUME LeaseInv, TypeInv, VersionInv, [Next]_vars, Terminal(row.status)
  PROVE  row' = row
<1> SUFFICES ASSUME RowWriters PROVE row' = row
  BY Frame
<1>w. WorkerFence /\ handle.leased => held[Worker] = generation
  BY DEF WorkerFence, Fenced
<1>1. CASE ThreadStartFails
  <2>1. wpc = "spawned" /\ wpc \in Writing
    BY <1>1 DEF ThreadStartFails, Writing, WorkerPlaces
  <2>2. handle.version < row.version
    BY <2>1 DEF VersionInv, UnleasedInv, LeasedInv, Behind
  <2> QED
    BY <1>1, <2>2, TypeFacts DEF ThreadStartFails
<1>2. CASE StatusCommit
  <2>1. wpc \in StatusSteps /\ WorkerFence /\ row.version = handle.version
    BY <1>2 DEF StatusCommit
  <2>2. wpc \in Writing /\ wpc \notin {"spawned", "fail", "fail_plain"}
    BY <2>1 DEF Writing, WorkerPlaces, StatusSteps
  <2>3. handle.leased /\ handle.version < row.version
    BY <1>w, <2>1, <2>2 DEF VersionInv, UnleasedInv, LeasedInv
  <2> QED
    BY <2>1, <2>3, TypeFacts
<1>3. CASE DispatchGate \/ Complete \/ FailWithResult \/ RequestCancel
  BY <1>3 DEF DispatchGate, GateOpen, Complete, FailWithResult, ResultMatches,
     RequestCancel
<1>4. CASE ConfirmCancel \/ FailPlain
  <2>1. /\ wpc \in {"confirm", "fail_plain"}
        /\ WorkerFence /\ row.version = handle.version
    BY <1>4 DEF ConfirmCancel, FailPlain
  <2>2. wpc \in Writing
    BY <2>1 DEF Writing, WorkerPlaces
  <2>3. handle.version < row.version
    BY <1>w, <2>1, <2>2 DEF VersionInv, UnleasedInv, LeasedInv, Behind
  <2> QED
    BY <2>1, <2>3, TypeFacts
<1>5. ASSUME NEW r \in Reconcilers, RecWrite(r) PROVE row' = row
  <2>1. rec[r].pc = "write" /\ row.version = rec[r].version
    BY <1>5 DEF RecWrite, RecMatches
  <2>2. rec[r].version < row.version
    BY <2>1 DEF VersionInv, CarriedInv, Behind
  <2> QED
    BY <2>1, <2>2, TypeFacts
<1> QED
  BY <1>1, <1>2, <1>3, <1>4, <1>5 DEF RowWriters

\* The versions start in step with the row.
LEMMA VersionInvInit == Init => VersionInv
  BY DEF Init, VersionInv, UnleasedInv, LeasedInv, CarriedInv, Behind,
     Terminal, TerminalStatuses

\* The invariant that TerminalStable rests on.
THEOREM LifecycleVersions == Spec => [](LeaseInv /\ TypeInv /\ VersionInv)
<1>1. Init => LeaseInv /\ TypeInv /\ VersionInv
  BY LeaseInitInv, TypeInvInit, VersionInvInit DEF Init
<1>2. LeaseInv /\ TypeInv /\ VersionInv /\ [Next]_vars
        => (LeaseInv /\ TypeInv /\ VersionInv)'
  BY LeaseStep, TypeStep, GenerationStep, TypeInvStep, VersionInvStep
  DEF LeaseInv
<1> QED
  BY <1>1, <1>2, PTL DEF Spec

\* A terminal row never changes again, for any number of cancels, faults,
\* crashes and reconcilers, though two of its writers have no terminal guard.
THEOREM LifecycleTerminalStable == Spec => TerminalStable
<1>1. LeaseInv /\ TypeInv /\ VersionInv /\ [Next]_vars
        => [Terminal(row.status) => row' = row]_vars
  BY TerminalRowStays
<1> QED
  BY <1>1, LifecycleVersions, PTL DEF Spec, TerminalStable

(***************************************************************************)
(* Where the dispatch event stands                                         *)
(***************************************************************************)

\* The worker's place tells whether the gate was passed; the row's event log
\* changes at the gate only, and only on a row that is not terminal.
LEMMA DispatchMoves ==
  ASSUME LeaseInv, TypeInv, VersionInv, DispatchInv, [Next]_vars
  PROVE  /\ \/ row'.dispatched = row.dispatched /\ ~DispatchGate
            \/ DispatchGate /\ row'.dispatched = TRUE
         /\ \/ row'.neverDispatched = row.neverDispatched
            \/ \E r \in Reconcilers :
                 RecWrite(r) /\ row'.dispatched = row.dispatched
                   /\ (row'.neverDispatched <=> rec[r].outcome = "never_dispatched")
                   /\ Terminal(row'.status)
<1> USE DEF RowBecomes
<1>1. CASE row' = row /\ ~DispatchGate
  BY <1>1
<1>2. CASE ThreadStartFails
  <2>1. ~DispatchGate
    BY <1>2 DEF ThreadStartFails, DispatchGate
  <2> QED
    BY <1>2, <2>1, RowEffects
<1>3. CASE StatusCommit
  <2>1. ~DispatchGate
    BY <1>3 DEF StatusCommit, DispatchGate, StatusSteps
  <2> QED
    BY <1>3, <2>1, RowEffects
<1>4. CASE DispatchGate
  BY <1>4, RowEffects
<1>5. CASE Complete \/ ConfirmCancel \/ FailWithResult \/ FailPlain
  <2>1. ~DispatchGate
    BY <1>5 DEF Complete, ConfirmCancel, FailWithResult, FailPlain, DispatchGate
  <2> QED
    BY <1>5, <2>1, RowEffects
<1>6. CASE RequestCancel
  <2>1. ~DispatchGate
    BY <1>6 DEF RequestCancel, DispatchGate
  <2> QED
    BY <1>6, <2>1, RowEffects
<1>7. ASSUME NEW r \in Reconcilers, RecWrite(r)
      PROVE  /\ row'.dispatched = row.dispatched /\ ~DispatchGate
             /\ row'.neverDispatched <=> rec[r].outcome = "never_dispatched"
             /\ Terminal(row'.status)
  <2>1. wpc' = wpc
    BY <1>7 DEF RecWrite
  <2>2. ~DispatchGate
    BY <2>1 DEF DispatchGate
  <2> QED
    BY <1>7, <2>2, RecRowEffect DEF Terminal
<1> QED
  BY <1>1, <1>2, <1>3, <1>4, <1>5, <1>6, <1>7, Frame DEF RowWriters

\* Where the worker can come from, around the gate.
LEMMA GateMoves ==
  ASSUME TypeInv, [Next]_vars
  PROVE  LET Before == {"spawned", "connecting", "running", "register", "gate"}
             Beyond == {"prompt", "observing", "await", "complete"}
         IN  /\ wpc' \in Before => wpc \in Before /\ ~DispatchGate
             /\ wpc' \in Beyond => wpc \in Beyond \/ DispatchGate
<1> DEFINE Before == {"spawned", "connecting", "running", "register", "gate"}
           Beyond == {"prompt", "observing", "await", "complete"}
           Goal == /\ wpc' \in Before => wpc \in Before /\ ~DispatchGate
                   /\ wpc' \in Beyond => wpc \in Beyond \/ DispatchGate
<1> SUFFICES Goal
  OBVIOUS
<1>0. wsub # "do" => wpc \in StatusSteps
  BY DEF TypeInv
<1>d. DispatchGate => wpc' = "prompt"
  BY DEF DispatchGate
<1> USE <1>0, <1>d DEF StatusSteps
<1>1. CASE WorkerAcquire \/ WorkerRefused \/ WorkerAcquireFault \/ ThreadStartFails
  BY <1>1 DEF WorkerAcquire, WorkerRefused, WorkerAcquireFault, ThreadStartFails
<1>2. CASE StatusCommit \/ StatusConflict
  BY <1>2 DEF StatusCommit, StatusConflict
<1>3. CASE StatusBump \/ StatusResync \/ StatusRefused
  BY <1>3 DEF StatusBump, StatusResync, StatusRefused, After
<1>4. CASE Register \/ DispatchGate \/ DispatchRefused \/ SendPrompt
  BY <1>4 DEF Register, DispatchRefused, SendPrompt
<1>5. CASE BackendResult \/ BackendCancelled \/ BackendFails
  BY <1>5 DEF BackendResult, BackendCancelled, BackendFails
<1>6. CASE Complete \/ CompleteRefused \/ ConfirmCancel \/ ConfirmRefused
  BY <1>6 DEF Complete, CompleteRefused, ConfirmCancel, ConfirmRefused, RefusedTo
<1>7. CASE FailWithResult \/ FailWithResultRefused \/ FailPlain \/ FailPlainRefused
  BY <1>7 DEF FailWithResult, FailWithResultRefused, FailPlain,
     FailPlainRefused, RefusedTo
<1>8. CASE WorkerFinish \/ HomeCrash
  BY <1>8 DEF WorkerFinish, HomeCrash
<1>9. CASE wpc' = wpc /\ wsub' = wsub
  BY <1>9
<1> QED
  BY <1>1, <1>2, <1>3, <1>4, <1>5, <1>6, <1>7, <1>8, <1>9, Frame DEF WorkerStep

\* A reconciler past its acquire has the row's generation only if it had it
\* before: no step but an acquire hands one out.
LEMMA GenerationReached ==
  ASSUME LeaseInv, [Next]_vars, NEW r \in Reconcilers, rec[r].pc # "idle",
         held'[r] = generation'
  PROVE  held[r] = generation
<1> USE LifecycleAssumptions
    DEF LeaseInv, LeaseTypeOK, GenerationInv, GenerationsDistinct
<1>1. CASE LeaseQuiet
  BY <1>1 DEF LeaseQuiet, leaseVars, Tick, FencedWrite, Renew, Release, Forget
<1>2. CASE WorkerAcquire
  BY <1>2 DEF WorkerAcquire, Acquire
<1>3. CASE WorkerFinish
  BY <1>3 DEF WorkerFinish, leaseVars, Release, Forget
<1>4. CASE HomeCrash
  BY <1>4 DEF HomeCrash, leaseVars, Forget
<1>5. ASSUME NEW x \in Reconcilers, RecAcquire(x), Acquire(x)
      PROVE  held[r] = generation
  <2>1. x # r
    BY <1>5 DEF RecAcquire
  <2> QED
    BY <1>5, <2>1 DEF Acquire
<1> QED
  BY <1>1, <1>2, <1>3, <1>4, <1>5, Frame DEF LeaseTakers

\* A reconciler that classified still knows whether the prompt went out, as
\* long as its generation is the row's: the gate is fenced.
LEMMA VerdictStep ==
  ASSUME LeaseInv, TypeInv, VersionInv, DispatchInv, [Next]_vars,
         NEW r \in Reconcilers, rec'[r].pc \in {"snapshot", "write"}
  PROVE  IF rec'[r].outcome = "never_dispatched"
           THEN held'[r] = generation' => ~row'.dispatched
           ELSE row'.dispatched
<1>d. row'.dispatched = row.dispatched \/ (DispatchGate /\ row'.dispatched = TRUE)
  BY DispatchMoves
<1>r. r \in Holders /\ Worker \in Holders /\ r # Worker
  BY LifecycleAssumptions
<1>1. CASE RecClassify(r)
  <2>1. RecStep(r) /\ row' = row
    BY <1>1 DEF RecStep, RecClassify
  <2>2. /\ rec'[r].pc = "snapshot" \/ rec'[r].pc \in {"read", "release", "gone"}
        /\ rec'[r].outcome \in (IF row.dispatched THEN TerminalStatuses
                                                ELSE {"never_dispatched"})
    <3>1. rec[r].pc = "read"
      BY <1>1 DEF RecClassify
    <3> QED
      BY <2>1, <3>1, RecEffects
  <2> QED
    BY <2>1, <2>2 DEF TerminalStatuses
<1>2. CASE rec[r].pc \in {"snapshot", "write"} /\ rec'[r].outcome = rec[r].outcome
  <2>1. CASE rec[r].outcome # "never_dispatched"
    BY <1>2, <1>d, <2>1 DEF DispatchInv
  <2>2. CASE rec[r].outcome = "never_dispatched"
    <3> SUFFICES ASSUME held'[r] = generation' PROVE ~row'.dispatched
      BY <1>2, <2>2
    <3>1. held[r] = generation /\ ~DispatchGate
      <4>1. CASE DispatchGate
        <5>1. wpc = "gate" /\ WorkerFence
          BY <4>1 DEF DispatchGate, GateOpen
        <5>2. handle.leased
          BY <5>1 DEF VersionInv, UnleasedInv, Writing, WorkerPlaces
        <5>3. held'[r] = held[r] /\ generation' = generation
          BY <4>1, <5>2 DEF DispatchGate, WorkerWrites, FencedWrite
        <5> QED
          BY <5>1, <5>2, <5>3, <1>r
          DEF WorkerFence, Fenced, LeaseInv, GenerationInv, GenerationsDistinct
      <4>2. CASE ~DispatchGate
        <5>1. rec[r].pc # "idle"
          BY <1>2
        <5>2. held[r] = generation
          BY <1>r, <5>1, GenerationReached
        <5> QED
          BY <4>2, <5>2
      <4> QED
        BY <4>1, <4>2
    <3> QED
      BY <1>2, <1>d, <2>2, <3>1 DEF DispatchInv
  <2> QED
    BY <2>1, <2>2
<1>3. \/ RecClassify(r)
      \/ rec[r].pc \in {"snapshot", "write"} /\ rec'[r].outcome = rec[r].outcome
  <2>1. CASE rec' = rec
    BY <2>1
  <2>2. ASSUME NEW x \in Reconcilers, RecStep(x)
        PROVE  \/ RecClassify(r)
               \/ /\ rec[r].pc \in {"snapshot", "write"}
                  /\ rec'[r].outcome = rec[r].outcome
    <3>1. CASE x = r
      BY <2>2, <3>1, RecEffects
    <3>2. CASE x # r
      BY <2>2, <3>2, RecEffects
    <3> QED
      BY <3>1, <3>2
  <2> QED
    BY <2>1, <2>2, Frame
<1> QED
  BY <1>1, <1>2, <1>3

\* All of DispatchInv is preserved.
LEMMA DispatchInvStep ==
  LeaseInv /\ TypeInv /\ VersionInv /\ DispatchInv /\ [Next]_vars
    => DispatchInv'
<1> SUFFICES ASSUME LeaseInv, TypeInv, VersionInv, DispatchInv, [Next]_vars
             PROVE  DispatchInv'
  OBVIOUS
<1>1. wpc' \in {"spawned", "connecting", "running", "register", "gate"}
        => ~row'.dispatched
  BY DispatchMoves, GateMoves DEF DispatchInv
<1>2. wpc' \in {"prompt", "observing", "await", "complete"} => row'.dispatched
  BY DispatchMoves, GateMoves DEF DispatchInv
<1>3. backend'.prompted => row'.dispatched
  <2>1. SendPrompt => row.dispatched
    BY DEF SendPrompt, DispatchInv
  <2> QED
    BY <2>1, DispatchMoves, PromptFrame DEF DispatchInv
<1>4. row'.neverDispatched => Terminal(row'.status) /\ ~row'.dispatched
  <2>1. CASE row'.neverDispatched = row.neverDispatched
    <3>1. row.neverDispatched => row' = row
      BY TerminalRowStays DEF DispatchInv
    <3> QED
      BY <2>1, <3>1 DEF DispatchInv
  <2>2. ASSUME NEW r \in Reconcilers, RecWrite(r)
        PROVE  row'.neverDispatched => Terminal(row'.status) /\ ~row'.dispatched
    <3>1. rec[r].pc = "write" /\ held[r] = generation
      BY <2>2 DEF RecWrite, RecMatches, Fenced
    <3> QED
      BY <2>2, <3>1, RecRowEffect DEF DispatchInv, Terminal
  <2> QED
    BY <2>1, <2>2, DispatchMoves
<1> QED
  BY <1>1, <1>2, <1>3, <1>4, VerdictStep DEF DispatchInv

\* No prompt is out when the task is created.
LEMMA DispatchInvInit == Init => DispatchInv
  BY DEF Init, DispatchInv

\* The inductive invariant of the lifecycle.
THEOREM LifecycleInvariant == Spec => []LifecycleInv
<1>1. Init => DispatchInv
  BY DispatchInvInit
<1>2. LeaseInv /\ TypeInv /\ VersionInv /\ DispatchInv /\ [Next]_vars
        => DispatchInv'
  BY DispatchInvStep
<1> QED
  BY <1>1, <1>2, LifecycleVersions, PTL DEF Spec, LifecycleInv

\* "never_dispatched" is never said of a task whose prompt went out, before or
\* after it was said.
THEOREM LifecycleNeverDispatched == Spec => []NeverDispatchedIsTrue
<1>1. LifecycleInv => NeverDispatchedIsTrue
  BY DEF LifecycleInv, DispatchInv, NeverDispatchedIsTrue
<1> QED
  BY <1>1, LifecycleInvariant, PTL

(***************************************************************************)
(* The contract                                                            *)
(***************************************************************************)

\* Every update but request_cancel's keeps cancel_requested_at.
LEMMA RequestKept ==
  ASSUME row \in RowType, NEW s \in Statuses, NEW n \in Nat,
         NEW d \in BOOLEAN, NEW c \in BOOLEAN
  PROVE  /\ row' = [row EXCEPT !.status = s, !.version = n]
              => row'.cancelRequested = row.cancelRequested
         /\ row' = [row EXCEPT !.status = s, !.version = n,
                               !.resultAvailable = TRUE]
              => row'.cancelRequested = row.cancelRequested
         /\ row' = [row EXCEPT !.status = s, !.version = n,
                               !.cancelConfirmed = TRUE]
              => row'.cancelRequested = row.cancelRequested
         /\ row' = [row EXCEPT !.status = s, !.version = n,
                               !.neverDispatched = d, !.cancelConfirmed = c]
              => row'.cancelRequested = row.cancelRequested
<1>1. ASSUME row' = [row EXCEPT !.status = s, !.version = n]
      PROVE  row'.cancelRequested = row.cancelRequested
  BY <1>1, RowStatus, Zenon
<1>2. ASSUME row' = [row EXCEPT !.status = s, !.version = n,
                               !.resultAvailable = TRUE]
      PROVE  row'.cancelRequested = row.cancelRequested
  BY <1>2, RowSaved, Zenon
<1>3. ASSUME row' = [row EXCEPT !.status = s, !.version = n,
                               !.cancelConfirmed = TRUE]
      PROVE  row'.cancelRequested = row.cancelRequested
  BY <1>3, RowConfirmed, Zenon
<1>4. ASSUME row' = [row EXCEPT !.status = s, !.version = n,
                               !.neverDispatched = d, !.cancelConfirmed = c]
      PROVE  row'.cancelRequested = row.cancelRequested
  BY <1>4, Zenon DEF RowType
<1> QED
  BY <1>1, <1>2, <1>3, <1>4, Zenon

\* Only request_cancel touches cancel_requested_at, once.
LEMMA CancelFlag ==
  ASSUME TypeInv, [Next]_vars
  PROVE  \/ row'.cancelRequested = row.cancelRequested
         \/ RequestCancel /\ ~row.cancelRequested /\ row'.cancelRequested = TRUE
<1> DEFINE Goal == \/ row'.cancelRequested = row.cancelRequested
                   \/ /\ RequestCancel /\ ~row.cancelRequested
                      /\ row'.cancelRequested = TRUE
<1>0. row \in RowType
  BY DEF TypeInv, TypeOK
<1>s. /\ StatusSteps \subseteq Statuses
      /\ "failed" \in Statuses /\ "completed" \in Statuses
      /\ "cancelled" \in Statuses /\ "cancelling" \in Statuses
  BY DEF Statuses, ActiveStatuses, TerminalStatuses, StatusSteps
<1>1. CASE row' = row
  BY <1>1
<1>2. CASE ThreadStartFails
  <2>1. row' = row \/ row' = [row EXCEPT !.status = "failed", !.version = row.version + 1]
    BY <1>2, Zenon DEF ThreadStartFails
  <2>2. [row EXCEPT !.status = "failed", !.version = row.version + 1].cancelRequested
          = row.cancelRequested
    BY <1>0, <1>s, TypeFacts, RowStatus, Zenon
  <2> QED
    BY <2>1, <2>2, Zenon
<1>3. CASE StatusCommit
  <2>1. /\ wpc \in Statuses
        /\ row' = [row EXCEPT !.status = wpc, !.version = row.version + 1]
    BY <1>3, <1>s, Zenon DEF StatusCommit, WorkerWrites
  <2> QED
    BY <1>0, <2>1, TypeFacts, RowStatus, Zenon
<1>4. CASE DispatchGate
  BY <1>0, <1>4, RowDispatched, Zenon DEF DispatchGate, WorkerWrites
<1>5. CASE Complete
  <2>1. row' = [row EXCEPT !.status = "completed", !.version = row.version + 2,
                           !.resultAvailable = TRUE]
    BY <1>5, Zenon DEF Complete, WorkerWrites, SavedAs
  <2> QED
    BY <1>0, <1>s, <2>1, TypeFacts, RequestKept
<1>6. CASE ConfirmCancel
  <2>1. row' = [row EXCEPT !.status = "cancelled", !.version = row.version + 2,
                           !.cancelConfirmed = TRUE]
    BY <1>6, Zenon DEF ConfirmCancel, WorkerWrites
  <2> QED
    BY <1>0, <1>s, <2>1, TypeFacts, RequestKept
<1>7. CASE FailWithResult
  <2>1. row' = [row EXCEPT !.status = "failed", !.version = row.version + 2,
                           !.resultAvailable = TRUE]
    BY <1>7, Zenon DEF FailWithResult, WorkerWrites, SavedAs
  <2> QED
    BY <1>0, <1>s, <2>1, TypeFacts, RequestKept
<1>8. CASE FailPlain
  <2>1. row' = [row EXCEPT !.status = "failed", !.version = row.version + 1]
    BY <1>8, Zenon DEF FailPlain, WorkerWrites
  <2> QED
    BY <1>0, <1>s, <2>1, TypeFacts, RowStatus, Zenon
<1>9. CASE RequestCancel
  <2>1. \/ row' = row
        \/ /\ ~row.cancelRequested
           /\ row' = [row EXCEPT !.status = "cancelling", !.version = row.version + 1,
                                 !.cancelRequested = TRUE]
    BY <1>9, Zenon DEF RequestCancel, WorkerWrites
  <2>2. [row EXCEPT !.status = "cancelling", !.version = row.version + 1,
                    !.cancelRequested = TRUE].cancelRequested = TRUE
    BY <1>0, <1>s, TypeFacts, RowCancel, Zenon
  <2> QED
    BY <1>9, <2>1, <2>2, Zenon
<1>10. ASSUME NEW r \in Reconcilers, RecWrite(r)
       PROVE  row'.cancelRequested = row.cancelRequested
  <2>1. PICK st \in Statuses, nd \in BOOLEAN, cc \in BOOLEAN :
          row' = [row EXCEPT !.status = st, !.version = row.version + 1,
                             !.neverDispatched = nd, !.cancelConfirmed = cc]
    <3>1. (IF rec[r].outcome = "never_dispatched" THEN "failed" ELSE rec[r].outcome) \in Statuses
      BY DEF TypeInv, TypeOK, RecType, RecOutcomes, Statuses, TerminalStatuses
    <3> QED
      BY <1>10, <3>1 DEF RecWrite
  <2> QED
    BY <1>0, <2>1, TypeFacts, RequestKept
<1> QED
  BY <1>1, <1>2, <1>3, <1>4, <1>5, <1>6, <1>7, <1>8, <1>9, <1>10, Frame DEF RowWriters

\* The registry and the finalization shut out a cancel: once on_result has run,
\* no cancel request reaches the row.
THEOREM LifecycleFinalizing == Spec => FinalizingShutsOutCancel
<1>1. TypeInv /\ [Next]_vars
        => [handle.finalizing => row'.cancelRequested = row.cancelRequested]_vars
  BY CancelFlag DEF RequestCancel
<1> QED
  BY <1>1, LifecycleVersions, PTL DEF Spec, FinalizingShutsOutCancel

\* Every write of the row is a step of the contract.
LEMMA ContractStep ==
  ASSUME LifecycleInv, [Next]_vars
  PROVE  Promise!CNext \/ UNCHANGED Promise!contractVars
<1> USE DEF LifecycleInv
<1> DEFINE Same == /\ row'.cancelRequested = row.cancelRequested
                   /\ row'.dispatched = row.dispatched
           Finish == /\ row.status \in Promise!ActiveStatuses
                     /\ row'.status \in Promise!TerminalStatuses
                     /\ row'.status \in {"completed", "lost", "orphaned"} => row.dispatched
                     /\ row'.version > row.version
                     /\ Same
<1>f. Finish => Promise!CNext
  BY DEF Promise!CNext, Promise!Finish
<1>0. /\ row.version \in Nat /\ row.status \in Statuses
      /\ ~Terminal(row.status) => row.status \in Promise!ActiveStatuses
  BY TypeFacts DEF Statuses, ActiveStatuses, Terminal, TerminalStatuses, Promise!ActiveStatuses
<1>t. CASE row' = row
  BY <1>t DEF Promise!contractVars
<1> SUFFICES ASSUME row' # row PROVE Promise!CNext
  BY <1>t
<1>a. ~Terminal(row.status) /\ row.status \in Promise!ActiveStatuses
  BY <1>0, TerminalRowStays
<1>c. row'.cancelRequested = row.cancelRequested \/ RequestCancel
  BY CancelFlag
<1>1. CASE ThreadStartFails \/ ConfirmCancel \/ FailWithResult \/ FailPlain
  <2>1. /\ row'.status \in {"failed", "cancelled"} /\ row'.version > row.version
        /\ row'.dispatched = row.dispatched
    BY <1>0, <1>1, RowEffects DEF RowBecomes
  <2>2. ~RequestCancel
    BY <1>1 DEF ThreadStartFails, ConfirmCancel, FailWithResult, FailPlain, RequestCancel
  <2>3. Finish
    BY <1>a, <1>c, <2>1, <2>2 DEF Promise!TerminalStatuses
  <2> QED
    BY <1>f, <2>3
<1>2. CASE StatusCommit
  <2>1. /\ row'.status = wpc /\ wpc \in StatusSteps /\ row'.version > row.version
        /\ row'.dispatched = row.dispatched
    BY <1>0, <1>2, RowEffects DEF RowBecomes, StatusCommit
  <2>2. ~RequestCancel
    BY <1>2 DEF StatusCommit, RequestCancel
  <2>3. Promise!Advance
    BY <1>a, <1>c, <2>1, <2>2 DEF Promise!Advance, Promise!ActiveStatuses, StatusSteps
  <2> QED
    BY <2>3 DEF Promise!CNext
<1>3. CASE DispatchGate
  <2>1. /\ row'.status = row.status /\ row'.version = row.version /\ row'.dispatched = TRUE
    BY <1>3, RowEffects
  <2>2. ~RequestCancel /\ ~row.dispatched
    BY <1>3 DEF DispatchGate, RequestCancel, DispatchInv
  <2>3. Promise!AcceptDispatch
    BY <1>a, <1>c, <2>1, <2>2 DEF Promise!AcceptDispatch
  <2> QED
    BY <2>3 DEF Promise!CNext
<1>4. CASE Complete
  <2>1. /\ row'.status = "completed" /\ row'.version > row.version
        /\ row'.dispatched = row.dispatched
    BY <1>0, <1>4, RowEffects DEF RowBecomes
  <2>2. ~RequestCancel /\ row.dispatched
    BY <1>4 DEF Complete, RequestCancel, DispatchInv
  <2>3. Finish
    BY <1>a, <1>c, <2>1, <2>2 DEF Promise!TerminalStatuses
  <2> QED
    BY <1>f, <2>3
<1>5. CASE RequestCancel
  <2>1. /\ row'.status = "cancelling" /\ row'.version > row.version
        /\ row'.dispatched = row.dispatched
    BY <1>0, <1>5, RowEffects DEF RowBecomes
  <2>2. CASE row'.cancelRequested = row.cancelRequested
    <3>1. row.cancelRequested => row' = row
      BY <1>5 DEF RequestCancel
    <3>2. row \in RowType /\ ~row.cancelRequested
      BY <3>1 DEF TypeInv, TypeOK
    <3>3. row' = [row EXCEPT !.status = "cancelling", !.version = row.version + 1,
                             !.cancelRequested = TRUE]
      BY <1>5, <3>2, Zenon DEF RequestCancel, WorkerWrites
    <3>4. row'.cancelRequested = TRUE
      <4>1. "cancelling" \in Statuses
        BY DEF Statuses, ActiveStatuses
      <4> QED
        BY <3>2, <3>3, <4>1, TypeFacts, RowCancel, Zenon
    <3> QED
      BY <2>2, <3>2, <3>4
  <2>3. CASE ~row.cancelRequested /\ row'.cancelRequested = TRUE
    <3>1. Promise!RequestCancel
      BY <1>a, <2>1, <2>3 DEF Promise!RequestCancel
    <3> QED
      BY <3>1 DEF Promise!CNext
  <2> QED
    BY <2>2, <2>3, CancelFlag
<1>6. ASSUME NEW r \in Reconcilers, RecWrite(r) PROVE Promise!CNext
  <2>1. /\ row'.status = WrittenFor(rec[r].outcome) /\ row'.status \in TerminalStatuses
        /\ row'.version > row.version /\ row'.dispatched = row.dispatched
    BY <1>0, <1>6, RecRowEffect
  <2>2. ~RequestCancel
    BY <1>6 DEF RecWrite, RequestCancel
  <2>3. row'.status \in {"completed", "lost", "orphaned"} => row.dispatched
    <3>1. rec[r].pc = "write"
      BY <1>6 DEF RecWrite
    <3> QED
      BY <2>1, <3>1 DEF DispatchInv, WrittenFor
  <2>4. Finish
    BY <1>a, <1>c, <2>1, <2>2, <2>3 DEF Promise!TerminalStatuses, TerminalStatuses
  <2> QED
    BY <1>f, <2>4
<1> QED
  BY <1>1, <1>2, <1>3, <1>4, <1>5, <1>6, Frame DEF RowWriters

\* The lifecycle, with every crash, cancel, fault and reconciliation, shows its
\* readers the contract of a task.
THEOREM LifecycleImplementsContract == Spec => ImplementsContract
<1>1. Init => Promise!CInit
  BY DEF Init, Promise!CInit
<1>2. LifecycleInv /\ [Next]_vars => [Promise!CNext]_(Promise!contractVars)
  BY ContractStep
<1> QED
  BY <1>1, <1>2, LifecycleInvariant, PTL DEF Spec, ImplementsContract, Promise!CSpec

(***************************************************************************)
(* A cancel that comes before the execution                                *)
(***************************************************************************)

\* The places of the worker before its execution is registered.
Early == {"spawned", "connecting", "running", "register"}

\* A transport that was sent reached a registered execution; an execution is
\* only live where the worker executes; and the cancel is where it is looked
\* for.
ReachInv ==
  /\ handle.transportSent => backend.cancelled /\ wpc \notin Early
  /\ backend.live => wpc \in Executing
  /\ EarlyCancelReachesBackend

\* The registry's entry after each of its updates.
LEMMA BackendNext ==
  ASSUME backend \in BackendType, NEW b \in BOOLEAN
  PROVE  /\ backend' = [backend EXCEPT !.live = FALSE] =>
              /\ ~backend'.live
              /\ backend'.pending = backend.pending
              /\ backend'.cancelled = backend.cancelled
         /\ backend' = [backend EXCEPT !.cancelled = TRUE] =>
              /\ backend'.live = backend.live
              /\ backend'.pending = backend.pending
              /\ backend'.cancelled
         /\ backend' = [backend EXCEPT !.pending = TRUE] =>
              /\ backend'.live = backend.live
              /\ backend'.pending
              /\ backend'.cancelled = backend.cancelled
         /\ backend' = [backend EXCEPT !.prompted = TRUE] =>
              /\ backend'.live = backend.live
              /\ backend'.pending = backend.pending
              /\ backend'.cancelled = backend.cancelled
         /\ backend' = [backend EXCEPT !.live = b, !.pending = FALSE] =>
              /\ backend'.live = b
              /\ backend'.cancelled = backend.cancelled
<1>1. ASSUME backend' = [backend EXCEPT !.live = FALSE]
      PROVE  /\ ~backend'.live
             /\ backend'.pending = backend.pending
             /\ backend'.cancelled = backend.cancelled
  BY <1>1, Zenon DEF BackendType
<1>2. ASSUME backend' = [backend EXCEPT !.cancelled = TRUE]
      PROVE  /\ backend'.live = backend.live
             /\ backend'.pending = backend.pending
             /\ backend'.cancelled
  BY <1>2, Zenon DEF BackendType
<1>3. ASSUME backend' = [backend EXCEPT !.pending = TRUE]
      PROVE  /\ backend'.live = backend.live
             /\ backend'.pending
             /\ backend'.cancelled = backend.cancelled
  BY <1>3, Zenon DEF BackendType
<1>4. ASSUME backend' = [backend EXCEPT !.prompted = TRUE]
      PROVE  /\ backend'.live = backend.live
             /\ backend'.pending = backend.pending
             /\ backend'.cancelled = backend.cancelled
  BY <1>4, Zenon DEF BackendType
<1>5. ASSUME backend' = [backend EXCEPT !.live = b, !.pending = FALSE]
      PROVE  backend'.live = b /\ backend'.cancelled = backend.cancelled
  BY <1>5, Zenon DEF BackendType
<1> QED
  BY <1>1, <1>2, <1>3, <1>4, <1>5, Zenon

\* The client's end: the steps that drop the entry.
Unregisters ==
  \/ StatusRefused \/ DispatchRefused \/ BackendResult \/ BackendCancelled
  \/ BackendFails \/ HomeCrash
  \/ StatusResync /\ ~row.cancelRequested

\* What a step does to the registry: a cancel is never taken back, an
\* execution goes live by Register alone and ends with the client, and only
\* Register takes a pending cancel out (or the end of the process).
LEMMA BackendMoves ==
  ASSUME TypeInv, [Next]_vars
  PROVE  /\ backend.cancelled => backend'.cancelled
         /\ backend'.live => backend.live \/ (Register /\ ~backend.pending)
         /\ backend.pending => backend'.pending \/ Register \/ HomeCrash
         /\ Unregisters => ~backend'.live
         /\ SendCancel => IF backend.live THEN backend'.cancelled
                          ELSE backend'.pending /\ ~backend'.live
<1> DEFINE Kept ==
      /\ backend.cancelled => backend'.cancelled
      /\ backend'.live => backend.live \/ (Register /\ ~backend.pending)
      /\ backend.pending => backend'.pending \/ Register \/ HomeCrash
<1>0. backend \in BackendType
  BY DEF TypeInv, TypeOK
<1>1. ASSUME Register PROVE Kept
  <2>1. PICK b \in BOOLEAN :
          /\ b = ~backend.pending
          /\ backend' = [backend EXCEPT !.live = b, !.pending = FALSE]
    BY <1>1 DEF Register
  <2>2. backend'.live = b /\ backend'.cancelled = backend.cancelled
    BY <1>0, <2>1, BackendNext, Zenon
  <2> QED
    BY <1>1, <2>1, <2>2, Zenon
<1>2. ASSUME SendPrompt PROVE Kept
  <2>1. backend' = [backend EXCEPT !.prompted = TRUE]
    BY <1>2 DEF SendPrompt
  <2> QED
    BY <1>0, <2>1, BackendNext
<1>3. ASSUME BackendCancel
      PROVE  /\ Kept
             /\ IF backend.live THEN backend'.cancelled
                                ELSE backend'.pending /\ ~backend'.live
  <2>1. CASE backend.live
    <3>1. backend' = [backend EXCEPT !.cancelled = TRUE]
      BY <1>3, <2>1 DEF BackendCancel
    <3>2. /\ backend'.live = backend.live /\ backend'.cancelled
          /\ backend'.pending = backend.pending
      BY <1>0, <3>1, BackendNext
    <3> QED
      BY <2>1, <3>2, Zenon
  <2>2. CASE ~backend.live
    <3>1. backend' = [backend EXCEPT !.pending = TRUE]
      BY <1>3, <2>2 DEF BackendCancel
    <3>2. /\ backend'.live = backend.live /\ backend'.pending
          /\ backend'.cancelled = backend.cancelled
      BY <1>0, <3>1, TRUE \in BOOLEAN, BackendNext, Zenon
    <3> QED
      BY <2>2, <3>2, Zenon
  <2> QED
    BY <2>1, <2>2, Zenon
<1>4. ASSUME Unregister PROVE Kept /\ ~backend'.live
  <2>1. backend' = [backend EXCEPT !.live = FALSE]
    BY <1>4 DEF Unregister
  <2> QED
    BY <1>0, <2>1, TRUE \in BOOLEAN, BackendNext, Zenon
<1>5. ASSUME HomeCrash PROVE Kept /\ ~backend'.live
  <2>1. backend' = [backend EXCEPT !.live = FALSE, !.pending = FALSE]
    BY <1>5 DEF HomeCrash
  <2> QED
    BY <1>0, <1>5, <2>1, FALSE \in BOOLEAN, BackendNext, Zenon
<1>6. Unregisters => Unregister \/ HomeCrash
  BY DEF Unregisters, StatusRefused, DispatchRefused, BackendResult,
     BackendCancelled, BackendFails, StatusResync
<1>7. SendCancel \/ HeartbeatLost => BackendCancel
  BY DEF SendCancel, HeartbeatLost
<1>8. \/ backend' = backend \/ Register \/ SendPrompt
      \/ SendCancel \/ HeartbeatLost \/ Unregisters
  <2>1. StatusResync => backend' = backend \/ Unregisters
    BY DEF StatusResync, Unregisters
  <2> QED
    BY <2>1, Frame DEF BackendWriters, Unregisters
<1>9. Kept
  BY <1>1, <1>2, <1>3, <1>4, <1>5, <1>6, <1>7, <1>8, Zenon
<1> QED
  BY <1>3, <1>4, <1>5, <1>6, <1>7, <1>9, Zenon

\* The worker's way through the registration: it never comes back before it,
\* and it leaves the places where it executes only as the client ends.
LEMMA ReachMoves ==
  ASSUME TypeInv, [Next]_vars
  PROVE  /\ wpc' \in Early => wpc \in Early /\ ~Register /\ ~HomeCrash
         /\ wpc \in Executing => wpc' \in Executing \/ Unregisters
<1> DEFINE Goal ==
      /\ wpc' \in Early => wpc \in Early /\ ~Register /\ ~HomeCrash
      /\ wpc \in Executing => wpc' \in Executing \/ Unregisters
<1>0. /\ wpc \in WorkerPlaces
      /\ wsub # "do" => wpc \in StatusSteps
  BY DEF TypeInv, TypeOK
<1>x. /\ Register => wpc = "register" /\ wpc' \in {"confirm", "gate"}
      /\ HomeCrash => wpc # "dead" /\ wpc' = "dead" /\ Unregisters
  BY DEF Register, HomeCrash, Alive, Unregisters
<1> USE DEF Early, Executing
<1>1. CASE WorkerAcquire \/ WorkerRefused \/ WorkerAcquireFault \/ ThreadStartFails
  BY <1>1, <1>x DEF WorkerAcquire, WorkerRefused, WorkerAcquireFault, ThreadStartFails
<1>2. CASE StatusCommit \/ StatusConflict
  BY <1>2, <1>x DEF StatusCommit, StatusConflict
<1>3. CASE StatusBump
  BY <1>0, <1>3, <1>x DEF StatusBump, After, StatusSteps
<1>4. CASE StatusResync
  <2>1. \/ wpc' = After[wpc]
        \/ wpc' = "fail" /\ Unregisters
    BY <1>4 DEF StatusResync, Unregisters
  <2> QED
    BY <1>0, <1>4, <1>x, <2>1 DEF StatusResync, After, StatusSteps
<1>5. CASE StatusRefused \/ DispatchRefused \/ BackendResult \/ BackendCancelled
             \/ BackendFails
  BY <1>5, <1>x DEF StatusRefused, DispatchRefused, BackendResult,
     BackendCancelled, BackendFails, Unregisters
<1>6. CASE Register \/ DispatchGate \/ SendPrompt
  BY <1>6, <1>x DEF Register, DispatchGate, SendPrompt
<1>7. CASE Complete \/ CompleteRefused \/ ConfirmCancel \/ ConfirmRefused
  BY <1>7, <1>x DEF Complete, CompleteRefused, ConfirmCancel, ConfirmRefused,
     RefusedTo
<1>8. CASE FailWithResult \/ FailWithResultRefused \/ FailPlain \/ FailPlainRefused
  BY <1>8, <1>x DEF FailWithResult, FailWithResultRefused, FailPlain,
     FailPlainRefused, RefusedTo
<1>9. CASE WorkerFinish \/ HomeCrash
  BY <1>9, <1>x DEF WorkerFinish
<1>10. CASE wpc' = wpc
  BY <1>10, <1>x
<1> QED
  BY <1>1, <1>2, <1>3, <1>4, <1>5, <1>6, <1>7, <1>8, <1>9, <1>10, Frame
  DEF WorkerStep

\* transport_sent is set by SendCancel alone, to what it found live.
LEMMA TransportMoves ==
  ASSUME TypeInv, [Next]_vars
  PROVE  \/ handle'.transportSent = handle.transportSent
         \/ SendCancel /\ (handle'.transportSent
                             = (handle.transportSent \/ backend.live))
<1>0. handle \in HandleType
  BY DEF TypeInv, TypeOK
<1>1. CASE SendCancel
  <2>1. PICK b \in BOOLEAN :
          /\ b = (handle.transportSent \/ backend.live)
          /\ handle' = [handle EXCEPT !.transportSent = b]
    BY <1>1 DEF SendCancel
  <2>2. handle'.transportSent = b
    BY <1>0, <2>1, Zenon DEF HandleType
  <2> QED
    BY <1>1, <2>1, <2>2, Zenon
<1>2. CASE HandleWriters /\ ~SendCancel
  <2>1. \/ handle' = handle
        \/ handle' = [handle EXCEPT !.leased = TRUE]
        \/ handle' = [handle EXCEPT !.finalizing = TRUE]
        \/ handle' = [handle EXCEPT !.locked = TRUE]
        \/ \E n \in Nat : \/ handle' = [handle EXCEPT !.version = n]
                          \/ handle' = [handle EXCEPT !.version = n,
                                                      !.locked = FALSE]
    BY <1>2, TypeFacts
    DEF HandleWriters, WorkerAcquire, StatusBump, StatusResync, BackendResult,
        Complete, ConfirmCancel, FailWithResult, FailPlain, RequestCancel,
        SyncCancel, TypeInv, TypeOK
  <2> QED
    BY <1>0, <2>1, Zenon DEF HandleType
<1>3. CASE handle' = handle
  BY <1>3
<1> QED
  BY <1>1, <1>2, <1>3, Frame

\* How a step can leave the cancel thread idle.
LEMMA IdleMoves ==
  ASSUME [Next]_vars, cpc' = "idle"
  PROVE  /\ ~RequestCancel
         /\ \/ cpc = "idle"
            \/ SyncCancel /\ handle.transportSent
            \/ SendCancel
            \/ HomeCrash
<1>1. ~RequestCancel
  BY DEF RequestCancel
<1>2. SyncCancel => handle.transportSent
  BY DEF SyncCancel
<1>3. cpc' = cpc \/ CancelStep \/ HomeCrash
  BY DEF Next, vars, taskVars, WorkerStep, HeartbeatStep, RecStep,
     WorkerAcquire, WorkerRefused, WorkerAcquireFault, ThreadStartFails,
     StatusCommit, StatusBump, StatusConflict, StatusResync, StatusRefused,
     Register, DispatchGate, DispatchRefused, SendPrompt, BackendResult,
     BackendCancelled, BackendFails, Complete, CompleteRefused, ConfirmCancel,
     ConfirmRefused, FailWithResult, FailWithResultRefused, FailPlain,
     FailPlainRefused, WorkerFinish, HeartbeatRenews, HeartbeatLost,
     RecAcquire, RecClassify, RecSnapshot, RecWrite, RecWriteRefused,
     RecRelease, RecFault, RecCrash, ClockTick
<1> QED
  BY <1>1, <1>2, <1>3 DEF CancelStep

LEMMA ReachInvStep ==
  ASSUME TypeInv, ReachInv, [Next]_vars
  PROVE  ReachInv'
<1>1. /\ wpc' \in Early => wpc \in Early /\ ~Register /\ ~HomeCrash
      /\ wpc \in Executing => wpc' \in Executing \/ Unregisters
  BY ReachMoves
<1>2. /\ backend.cancelled => backend'.cancelled
      /\ backend'.live => backend.live \/ (Register /\ ~backend.pending)
      /\ backend.pending => backend'.pending \/ Register \/ HomeCrash
      /\ Unregisters => ~backend'.live
      /\ SendCancel => IF backend.live THEN backend'.cancelled
                       ELSE backend'.pending /\ ~backend'.live
  BY BackendMoves
<1>3. /\ Register => wpc = "register" /\ (~backend.pending => wpc' = "gate")
      /\ Register => cpc' = cpc
      /\ SendCancel \/ SyncCancel => wpc' = wpc
      /\ SyncCancel => backend' = backend
      /\ HomeCrash => wpc' = "dead" /\ Unregisters
      /\ Early \cap Executing = {}
      /\ "dead" \notin Early /\ "register" \in Early /\ "gate" \in Executing
  BY DEF Register, SendCancel, SyncCancel, HomeCrash, Unregisters, Early,
     Executing
<1>4. handle'.transportSent => backend'.cancelled /\ wpc' \notin Early
  BY <1>1, <1>2, <1>3, TransportMoves DEF ReachInv
<1>5. backend'.live => wpc' \in Executing
  BY <1>1, <1>2, <1>3 DEF ReachInv
<1>6. ASSUME row'.cancelRequested, cpc' = "idle"
      PROVE  /\ wpc' \in Early => backend'.pending
             /\ backend'.live => backend'.cancelled
  <2>1. CASE cpc = "idle" /\ ~SendCancel /\ ~HomeCrash
    <3>1. row.cancelRequested
      BY <1>6, CancelFlag, IdleMoves
    <3>2. /\ wpc \in Early => backend.pending
          /\ backend.live => backend.cancelled
      BY <2>1, <3>1 DEF ReachInv, EarlyCancelReachesBackend, Early
    <3> QED
      BY <1>1, <1>2, <1>3, <2>1, <3>2
  <2>2. CASE SyncCancel /\ handle.transportSent
    BY <1>3, <2>2 DEF ReachInv
  <2>3. CASE SendCancel
    <3>1. backend.live => wpc' \notin Early
      BY <1>3, <2>3 DEF ReachInv
    <3> QED
      BY <1>2, <2>3, <3>1
  <2>4. CASE HomeCrash
    BY <1>2, <1>3, <2>4
  <2> QED
    BY <1>6, <2>1, <2>2, <2>3, <2>4, IdleMoves
<1> QED
  BY <1>4, <1>5, <1>6 DEF ReachInv, EarlyCancelReachesBackend, Early

\* A cancel accepted before the execution is registered is waiting for it when
\* the cancel call is over, and one accepted later has reached it, in every
\* run: with any number of cancel calls and replays, of faults and crashes.
THEOREM LifecycleEarlyCancel == Spec => []EarlyCancelReachesBackend
<1>1. Init => ReachInv
  BY DEF Init, ReachInv, EarlyCancelReachesBackend, Early, Executing
<1>2. TypeInv /\ ReachInv /\ [Next]_vars => ReachInv'
  BY ReachInvStep
<1>3. Spec => []TypeInv
  BY LifecycleInvariant, PTL DEF LifecycleInv
<1>4. ReachInv => EarlyCancelReachesBackend
  BY DEF ReachInv
<1> QED
  BY <1>1, <1>2, <1>3, <1>4, PTL DEF Spec

(***************************************************************************)
(* What an owner finds and leaves behind                                   *)
(***************************************************************************)

\* A LeaseInfo is its holder's: no other thread's step changes it.
LEMMA HeldMoves ==
  ASSUME LeaseTypeOK, [Next]_vars
  PROVE  /\ \A r \in Reconcilers : held'[r] = held[r] \/ RecStep(r)
         /\ \/ held'[Worker] = held[Worker]
            \/ WorkerAcquire \/ WorkerFinish \/ HomeCrash
<1> DEFINE Of(x) == held' = held \/ \E n : held' = [held EXCEPT ![x] = n]
<1>0. /\ held \in [Holders -> Nat]
      /\ Worker \in Holders /\ Reconcilers \subseteq Holders
      /\ Worker \notin Reconcilers
  BY LifecycleAssumptions DEF LeaseTypeOK
<1>1. CASE WorkerAcquire \/ WorkerFinish \/ HomeCrash
  <2>1. Of(Worker)
    BY <1>1 DEF WorkerAcquire, WorkerFinish, HomeCrash, Acquire, Release,
       Forget, leaseVars
  <2> QED
    BY <1>0, <1>1, <2>1
<1>2. ASSUME NEW x \in Reconcilers, RecStep(x)
      PROVE  \A h \in Holders \ {x} : held'[h] = held[h]
  <2>1. Of(x)
    BY <1>2 DEF RecStep, RecAcquire, RecClassify, RecSnapshot, RecWrite,
       RecWriteRefused, RecRelease, RecFault, RecCrash, Acquire, Release,
       Forget, FencedWrite, leaseVars
  <2> QED
    BY <1>0, <2>1
<1>3. CASE /\ ~(WorkerAcquire \/ WorkerFinish \/ HomeCrash)
           /\ \A x \in Reconcilers : ~RecStep(x)
  <2>1. UNCHANGED leaseVars \/ FencedWrite(Worker) \/ Renew(Worker) \/ Tick
    BY <1>3 DEF Next, vars, WorkerStep, CancelStep, HeartbeatStep, ClockTick,
       WorkerRefused, WorkerAcquireFault, ThreadStartFails, StatusCommit,
       StatusBump, StatusConflict, StatusResync, StatusRefused, Register,
       DispatchGate, DispatchRefused, SendPrompt, BackendResult,
       BackendCancelled, BackendFails, Complete, CompleteRefused,
       ConfirmCancel, ConfirmRefused, FailWithResult, FailWithResultRefused,
       FailPlain, FailPlainRefused, RequestCancel, SyncCancel, SendCancel,
       HeartbeatRenews, HeartbeatLost, WorkerWrites
  <2>2. held' = held
    BY <2>1 DEF leaseVars, FencedWrite, Renew, Tick
  <2> QED
    BY <2>2
<1> QED
  BY <1>0, <1>1, <1>2, <1>3

\* With a clock that is never set back, while a reconciler's lease stands the
\* row it snapshotted is the row it writes over, or terminal.
LEMMA NoConflictStep ==
  ASSUME ~ClockStepsBack, LeaseInv, TypeInv, VersionInv,
         ReconcilerSeesNoConflict, [Next]_vars
  PROVE  ReconcilerSeesNoConflict'
<1> SUFFICES ASSUME NEW r \in Reconcilers, rec'[r].pc = "write", Fenced(r)',
                    ~Terminal(row'.status)
             PROVE  row'.version = rec'[r].version
  BY DEF ReconcilerSeesNoConflict
<1>0. LeaseTypeOK /\ Exclusive /\ r \in Holders /\ Worker \in Holders /\ r # Worker
  BY LifecycleAssumptions, FenceIsExclusive DEF LeaseInv
<1>1. CASE RecStep(r)
  <2>1. RecSnapshot(r) /\ rec'[r].version = row.version
    BY <1>1, RecEffects
  <2> QED
    BY <2>1 DEF RecSnapshot
<1>2. CASE ~RecStep(r)
  <2>1. rec'[r] = rec[r]
    <3>1. ASSUME NEW x \in Reconcilers, RecStep(x) PROVE rec'[r] = rec[r]
      BY <1>2, <3>1, RecEffects
    <3> QED
      BY <3>1, Frame
  <2>2. held'[r] = held[r]
    BY <1>0, <1>2, HeldMoves
  <2>3. Fenced(r)
    BY <1>0, <2>2, LeaseStep, StaysFenced
  <2>4. ~Terminal(row.status)
    BY TerminalRowStays
  <2>5. row.version = rec[r].version
    BY <2>1, <2>3, <2>4 DEF ReconcilerSeesNoConflict
  <2>6. ~Fenced(Worker) /\ ~Acquirable(now)
    BY <1>0, <2>3, LeaseAssumptions DEF Exclusive, Fenced, Acquirable, LeaseTypeOK
  <2>7. row' # row => row'.version = row.version
    <3> SUFFICES ASSUME RowWriters, row' # row PROVE row'.version = row.version
      BY Frame
    <3>1. "failed" \in TerminalStatuses /\ "completed" \in TerminalStatuses
          /\ "cancelled" \in TerminalStatuses
      BY DEF TerminalStatuses
    <3>2. ~(ThreadStartFails \/ Complete \/ ConfirmCancel \/ FailWithResult
              \/ FailPlain)
      BY <3>1, RowEffects DEF RowBecomes, Terminal
    <3>3. ASSUME NEW x \in Reconcilers, RecWrite(x) PROVE FALSE
      BY <3>3, RecRowEffect DEF Terminal
    <3>4. CASE DispatchGate
      BY <3>4, RowEffects
    <3>5. CASE StatusCommit
      <4>1. wpc \in Writing /\ wpc \notin {"spawned", "fail", "fail_plain"}
        BY <3>5 DEF StatusCommit, StatusSteps, Writing, WorkerPlaces
      <4>2. handle.leased
        BY <4>1 DEF VersionInv, UnleasedInv
      <4> QED
        BY <2>6, <3>5, <4>2 DEF StatusCommit, WorkerFence
    <3>6. CASE RequestCancel
      BY <2>6, <3>6 DEF RequestCancel, CancelOwned
    <3> QED
      BY <3>2, <3>3, <3>4, <3>5, <3>6 DEF RowWriters
  <2> QED
    BY <2>1, <2>5, <2>7
<1> QED
  BY <1>1, <1>2

\* No reconciler that still owns the session meets a version other than the
\* one it read on an active row, however many passes, cancels, faults and
\* crashes there are (the clock is never set back).
THEOREM LifecycleReconcilerSeesNoConflict ==
  ASSUME ~ClockStepsBack
  PROVE  Spec => []ReconcilerSeesNoConflict
<1>1. Init => ReconcilerSeesNoConflict
  BY DEF Init, ReconcilerSeesNoConflict
<1>2. LeaseInv /\ TypeInv /\ VersionInv /\ ReconcilerSeesNoConflict /\ [Next]_vars
        => ReconcilerSeesNoConflict'
  BY NoConflictStep
<1> QED
  BY <1>1, <1>2, LifecycleVersions, PTL DEF Spec

\* A cancel call under way has reached the row.
CancelKnown == cpc # "idle" => row.cancelRequested

\* Nothing but the worker has touched the row, and it owns the session.
Undisturbed ==
  /\ wpc \in Writing
  /\ faults = 0
  /\ ~row.cancelRequested
  /\ ~Terminal(row.status)
  /\ (wpc # "spawned" => Fenced(Worker))

\* Then the version the worker carries is the row's, but for the bump it has
\* not done yet.
InStep ==
  Undisturbed =>
    /\ row.version = handle.version + (IF wsub = "bump" THEN 1 ELSE 0)
    /\ wsub # "resync"

\* The call sets the flag.
LEMMA CancelSets ==
  ASSUME TypeInv, RequestCancel
  PROVE  row'.cancelRequested
<1>1. CASE row.cancelRequested
  BY <1>1 DEF RequestCancel
<1>2. CASE ~row.cancelRequested
  <2>1. row' = [row EXCEPT !.status = "cancelling", !.version = row.version + 1,
                           !.cancelRequested = TRUE]
    BY <1>2, Zenon DEF RequestCancel, WorkerWrites
  <2>2. row \in RowType /\ "cancelling" \in Statuses
    BY DEF TypeInv, TypeOK, Statuses, ActiveStatuses
  <2> QED
    BY <2>1, <2>2, TypeFacts, RowCancel
<1> QED
  BY <1>1, <1>2

\* The flag stays and covers the whole call.
LEMMA CancelKnownStep ==
  ASSUME TypeInv, CancelKnown, [Next]_vars
  PROVE  CancelKnown' /\ (row.cancelRequested => row'.cancelRequested)
<1>1. row.cancelRequested => row'.cancelRequested
  BY CancelFlag
<1>2. cpc' # "idle" => cpc # "idle" \/ RequestCancel
  <2>1. SyncCancel => cpc # "idle"
    BY DEF SyncCancel
  <2>2. SendCancel => cpc' = "idle"
    BY DEF SendCancel
  <2> QED
    BY <2>1, <2>2, Frame DEF CancelStep
<1> QED
  BY <1>1, <1>2, CancelSets DEF CancelKnown

\* A failed transaction is never forgotten.
LEMMA FaultsMove ==
  ASSUME TypeInv, [Next]_vars
  PROVE  faults' = 0 => faults = 0
<1>0. faults \in Nat
  BY LifecycleAssumptions DEF TypeInv, TypeOK
<1>1. faults' = faults \/ faults' = faults + 1
  BY DEF Fault, Next, vars, taskVars, WorkerStep, CancelStep, HeartbeatStep,
     RecStep, HomeCrash, ClockTick, WorkerAcquire, WorkerRefused,
     WorkerAcquireFault, ThreadStartFails, StatusCommit, StatusBump,
     StatusConflict, StatusResync, StatusRefused, Register, DispatchGate,
     DispatchRefused, SendPrompt, BackendResult, BackendCancelled,
     BackendFails, Complete, CompleteRefused, ConfirmCancel, ConfirmRefused,
     FailWithResult, FailWithResultRefused, FailPlain, FailPlainRefused,
     RefusedTo, WorkerFinish, RequestCancel, SyncCancel, SendCancel,
     HeartbeatRenews, HeartbeatLost, RecAcquire, RecClassify, RecSnapshot,
     RecWrite, RecWriteRefused, RecRelease, RecFault, RecCrash
<1> QED
  BY <1>0, <1>1

\* The worker in step stays in step until it ends, a cancel is accepted or the
\* database fails it.
LEMMA InStepStep ==
  ASSUME ~ClockStepsBack, LeaseInv, TypeInv, VersionInv, CancelKnown, InStep,
         [Next]_vars
  PROVE  InStep'
<1> DEFINE Gap == IF wsub = "bump" THEN 1 ELSE 0
<1> SUFFICES ASSUME wpc' \in Writing, faults' = 0, ~row'.cancelRequested,
                    ~Terminal(row'.status), wpc' # "spawned" => Fenced(Worker)'
             PROVE  row'.version = handle'.version + Gap' /\ wsub' # "resync"
  BY DEF InStep, Undisturbed
<1>0. /\ LeaseTypeOK /\ Worker \in Holders
      /\ row.version \in Nat /\ handle.version \in Nat
      /\ wsub # "do" => wpc \in StatusSteps
  BY LifecycleAssumptions, TypeFacts DEF LeaseInv, TypeInv
<1>1. /\ wpc \in Writing /\ (wpc' = "spawned" => wpc = "spawned")
      /\ ~row.cancelRequested /\ ~Terminal(row.status)
      /\ cpc = "idle"
  BY WorkerMoves, CancelKnownStep, TerminalRowStays DEF CancelKnown
<1>2. faults = 0
  BY FaultsMove
<1>3. ~(WorkerFinish \/ HomeCrash)
  BY DEF WorkerFinish, HomeCrash, Writing
<1>4. wpc # "spawned" => Fenced(Worker)
  <2>1. SUFFICES ASSUME wpc # "spawned" PROVE Fenced(Worker)
    OBVIOUS
  <2>2. held'[Worker] = held[Worker]
    BY <1>0, <1>3, <2>1, HeldMoves DEF WorkerAcquire
  <2> QED
    BY <1>0, <1>1, <2>1, <2>2, LeaseStep, StaysFenced
<1>5. row.version = handle.version + Gap /\ wsub # "resync"
  BY <1>1, <1>2, <1>4 DEF InStep, Undisturbed
<1>6. ~(ThreadStartFails \/ Complete \/ ConfirmCancel \/ FailWithResult
          \/ FailPlain \/ RequestCancel \/ SyncCancel \/ StatusResync
          \/ StatusConflict)
  <2>1. ~(ThreadStartFails \/ Complete \/ ConfirmCancel \/ FailWithResult
            \/ FailPlain)
    BY DEF ThreadStartFails, Complete, ConfirmCancel, FailWithResult,
       FailPlain, Writing
  <2>2. ~RequestCancel
    BY CancelSets
  <2>3. ~SyncCancel
    BY <1>1 DEF SyncCancel
  <2>4. ~StatusResync
    BY <1>5 DEF StatusResync
  <2>5. ~StatusConflict
    BY <1>0, <1>5 DEF StatusConflict
  <2> QED
    BY <2>1, <2>2, <2>3, <2>4, <2>5
<1>7. \A r \in Reconcilers : ~RecWrite(r)
  BY RecRowEffect DEF Terminal
<1>8. CASE StatusCommit
  <2>1. row'.version = row.version + 1 /\ handle' = handle
        /\ wsub = "do" /\ wsub' = "bump"
    BY <1>8, RowEffects DEF StatusCommit, RowBecomes
  <2> QED
    BY <1>0, <1>5, <2>1
<1>9. CASE StatusBump
  <2>1. handle'.version = handle.version + 1 /\ row' = row
        /\ wsub = "bump" /\ wsub' = "do"
    BY <1>9, HandleEffects DEF StatusBump, HandleBecomes
  <2> QED
    BY <1>0, <1>5, <2>1
<1>10. CASE ~StatusCommit /\ ~StatusBump
  <2>1. row'.version = row.version
    BY <1>6, <1>7, <1>10, Frame, RowEffects DEF RowWriters
  <2>2. handle'.version = handle.version
    BY <1>6, <1>10, Frame, HandleEffects DEF HandleWriters, HandleBecomes
  <2>3. wsub' = wsub
    BY <1>3, <1>6, <1>10, Frame
    DEF WorkerStep, WorkerAcquire, WorkerRefused, WorkerAcquireFault,
        StatusRefused, Register, DispatchGate, DispatchRefused, SendPrompt,
        BackendResult, BackendCancelled, BackendFails, CompleteRefused,
        ConfirmRefused, FailWithResultRefused, FailPlainRefused
  <2> QED
    BY <1>5, <2>1, <2>2, <2>3
<1> QED
  BY <1>8, <1>9, <1>10

\* A worker that ends in possession of the lease has written a terminal row,
\* or found one.
LEMMA OwnerLeavesStep ==
  ASSUME ~ClockStepsBack, LeaseInv, TypeInv, VersionInv, CancelKnown, InStep,
         OwnerLeavesTerminal, [Next]_vars
  PROVE  OwnerLeavesTerminal'
<1> SUFFICES ASSUME wpc' = "finish", Fenced(Worker)', ~row'.cancelRequested,
                    faults' = 0
             PROVE  Terminal(row'.status)
  BY DEF OwnerLeavesTerminal
<1>0. LeaseTypeOK /\ Worker \in Holders /\ row.version \in Nat
      /\ handle.version \in Nat
  BY LifecycleAssumptions, TypeFacts DEF LeaseInv
<1>1. ~row.cancelRequested /\ faults = 0
  BY CancelKnownStep, FaultsMove
<1>2. Terminal(row.status) => Terminal(row'.status)
  BY TerminalRowStays
<1>3. ~(WorkerAcquire \/ WorkerFinish \/ HomeCrash)
  BY DEF WorkerAcquire, WorkerFinish, HomeCrash
<1>4. Fenced(Worker)
  BY <1>0, <1>3, HeldMoves, LeaseStep, StaysFenced
<1>5. CASE wpc = "finish"
  BY <1>1, <1>2, <1>4, <1>5 DEF OwnerLeavesTerminal
<1>6. CASE Complete \/ ConfirmCancel \/ FailWithResult \/ FailPlain
  BY <1>6, RowEffects DEF RowBecomes, Terminal, TerminalStatuses
<1>7. CASE CompleteRefused \/ FailWithResultRefused
  <2>1. faults' = faults /\ WorkerFence => wpc' # "finish"
    BY <1>0, <1>7 DEF CompleteRefused, FailWithResultRefused, RefusedTo, Fault
  <2> QED
    BY <1>1, <1>4, <2>1 DEF WorkerFence
<1>8. CASE ConfirmRefused \/ FailPlainRefused
  <2>1. /\ wpc \in {"confirm", "fail_plain"}
        /\ ~(WorkerFence /\ row.version = handle.version)
    BY <1>1, <1>8 DEF ConfirmRefused, FailPlainRefused, RefusedTo, Fault
  <2>2. row.version # handle.version
    BY <1>4, <2>1 DEF WorkerFence
  <2>3. wpc \in Writing /\ wsub = "do"
    BY <2>1 DEF TypeInv, StatusSteps, Writing, WorkerPlaces
  <2>4. Terminal(row.status)
    BY <1>0, <1>1, <1>4, <2>1, <2>2, <2>3 DEF InStep, Undisturbed
  <2> QED
    BY <1>2, <2>4
<1> QED
  <2>1. wpc # "finish" => \/ Complete \/ ConfirmCancel \/ FailWithResult
                          \/ FailPlain \/ CompleteRefused \/ ConfirmRefused
                          \/ FailWithResultRefused \/ FailPlainRefused
    <3>1. ASSUME wpc # "finish" PROVE WorkerStep
      BY <1>3, <3>1, Frame
    <3>2. StatusBump \/ StatusResync => wpc' # "finish"
      <4>1. StatusBump \/ StatusResync => wpc' = After[wpc] \/ wpc' = "fail"
        BY DEF StatusBump, StatusResync
      <4>2. StatusBump \/ StatusResync => wpc \in StatusSteps
        BY DEF StatusBump, StatusResync, TypeInv
      <4> QED
        BY <4>1, <4>2 DEF After, StatusSteps
    <3> QED
      BY <1>3, <3>1, <3>2
      DEF WorkerStep, WorkerRefused, WorkerAcquireFault, ThreadStartFails,
          StatusCommit, StatusConflict, StatusRefused, Register, DispatchGate,
          DispatchRefused, SendPrompt, BackendResult, BackendCancelled,
          BackendFails
  <2> QED
    BY <1>5, <1>6, <1>7, <1>8, <2>1

\* A worker that ends while it still owns the session leaves a terminal row
\* behind, unless a cancel raced it or the database failed it (the clock is
\* never set back).
THEOREM LifecycleOwnerLeavesTerminal ==
  ASSUME ~ClockStepsBack
  PROVE  Spec => []OwnerLeavesTerminal
<1> DEFINE Inv == CancelKnown /\ InStep /\ OwnerLeavesTerminal
<1>1. Init => Inv
  BY DEF Init, CancelKnown, InStep, OwnerLeavesTerminal, Undisturbed
<1>2. LeaseInv /\ TypeInv /\ VersionInv /\ Inv /\ [Next]_vars => Inv'
  BY CancelKnownStep, InStepStep, OwnerLeavesStep
<1>3. Inv => OwnerLeavesTerminal
  OBVIOUS
<1> HIDE DEF Inv
<1> QED
  BY <1>1, <1>2, <1>3, LifecycleVersions, PTL DEF Spec
=============================================================================
