---------------------------- MODULE SessionLease ----------------------------
(***************************************************************************)
(* The lease on one row of the sessions table: runtime/lease.py over       *)
(* persistence/session_repository.py.  A holder is one acquired LeaseInfo  *)
(* (a worker's handle, a reconciliation pass); several holders may belong  *)
(* to one process instance.  Every step is one BEGIN IMMEDIATE             *)
(* transaction, which reads the database clock after the write lock, so it *)
(* is atomic and sees one value of now.                                    *)
(***************************************************************************)
EXTENDS Naturals

CONSTANTS Holders,         \* LeaseInfo objects, one per acquiring thread
          Instances,       \* process instance identities
          InstanceOf,      \* the instance each holder acquires for
          NoOwner,         \* owner_instance_id IS NULL
          LeaseDuration,   \* lease_duration_seconds
          MaxClock,        \* bound on the database clock
          MaxGeneration,   \* bound on owner_generation
          ClockStepsBack   \* may the wall clock be set back?

ASSUME LeaseAssumptions ==
  /\ InstanceOf \in [Holders -> Instances]
  /\ NoOwner \notin Instances
  /\ NoOwner \notin Holders
  /\ LeaseDuration \in Nat \ {0}
  /\ MaxClock \in Nat
  /\ MaxGeneration \in Nat
  /\ ClockStepsBack \in BOOLEAN

VARIABLES now,          \* the database clock
          owner,        \* sessions.owner_instance_id
          generation,   \* sessions.owner_generation
          expires,      \* sessions.lease_expires_at; 0 stands for NULL
          held,         \* generation in each holder's LeaseInfo, 0 = none
          lastWriter    \* generation of the latest fenced write (history)

leaseVars == <<now, owner, generation, expires, held, lastWriter>>

LeaseTypeOK ==
  /\ now \in Nat
  /\ owner \in Instances \cup {NoOwner}
  /\ generation \in Nat
  /\ expires \in Nat
  /\ held \in [Holders -> Nat]
  /\ lastWriter \in Nat

LeaseInit ==
  /\ now = 0
  /\ owner = NoOwner
  /\ generation = 0
  /\ expires = 0
  /\ held = [h \in Holders |-> 0]
  /\ lastWriter = 0

(***************************************************************************)
(* Plausible defects.  No action uses them: each takes the place of the    *)
(* definition it is named after to show that a property notices.           *)
(***************************************************************************)
\* The fence compares the instance and forgets the generation.
Fenced_InstanceOnly(h) ==
  held[h] # 0 /\ owner = InstanceOf[h] /\ expires > now

\* A takeover keeps the generation of the owner it replaces.
Acquire_SameGeneration(h) ==
  /\ owner = NoOwner \/ expires <= now
  /\ generation < MaxGeneration
  /\ owner' = InstanceOf[h]
  /\ generation' = IF generation = 0 THEN 1 ELSE generation
  /\ expires' = now + LeaseDuration
  /\ held' = [held EXCEPT ![h] = generation']
  /\ UNCHANGED <<now, lastWriter>>

\* Renewal without lease_expires_at > now.
Renew_Expired(h) ==
  /\ held[h] # 0
  /\ owner = InstanceOf[h]
  /\ generation = held[h]
  /\ expires' = now + LeaseDuration
  /\ UNCHANGED <<now, owner, generation, held, lastWriter>>

(***************************************************************************)
(* The lease transactions                                                  *)
(***************************************************************************)

\* The fence of every leased write, and ensure_lease: owner and generation
\* match the LeaseInfo, and the lease has not expired.
Fenced(h) ==
  /\ held[h] # 0
  /\ owner = InstanceOf[h]
  /\ generation = held[h]
  /\ expires > now

Acquirable(t) == owner = NoOwner \/ expires <= t

\* LeaseService.acquire: one conditional UPDATE.  The CASE that would keep
\* the generation needs a live lease, which the WHERE clause excludes.
Acquire(h) ==
  /\ Acquirable(now)
  /\ generation < MaxGeneration
  /\ owner' = InstanceOf[h]
  /\ generation' = generation + 1
  /\ expires' = now + LeaseDuration
  /\ held' = [held EXCEPT ![h] = generation + 1]
  /\ UNCHANGED <<now, lastWriter>>

\* LeaseService.renew, called by the heartbeat.
Renew(h) ==
  /\ Fenced(h)
  /\ expires' = now + LeaseDuration
  /\ UNCHANGED <<now, owner, generation, held, lastWriter>>

\* LeaseService.release: matched on owner and generation, not on expiry.
\* The holder is finished with its LeaseInfo whether or not the row matched.
Release(h) ==
  /\ held[h] # 0
  /\ held' = [held EXCEPT ![h] = 0]
  /\ IF owner = InstanceOf[h] /\ generation = held[h]
       THEN owner' = NoOwner /\ expires' = 0
       ELSE UNCHANGED <<owner, expires>>
  /\ UNCHANGED <<now, generation, lastWriter>>

\* A transaction that carries the lease fence and commits.
FencedWrite(h) ==
  /\ Fenced(h)
  /\ lastWriter' = held[h]
  /\ UNCHANGED <<now, owner, generation, expires, held>>

\* The holder's process dies: its LeaseInfo is gone, the row keeps the lease.
Forget(h) ==
  /\ held[h] # 0
  /\ held' = [held EXCEPT ![h] = 0]
  /\ UNCHANGED <<now, owner, generation, expires, lastWriter>>

\* The database clock moves: forward, or back if it may be set back.
Tick ==
  /\ \E t \in 0..MaxClock :
       /\ t = now + 1 \/ (ClockStepsBack /\ t < now)
       /\ now' = t
  /\ UNCHANGED <<owner, generation, expires, held, lastWriter>>

HolderStep(h) ==
  Acquire(h) \/ Renew(h) \/ Release(h) \/ FencedWrite(h) \/ Forget(h)

LeaseNext == Tick \/ \E h \in Holders : HolderStep(h)

LeaseSpec == LeaseInit /\ [][LeaseNext]_leaseVars

-----------------------------------------------------------------------------
(***************************************************************************)
(* Properties                                                              *)
(***************************************************************************)

\* At most one LeaseInfo passes the fence, even among holders of one process
\* instance ("lease isolates process instances, not threads", acquire).
Exclusive ==
  \A g, h \in Holders : Fenced(g) /\ Fenced(h) => g = h

\* No two LeaseInfo objects carry one generation, and none is ahead of the
\* durable row: the fact that makes a generation name its holder.
GenerationsDistinct ==
  \A g, h \in Holders :
    /\ held[h] <= generation
    /\ (held[g] = held[h] /\ held[h] # 0) => g = h

\* Fenced writes arrive in the order of the generations that made them: once
\* a newer owner has written, no older one ever writes again (the promise of
\* runtime/lease.py, "the stale write is refused").
WritesOrdered == [][lastWriter' >= lastWriter]_leaseVars

\* A lease that ran out is never live again for the same LeaseInfo: renewal
\* cannot revive it (renew_lease).  Needs a clock that is not set back.
ExpiredNeverRevived ==
  [][\A h \in Holders :
       held[h] # 0 /\ held'[h] = held[h] /\ ~Fenced(h) => ~Fenced(h)']_leaseVars

\* A live lease ends by its holder's own doing or by the clock, never by
\* another holder's acquire or by a stale release.
OnlyHolderEndsLease ==
  [][\A h \in Holders :
       Fenced(h) /\ ~Fenced(h)' => held'[h] # held[h] \/ now' # now]_leaseVars

\* The lease implements the single-writer contract.
Contract == INSTANCE SingleWriter WITH
  Writers   <- Holders,
  Nobody    <- NoOwner,
  writer    <- IF \E h \in Holders : Fenced(h)
                 THEN CHOOSE h \in Holders : Fenced(h) ELSE NoOwner,
  epoch     <- generation,
  lastEpoch <- lastWriter

ImplementsSingleWriter == Contract!SWSpec
=============================================================================
