---------------------------- MODULE SingleWriter ----------------------------
(***************************************************************************)
(* What the session lease promises, with no clock, owner or expiry in it:  *)
(* at any moment at most one writer, every grant opens a new epoch, and    *)
(* the durable row is only ever written by the present writer.             *)
(***************************************************************************)
EXTENDS Naturals

CONSTANTS Writers,      \* whoever can be granted the right to write
          Nobody        \* no writer at present

VARIABLES writer,       \* the present writer, or Nobody
          epoch,        \* number of grants so far
          lastEpoch     \* epoch of the latest write, 0 before the first

swVars == <<writer, epoch, lastEpoch>>

SWInit ==
  /\ writer = Nobody
  /\ epoch = 0
  /\ lastEpoch = 0

Grant(w) ==
  /\ writer = Nobody
  /\ writer' = w
  /\ epoch' = epoch + 1
  /\ UNCHANGED lastEpoch

Revoke ==
  /\ writer # Nobody
  /\ writer' = Nobody
  /\ UNCHANGED <<epoch, lastEpoch>>

Write ==
  /\ writer # Nobody
  /\ lastEpoch' = epoch
  /\ UNCHANGED <<writer, epoch>>

SWNext == (\E w \in Writers : Grant(w)) \/ Revoke \/ Write

SWSpec == SWInit /\ [][SWNext]_swVars
=============================================================================
