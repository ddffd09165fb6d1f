-------------------------- MODULE MCTaskLifecycle --------------------------
(* One worker, and up to two processes that start while it runs.           *)
EXTENDS TaskLifecycle

CONSTANTS A, B, C, r1, r2

MCInstanceOf == [h \in Holders |-> IF h = Worker THEN A ELSE IF h = r1 THEN B ELSE C]
=============================================================================
