--------------------------- MODULE MCTaskAdmission ---------------------------
(* Up to three threads ask for a few tasks, in two situations of which each *)
(* behaviour has one:                                                       *)
(*   "keys"  two threads of one process and one of another ask under a key; *)
(*           a transaction may fail, threads may not start, processes die;  *)
(*   "runs"  two threads of one process ask for steps of a run while the    *)
(*           clock moves.                                                   *)
(* What a situation does not need is held back, so that each stays small;   *)
(* every behaviour of MCSpec is one of Spec.                                *)
EXTENDS TaskAdmission, TLC

CONSTANTS Situations, c1, c2, c3, P, Q, k1, r1

VARIABLE situation

MCProcessOf == [c \in Callers |-> IF c = c3 THEN Q ELSE P]

SameProcess == Permutations({c1, c2})

Req(k, b, r, s, l, d, m) ==
  [key |-> k, body |-> b, run |-> r, step |-> s, limit |-> l,
   maxDispatches |-> d, maxRuntime |-> m]

\* One key with two bodies, and a request without a key.
KeyRequests == {Req(k1, "a", NoRun, "", 2, 1, 1), Req(k1, "b", NoRun, "", 2, 1, 1),
                Req(NoKey, "c", NoRun, "", 2, 1, 1)}

\* A run of two dispatches and three seconds: a step asked for with its key
\* and without it, a second step, one caller that narrows and one that widens.
RunRequests == {Req(k1, "s1", r1, "s1", 2, 2, 3), Req(NoKey, "s1", r1, "s1", 2, 2, 3),
                Req(NoKey, "s2", r1, "s2", 2, 2, 3), Req(k1, "s3", r1, "s3", 1, 1, 2),
                Req(NoKey, "s4", r1, "s4", 1, 3, 9)}

AllRequests == KeyRequests \cup RunRequests

\* A thread that asks for something in this step asks for one of these.
Asks(requests) ==
  \A c \in Callers :
    caller[c].place = "idle" /\ caller'[c] # caller[c] => caller'[c].request \in requests

ByKey ==
  /\ situation = "keys"
  /\ \/ \E c \in Callers : CallerStep(c)
     \/ \E i \in DOMAIN tasks : TaskStep(i)
     \/ \E p \in Processes : Crash(p)
  /\ Asks(KeyRequests)
  /\ Len(tasks') <= 2
  /\ UNCHANGED situation

InRun ==
  /\ situation = "runs"
  /\ \/ \E c \in {c1, c2} : CallerStep(c)
     \/ \E i \in DOMAIN tasks : TaskStep(i)
     \/ Tick
  /\ Asks(RunRequests)
  /\ faults' = faults
  /\ UNCHANGED situation

MCInit ==
  /\ Init
  /\ situation \in Situations

MCNext == ByKey \/ InRun

MCSpec == MCInit /\ [][MCNext]_<<vars, situation>>
=============================================================================
