----------------------------- MODULE RouteContract -----------------------------
(***************************************************************************)
(* What one call of a crew backend's start or resume promises its caller,  *)
(* whatever the vendor's program does: the call ends at most once; a       *)
(* completed call put the prompt to the crew first; a call is reported     *)
(* cancelled only if somebody asked; a refused dispatch never prompted;    *)
(* and a cancellation recorded while the call was still preparing dooms    *)
(* it.                                                                     *)
(***************************************************************************)
VARIABLES phase,    \* "preparing", "prompted" or "ended"
          asked,    \* somebody asked for cancellation
          doomed,   \* ... and the backend knew before it let the prompt go
          outcome   \* how the call ended

cvars == <<phase, asked, doomed, outcome>>

CInit == phase = "preparing" /\ ~asked /\ ~doomed /\ outcome = "none"

\* A cancellation; one known early enough dooms the call.
Ask == /\ asked' = TRUE
       /\ doomed' \in {doomed, phase = "preparing"}
       /\ UNCHANGED <<phase, outcome>>

\* The backend learns of an earlier request as it registers the call.
Learn == /\ phase = "preparing" /\ asked
         /\ doomed' = TRUE
         /\ UNCHANGED <<phase, asked, outcome>>

Prompt == /\ phase = "preparing"
          /\ phase' = "prompted"
          /\ UNCHANGED <<asked, doomed, outcome>>

End(how) == /\ phase # "ended"
            /\ phase' = "ended" /\ outcome' = how
            /\ UNCHANGED <<asked, doomed>>

Complete == phase = "prompted" /\ ~doomed /\ End("completed")
Cancelled == asked /\ End("cancelled")
Refused == phase = "preparing" /\ End("refused")
Fails == \E how \in {"protocol", "timeout", "unavailable"} : End(how)

CNext == Ask \/ Learn \/ Prompt \/ Complete \/ Cancelled \/ Refused \/ Fails

CSpec == CInit /\ [][CNext]_cvars
================================================================================
