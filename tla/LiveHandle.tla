----------------------------- MODULE LiveHandle -----------------------------
(***************************************************************************)
(* What startLive promises about the streams of one camera on the primary  *)
(* session: one attempt at a time owns the camera, a start either becomes  *)
(* a live stream or is cleaned up, and the result of every attempt is      *)
(* reported exactly once, before the next attempt can begin.               *)
(***************************************************************************)
EXTENDS Naturals

CONSTANT MaxAttempts    \* bound on the attempts of a behaviour

VARIABLES
    begun,      \* number of attempts so far; the last one is the current
    stage,      \* what the current attempt is doing
    report      \* what was reported of each attempt

vars == <<begun, stage, report>>

Result == {"confirmed", "unconfirmed"}

Init ==
    /\ begun = 0
    /\ stage = "none"
    /\ report = [n \in 1 .. MaxAttempts |-> "none"]

Begin ==
    /\ stage = "none"
    /\ begun < MaxAttempts
    /\ begun' = begun + 1
    /\ stage' \in {"starting", "cleaning"}
    /\ UNCHANGED report

Open ==
    /\ stage = "starting"
    /\ stage' = "live"
    /\ UNCHANGED <<begun, report>>

Fail ==
    /\ stage = "starting"
    /\ stage' = "cleaning"
    /\ UNCHANGED <<begun, report>>

(* A failed cleanup keeps its owner until the session is closed.           *)
Report(r) ==
    /\ stage \in {"live", "cleaning"}
    /\ report[begun] = "none"
    /\ report' = [report EXCEPT ![begun] = r]
    /\ stage' = IF stage = "cleaning" /\ r = "unconfirmed" THEN "closing" ELSE "none"
    /\ UNCHANGED begun

Release ==
    /\ stage = "closing"
    /\ stage' = "none"
    /\ UNCHANGED <<begun, report>>

Next == Begin \/ Open \/ Fail \/ (\E r \in Result : Report(r)) \/ Release

Spec == Init /\ [][Next]_vars
=============================================================================
