-------------------------- MODULE StationAdmission --------------------------
(***************************************************************************)
(* What the transport promises about the sessions of a station, whatever   *)
(* happens to links, calls and timers: its primary session has one user at *)
(* a time, recordings never share the station with a stream, and streams   *)
(* on additional sessions stay within the configured limit.                *)
(***************************************************************************)
EXTENDS Naturals, FiniteSets

CONSTANTS Station, Camera, LiveLimit

VARIABLES
    user,      \* [Station -> Use], who owns the primary session
    extra      \* [Station -> SUBSET Camera], streams on additional sessions

Use == {"free", "stream", "command", "history"}

Init ==
    /\ user = [s \in Station |-> "free"]
    /\ extra = [s \in Station |-> {}]

Take(s, use) ==
    /\ user[s] = "free"
    /\ use \in {"stream", "history"} => extra[s] = {}
    /\ user' = [user EXCEPT ![s] = use]
    /\ UNCHANGED extra

Give(s) ==
    /\ user' = [user EXCEPT ![s] = "free"]
    /\ UNCHANGED extra

AddExtra(s, c) ==
    /\ user[s] = "free"
    /\ Cardinality(extra[s] \cup {c}) <= LiveLimit
    /\ extra' = [extra EXCEPT ![s] = @ \cup {c}]
    /\ UNCHANGED user

DropExtra(s, c) ==
    /\ extra' = [extra EXCEPT ![s] = @ \ {c}]
    /\ UNCHANGED user

Next ==
    \E s \in Station :
        \/ \E use \in Use \ {"free"} : Take(s, use)
        \/ Give(s)
        \/ \E c \in Camera : AddExtra(s, c) \/ DropExtra(s, c)

Spec == Init /\ [][Next]_<<user, extra>>
=============================================================================
