----------------------------- MODULE MCDetections -----------------------------
(* Three occurrences at one camera: a person, reported by two formats of push and
   by device events of a generic and a named kind, another person with a push
   and a device event, and something whose push has no key, no time and cannot be
   decoded. *)
EXTENDS Detections

CONSTANTS cam, person, other, third, p1, p2, o1, ann

PersonPush(id, transport, code, name) ==
    [about |-> person, serial |-> cam, type |-> "person", code |-> code, id |-> id,
     at |-> 1, name |-> name, transport |-> transport]
OtherPush(o, id, type, code, at) ==
    [about |-> o, serial |-> cam, type |-> type, code |-> code, id |-> id,
     at |-> at, name |-> Nothing, transport |-> 1]
Report(o, type, name) ==
    [about |-> o, serial |-> cam, type |-> type, name |-> name, stranger |-> FALSE]

Persons == {PersonPush(p1, 1, 3102, Nothing), PersonPush(p2, 2, 3111, ann),
            OtherPush(other, o1, "person", 3102, 1)}
MCPushes == Persons \cup {OtherPush(third, Nothing, "notification", Nothing, Nothing)}
MCReports == {Report(person, "motion", Nothing), Report(person, "person", ann),
              Report(other, "person", Nothing)}
===============================================================================
