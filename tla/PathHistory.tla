------------------------------ MODULE PathHistory ------------------------------
(* MowerPathAccumulator (src/src/mowers/maps/history.ts): the decoded cleaning
   paths of successive snapshots are merged into one history. A history or
   complete path speaks for the whole path; a realtime path extends what is held
   provisionally; what belongs to another map, path or grid starts anew.

   Not here: the validation of an input's fields (a malformed input is one value)
   and the copies made of it. *)
EXTENDS Integers, Sequences, FiniteSets, SequencesExt, Subsequences

CONSTANTS
    Inputs,         \* what a caller may merge: records of the fields below
    Absent,         \* no history, no map, no path, no pose
    MaxPoints       \* points of one history
(* An input: malformed or not, its revision and receipt time, map |-> Absent or
   [id, generation] and path |-> Absent or [id, mapId, kind, endPose, points]. *)
Points == UNION {{i.path.points[k] : k \in DOMAIN i.path.points} :
                 i \in {x \in Inputs : x.path # Absent}}
(* What the validation of an input that is not malformed has made sure of. *)
ASSUME PathHistoryAssumption ==
    /\ MaxPoints \in Nat /\ Absent \notin {"started", "extended"}
    /\ \A i \in Inputs : ~i.malformed =>
          /\ i.receivedAt \in Int /\ i.revision \in Int
          /\ i.path # Absent => i.path.points \in Seq(Points)

VARIABLES
    history,        \* #history, or Absent
    outcome,        \* what the last merge() returned
    merged          \* the last input merge() was given, or Absent
historyVars == <<history, outcome, merged>>

PathKinds == {"realtime", "history", "complete"}
Authoritative(path) == path.kind # "realtime"

HistoryInit == history = Absent /\ outcome = Absent /\ merged = Absent

(* How many leading points of b equal the points of a behind the offset. *)
CommonPrefix(a, offset, b) == Len(LongestCommonPrefix({SubSeq(a, offset + 1, Len(a)), b}))

SegmentsBeforeUncut(segments, end) ==
    Picked(segments, {i \in DOMAIN segments : segments[i].start < end})
(* The segments before an end; one that crosses it is cut. *)
SegmentsBefore(segments, end) ==
    LET kept == Picked(segments, {i \in DOMAIN segments : segments[i].start < end})
    IN  [i \in DOMAIN kept |-> IF kept[i].end <= end THEN kept[i] ELSE [kept[i] EXCEPT !.end = end]]
NewSegment(start, end, input) ==
    [start |-> start, end |-> end, receivedAt |-> input.receivedAt, revision |-> input.revision,
     kind |-> input.path.kind]

Rejected(reason) == outcome' = reason /\ UNCHANGED history

StartHistory(input) ==
    LET path == input.path IN
    IF Len(path.points) > MaxPoints THEN Rejected("too_many_points")
    ELSE /\ outcome' = "started"
         /\ history' =
              [mapId |-> input.map.id, pathId |-> path.id, generation |-> input.map.generation,
               kind |-> path.kind, endPose |-> IF Authoritative(path) THEN path.endPose ELSE Absent,
               points |-> path.points,
               segments |-> <<NewSegment(0, Len(path.points), input)>>,
               confirmed |-> IF Authoritative(path) THEN Len(path.points) ELSE 0,
               receivedAt |-> input.receivedAt, revision |-> input.revision]

(* What a path that speaks for the whole says about it: its kind, and its pose
   when it has one. *)
Confirmed(h, path, count) ==
    [h EXCEPT !.kind = path.kind, !.confirmed = count,
              !.endPose = IF path.endPose # Absent THEN path.endPose ELSE @]
Dated(h, input) == [h EXCEPT !.receivedAt = input.receivedAt, !.revision = input.revision]

(* No new point; up to the common points a whole path confirms them. *)
Unchanged(input, common) ==
    /\ outcome' = "unchanged"
    /\ history' = LET h == Dated(history, input)
                  IN  IF Authoritative(input.path) /\ common >= history.confirmed
                      THEN Confirmed(h, input.path, common) ELSE h

(* Keep the first points held and append the input's behind from. *)
Joined(path, keep, from) ==
    SubSeq(history.points, 1, keep) \o SubSeq(path.points, from + 1, Len(path.points))
Extend(input, keep, from) ==
    LET path == input.path
        points == Joined(path, keep, from)
        h == [Dated(history, input) EXCEPT
                !.points = points,
                !.segments = Append(SegmentsBefore(history.segments, keep),
                                    NewSegment(keep, Len(points), input))]
    IN  IF Len(points) > MaxPoints THEN Rejected("too_many_points")
        ELSE /\ outcome' = "extended"
             /\ history' = IF Authoritative(path) THEN Confirmed(h, path, Len(points)) ELSE h

ContinueReplacing(input) ==
    LET path == input.path
        common == CommonPrefix(history.points, 0, path.points)
    IN  IF common = Len(path.points) THEN Unchanged(input, common)
        ELSE IF common >= history.confirmed THEN Extend(input, common, common) ELSE StartHistory(input)

(* Paths of one map, path and grid. *)
Continue(input) ==
    LET path == input.path
        held == Len(history.points)
        common == CommonPrefix(history.points, 0, path.points)
        tail == CommonPrefix(history.points, history.confirmed, path.points)
    IN  IF common = Len(path.points) THEN Unchanged(input, common)
        ELSE IF common = held THEN Extend(input, common, common)
        ELSE IF Authoritative(path)
             THEN IF common >= history.confirmed THEN Extend(input, common, common) ELSE StartHistory(input)
        ELSE IF tail = Len(path.points) THEN Unchanged(input, history.confirmed)
        ELSE IF tail = held - history.confirmed THEN Extend(input, held, tail)
        ELSE Extend(input, held, 0)
SameKey(input) == history.mapId = input.map.id /\ history.pathId = input.path.id
Refusal(input) ==
    IF input.malformed THEN "malformed"
    ELSE IF input.path = Absent THEN "path_unavailable"
    ELSE IF input.path.kind \notin PathKinds THEN "unknown_kind"
    ELSE IF input.map = Absent THEN "map_unavailable"
    ELSE IF input.path.mapId # input.map.id THEN "identity_mismatch"
    ELSE IF history = Absent THEN "none"
    ELSE IF input.receivedAt < history.receivedAt THEN "out_of_order"
    ELSE IF input.receivedAt = history.receivedAt /\ input.revision = history.revision THEN "duplicate"
    ELSE "none"

Merge(input) ==
    /\ merged' = input
    /\ IF Refusal(input) # "none" THEN Rejected(Refusal(input))
       ELSE IF input.path.points = <<>> THEN Rejected("empty")
       ELSE IF history = Absent THEN StartHistory(input)
       ELSE IF SameKey(input) /\ history.generation = input.map.generation THEN Continue(input)
       ELSE StartHistory(input)
Clear == history # Absent /\ history' = Absent /\ outcome' = Absent /\ merged' = Absent

HistoryNext == Clear \/ \E input \in Inputs : Merge(input)
HistorySpec == HistoryInit /\ [][HistoryNext]_historyVars

-------------------------------------------------------------------------------

(* The segments of a history tile its points, each behind the one before and not
   older than it: every point names the input that carried it, also after a
   provisional tail was cut. *)
Tiles(h) ==
    LET s == h.segments
    IN  /\ s # <<>> /\ s[1].start = 0 /\ s[Len(s)].end = Len(h.points)
        /\ \A i \in DOMAIN s :
              /\ s[i].start < s[i].end /\ s[i].receivedAt <= h.receivedAt
              /\ i > 1 => s[i].start = s[i - 1].end /\ s[i - 1].receivedAt <= s[i].receivedAt
(* A history is in its bounds, and its segments tile its points. *)
HistoryOK ==
    history # Absent =>
        /\ Len(history.points) \in 1..MaxPoints /\ history.confirmed \in 0..Len(history.points)
        /\ history.kind \in PathKinds /\ (history.kind = "realtime" => history.confirmed = 0)
        /\ Tiles(history)

(* What a whole path has confirmed stays: only another map, path or grid, or a
   whole path that contradicts it, starts anew. *)
ConfirmedStays ==
    [][history # Absent /\ history' # Absent /\ outcome' # "started" =>
         /\ history'.confirmed >= history.confirmed
         /\ SubSeq(history'.points, 1, history.confirmed) = SubSeq(history.points, 1, history.confirmed)]_historyVars

(* A realtime path of the same history takes nothing away: no point, no kind, no
   pose, and it confirms nothing. *)
RealtimeOnlyAdds ==
    [][history # Absent /\ history' # Absent /\ outcome' \in {"extended", "unchanged"}
         /\ ~Authoritative(merged'.path) =>
         /\ IsPrefix(history.points, history'.points)
         /\ history'.kind = history.kind /\ history'.endPose = history.endPose
         /\ history'.confirmed = history.confirmed]_historyVars

(* A whole path that brings points makes the history the path on the wire. *)
WholePathWins ==
    [][outcome' \in {"started", "extended"} /\ history' # history /\ Authoritative(merged'.path)
         => history'.points = merged'.path.points /\ history'.confirmed = Len(history'.points)]_historyVars

(* What a merge may do to the history that is held. *)
PathSteps == ConfirmedStays /\ RealtimeOnlyAdds /\ WholePathWins
================================================================================
