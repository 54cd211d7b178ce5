------------------------------- MODULE MCMapData -------------------------------
(* What a mower's map data goes through: the transfer of one session's files
   (MapStream), and then the merging of the paths of successive snapshots
   (PathHistory). The bytes of the files and the decoder between the two are not
   modelled: any path may come of them. *)
EXTENDS MapStream, PathHistory

CONSTANT MaxTime

(* Two files of two chunks and one chunk as a correct stream, and streams that
   skip a chunk, interleave two files, end too early, go on after their end or
   are longer than they said. *)
Piece1(f, i, n, e) == [file |-> f, index |-> i, total |-> n, end |-> e]
End == [file |-> Undefined, index |-> -1, total |-> 0, end |-> FALSE]
Good == <<Piece1("map", 0, 2, FALSE), Piece1("map", 1, 2, TRUE), Piece1("nav", 2, 1, TRUE), End>>
Streams == {
    Good,
    <<Piece1("map", 0, 2, FALSE), Piece1("map", 2, 2, TRUE)>>,
    <<Piece1("nav", 0, 1, TRUE), Piece1("map", 1, 2, FALSE), Piece1("nav", 2, 1, TRUE)>>,
    <<Piece1("nav", 0, 1, TRUE), Piece1("map", 1, 2, FALSE), End>>,
    <<Piece1("nav", 0, 1, TRUE), Piece1("map", 1, 2, TRUE)>>,
    <<Piece1("nav", 0, 1, TRUE), End, Piece1("map", 1, 1, TRUE)>>}

Pieces(records) == FoldLeft(
    LAMBDA pieces, r :
        IF r.index = -1 THEN Append(pieces, [last |-> TRUE, record |-> r])
        ELSE pieces \o <<[last |-> FALSE, record |-> r], [last |-> TRUE, record |-> r]>>,
    <<>>, records)
(* The pieces in messages of k; the end of the stream has a message of its own. *)
Cut(pieces, k) ==
    LET n == Len(pieces)
        m == IF pieces[n].record.index = -1 THEN n - 1 ELSE n
        behind(i) == k - 1 - ((i - 1) % k)
    IN  [i \in 1..n |->
            [fragment |-> IF i > m THEN 0 ELSE IF i + behind(i) > m THEN m - i ELSE behind(i),
             last |-> pieces[i].last, record |-> pieces[i].record]]
Miscounted(w) == [w EXCEPT ![2].fragment = 5]
MCWires == {Cut(Pieces(s), k) : s \in Streams, k \in {1, 2, 3}} \cup {Miscounted(Cut(Pieces(Good), 3))}

(* Paths of up to two points of one map, path and grid, and a path of another grid
   and of another map, at each time; and what is refused. *)
PointLists == UNION {[1..n -> {"a", "b"}] : n \in 0..2}
Input(t, map, grid, k, pose, s) ==
    [malformed |-> FALSE, revision |-> 1, receivedAt |-> t, map |-> [id |-> map, generation |-> grid],
     path |-> [id |-> 1, mapId |-> map, kind |-> k, endPose |-> pose, points |-> s]]
Some == Input(MaxTime, 1, 1, "history", "p", <<"a">>)
MCInputs ==
    {Input(t, 1, 1, k, pose, s) :
        t \in 1..MaxTime, k \in {"realtime", "history"}, pose \in {"p", Absent}, s \in PointLists}
    \cup {Input(t, m[1], m[2], "history", "p", <<"a">>) : t \in 1..MaxTime, m \in {<<1, 2>>, <<2, 1>>}}
    \cup {[Some EXCEPT !.malformed = TRUE], [Some EXCEPT !.path = Absent], [Some EXCEPT !.map = Absent],
           [Some EXCEPT !.path.kind = "unknown"], [Some EXCEPT !.path.mapId = 3]}

(* The snapshots begin when a transfer is over; one such state stands for all. *)
TransferOver ==
    closed /\ ~failed /\ next = Len(stream) /\ duplicates = 0 /\ stream = Cut(Pieces(Good), 2)
MCInit == StreamInit /\ HistoryInit
Transfer == StreamNext /\ history = Absent /\ UNCHANGED historyVars
Merging == TransferOver /\ HistoryNext /\ UNCHANGED streamVars
MCNext == Transfer \/ Merging
MCSpec == MCInit /\ [][MCNext]_<<streamVars, historyVars>>
================================================================================
