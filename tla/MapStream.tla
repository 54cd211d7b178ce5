------------------------------- MODULE MapStream -------------------------------
(* The bytes behind a mower's map files: the segments the mower sends on the file
   channel, the receiving half of MapKcp that puts them in order again
   (src/src/mowers/maps/kcp.ts) and the MapFileReader that cuts the stream into
   files (framing.ts). The mower is external; it resends what it likes, and what it
   sends need not be a correct stream.

   A record of the stream is a header and a chunk of one byte; a segment carries one
   of the two. Reading stops at the first error: the session then ends (module
   MapSession). *)
EXTENDS Integers, Sequences, FiniteSets, SequencesExt, Subsequences

CONSTANTS
    Wires,          \* the segments a mower may send, one sequence for each mower
    Undefined,
    MaxSegments,    \* bound: segments of a mower
    Window,         \* how far ahead of the next segment one may be (128)
    PendingLimit,   \* how many are kept out of order (16)
    MessageLimit,   \* messages of a session
    MowerWindow,    \* external: how far ahead of the acknowledgements the mower sends
    MaxDuplicates   \* bound: segments received again

(* A record is a chunk of a file, or the end of the stream (index -1). A segment
   is one of its pieces - is it the last? - with the number of pieces that follow
   it in its message. *)
Record == [file : STRING \cup {Undefined}, index : Nat \cup {-1}, total : Nat, end : BOOLEAN]
Segment == [fragment : 0..7, last : BOOLEAN, record : Record]
Numbers == 0..(MaxSegments - 1)

ASSUME MapStreamAssumption ==
    /\ \A w \in Wires : w \in Seq(Segment) /\ Len(w) <= MaxSegments
    \* undefined is neither a number nor a file
    /\ Undefined \notin Int /\ Undefined \notin [file : STRING \cup {Undefined}, chunks : Seq(Record)]
    /\ {MaxSegments, Window, PendingLimit, MessageLimit, MowerWindow, MaxDuplicates} \subseteq Nat

VARIABLES
    stream,     \* external: the mower's segments
    sent,       \* external: how many it has sent
    acked,      \* external: the segments acknowledged to it
    next,       \* #receiveNext
    ahead,      \* #pending: the segments kept out of order
    fragments,  \* #fragments: segments of the message not complete
    messages,   \* #messages
    reader,     \* the file reader
    failed,     \* has the receiver thrown
    closed,     \* are receiver and reader closed
    duplicates  \* segments received again
mower == <<stream, sent, acked>>
streamVars == <<mower, next, ahead, fragments, messages, reader, failed, closed, duplicates>>

NewReader ==
    [current |-> Undefined, index |-> Undefined, terminal |-> FALSE, out |-> <<>>, handed |-> <<>>,
     failed |-> FALSE]

StreamInit ==
    /\ stream \in Wires /\ sent = 0 /\ acked = {}
    /\ next = 0 /\ ahead = {} /\ fragments = <<>> /\ messages = 0
    /\ reader = NewReader /\ failed = FALSE /\ closed = FALSE /\ duplicates = 0

(******************************** MapFileReader ********************************)

Broken(r) == [r EXCEPT !.failed = TRUE]

(* The end of the stream: not inside a file, and nothing behind it. *)
Terminal(r, segment) ==
    IF r.terminal \/ r.current # Undefined \/ segment.fragment # 0 THEN Broken(r)
    ELSE [r EXCEPT !.terminal = TRUE]

(* A whole chunk: chunks are numbered through all files, a file is not interrupted
   by another, and is as long as it said. *)
ChunkUnordered(r, record) ==
    LET part == IF r.current = Undefined THEN [file |-> record.file, chunks |-> <<record>>]
                ELSE [r.current EXCEPT !.chunks = Append(@, record)]
    IN  IF part.file # record.file \/ part.chunks[1].total # record.total
             \/ Len(part.chunks) > record.total
             \/ (record.end /\ Len(part.chunks) # record.total) THEN Broken(r)
        ELSE IF record.end
             THEN [r EXCEPT !.index = record.index, !.current = Undefined, !.out = Append(@, part)]
             ELSE [r EXCEPT !.index = record.index, !.current = part]
Chunk(r, record) ==
    IF r.index # Undefined /\ record.index # r.index + 1 THEN Broken(r) ELSE ChunkUnordered(r, record)

Read(r, segment) ==
    IF segment.record.index = -1 THEN Terminal(r, segment)
    ELSE IF r.terminal THEN Broken(r)
    ELSE IF segment.last THEN Chunk(r, segment.record) ELSE r
(* Files are handed over when the message they end in is read. *)
Piece(r, segment) ==
    LET read == Read(r, segment)
    IN  IF r.failed THEN r
        ELSE IF read.failed \/ segment.fragment # 0 THEN read
        ELSE [read EXCEPT !.handed = @ \o read.out, !.out = <<>>]

ReadAll(parts) ==
    LET after[i \in 0..Len(parts)] == IF i = 0 THEN reader ELSE Piece(after[i - 1], parts[i])
    IN  after[Len(parts)]

(*********************************** MapKcp ***********************************)

(* Everything from the next segment to the first gap is taken. *)
RunEnd(held) == CHOOSE n \in next..(next + Len(stream)) :
    n \notin held /\ \A k \in next..(n - 1) : k \in held
Waiting(held, to) == {k \in held : k >= to}
Run(from, to) == [i \in 1..(to - from) |-> stream[from + i]]

(* The pieces of a message count down to 0. *)
CountsDown(parts) == \A i \in 2..Len(parts) :
    parts[i - 1].fragment # 0 => parts[i].fragment = parts[i - 1].fragment - 1
MessageEnds(parts) == {i \in DOMAIN parts : parts[i].fragment = 0}
Complete(parts) == IF MessageEnds(parts) = {} THEN 0
                   ELSE CHOOSE i \in MessageEnds(parts) : \A j \in MessageEnds(parts) : j <= i

(* What is held once a segment is there: also one out of order, but none twice. *)
HeldWith(sn) == IF sn >= next THEN ahead \cup {sn} ELSE ahead
Fails == failed' = TRUE /\ UNCHANGED <<next, ahead, fragments, messages, reader, acked>>
ReceiveSegment(sn) ==
    LET held == HeldWith(sn)
        to == RunEnd(held)
        parts == fragments \o Run(next, to)
    IN  IF sn >= next + Window \/ (sn >= next /\ sn \notin ahead /\ Cardinality(ahead) >= PendingLimit)
             \/ ~CountsDown(parts) \/ messages + Cardinality(MessageEnds(parts)) > MessageLimit
        THEN Fails
        ELSE /\ next' = to /\ ahead' = Waiting(held, to)
             /\ fragments' = SubSeq(parts, Complete(parts) + 1, Len(parts))
             /\ messages' = messages + Cardinality(MessageEnds(parts))
             /\ reader' = ReadAll(SubSeq(parts, 1, Complete(parts)))
             /\ failed' = reader'.failed
             /\ acked' = acked \cup {sn}

(* A segment arrives, in any order, and again when the mower sends it again. *)
Arrives(sn) ==
    /\ ~failed /\ ~closed /\ sn \in 0..(sent - 1)
    /\ sn \in acked => duplicates < MaxDuplicates
    /\ ReceiveSegment(sn)
    /\ duplicates' = IF sn \in acked THEN duplicates + 1 ELSE duplicates
    /\ UNCHANGED <<stream, sent, closed>>
CloseStream ==
    /\ ~closed /\ closed' = TRUE
    /\ ahead' = {} /\ fragments' = <<>> /\ reader' = [reader EXCEPT !.current = Undefined]
    /\ UNCHANGED <<mower, next, messages, failed, duplicates>>

(* External: the mower sends, as far ahead of the first segment that is not
   acknowledged as its window allows. *)
MowerSends ==
    /\ sent < Len(stream)
    /\ \A k \in 0..(sent - MowerWindow) : k \in acked
    /\ sent' = sent + 1
    /\ UNCHANGED <<stream, acked, next, ahead, fragments, messages, reader, failed, closed, duplicates>>

StreamNext == CloseStream \/ MowerSends \/ \E sn \in Numbers : Arrives(sn)

StreamSpec == StreamInit /\ [][StreamNext]_streamVars

-------------------------------------------------------------------------------

(* The files in the first n segments of w: each is the run of chunks up to the next
   chunk that ends a file. *)
IsChunk(segment) == segment.last /\ segment.record.index # -1
EndsFile(segment) == IsChunk(segment) /\ segment.record.end
ChunksTo(w, e) == {i \in 1..e : IsChunk(w[i]) /\ \A j \in i..(e - 1) : ~EndsFile(w[j])}
FileTo(w, e) ==
    [file |-> w[e].record.file, chunks |-> Picked([i \in DOMAIN w |-> w[i].record], ChunksTo(w, e))]
FilesIn(w, n) == Picked([e \in DOMAIN w |-> FileTo(w, e)], {e \in 1..n : EndsFile(w[e])})
(* Is this a file as a mower holds it: its own chunks, in order, all of them? *)
Whole(f) ==
    /\ Len(f.chunks) = f.chunks[1].total
    /\ \A i \in DOMAIN f.chunks :
          /\ f.chunks[i].file = f.file
          /\ f.chunks[i].index = f.chunks[1].index + i - 1
          /\ f.chunks[i].end <=> i = Len(f.chunks)

StreamType ==
    /\ next \in 0..sent /\ ahead \subseteq next..(sent - 1) /\ next \notin ahead
    /\ Cardinality(ahead) <= PendingLimit
    /\ ~closed => Len(fragments) <= 8
    /\ ~failed => messages <= MessageLimit /\ ~reader.failed

(* The files handed over are exactly the whole files of what the mower has sent up
   to the first gap, each once and in order, however its segments arrived; what is
   in the stream before an error is handed over, nothing behind it. *)
FilesInOrder ==
    /\ IsPrefix(reader.handed, FilesIn(stream, next))
    /\ ~failed /\ ~closed => reader.handed = FilesIn(stream, next - Len(fragments))
    /\ \A i \in DOMAIN reader.handed : Whole(reader.handed[i])

(* What was acknowledged is kept, for the mower never sends it again; when
   everything is acknowledged, everything is read. *)
AcknowledgedIsKept == ~closed => acked = ahead \cup 0..(next - 1)

(* The receiver and the file reader together. *)
StreamOK == StreamType /\ FilesInOrder /\ AcknowledgedIsKept
================================================================================
