------------------------------- MODULE Recordings -------------------------------
(* RecordingAccess (src/src/recordings.ts) and downloadRecording (download.ts) on
   one owner's session: one operation at a time, a query of one or more pages or a
   transfer, and the references that a complete list gives out; and of the session
   (vendor/src/p2p/session.ts) what it does with the three kinds of traffic these
   read, each of which it puts in order by a sequence of its own: answers and the
   notices about a transfer (CONTROL), the chunks of a transfer (BINARY), and the
   results of commands, which come by themselves. Nothing orders one kind after
   another: the finish of a transfer may overtake its chunks.

   The device is external: it answers a query, sends chunks, finishes a transfer,
   or stays silent; a datagram it sends arrives in any order, any time, or never.
   Of the rows of an answer only their number and identity count; the observation
   is modelled by the command results it counts. Connecting, and what else may own
   the session, is module DeviceTransport. *)
EXTENDS Naturals, Sequences, FiniteSets, SequencesExt

CONSTANTS
    Rows,           \* the recordings a device may hold
    Listing,        \* the recordings of a list before, whose references may still stand
    None,
    Limits,         \* the widths of the pages of a list (100, 500, 2000, 10000)
    Caps,           \* external: how many rows a device gives at most, or None
    MaxReferences,  \* references kept (20000)
    MaxBytes,       \* size of a transfer (32 MiB), in chunks
    MaxOperations,  \* bound: operations
    Frames,         \* bound: the chunks that the device sends, each "video" or "audio"
    MaxChanges      \* bound: rows the device adds or deletes during a list

Queries == {"list", "calendar", "thumbnail", "probe"}
(* A command whose result is outstanding: of a page, of a transfer or its cancel. *)
Commands == Nat \X {"query", "start", "cancel"} \X Nat
(* What an operation keeps: the page it is at and what the page before showed, the
   commands outstanding when it began and those counted; of a transfer whether the
   caller has its handle, whether stop() was called, whether the streams have ended
   and whether the device's finish came. *)
Operations ==
    [id : Nat, kind : Queries \cup {"download"},
     at : {"connect", "query", "transfer", "closing"},
     page : 0..Len(Limits), previous : SUBSET Rows, earlier : SUBSET Commands,
     counted : SUBSET Commands,
     handle : BOOLEAN, stopping : BOOLEAN, finished : BOOLEAN, confirmed : BOOLEAN]

ASSUME RecordingsAssumption ==
    /\ Limits \in Seq(Nat) /\ Limits # <<>> /\ IsFiniteSet(Rows) /\ Listing \subseteq Rows
    /\ None \notin Operations /\ MaxReferences # 0
    /\ {MaxReferences, MaxBytes, MaxOperations, MaxChanges} \subseteq Nat
    /\ Frames \in Seq({"video", "audio"}) /\ Caps \subseteq Nat \cup {None}
(* Every page of a list is wider than the one before (recordings.ts LIMITS). *)
ASSUME PagesWiden ==
    \A p, q \in DOMAIN Limits : Limits[p] > 0 /\ (p < q => Limits[p] < Limits[q])

VARIABLES
    op,         \* the operation that holds the owner, or None
    session,    \* the owner's session: "down", "up" or "closing"
    wire,       \* CONTROL: what the device has sent, in order
    data,       \* BINARY: the chunks sent and neither taken nor skipped, in order
    binary,     \* the session's own state of BINARY
    results,    \* the commands on it whose result is outstanding
    device,     \* external: its rows, its cap, and what it does with a transfer
    streams,    \* the two streams of a transfer, and what the caller has read of them
    references, \* the references given out, oldest first, without expired ones
    last,       \* how the last operation ended
    completed,  \* history: the transfers told to be complete
    begun       \* operations begun
vars == <<op, session, wire, data, binary, results, device, streams, references,
          last, completed, begun>>

Kinds == {"video", "audio"}
(* What is put into the streams is known by its sequence number. *)
NoStream == [waiting |-> {}, read |-> FALSE]
NoStreams ==
    [video |-> NoStream, audio |-> NoStream, put |-> {}, counted |-> {}, seen |-> FALSE]
(* No stream: the next number expected; whether chunks are put into streams, whether
   events about them name the camera, what was heard, whether the start was told. *)
Off(next) == [next |-> next, on |-> FALSE, known |-> FALSE, heard |-> {}, told |-> FALSE]

Init ==
    /\ op = None /\ session = "down" /\ wire = <<>> /\ data = <<>> /\ results = {}
    /\ binary = Off(0)
    /\ device = [rows |-> {}, shown |-> {}, cap |-> None, task |-> "idle", sent |-> 0,
                 converted |-> FALSE, finished |-> {}, changes |-> 0]
    /\ streams = NoStreams /\ last = None /\ completed = {}
    /\ references \in {<<>>} \cup {<<r>> : r \in Listing}
    /\ begun = 0

Holds(kinds, places) == IF op = None THEN FALSE ELSE op.kind \in kinds /\ op.at \in places
Querying == Holds(Queries, {"query"})
Transferring == Holds({"download"}, {"transfer"})

(********************************* operations *********************************)

carried == <<wire, data, binary, results>>     \* what is on the session

Begin(kind) ==
    /\ op = None /\ begun < MaxOperations
    /\ op' = [id |-> begun + 1, kind |-> kind, at |-> "connect",
              page |-> 0, previous |-> {}, earlier |-> {}, counted |-> {}, handle |-> FALSE,
              stopping |-> FALSE, finished |-> FALSE, confirmed |-> FALSE]
    /\ begun' = begun + 1
    /\ last' = None /\ streams' = NoStreams
    /\ \E rows \in SUBSET Rows, cap \in Caps :
          /\ kind # "list" => rows = {} /\ cap = None    \* no other asks for them
          /\ device' = [device EXCEPT !.rows = rows, !.shown = {}, !.cap = cap,
                                      !.converted = FALSE, !.finished = {}, !.changes = 0]
    /\ UNCHANGED <<session, carried, references, completed>>
Query(kind) == kind # "thumbnail" /\ Begin(kind)
(* Both take a reference that has not expired. *)
Thumbnail == references # <<>> /\ Begin("thumbnail")
Download == references # <<>> /\ Begin("download")

(* The owner is released; what failed on the session closes it first, so that the
   next operation finds nothing of this one. (The reason of a failure is left out.) *)
Ends(outcome) == op' = None /\ last' = outcome
Outcome(code, rows) ==
    [kind |-> op.kind, code |-> code, rows |-> rows, counted |-> op.counted, by |-> op.id]
FailsUnclosed ==
    Ends(Outcome("failed", {})) /\ streams' = NoStreams /\ UNCHANGED <<session, carried>>
Fails ==
    /\ op' = [op EXCEPT !.at = "closing"] /\ last' = Outcome("failed", {})
    /\ session' = "closing" /\ streams' = NoStreams
    /\ wire' = <<>> /\ data' = <<>> /\ binary' = Off(0) /\ results' = {}

(* A page, and the observation's own record of it. *)
Send(o, page) ==
    /\ op' = [o EXCEPT !.at = "query", !.page = page]
    /\ results' = results \cup {<<o.id, "query", page>>}
    /\ device' = [device EXCEPT !.task = <<"asked", o.id, Limits[page]>>]
Earlier == IF op.kind \in {"thumbnail", "download"} THEN {} ELSE results

(* The session is connected: a query sends its first page, a transfer its start, on
   which the session puts what BINARY brings into the streams of this transfer. *)
Starts(o) ==
    /\ op' = [o EXCEPT !.at = "transfer"]
    /\ results' = results \cup {<<o.id, "start", 0>>}
    /\ device' = [device EXCEPT !.task = <<"transfer", o.id>>]
    /\ binary' = [binary EXCEPT !.on = TRUE, !.known = TRUE]
Connected ==
    /\ Holds(Queries \cup {"download"}, {"connect"}) /\ session # "closing"
    /\ session' = "up"
    /\ LET o == [op EXCEPT !.earlier = Earlier]
       IN  IF op.kind = "download" THEN Starts(o) ELSE Send(o, 1) /\ UNCHANGED binary
    /\ UNCHANGED <<wire, data, streams, references, last, completed, begun>>
ConnectFails ==
    /\ Holds(Queries \cup {"download"}, {"connect"})
    /\ Ends(Outcome("failed", {}))
    /\ UNCHANGED <<session, carried, device, streams, references, completed, begun>>
(* The session of a failed operation is closed. *)
Closed ==
    /\ session = "closing"
    /\ session' = "down" /\ device' = [device EXCEPT !.task = "idle"]
    /\ op' = None
    /\ UNCHANGED <<carried, streams, references, last, completed, begun>>

(*********************************** queries ***********************************)

(* completeHistory: a page shorter than its limit is the whole, unless it shows no
   more than the page before; a page may not lack what the page before showed. *)
Complete(rows) ==
    /\ Cardinality(rows) < Limits[op.page]
    /\ op.previous # {} => Cardinality(rows) # Cardinality(op.previous)
Widens(rows) ==
    /\ Cardinality(rows) = Limits[op.page] /\ op.page < Len(Limits)
    /\ op.previous # {} => Cardinality(rows) # Cardinality(op.previous)
Kept(refs) == SubSeq(refs, Max({1, Len(refs) - MaxReferences + 1}), Len(refs))

Takes == wire' = Tail(wire) /\ UNCHANGED <<session, data, binary, streams>>
Listed(rows) ==
    IF ~(op.previous \subseteq rows) THEN Fails /\ UNCHANGED <<device, references>>
    ELSE IF Complete(rows)
         THEN /\ Ends(Outcome("ok", rows)) /\ Takes
              /\ references' = Kept(references \o SetToSeq(rows))
              /\ UNCHANGED <<results, device>>
    ELSE IF Widens(rows)
         THEN /\ Send([op EXCEPT !.previous = rows], op.page + 1) /\ Takes
              /\ UNCHANGED <<last, references>>
    ELSE Fails /\ UNCHANGED <<device, references>>

(* An answer ends a query, or asks for the next page of a list; the device may
   refuse it. A probe reports a refusal and leaves the session as it is. *)
Answer ==
    /\ Querying /\ wire # <<>>
    /\ LET m == Head(wire)
       IN  \/ /\ m.refused /\ op.kind # "probe"
              /\ Fails /\ UNCHANGED <<device, references>>
           \/ /\ m.refused /\ op.kind = "probe"
              /\ Ends(Outcome("failed", {})) /\ Takes
              /\ UNCHANGED <<results, device, references>>
           \/ /\ ~m.refused /\ op.kind # "list"
              /\ Ends(Outcome("ok", {})) /\ Takes
              /\ UNCHANGED <<results, device, references>>
           \/ /\ ~m.refused /\ op.kind = "list"
              /\ Listed(m.rows)
    /\ UNCHANGED <<completed, begun>>
(* The page's timer, or the caller's signal, the lifetime or the 60 s bound. *)
QueryFails ==
    /\ Querying /\ Fails
    /\ UNCHANGED <<device, references, completed, begun>>
(* A command's result: the observation of a query counts it, unless it was
   outstanding before the query began. *)
Counts(c) == Querying /\ op.kind # "thumbnail" /\ c \notin op.earlier
Result(c) ==
    /\ c \in results /\ session = "up" /\ results' = results \ {c}
    /\ ~(Transferring /\ op.stopping /\ c[2] = "cancel")    \* that is TransferResult
    /\ op' = IF Counts(c) THEN [op EXCEPT !.counted = @ \cup {c}] ELSE op
    /\ UNCHANGED <<session, wire, data, binary, device, streams, references, last,
                   completed, begun>>

(********************************** transfer **********************************)

(* stop(), for a reason that is left out: it asks for the cancel of the transfer. *)
Stop(o) == [o EXCEPT !.stopping = TRUE]
(* settle(): complete only when the device has finished, the session has ended the
   streams and both have been read to their end; anything else closes the session. *)
FinishedUndrained(o, s) ==
    ~o.stopping /\ o.handle /\ o.confirmed /\ o.finished /\ s.seen
Finished(o, s) ==
    /\ ~o.stopping /\ o.handle
    /\ o.confirmed /\ o.finished /\ s.video.read /\ s.audio.read /\ s.seen
Settles(o, s) ==
    IF Finished(o, s)
    THEN /\ Ends(Outcome("complete", {})) /\ completed' = completed \cup {op.id}
         /\ streams' = NoStreams
    ELSE op' = o /\ streams' = s /\ UNCHANGED <<last, completed>>

(* The session tells a start and an end of its streams with the camera it knows them
   to be of; a transfer takes the first start, and stops at any other. *)
Started(o) ==
    IF ~binary.known THEN o
    ELSE IF o.handle \/ o.stopping THEN Stop(o)
    ELSE [o EXCEPT !.handle = TRUE]
Ended(o) ==
    IF ~(binary.told /\ binary.known) \/ o.finished THEN o
    ELSE IF o.handle THEN [o EXCEPT !.finished = TRUE]
    ELSE Stop([o EXCEPT !.finished = TRUE])

(* A datagram arrives that is the next in its order, or fills the gap before others
   that came early, which are then the next. A start is told when both kinds were
   heard, or video alone for 3 s. *)
Chunk ==
    /\ Transferring /\ binary.on /\ data # <<>>
    /\ data' = Tail(data)
    /\ LET kind == Head(data).of
           heard == binary.heard \cup {kind}
           told == binary.told \/ heard = Kinds
       IN  /\ binary' = [binary EXCEPT !.next = @ + 1, !.heard = heard, !.told = told]
           /\ op' = IF told /\ ~binary.told THEN Started(op) ELSE op
           /\ streams' = IF op.finished THEN streams
                         ELSE [streams EXCEPT ![kind].waiting = @ \cup {binary.next},
                                              !.put = @ \cup {binary.next}]
    /\ UNCHANGED <<session, wire, results, device, references, last, completed, begun>>
AudioAbsent ==
    /\ Transferring /\ binary.on /\ ~binary.told /\ "video" \in binary.heard
    /\ binary' = [binary EXCEPT !.told = TRUE]
    /\ op' = Started(op)
    /\ UNCHANGED <<session, wire, data, results, device, streams, references, last,
                   completed, begun>>
(* Without a stream it is taken and dropped. *)
Dropped ==
    /\ session = "up" /\ ~binary.on /\ data # <<>>
    /\ data' = Tail(data) /\ binary' = [binary EXCEPT !.next = @ + 1]
    /\ UNCHANGED <<op, session, wire, results, device, streams, references, last,
                   completed, begun>>

(* endStream(): both streams end, and the session starts over. The datagrams that
   came early are thrown away, with those that they waited for: the next number is
   the one after the last of them. What was not told to have started is lost. *)
Skips == {0} \cup 2..Len(data)
EndsStream(o, skip) ==
    IF ~binary.on THEN Settles(o, streams) /\ UNCHANGED <<data, binary>>
    ELSE /\ data' = SubSeq(data, skip + 1, Len(data)) /\ binary' = Off(binary.next + skip)
         /\ Settles(Ended(o), IF o.handle THEN streams ELSE NoStreams)
(* A cancel, of stop() or of the session's own. *)
Cancel(who) == <<op.id, "cancel", who>>
Cancels(who) == results' = results \cup {Cancel(who)}

(* CONTROL: a notice by which the session goes on with a stream (of a broadcast it
   does not know the camera), and the finish. *)
Receive ==
    /\ Transferring /\ wire # <<>> /\ wire' = Tail(wire)
    /\ LET event == Head(wire).event
       IN  \/ /\ event \in {"converted", "broadcast"}
              /\ binary' = [binary EXCEPT !.on = TRUE, !.known = @ \/ event = "converted"]
              /\ UNCHANGED <<op, data, streams, last, completed>>
           \/ /\ event = "finish"
              /\ LET o == [op EXCEPT !.confirmed = @ \/ binary.known]
                 IN  \E skip \in Skips : EndsStream(o, skip)
    /\ UNCHANGED <<session, results, device, references, begun>>
(* The session gives up on a stream that is silent, or that has waited too long for
   a datagram that others overtook, and cancels a transfer it has heard of. *)
SessionGivesUp ==
    /\ Transferring /\ binary.on
    /\ \E skip \in Skips :
          /\ EndsStream(op, skip)
          /\ \/ (binary.heard # {} \/ skip > 0) /\ Cancels(1)
             \/ binary.heard = {} /\ UNCHANGED results
    /\ UNCHANGED <<session, wire, device, references, begun>>
(* The cancel that stop() asked for is sent, which ends the streams as well. *)
CancelSent ==
    /\ Transferring /\ op.stopping /\ Cancel(0) \notin results
    /\ Cancels(0) /\ \E skip \in Skips : EndsStream(op, skip)
    /\ UNCHANGED <<session, wire, device, references, begun>>
(* The result of a cancel or of a start ends the transfer, whichever transfer it was
   a command of: the handler looks at the camera and the command alone. *)
TransferResult(c) ==
    /\ Transferring /\ c \in results
    /\ c[2] = "start" \/ (c[2] = "cancel" /\ op.stopping)
    /\ Fails
    /\ UNCHANGED <<device, references, completed, begun>>
(* The caller reads: a chunk is counted when it flows, and a stream ends when all
   of it has flowed. *)
Flows(s) ==
    /\ Transferring /\ op.handle
    /\ \E n \in streams[s].waiting :
          /\ \A m \in streams[s].waiting : n <= m
          /\ streams' = [streams EXCEPT ![s].waiting = @ \ {n}, !.counted = @ \cup {n},
                                        !.seen = @ \/ s = "video"]
    /\ op' = IF Cardinality(streams.counted) >= MaxBytes THEN Stop(op) ELSE op
    /\ UNCHANGED <<session, carried, device, references, last, completed, begun>>
StreamEnds(s) ==
    /\ Transferring /\ op.handle /\ op.finished
    /\ streams[s].waiting = {} /\ ~streams[s].read
    /\ Settles(op, [streams EXCEPT ![s].read = TRUE])
    /\ UNCHANGED <<session, carried, device, references, begun>>
(* The 40 s of a transfer, and the caller's cancel(), its signal and the lifetime.
   (A transfer with too much waiting in its streams stops like one that timed out.) *)
TransferStopsStarted ==
    /\ Transferring /\ op.handle /\ ~op.stopping /\ op' = Stop(op)
    /\ UNCHANGED <<session, carried, device, streams, references, last, completed, begun>>
TransferStops ==
    /\ Transferring /\ ~op.stopping /\ op' = Stop(op)
    /\ UNCHANGED <<session, carried, device, streams, references, last, completed, begun>>
(* The 5 s for the result of the cancel, or the cancel could not be sent. *)
StopExpires ==
    /\ Transferring /\ op.stopping /\ Fails
    /\ UNCHANGED <<device, references, completed, begun>>

(********************************** surroundings **********************************)

SessionLost ==
    /\ session = "up"
    /\ IF Querying \/ Transferring THEN Fails
       ELSE /\ session' = "down" /\ UNCHANGED <<op, last, streams>>
            /\ wire' = <<>> /\ data' = <<>> /\ binary' = Off(0) /\ results' = {}
    /\ UNCHANGED <<device, references, completed, begun>>
Expires ==
    /\ references # <<>> /\ references' = Tail(references)
    /\ UNCHANGED <<op, session, carried, device, streams, last, completed, begun>>
(* External: the device answers with the newest rows, at most as many as asked for
   and as its cap, and changes what it holds. *)
Sent(m) == wire' = Append(wire, m)
Whom == device.task[2]
DeviceAnswers ==
    /\ session = "up" /\ device.task # "idle" /\ device.task[1] = "asked"
    /\ device' = [device EXCEPT !.task = "idle", !.shown = device.rows]
    /\ \/ Sent([by |-> Whom, event |-> "answer", refused |-> TRUE, rows |-> {}])
       \/ LET many == Min({device.task[3], Cardinality(device.rows)}
                           \cup ({device.cap} \ {None}))
          IN  \E rows \in SUBSET device.rows :
                 /\ Cardinality(rows) = many
                 /\ Sent([by |-> Whom, event |-> "answer", refused |-> FALSE, rows |-> rows])
    /\ UNCHANGED <<op, session, data, binary, results, streams, references, last,
                   completed, begun>>
(* It sends a chunk, the notice of its size, or the finish; whether and when what it
   sends arrives is up to the network. *)
DeviceTransfers ==
    /\ session = "up" /\ device.task # "idle" /\ device.task[1] = "transfer"
    /\ \/ /\ device.sent < Len(Frames) /\ device' = [device EXCEPT !.sent = @ + 1]
          /\ data' = Append(data, [by |-> Whom, of |-> Frames[device.sent + 1]])
          /\ UNCHANGED wire
       \/ /\ ~device.converted /\ device' = [device EXCEPT !.converted = TRUE]
          /\ \E event \in {"converted", "broadcast"} : Sent([by |-> Whom, event |-> event])
          /\ UNCHANGED data
       \/ /\ device' = [device EXCEPT !.task = "idle", !.finished = @ \cup {Whom}]
          /\ Sent([by |-> Whom, event |-> "finish"])
          /\ UNCHANGED data
    /\ UNCHANGED <<op, session, binary, results, streams, references, last, completed,
                   begun>>
DeviceChanges ==
    /\ Holds({"list"}, {"query"})
    /\ device.changes < MaxChanges
    /\ \E rows \in SUBSET Rows :
          /\ Cardinality((rows \ device.rows) \cup (device.rows \ rows)) = 1
          /\ device' = [device EXCEPT !.rows = rows, !.changes = @ + 1]
    /\ UNCHANGED <<op, session, carried, streams, references, last, completed, begun>>

Next ==
    \/ \E kind \in Queries : Query(kind)
    \/ Thumbnail \/ Download \/ Connected \/ ConnectFails \/ Closed
    \/ Answer \/ QueryFails \/ \E c \in results : Result(c) \/ TransferResult(c)
    \/ Chunk \/ AudioAbsent \/ Dropped \/ Receive \/ SessionGivesUp \/ CancelSent
    \/ \E s \in Kinds : Flows(s) \/ StreamEnds(s)
    \/ TransferStops \/ StopExpires \/ SessionLost \/ Expires
    \/ DeviceAnswers \/ DeviceTransfers \/ DeviceChanges

(* Fairness: a connection attempt ends, the timer fires that bounds what an operation
   waits for, a session that is closed ends. There is one of these at any time of an
   operation. Neither the device nor the caller need do anything. *)
Fairness ==
    WF_vars(ConnectFails \/ QueryFails \/ TransferStops \/ StopExpires \/ Closed)
Spec == Init /\ [][Next]_vars /\ Fairness

-------------------------------------------------------------------------------

(* An operation is at one place, nothing waits on a session that is not up, and the
   references are in their bound. *)
TypeOK ==
    /\ op # None => op \in Operations /\ (op.at = "closing" <=> session = "closing")
    /\ session = "closing" => op # None
    /\ session # "up" => wire = <<>> /\ data = <<>> /\ results = {} /\ ~binary.on
    /\ Len(references) <= MaxReferences

(* Whatever waits on CONTROL while an operation reads from it was sent for that
   operation: answers and notices carry no reference to what asked for them, so a
   session with anything outstanding is closed before the next one begins. *)
NothingStale == Querying \/ Transferring => \A i \in DOMAIN wire : wire[i].by = op.id

(* A chunk and the result of a start or a cancel carry none either, and here the
   close is missing in one case: a transfer that was told to be complete may leave
   some behind. No other operation does, however it ended. *)
Mine == IF Transferring THEN completed \cup {op.id} ELSE completed
LeftByComplete ==
    /\ \A i \in DOMAIN data : data[i].by \in Mine
    /\ \A c \in results : c[2] # "query" => c[1] \in Mine

(* The observation counts only results of its own commands, although results of
   earlier operations may arrive during it. *)
CountsOwn == last # None => \A c \in last.counted : c[1] = last.by

(* Nothing of another operation gets into an operation, as an answer, a notice or a
   count, nor as a chunk or a result unless a complete transfer has left it. *)
OwnResults == TypeOK /\ NothingStale /\ LeftByComplete /\ CountsOwn

(* A transfer is complete only when the device has finished it and the caller has
   read all that the session had put into its streams; and what it has read is one
   unbroken run of what came on BINARY. What the finish has overtaken is behind that
   run: the code cannot tell that it is missing. *)
Unbroken(numbers) == \A m, n \in numbers : m..n \subseteq numbers
WholeTransfer ==
    [][last' # last /\ last' # None /\ last'.code = "complete" =>
         /\ op.id \in device.finished
         /\ streams.counted = streams.put /\ Unbroken(streams.counted)]_vars

(* A list that is returned as complete holds every row that the device held when it
   gave its last answer, although the rows may have changed before it and since, and
   although the answer may be capped at the width of a page. A cap that is not the
   width of a page is not noticed. *)
WholeList ==
    [][last' # last /\ last' # None /\ last'.kind = "list" /\ last'.code = "ok" =>
         \/ last'.rows = device.shown
         \/ device.cap \notin {Limits[p] : p \in DOMAIN Limits}
            /\ Cardinality(last'.rows) = device.cap]_vars

(* Fixed caps fail (docs/API.md): stronger than the code, see WholeList. *)
ListIsWhole ==
    [][last' # last /\ last' # None /\ last'.kind = "list" /\ last'.code = "ok" =>
         last'.rows = device.shown]_vars

(* No transfer is admitted while chunks of another are on their way (download.ts resets
   the sequence of BINARY, after a cancel): stronger than the code, see LeftByComplete. *)
OnlyOwnChunks == Transferring => \A i \in DOMAIN data : data[i].by = op.id

(* "complete" and "ok" mean the whole of what was put into the streams, and the whole
   list. *)
WholeResults == WholeTransfer /\ WholeList

(* Every operation ends and releases the owner. *)
OperationEnds == op # None ~> op = None
================================================================================
