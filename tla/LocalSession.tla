---------------------------- MODULE LocalSession ----------------------------
(***************************************************************************)
(* The local session with one mower, src/mowers/local/session.ts: one TCP  *)
(* connection, one operation at a time, no retry and no reconnect.         *)
(*                                                                         *)
(* Frames that arrive wait in a queue, whether an operation runs or not.   *)
(* An operation takes from it what it waits for: the answer of its query,  *)
(* then, after it has written, the reply and the reports that show what    *)
(* became of the write.  The device may answer a request late or never and *)
(* sends reports of its own.                                               *)
(*                                                                         *)
(* An action is a socket event, a timer, an abort, a public call up to its *)
(* first await, or the step of an operation that takes one frame.  The     *)
(* code takes the frames of one chunk without a break; here other events   *)
(* may come between them.                                                  *)
(*                                                                         *)
(* Left out: heartbeats that are sent (they change nothing), the limits in *)
(* bytes, the nonces, and what a progress callback calls.  A frame that    *)
(* fails its authentication is "forged"; one whose document does not       *)
(* decode is "bad".                                                        *)
(***************************************************************************)
EXTENDS Naturals, SequencesExt

CONSTANTS
    MaxOps,         \* bound on operations, connect included
    MaxArrivals,    \* bound on frames from the device
    MaxSkipped,     \* MAX_SKIPPED_FRAMES
    MaxReports      \* MAX_COMMAND_REPORTS

ASSUME OpsAssumption == MaxOps \in Nat \ {0}
ASSUME ArrivalsAssumption == MaxArrivals \in Nat
ASSUME LimitsAssumption == MaxSkipped \in Nat \ {0} /\ MaxReports \in Nat \ {0}

VARIABLES
    socket,     \* the socket, "none" before connect()
    failure,    \* #failure
    readError,  \* #readError is set
    key,        \* the session key has been negotiated
    end,        \* #end
    closed,     \* the settled value of the `closed` promise, "none" before
    lifetime,   \* the module's signal is aborted
    frames,     \* #frames
    op,         \* the operation in progress
    ops,        \* operations so far
    last,       \* how the last operation came out
    owed,       \* requests that the device may still answer
    arrivals    \* frames from the device so far

session == <<socket, failure, readError, key, end, closed, lifetime>>
device == <<owed, arrivals>>
vars == <<session, frames, op, ops, last, device>>

(* "command" is sendCommand, "setting" setSetting and setWorkParameter.    *)
Kind == {"connect", "query", "report", "command", "setting"}
Writes == {"command", "setting"}

(* Where the operation awaits.                                             *)
(*   dial        the socket's 'connect'                                    *)
(*   negotiate   SESSION_KEY_RESPONSE                                      *)
(*   cloud       the cloud's reading of a work parameter                   *)
(*   answer      the answer of its query                                   *)
(*   report      a report                                                  *)
(*   readback    the reports that follow its write                         *)
Step == {"idle", "dial", "negotiate", "cloud", "answer", "report", "readback"}

Reason == {"disconnected", "shutdown", "aborted", "timeout", "peer_closed",
           "connection_failed", "protocol_error", "authentication_failed"}

(* `evidence`: the reports that the outcome's stage rests on, "early" if   *)
(* they were queued before the write.                                      *)
Idle == [kind |-> "query", step |-> "idle", aborts |-> {}, bound |-> FALSE,
         skipped |-> 0, reports |-> 0, evidence |-> {}]

(* `reply`: the operation whose write the device rejected.                 *)
NoResult == [how |-> "none", wrote |-> FALSE, evidence |-> {}, reply |-> 0]

(* A frame.  `n` is the operation whose request it answers.  `stale`: it   *)
(* was received in an earlier millisecond than the write, so that its      *)
(* observedAt is less than sentAt.  `early`: it was queued before it.      *)
Frame(cmd, n, body) ==
    [cmd |-> cmd, n |-> n, body |-> body, stale |-> FALSE, early |-> FALSE]

Request(cmd, n) == [cmd |-> cmd, n |-> n]

Init ==
    /\ socket = "none"
    /\ failure = "none"
    /\ readError = FALSE
    /\ key = FALSE
    /\ end = "none"
    /\ closed = "none"
    /\ lifetime = FALSE
    /\ frames = <<>>
    /\ op = Idle
    /\ ops = 0
    /\ last = NoResult
    /\ owed = {}
    /\ arrivals = 0

-----------------------------------------------------------------------------
(* Ending the session, and ending an operation.                            *)

(* Mutant: `closed` is settled without the socket's 'close'.               *)
FinishAtOnce(reason) ==
    IF end # "none" THEN UNCHANGED <<end, socket, closed>>
    ELSE /\ end' = reason
         /\ closed' = reason
         /\ socket' = IF socket \in {"none", "closed"} THEN socket ELSE "destroyed"

(* #finish.                                                                *)
Finish(reason) ==
    IF end # "none" THEN UNCHANGED <<end, socket, closed>>
    ELSE /\ end' = reason
         /\ IF socket \in {"none", "closed"}
            THEN closed' = reason /\ UNCHANGED socket
            ELSE socket' = "destroyed" /\ UNCHANGED closed

Returns(how, evidence, reply) ==
    /\ op' = Idle
    /\ last' = [how |-> how, wrote |-> op.step = "readback",
                evidence |-> op.evidence \cup evidence, reply |-> reply]

(* Mutant: an operation that runs into its deadline leaves the session     *)
(* open for the next.                                                      *)
EndReasonUnlessDeadline(error) ==
    CASE lifetime -> "shutdown"
      [] ~lifetime /\ "external" \in op.aborts -> "aborted"
      [] ~lifetime /\ op.aborts = {"deadline"} -> "none"
      [] ~lifetime /\ op.aborts = {} ->
            CASE error = "refused" -> "none"
              [] error = "disconnected" /\ failure # "none" -> failure
              [] error = "disconnected" /\ failure = "none" -> "peer_closed"
              [] OTHER -> error

(* #operation's catch: why an error ends the session, "none" for a typed   *)
(* refusal, which leaves it open.                                          *)
EndReason(error) ==
    CASE lifetime -> "shutdown"
      [] ~lifetime /\ "external" \in op.aborts -> "aborted"
      [] ~lifetime /\ op.aborts = {"deadline"} -> "timeout"
      [] ~lifetime /\ op.aborts = {} ->
            CASE error = "refused" -> "none"
              [] error = "disconnected" /\ failure # "none" -> failure
              [] error = "disconnected" /\ failure = "none" -> "peer_closed"
              [] OTHER -> error

Throws(error, rest) ==
    LET reason == EndReason(error)
    IN IF reason = "none"
       THEN /\ Returns("refused", {}, 0)
            /\ frames' = rest
            /\ UNCHANGED <<end, socket, closed>>
       ELSE /\ Returns("failed", {}, 0)
            /\ frames' = <<>>
            /\ Finish(reason)

-----------------------------------------------------------------------------
(* Calls.                                                                  *)

Starts(kind, step) ==
    /\ op.step = "idle"
    /\ end = "none"
    /\ ops < MaxOps
    /\ ops' = ops + 1
    /\ op' = [Idle EXCEPT !.kind = kind, !.step = step]

Connect ==
    /\ socket = "none"
    /\ Starts("connect", "dial")
    /\ socket' = "dialling"
    /\ UNCHANGED <<failure, readError, key, end, closed, lifetime, frames, last, device>>

(* queryStatus, sendCommand, setSetting: the query is sent at once.        *)
Query(kind) ==
    /\ key /\ socket = "open"
    /\ Starts(kind, "answer")
    /\ owed' = owed \cup {Request("query", ops')}
    /\ UNCHANGED <<session, frames, last, arrivals>>

(* The same on a socket that 'data' has destroyed: #send throws.           *)
QueryRefused ==
    /\ key /\ socket = "destroyed" /\ end = "none"
    /\ op.step = "idle"
    /\ ops < MaxOps
    /\ ops' = ops + 1
    /\ Throws("disconnected", <<>>)
    /\ UNCHANGED <<failure, readError, key, lifetime, device>>

(* receiveReport, and setWorkParameter up to its cloud reading.            *)
ReceiveReport ==
    /\ key
    /\ Starts("report", "report")
    /\ UNCHANGED <<session, frames, last, device>>

SetWorkParameter ==
    /\ key
    /\ Starts("setting", "cloud")
    /\ UNCHANGED <<session, frames, last, device>>

Disconnect ==
    /\ key
    /\ Finish("disconnected")
    /\ frames' = <<>>
    /\ UNCHANGED <<failure, readError, key, lifetime, op, ops, last, device>>

(* The module shuts down.                                                  *)
Shutdown ==
    /\ ~lifetime
    /\ lifetime' = TRUE
    /\ Finish("shutdown")
    /\ frames' = <<>>
    /\ UNCHANGED <<failure, readError, key, op, ops, last, device>>

Aborts(cause) ==
    /\ op.step # "idle"
    /\ op' = [op EXCEPT !.aborts = @ \cup {cause}]
    /\ UNCHANGED <<session, frames, ops, last, device>>

CallerAborts == Aborts("external")
Deadline == Aborts("deadline")

(* The read-back bound passes.                                             *)
Bound ==
    /\ op.step = "readback"
    /\ op' = [op EXCEPT !.bound = TRUE]
    /\ UNCHANGED <<session, frames, ops, last, device>>

-----------------------------------------------------------------------------
(* The socket.                                                             *)

(* 'connect' on the socket, and connect() sends SESSION_KEY_START.         *)
Connected ==
    /\ socket = "dialling"
    /\ op.aborts = {} /\ ~lifetime
    /\ socket' = "open"
    /\ op' = [op EXCEPT !.step = "negotiate"]
    /\ owed' = {Request("session", ops)}
    /\ UNCHANGED <<failure, readError, key, end, closed, lifetime, frames, ops, last, arrivals>>

(* Mutant: 'close' settles `closed` only if it ends the session itself.    *)
SocketClosedUnlessEnded ==
    /\ socket \in {"dialling", "open", "destroyed"}
    /\ socket' = "closed"
    /\ failure' = CASE failure # "none" -> failure
                     [] socket = "dialling" -> "connection_failed"
                     [] OTHER -> "peer_closed"
    /\ end' = IF end = "none" THEN failure' ELSE end
    /\ closed' = IF end = "none" THEN end' ELSE closed
    /\ frames' = <<>>
    /\ UNCHANGED <<readError, key, lifetime, op, ops, last, device>>

(* 'error' or the peer's end, and 'close'.                                 *)
SocketClosed ==
    /\ socket \in {"dialling", "open", "destroyed"}
    /\ socket' = "closed"
    /\ failure' = CASE failure # "none" -> failure
                     [] socket = "dialling" -> "connection_failed"
                     [] OTHER -> "peer_closed"
    /\ end' = IF end = "none" THEN failure' ELSE end
    /\ closed' = end'
    /\ frames' = <<>>
    /\ UNCHANGED <<readError, key, lifetime, op, ops, last, device>>

(* 'data' throws.  The frames queued before stay, but #next sees the error *)
(* first.                                                                  *)
Breaks ==
    /\ readError' = TRUE
    /\ failure' = IF failure = "none" THEN "protocol_error" ELSE failure
    /\ socket' = "destroyed"
    /\ UNCHANGED frames

(* Mutant: the limit is checked after the frame has joined.                *)
ArrivesOverLimit(f) ==
    IF Len(frames) <= MaxSkipped
    THEN frames' = Append(frames, f) /\ UNCHANGED <<socket, failure, readError>>
    ELSE Breaks

(* 'data': a frame joins the queue, or breaks a session whose queue is     *)
(* full.                                                                   *)
Arrives(f) ==
    IF Len(frames) < MaxSkipped
    THEN frames' = Append(frames, f) /\ UNCHANGED <<socket, failure, readError>>
    ELSE Breaks

(* The device answers a request.                                           *)
Answers ==
    /\ socket = "open"
    /\ arrivals < MaxArrivals
    /\ arrivals' = arrivals + 1
    /\ \E r \in owed :
          /\ owed' = owed \ {r}
          /\ \E body \in {"ok", "refused", "bad", "forged"} :
                Arrives(Frame(r.cmd, r.n, body))
    /\ UNCHANGED <<key, end, closed, lifetime, op, ops, last>>

(* The device reports on its own: the control point of the write, its      *)
(* value, or something else.                                               *)
Reports ==
    /\ socket = "open" /\ key
    /\ arrivals < MaxArrivals
    /\ arrivals' = arrivals + 1
    /\ \E body \in {"other", "control", "value", "refused", "bad"} :
          Arrives(Frame("report", 0, body))
    /\ UNCHANGED <<key, end, closed, lifetime, op, ops, last, owed>>

(* The device sends what is no frame.                                      *)
Unframed ==
    /\ socket = "open"
    /\ Breaks
    /\ UNCHANGED <<key, end, closed, lifetime, op, ops, last, device>>

(* A heartbeat that is due on a destroyed socket.                          *)
HeartbeatFails ==
    /\ op.step \in {"report", "readback"}
    /\ socket = "destroyed" /\ end = "none"
    /\ Finish("peer_closed")
    /\ frames' = <<>>
    /\ UNCHANGED <<failure, readError, key, lifetime, op, ops, last, device>>

-----------------------------------------------------------------------------
(* The steps of an operation.                                              *)

Receiving == op.step \in {"negotiate", "answer", "report", "readback"}
Aborted == lifetime \/ op.aborts # {}

(* #next finds the session or the operation over, in this order.           *)
Error ==
    CASE readError -> "protocol_error"
      [] ~readError /\ (end # "none" \/ socket = "closed") -> "disconnected"
      [] ~readError /\ end = "none" /\ socket # "closed" /\ (Aborted \/ op.bound) -> "aborted"
      [] OTHER -> "none"

(* A read-back that is over resolves with what it has seen.                *)
TimesOut ==
    /\ Receiving /\ Error # "none"
    /\ op.bound /\ ~Aborted
    /\ Returns("timed_out", {}, 0)
    /\ UNCHANGED <<session, frames, ops, device>>

(* Any other operation throws.                                             *)
Interrupted ==
    /\ \/ Receiving /\ Error # "none" /\ (Aborted \/ ~op.bound)
          /\ Throws(Error, frames)
       \/ op.step = "dial" /\ (Aborted \/ socket = "closed") /\ Throws("disconnected", <<>>)
       \/ op.step = "cloud" /\ Aborted /\ Throws("aborted", frames)
    /\ UNCHANGED <<failure, readError, key, lifetime, ops, device>>

(* The cloud's reading is there, and the query follows; or it failed.      *)
CloudRead ==
    /\ op.step = "cloud" /\ ~Aborted
    /\ IF socket = "open"
       THEN /\ op' = [op EXCEPT !.step = "answer"]
            /\ owed' = owed \cup {Request("query", ops)}
            /\ UNCHANGED <<session, frames, last>>
       ELSE /\ Throws("disconnected", frames)
            /\ UNCHANGED <<failure, readError, key, lifetime, owed>>
    /\ UNCHANGED <<ops, arrivals>>

CloudFails ==
    /\ op.step = "cloud" /\ ~Aborted
    /\ Throws("refused", frames)
    /\ UNCHANGED <<failure, readError, key, lifetime, ops, device>>

(* #next throws on the first frame of the queue, wanted or not.            *)
Forged ==
    /\ Receiving /\ Error = "none"
    /\ frames # <<>> /\ Head(frames).body = "forged"
    /\ Throws("authentication_failed", Tail(frames))
    /\ UNCHANGED <<failure, readError, key, lifetime, ops, device>>

(* The operation takes a frame that it waits for.                          *)
Takes(step, cmd) ==
    /\ op.step = step
    /\ Error = "none"
    /\ frames # <<>> /\ Head(frames).cmd = cmd /\ Head(frames).body # "forged"

(* A frame that nobody waits for.  Before the key nothing else is allowed. *)
Skip ==
    /\ Receiving /\ Error = "none"
    /\ frames # <<>> /\ Head(frames).body # "forged"
    /\ Head(frames).cmd \notin
          CASE op.step = "negotiate" -> {"session"}
            [] op.step = "answer" -> {"query"}
            [] op.step = "report" -> {"report"}
            [] op.step = "readback" -> {"control", "report"}
    /\ IF op.step = "negotiate" \/ op.skipped >= MaxSkipped
       THEN Throws("protocol_error", Tail(frames))
       ELSE /\ op' = [op EXCEPT !.skipped = @ + 1]
            /\ frames' = Tail(frames)
            /\ UNCHANGED <<last, end, socket, closed>>
    /\ UNCHANGED <<failure, readError, key, lifetime, ops, device>>

(* connect() has the device's nonce, and sends SESSION_KEY_FINISH.         *)
KeyAgreed ==
    /\ Takes("negotiate", "session")
    /\ IF Head(frames).body = "bad"
       THEN /\ \E error \in {"authentication_failed", "protocol_error"} :
                  Throws(error, Tail(frames))
            /\ UNCHANGED key
       ELSE /\ key' = TRUE
            /\ Returns("ok", {}, 0)
            /\ frames' = Tail(frames)
            /\ UNCHANGED <<end, socket, closed>>
    /\ UNCHANGED <<failure, readError, lifetime, ops, device>>

(* A frame whose document is refused or unusable.                          *)
Unusable ==
    /\ \/ Takes("answer", "query") \/ Takes("report", "report") \/ Takes("readback", "report")
       \/ Takes("readback", "control") /\ Head(frames).body = "bad"
    /\ \/ Head(frames).body = "refused" /\ Throws("refused", Tail(frames))
       \/ Head(frames).body = "bad" /\ Throws("protocol_error", Tail(frames))
    /\ UNCHANGED <<failure, readError, key, lifetime, ops, device>>

(* queryStatus has its answer, or a write is refused on it.                *)
Answered ==
    /\ Takes("answer", "query") /\ Head(frames).body = "ok"
    /\ Returns(IF op.kind = "query" THEN "ok" ELSE "refused", {}, 0)
    /\ frames' = Tail(frames)
    /\ UNCHANGED <<session, ops, device>>

(* The write.  Frames that are queued behind the answer were received      *)
(* before it, some of them in the same millisecond.                        *)
Write ==
    /\ Takes("answer", "query") /\ Head(frames).body = "ok"
    /\ op.kind \in Writes
    /\ op' = [op EXCEPT !.step = "readback", !.skipped = 0]
    /\ owed' = owed \cup {Request("control", ops)}
    /\ \E n \in 0 .. Len(frames) - 1 :
          frames' = [i \in 1 .. Len(frames) - 1 |->
                        [frames[i + 1] EXCEPT !.early = TRUE, !.stale = i <= n]]
    /\ UNCHANGED <<session, ops, last, arrivals>>

Reported ==
    /\ Takes("report", "report") /\ Head(frames).body \in {"other", "control", "value"}
    /\ Returns("ok", {}, 0)
    /\ frames' = Tail(frames)
    /\ UNCHANGED <<session, ops, device>>

(* The device's reply to a write.                                          *)
Replied ==
    /\ Takes("readback", "control") /\ Head(frames).body # "bad"
    /\ frames' = Tail(frames)
    /\ IF Head(frames).body = "refused"
       THEN Returns("rejected", {}, Head(frames).n)
       ELSE op' = [op EXCEPT !.skipped = 0] /\ UNCHANGED last
    /\ UNCHANGED <<session, ops, device>>

(* A report during the read-back.                                          *)
ReadBack ==
    LET f == Head(frames)
        evidence == IF f.early THEN {"early"} ELSE {"after"}
        next == [op EXCEPT !.skipped = 0, !.reports = @ + 1]
    IN /\ Takes("readback", "report") /\ f.body \in {"other", "control", "value"}
       /\ frames' = Tail(frames)
       /\ IF op.reports >= MaxReports THEN Returns("report_limit", {}, 0)
          ELSE IF ~f.stale /\ f.body = "value" THEN Returns("reflected", evidence, 0)
          ELSE /\ op' = IF ~f.stale /\ f.body = "control" /\ op.kind = "command"
                           /\ op.evidence = {}
                        THEN [next EXCEPT !.evidence = evidence] ELSE next
               /\ UNCHANGED last
       /\ UNCHANGED <<session, ops, device>>

Calls ==
    \/ Connect \/ (\E kind \in {"query"} \cup Writes : Query(kind)) \/ QueryRefused
    \/ ReceiveReport \/ SetWorkParameter
    \/ Disconnect \/ Shutdown \/ CallerAborts

Next ==
    \/ Calls
    \/ Deadline \/ Bound
    \/ Connected \/ SocketClosed \/ Answers \/ Reports \/ Unframed
    \/ HeartbeatFails \/ TimesOut \/ Interrupted \/ CloudRead \/ CloudFails
    \/ Forged \/ Skip \/ KeyAgreed \/ Unusable
    \/ Answered \/ Write \/ Reported \/ Replied \/ ReadBack

(* The deadline of an operation fires, a waiting operation is woken, and a *)
(* destroyed socket emits 'close'.  The device, the cloud and the callers  *)
(* may do nothing.                                                         *)
Fairness ==
    /\ WF_vars(Deadline)
    /\ WF_vars(Interrupted)
    /\ WF_vars(TimesOut)
    /\ WF_vars(socket = "destroyed" /\ SocketClosed)

Spec == Init /\ [][Next]_vars /\ Fairness

-----------------------------------------------------------------------------
FrameType ==
    [cmd : {"session", "query", "control", "report"}, n : 0 .. MaxOps,
     body : {"ok", "other", "control", "value", "refused", "bad", "forged"},
     stale : BOOLEAN, early : BOOLEAN]

OpType ==
    [kind : Kind, step : Step, aborts : SUBSET {"external", "deadline"}, bound : BOOLEAN,
     skipped : 0 .. MaxSkipped, reports : 0 .. MaxReports,
     evidence : SUBSET {"early", "after"}]

ResultType ==
    [how : {"none", "ok", "refused", "failed", "rejected", "timed_out", "report_limit",
            "reflected"},
     wrote : BOOLEAN, evidence : SUBSET {"early", "after"}, reply : 0 .. MaxOps]

RequestType == [cmd : {"session", "query", "control"}, n : 1 .. MaxOps]

TypeOK ==
    /\ socket \in {"none", "dialling", "open", "destroyed", "closed"}
    /\ failure \in {"none"} \cup Reason
    /\ readError \in BOOLEAN /\ key \in BOOLEAN /\ lifetime \in BOOLEAN
    /\ end \in {"none"} \cup Reason
    /\ closed \in {"none"} \cup Reason
    /\ frames \in Seq(FrameType) /\ Len(frames) <= MaxSkipped
    /\ op \in OpType
    /\ ops \in 0 .. MaxOps
    /\ last \in ResultType
    /\ owed \subseteq RequestType
    /\ arrivals \in 0 .. MaxArrivals

(* "One fresh status query": while an operation awaits the answer of its   *)
(* query, no other query's answer is queued or still to come, so that      *)
(* neither a snapshot nor the checks before a write ever rest on an older  *)
(* one.  An operation that gave up on its answer has ended the session.    *)
OwnAnswer ==
    op.step = "answer" /\ end = "none" =>
        /\ \A r \in owed : r.cmd = "query" => r.n = ops
        /\ \A i \in DOMAIN frames : frames[i].cmd = "query" => frames[i].n = ops

(* `closed` settles when nothing of the session is left: the socket is     *)
(* gone and no received frame is kept, and it tells the first reason.      *)
ClosedMeansReleased ==
    closed # "none" => closed = end /\ socket \in {"none", "closed"} /\ frames = <<>>

(* session.ts:300 "Frames queued before the write are kept as context but  *)
(* are not fresh evidence."                                                *)
FreshEvidence == "early" \notin last.evidence

(* session.ts:667 "Typed refusals leave the session open: nothing was      *)
(* written."                                                               *)
RefusalWroteNothing == last.how = "refused" => ~last.wrote

(* docs/MOWER_COMMANDS.md:52 `rejected`: "The device answered the control  *)
(* frame with a description", the one of this command.                     *)
ReplyIsOwn == last.how = "rejected" /\ op.step = "idle" => last.reply = ops

(* Every operation ends, whatever the device, the socket and the cloud do. *)
OperationsEnd == op.step # "idle" ~> op.step = "idle"

(* A session that has ended is released.                                   *)
SessionReleased == end # "none" ~> closed # "none"

(* Both: nobody waits for ever on a session, for its operations or for     *)
(* `closed`.                                                               *)
SessionEnds == OperationsEnd /\ SessionReleased
=============================================================================
