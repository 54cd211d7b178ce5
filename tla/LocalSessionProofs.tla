------------------------- MODULE LocalSessionProofs -------------------------
(***************************************************************************)
(* Proofs about LocalSession, for every number of operations and frames    *)
(* and every limit.                                                        *)
(*                                                                         *)
(* OwnAnswer is not inductive: the answer of a query could be taken and    *)
(* another one still be queued, or be owed by the device, when the next    *)
(* query is sent.  OneQuery rules this out.  A query is outstanding, as a  *)
(* request or as a queued frame and never as both, only while its own      *)
(* operation awaits it; every other way out of that wait ends the session. *)
(***************************************************************************)
EXTENDS LocalSession, TLAPS

Outstanding(n) ==
    /\ \A r \in owed : r.cmd = "query" => r.n = n
    /\ \A i \in DOMAIN frames : frames[i].cmd = "query" => frames[i].n = n

NoQuery ==
    /\ \A r \in owed : r.cmd # "query"
    /\ \A i \in DOMAIN frames : frames[i].cmd # "query"

Single ==
    /\ \A r \in owed, i \in DOMAIN frames : ~(r.cmd = "query" /\ frames[i].cmd = "query")
    /\ \A i, j \in DOMAIN frames :
          frames[i].cmd = "query" /\ frames[j].cmd = "query" => i = j

OneQuery ==
    end = "none" => Single /\ Outstanding(ops) /\ (op.step # "answer" => NoQuery)

(* The read-back bound belongs to a read-back, dialling to connect(), and  *)
(* an operation has a number.                                              *)
Operating ==
    /\ op.bound => op.step = "readback"
    /\ socket = "dialling" => op.step = "dial"
    /\ op.step # "idle" => ops \in 1 .. MaxOps

(* A session that has ended keeps no frame and no open socket.             *)
Ended == end # "none" => frames = <<>> /\ socket \in {"none", "destroyed", "closed"}

Base == TypeOK /\ ClosedMeansReleased /\ Ended /\ Operating

-----------------------------------------------------------------------------
(* How an operation and a session end.                                     *)

Errors == Reason \cup {"refused"}

LEMMA EndReasonType ==
    ASSUME TypeOK, NEW error \in Errors
    PROVE /\ EndReason(error) \in {"none"} \cup Reason
          /\ EndReason(error) = "none" => error = "refused"
BY DEF EndReason, TypeOK, OpType, Reason, Errors

LEMMA ErrorType == TypeOK /\ Error # "none" => Error \in Errors \ {"refused"}
BY DEF Error, Errors, Reason, TypeOK

LEMMA IdleType == Idle \in OpType
BY LimitsAssumption DEF Idle, OpType, Kind, Step

LEMMA ReturnsType ==
    ASSUME TypeOK, NEW how \in {"ok", "refused", "failed", "rejected", "timed_out",
                                "report_limit", "reflected"},
           NEW evidence \in SUBSET {"early", "after"}, NEW reply \in 0 .. MaxOps,
           Returns(how, evidence, reply)
    PROVE op' = Idle /\ op' \in OpType /\ last' \in ResultType
BY IdleType DEF Returns, TypeOK, OpType, ResultType

(* #finish: an open session ends, an ended one keeps its reason.           *)
Finished ==
    /\ end' \in Reason
    /\ socket' \in {"none", "destroyed", "closed"}
    /\ socket' = "none" <=> socket = "none"
    /\ closed' \in {"none"} \cup Reason
    /\ closed' # "none" => closed' = end' /\ socket' \in {"none", "closed"}

LEMMA FinishEnds ==
    ASSUME TypeOK, ClosedMeansReleased, Ended, NEW reason \in Reason, Finish(reason)
    PROVE Finished
BY DEF Finish, Finished, TypeOK, ClosedMeansReleased, Ended, Reason

LEMMA ThrowsEnds ==
    ASSUME TypeOK, ClosedMeansReleased, Ended, NEW error \in Errors, NEW rest,
           Throws(error, rest)
    PROVE /\ op' = Idle
          /\ last' \in ResultType
          /\ \/ error = "refused" /\ frames' = rest /\ UNCHANGED <<end, socket, closed>>
             \/ Finished /\ frames' = <<>>
<1>1. CASE EndReason(error) = "none"
  <2>1. Returns("refused", {}, 0) /\ frames' = rest /\ UNCHANGED <<end, socket, closed>>
    BY <1>1 DEF Throws
  <2>2. op' = Idle /\ last' \in ResultType
    BY <2>1, ReturnsType, OpsAssumption
  <2> QED
    BY <1>1, <2>1, <2>2, EndReasonType
<1>2. CASE EndReason(error) # "none"
  <2>1. Returns("failed", {}, 0) /\ frames' = <<>> /\ Finish(EndReason(error))
    BY <1>2 DEF Throws
  <2>2. op' = Idle /\ last' \in ResultType
    BY <2>1, ReturnsType, OpsAssumption
  <2>3. EndReason(error) \in Reason
    BY <1>2, EndReasonType
  <2>4. Finished
    BY <2>1, <2>3, FinishEnds
  <2> QED
    BY <2>1, <2>2, <2>4
<1> QED
  BY <1>1, <1>2

-----------------------------------------------------------------------------
LEMMA InitBase == Init => Base
<1> SUFFICES ASSUME Init PROVE Base
  OBVIOUS
<1>1. op \in OpType /\ ~op.bound /\ op.step = "idle"
  BY IdleType DEF Init, Idle
<1>2. last \in ResultType
  BY OpsAssumption DEF Init, NoResult, ResultType
<1>3. frames = <<>> /\ frames \in Seq(FrameType) /\ Len(frames) = 0
  BY DEF Init
<1>4. /\ socket = "none" /\ failure = "none" /\ end = "none" /\ closed = "none"
      /\ readError \in BOOLEAN /\ key \in BOOLEAN /\ lifetime \in BOOLEAN
      /\ ops = 0 /\ owed = {} /\ arrivals = 0
  BY DEF Init
<1>5. TypeOK
  BY <1>1, <1>2, <1>3, <1>4, OpsAssumption, ArrivalsAssumption, LimitsAssumption DEF TypeOK
<1>6. ClosedMeansReleased /\ Ended
  BY DEF Init, ClosedMeansReleased, Ended
<1>7. Operating
  BY <1>1 DEF Init, Operating
<1> QED
  BY <1>5, <1>6, <1>7 DEF Base

(* An operation that throws leaves the session open or ended.              *)
LEMMA ThrowsBase ==
    ASSUME Base, NEW error \in Errors,
           NEW rest \in Seq(FrameType), Len(rest) <= MaxSkipped,
           end # "none" => rest = <<>>,
           Throws(error, rest),
           UNCHANGED <<failure, readError, lifetime, ops, arrivals>>,
           socket # "dialling" \/ error # "refused",
           key' \in BOOLEAN, owed' \subseteq RequestType
    PROVE Base'
<1>1. /\ op' = Idle
      /\ last' \in ResultType
      /\ \/ error = "refused" /\ frames' = rest /\ UNCHANGED <<end, socket, closed>>
         \/ Finished /\ frames' = <<>>
  BY ThrowsEnds DEF Base
<1>2. op' \in OpType /\ ~op'.bound /\ op'.step = "idle"
  BY <1>1, IdleType DEF Idle
<1>3. CASE error = "refused" /\ frames' = rest /\ UNCHANGED <<end, socket, closed>>
  BY <1>1, <1>2, <1>3 DEF Base, TypeOK, ClosedMeansReleased, Ended, Operating
<1>4. CASE Finished /\ frames' = <<>>
  BY <1>1, <1>2, <1>4, LimitsAssumption
     DEF Base, TypeOK, ClosedMeansReleased, Ended, Operating, Finished, Reason
<1> QED
  BY <1>1, <1>3, <1>4

LEMMA FinishBase ==
    ASSUME Base, NEW reason \in Reason, Finish(reason), frames' = <<>>,
           UNCHANGED <<failure, readError, key, op, ops, last, device>>, lifetime' \in BOOLEAN
    PROVE Base'
<1>1. Finished
  BY FinishEnds DEF Base
<1>2. frames' \in Seq(FrameType) /\ Len(frames') = 0
  OBVIOUS
<1> QED
  BY <1>1, <1>2, LimitsAssumption
     DEF Base, TypeOK, ClosedMeansReleased, Ended, Operating, Finished, Reason, device

LEMMA StartsType ==
    ASSUME TypeOK, NEW kind \in Kind, NEW step \in Step, Starts(kind, step)
    PROVE /\ op' \in OpType /\ op'.step = step /\ op'.kind = kind /\ ~op'.bound
          /\ ops' = ops + 1 /\ ops' \in 1 .. MaxOps
          /\ end = "none" /\ op.step = "idle"
<1>1. op' = [Idle EXCEPT !.kind = kind, !.step = step]
  BY DEF Starts
<1>2. op' \in OpType /\ op'.step = step /\ op'.kind = kind /\ op'.bound = Idle.bound
  BY <1>1, IdleType DEF OpType
<1>3. ~Idle.bound
  BY DEF Idle
<1> QED
  BY <1>2, <1>3, OpsAssumption DEF Starts, TypeOK

LEMMA RequestInType ==
    ASSUME NEW cmd \in {"session", "query", "control"}, NEW n \in 1 .. MaxOps
    PROVE Request(cmd, n) \in RequestType
BY DEF Request, RequestType

LEMMA CallBase == Base /\ Calls => Base'
<1> SUFFICES ASSUME Base, Calls PROVE Base'
  OBVIOUS
<1> USE DEF Base
<1>1. CASE Connect
  <2>1. Starts("connect", "dial") /\ socket = "none" /\ socket' = "dialling"
    BY <1>1 DEF Connect
  <2>2. op' \in OpType /\ op'.step = "dial" /\ ~op'.bound /\ ops' \in 1 .. MaxOps
        /\ end = "none"
    BY <2>1, StartsType DEF Kind, Step
  <2> QED
    BY <1>1, <2>1, <2>2 DEF Connect, TypeOK, ClosedMeansReleased, Ended, Operating, device
<1>2. ASSUME NEW kind \in {"query"} \cup Writes, Query(kind) PROVE Base'
  <2>1. Starts(kind, "answer") /\ owed' = owed \cup {Request("query", ops')}
    BY <1>2 DEF Query
  <2>2. op' \in OpType /\ ~op'.bound /\ ops' \in 1 .. MaxOps
    BY <2>1, StartsType DEF Kind, Step, Writes
  <2>3. owed' \subseteq RequestType
    BY <2>1, <2>2, RequestInType DEF TypeOK
  <2> QED
    BY <1>2, <2>2, <2>3 DEF Query, TypeOK, ClosedMeansReleased, Ended, Operating, session
<1>3. CASE QueryRefused
  <2>1. Throws("disconnected", <<>>) /\ ops' \in 1 .. MaxOps /\ socket = "destroyed"
    BY <1>3, OpsAssumption DEF QueryRefused, TypeOK
  <2>2. /\ op' = Idle /\ last' \in ResultType
        /\ frames' = <<>>
        /\ UNCHANGED <<end, socket, closed>> \/ Finished
    BY <2>1, ThrowsEnds DEF Errors, Reason
  <2>3. op' \in OpType /\ ~op'.bound /\ op'.step = "idle" /\ ops' \in 0 .. MaxOps
    BY <2>1, <2>2, IdleType DEF Idle
  <2>4. frames' \in Seq(FrameType) /\ Len(frames') = 0
    BY <2>2
  <2>5. CASE UNCHANGED <<end, socket, closed>>
    BY <1>3, <2>1, <2>2, <2>3, <2>4, <2>5, LimitsAssumption
       DEF QueryRefused, TypeOK, ClosedMeansReleased, Ended, Operating, device
  <2>6. CASE Finished
    BY <1>3, <2>1, <2>2, <2>3, <2>4, <2>6, LimitsAssumption
       DEF QueryRefused, TypeOK, ClosedMeansReleased, Ended, Operating, Finished, Reason, device
  <2> QED
    BY <2>2, <2>5, <2>6
<1>4. CASE ReceiveReport \/ SetWorkParameter
  <2>1. Starts("report", "report") \/ Starts("setting", "cloud")
    BY <1>4 DEF ReceiveReport, SetWorkParameter
  <2>2. op' \in OpType /\ ~op'.bound /\ ops' \in 1 .. MaxOps /\ op.step = "idle"
    BY <2>1, StartsType DEF Kind, Step
  <2> QED
    BY <1>4, <2>2
       DEF ReceiveReport, SetWorkParameter, TypeOK, ClosedMeansReleased, Ended, Operating,
           session, device
<1>5. CASE Disconnect
  BY <1>5, FinishBase DEF Disconnect, TypeOK, Reason
<1>6. CASE Shutdown
  BY <1>6, FinishBase DEF Shutdown, TypeOK, Reason
<1>7. CASE CallerAborts
  BY <1>7 DEF CallerAborts, Aborts, TypeOK, OpType, ClosedMeansReleased, Ended, Operating,
              session, device
<1> QED
  BY <1>1, <1>2, <1>3, <1>4, <1>5, <1>6, <1>7 DEF Calls

-----------------------------------------------------------------------------
(* What the socket and the device do.                                      *)

LEMMA ArrivesType ==
    ASSUME Base, socket = "open", NEW f \in FrameType, Arrives(f)
    PROVE /\ frames' \in Seq(FrameType) /\ Len(frames') <= MaxSkipped
          /\ socket' \in {"open", "destroyed"}
          /\ failure' \in {"none"} \cup Reason
          /\ readError' \in BOOLEAN
<1> USE DEF Base, TypeOK
<1>1. CASE Len(frames) < MaxSkipped
  <2>1. frames' = Append(frames, f) /\ UNCHANGED <<socket, failure, readError>>
    BY <1>1 DEF Arrives
  <2>2. frames' \in Seq(FrameType) /\ Len(frames') = Len(frames) + 1
    BY <2>1
  <2>3. Len(frames') <= MaxSkipped
    BY <1>1, <2>2, LimitsAssumption
  <2> QED
    BY <2>1, <2>2, <2>3
<1>2. CASE ~(Len(frames) < MaxSkipped)
  <2>1. Breaks
    BY <1>2 DEF Arrives
  <2> QED
    BY <2>1 DEF Breaks, Reason
<1> QED
  BY <1>1, <1>2

LEMMA FrameInType ==
    ASSUME NEW cmd \in {"session", "query", "control", "report"}, NEW n \in 0 .. MaxOps,
           NEW body \in {"ok", "other", "control", "value", "refused", "bad", "forged"}
    PROVE Frame(cmd, n, body) \in FrameType
BY DEF Frame, FrameType

LEMMA EventBase ==
    Base /\ (Deadline \/ Bound \/ Connected \/ SocketClosed \/ Answers \/ Reports
             \/ Unframed \/ HeartbeatFails) => Base'
<1> SUFFICES ASSUME Base,
                    Deadline \/ Bound \/ Connected \/ SocketClosed \/ Answers \/ Reports
                    \/ Unframed \/ HeartbeatFails
             PROVE Base'
  OBVIOUS
<1> USE DEF Base
<1>1. CASE Deadline
  BY <1>1 DEF Deadline, Aborts, TypeOK, OpType, ClosedMeansReleased, Ended, Operating,
              session, device
<1>2. CASE Bound
  BY <1>2 DEF Bound, TypeOK, OpType, ClosedMeansReleased, Ended, Operating, session, device
<1>3. CASE Connected
  <2>1. Request("session", ops) \in RequestType /\ ops \in 1 .. MaxOps
    BY <1>3, RequestInType DEF Connected, Operating
  <2>2. op' \in OpType /\ op'.bound = op.bound
    BY <1>3 DEF Connected, TypeOK, OpType, Step
  <2>3. end = "none" /\ socket = "dialling"
    BY <1>3 DEF Connected, Ended
  <2>4. ~op.bound
    BY <2>3 DEF Operating
  <2> QED
    BY <1>3, <2>1, <2>2, <2>3, <2>4
       DEF Connected, TypeOK, ClosedMeansReleased, Ended, Operating
<1>4. CASE SocketClosed
  <2>1. failure' \in Reason
    BY <1>4 DEF SocketClosed, TypeOK, Reason
  <2>2. end' \in Reason /\ closed' = end'
    BY <1>4, <2>1 DEF SocketClosed, TypeOK
  <2>3. frames' = <<>> /\ frames' \in Seq(FrameType) /\ Len(frames') = 0
    BY <1>4 DEF SocketClosed
  <2> QED
    BY <1>4, <2>1, <2>2, <2>3, LimitsAssumption
       DEF SocketClosed, TypeOK, ClosedMeansReleased, Ended, Operating, device
<1>5. CASE Answers
  <2>1. PICK r \in owed, body \in {"ok", "refused", "bad", "forged"} :
            owed' = owed \ {r} /\ Arrives(Frame(r.cmd, r.n, body))
    BY <1>5 DEF Answers
  <2>2. Frame(r.cmd, r.n, body) \in FrameType
    BY FrameInType, OpsAssumption DEF TypeOK, RequestType
  <2>3. socket = "open" /\ end = "none" /\ closed = "none"
    BY <1>5 DEF Answers, Ended, ClosedMeansReleased
  <2> QED
    BY <1>5, <2>1, <2>2, <2>3, ArrivesType, ArrivalsAssumption
       DEF Answers, TypeOK, ClosedMeansReleased, Ended, Operating
<1>6. CASE Reports
  <2>1. PICK body \in {"other", "control", "value", "refused", "bad"} :
            Arrives(Frame("report", 0, body))
    BY <1>6 DEF Reports
  <2>2. Frame("report", 0, body) \in FrameType
    BY FrameInType, OpsAssumption
  <2>3. socket = "open" /\ end = "none" /\ closed = "none"
    BY <1>6 DEF Reports, Ended, ClosedMeansReleased
  <2> QED
    BY <1>6, <2>1, <2>2, <2>3, ArrivesType, ArrivalsAssumption
       DEF Reports, TypeOK, ClosedMeansReleased, Ended, Operating
<1>7. CASE Unframed
  BY <1>7 DEF Unframed, Breaks, TypeOK, Reason, ClosedMeansReleased, Ended, Operating, device
<1>8. CASE HeartbeatFails
  BY <1>8, FinishBase DEF HeartbeatFails, TypeOK, Reason
<1> QED
  BY <1>1, <1>2, <1>3, <1>4, <1>5, <1>6, <1>7, <1>8

-----------------------------------------------------------------------------
(* The steps of an operation.                                              *)

LEMMA TailType ==
    ASSUME TypeOK, frames # <<>>
    PROVE /\ Tail(frames) \in Seq(FrameType)
          /\ Len(Tail(frames)) = Len(frames) - 1
          /\ Len(Tail(frames)) <= MaxSkipped
          /\ Head(frames) \in FrameType
          /\ \A i \in DOMAIN Tail(frames) :
                i + 1 \in DOMAIN frames /\ Tail(frames)[i] = frames[i + 1]
          /\ Head(frames) = frames[1] /\ 1 \in DOMAIN frames
BY LimitsAssumption DEF TypeOK

LEMMA FunctionIsSeq ==
    ASSUME NEW S, NEW m \in Nat, NEW f \in [1 .. m -> S]
    PROVE f \in Seq(S) /\ Len(f) = m
<1>1. f = [i \in 1 .. m |-> f[i]]
  OBVIOUS
<1>2. [i \in 1 .. m |-> f[i]] \in Seq(S) /\ Len([i \in 1 .. m |-> f[i]]) = m
  OBVIOUS
<1> QED
  BY <1>1, <1>2

(* While an operation takes frames the session is open.                    *)
LEMMA Taking == Base /\ Receiving /\ Error = "none" => end = "none" /\ socket # "dialling"
BY DEF Error, Base, Operating, Receiving

(* What the operation makes of itself, of the queue and of the result.     *)
LEMMA KeepsBase ==
    ASSUME Base, Receiving, Error = "none",
           op' \in OpType, op'.bound => op'.step = "readback",
           op'.step # "idle" => op.step # "idle",
           frames' \in Seq(FrameType), Len(frames') <= MaxSkipped,
           last' \in ResultType, owed' \subseteq RequestType,
           UNCHANGED <<socket, failure, readError, end, closed, lifetime, ops, arrivals>>,
           key' \in BOOLEAN
    PROVE Base'
BY Taking DEF Base, TypeOK, ClosedMeansReleased, Ended, Operating

LEMMA EndingsBase ==
    Base /\ (TimesOut \/ Interrupted \/ CloudRead \/ CloudFails \/ Forged \/ Unusable) => Base'
<1> SUFFICES ASSUME Base,
                    TimesOut \/ Interrupted \/ CloudRead \/ CloudFails \/ Forged \/ Unusable
             PROVE Base'
  OBVIOUS
<1>a. /\ frames \in Seq(FrameType) /\ Len(frames) <= MaxSkipped
      /\ end # "none" => frames = <<>>
      /\ <<>> \in Seq(FrameType) /\ Len(<<>>) <= MaxSkipped
      /\ key \in BOOLEAN /\ owed \subseteq RequestType
  BY LimitsAssumption DEF Base, TypeOK, Ended
<1>1. CASE TimesOut
  <2>1. Returns("timed_out", {}, 0)
    BY <1>1 DEF TimesOut
  <2>2. op' = Idle /\ op' \in OpType /\ last' \in ResultType
    BY <2>1, ReturnsType, OpsAssumption DEF Base
  <2>3. ~op'.bound /\ op'.step = "idle" /\ socket # "dialling"
    BY <1>1, <2>2 DEF Idle, TimesOut, Receiving, Base, Operating
  <2> QED
    BY <1>1, <2>2, <2>3
       DEF TimesOut, Base, TypeOK, ClosedMeansReleased, Ended, Operating, session, device
<1>2. CASE Interrupted
  <2>1. PICK error \in Errors \ {"refused"}, rest \in {frames, <<>>} : Throws(error, rest)
    BY <1>2, ErrorType DEF Interrupted, Errors, Reason, Base
  <2> QED
    BY <1>2, <1>a, <2>1, ThrowsBase DEF Interrupted, device
<1>3. CASE CloudRead /\ socket = "open"
  <2>1. owed' \subseteq RequestType
    BY <1>3, RequestInType DEF CloudRead, Base, TypeOK, Operating
  <2>2. op' \in OpType /\ op'.step = "answer" /\ op'.bound = op.bound /\ ~op.bound
    BY <1>3 DEF CloudRead, Base, TypeOK, OpType, Step, Operating
  <2> QED
    BY <1>3, <2>1, <2>2
       DEF CloudRead, Base, TypeOK, ClosedMeansReleased, Ended, Operating, session
<1>4. CASE CloudRead /\ socket # "open"
  BY <1>4, <1>a, ThrowsBase DEF CloudRead, Errors, Reason
<1>5. CASE CloudFails
  <2>1. socket # "dialling"
    BY <1>5 DEF CloudFails, Base, Operating
  <2> QED
    BY <1>5, <1>a, <2>1, ThrowsBase DEF CloudFails, Errors, device
<1>6. CASE Forged \/ Unusable
  <2>1. Receiving /\ Error = "none" /\ frames # <<>>
    BY <1>6 DEF Forged, Unusable, Takes, Receiving
  <2>2. PICK error \in Errors : Throws(error, Tail(frames))
    BY <1>6 DEF Forged, Unusable, Errors, Reason
  <2>3. end = "none" /\ socket # "dialling"
    BY <2>1, Taking
  <2>4. TypeOK
    BY DEF Base
  <2>5. Tail(frames) \in Seq(FrameType) /\ Len(Tail(frames)) <= MaxSkipped
    BY <2>1, <2>4, TailType
  <2> QED
    BY <1>6, <1>a, <2>2, <2>3, <2>5, ThrowsBase DEF Forged, Unusable, device
<1> QED
  BY <1>1, <1>2, <1>3, <1>4, <1>5, <1>6

LEMMA TakingsBase ==
    Base /\ (Skip \/ KeyAgreed \/ Answered \/ Write \/ Reported \/ Replied \/ ReadBack) => Base'
<1> SUFFICES ASSUME Base,
                    Skip \/ KeyAgreed \/ Answered \/ Write \/ Reported \/ Replied \/ ReadBack
             PROVE Base'
  OBVIOUS
<1>a. Receiving /\ Error = "none" /\ frames # <<>>
  BY DEF Skip, KeyAgreed, Answered, Write, Reported, Replied, ReadBack, Takes, Receiving
<1>b. TypeOK /\ key \in BOOLEAN /\ owed \subseteq RequestType
  BY DEF Base, TypeOK
<1>c. /\ Tail(frames) \in Seq(FrameType) /\ Len(Tail(frames)) <= MaxSkipped
      /\ Head(frames) \in FrameType
  BY <1>a, <1>b, TailType
<1>d. end = "none" /\ socket # "dialling" /\ op \in OpType /\ last \in ResultType
  BY <1>a, <1>b, Taking DEF TypeOK
<1>e. op.bound => op.step = "readback"
  BY DEF Base, Operating
<1>f. ASSUME NEW how \in {"ok", "refused", "failed", "rejected", "timed_out", "report_limit",
                          "reflected"},
             NEW evidence \in SUBSET {"early", "after"}, NEW reply \in 0 .. MaxOps,
             Returns(how, evidence, reply)
      PROVE op' \in OpType /\ ~op'.bound /\ op'.step = "idle" /\ last' \in ResultType
  BY <1>b, <1>f, ReturnsType DEF Idle
<1>g. ASSUME NEW error \in Errors, Throws(error, Tail(frames)),
             UNCHANGED <<failure, readError, lifetime, ops, device>>, UNCHANGED key
      PROVE Base'
  BY <1>b, <1>c, <1>d, <1>g, ThrowsBase DEF device
<1>1. CASE Skip
  <2>1. CASE op.step = "negotiate" \/ op.skipped >= MaxSkipped
    BY <1>1, <2>1, <1>g DEF Skip, Errors, Reason
  <2>2. CASE ~(op.step = "negotiate" \/ op.skipped >= MaxSkipped)
    <3>1. op' = [op EXCEPT !.skipped = @ + 1]
      BY <1>1, <2>2 DEF Skip
    <3>2. op' \in OpType /\ op'.bound = op.bound /\ op'.step = op.step
      BY <1>d, <2>2, <3>1, LimitsAssumption DEF OpType
    <3> QED
      BY <1>1, <1>a, <1>b, <1>c, <1>d, <1>e, <2>2, <3>2, KeepsBase DEF Skip, device
  <2> QED
    BY <2>1, <2>2
<1>2. CASE KeyAgreed
  <2>1. CASE Head(frames).body = "bad"
    BY <1>2, <2>1, <1>g DEF KeyAgreed, Errors, Reason
  <2>2. CASE Head(frames).body # "bad"
    <3>1. Returns("ok", {}, 0)
      BY <1>2, <2>2 DEF KeyAgreed
    <3>2. op' \in OpType /\ ~op'.bound /\ op'.step = "idle" /\ last' \in ResultType
      BY <3>1, <1>f, OpsAssumption
    <3> QED
      BY <1>2, <1>a, <1>b, <1>c, <2>2, <3>2, KeepsBase DEF KeyAgreed, device
  <2> QED
    BY <2>1, <2>2
<1>3. CASE Answered \/ Reported
  <2>1. PICK how \in {"ok", "refused"} : Returns(how, {}, 0)
    BY <1>3 DEF Answered, Reported
  <2>2. op' \in OpType /\ ~op'.bound /\ op'.step = "idle" /\ last' \in ResultType
    BY <2>1, <1>f, OpsAssumption
  <2> QED
    BY <1>3, <1>a, <1>b, <1>c, <2>2, KeepsBase DEF Answered, Reported, session, device
<1>4. CASE Write
  <2>1. PICK n \in 0 .. Len(frames) - 1 :
            frames' = [i \in 1 .. Len(frames) - 1 |->
                          [frames[i + 1] EXCEPT !.early = TRUE, !.stale = i <= n]]
    BY <1>4 DEF Write
  <2>2. Len(frames) \in Nat \ {0} /\ \A i \in 1 .. Len(frames) : frames[i] \in FrameType
    BY <1>a, <1>b DEF TypeOK
  <2>3. frames' \in Seq(FrameType) /\ Len(frames') = Len(frames) - 1
    <3>1. ASSUME NEW i \in 1 .. Len(frames) - 1
          PROVE [frames[i + 1] EXCEPT !.early = TRUE, !.stale = i <= n] \in FrameType
      <4>1. frames[i + 1] \in FrameType
        BY <2>2
      <4>2. (i <= n) \in BOOLEAN
        OBVIOUS
      <4> QED
        BY <4>1, <4>2 DEF FrameType
    <3> DEFINE m == Len(frames) - 1
               g == [i \in 1 .. m |-> [frames[i + 1] EXCEPT !.early = TRUE, !.stale = i <= n]]
    <3>2. m \in Nat
      BY <2>2
    <3>3. g \in [1 .. m -> FrameType]
      BY <3>1
    <3>4. m \in Nat /\ g \in [1 .. m -> FrameType] /\ frames' = g
      BY <2>1, <3>2, <3>3
    <3> HIDE DEF m, g
    <3>5. g \in Seq(FrameType) /\ Len(g) = m
      BY <3>4, FunctionIsSeq
    <3> QED
      BY <3>4, <3>5 DEF m
  <2>4. op' \in OpType /\ op'.step = "readback"
    <3>1. op' = [op EXCEPT !.step = "readback", !.skipped = 0]
      BY <1>4 DEF Write
    <3>2. "readback" \in Step /\ 0 \in 0 .. MaxSkipped
      BY LimitsAssumption DEF Step
    <3> QED
      BY <1>d, <3>1, <3>2 DEF OpType
  <2>5. owed' \subseteq RequestType
    BY <1>4, <1>a, <1>b, RequestInType DEF Write, Base, Operating, Receiving
  <2>6. Len(frames') <= MaxSkipped
    BY <2>2, <2>3, <1>b, LimitsAssumption DEF TypeOK
  <2> QED
    BY <1>4, <1>a, <1>b, <1>d, <2>3, <2>4, <2>5, <2>6, KeepsBase DEF Write, Takes, session
<1>5. CASE Replied
  <2>1. CASE Head(frames).body = "refused"
    <3>1. Returns("rejected", {}, Head(frames).n) /\ Head(frames).n \in 0 .. MaxOps
      BY <1>5, <1>c, <2>1 DEF Replied, FrameType
    <3>2. op' \in OpType /\ ~op'.bound /\ op'.step = "idle" /\ last' \in ResultType
      BY <3>1, <1>f
    <3> QED
      BY <1>5, <1>a, <1>b, <1>c, <3>2, KeepsBase DEF Replied, session, device
  <2>2. CASE Head(frames).body # "refused"
    <3>1. op' = [op EXCEPT !.skipped = 0] /\ UNCHANGED last
      BY <1>5, <2>2 DEF Replied
    <3>2. op' \in OpType /\ op'.bound = op.bound /\ op'.step = op.step
      BY <1>d, <3>1, LimitsAssumption DEF OpType
    <3> QED
      BY <1>5, <1>a, <1>b, <1>c, <1>d, <1>e, <3>1, <3>2, KeepsBase DEF Replied, session, device
  <2> QED
    BY <2>1, <2>2
<1>6. CASE ReadBack
  <2> DEFINE evidence == IF Head(frames).early THEN {"early"} ELSE {"after"}
  <2>1. evidence \in SUBSET {"early", "after"}
    OBVIOUS
  <2>2. op.step = "readback" /\ frames' = Tail(frames) /\ UNCHANGED <<session, ops, device>>
    BY <1>6 DEF ReadBack, Takes
  <2>3. CASE Returns("report_limit", {}, 0) \/ Returns("reflected", evidence, 0)
    <3>1. op' \in OpType /\ ~op'.bound /\ op'.step = "idle" /\ last' \in ResultType
      BY <2>1, <2>3, <1>f, OpsAssumption
    <3> QED
      BY <1>a, <1>b, <1>c, <2>2, <3>1, KeepsBase DEF session, device
  <2>4. ASSUME op.reports < MaxReports, UNCHANGED last,
               \/ op' = [op EXCEPT !.skipped = 0, !.reports = @ + 1]
               \/ op' = [[op EXCEPT !.skipped = 0, !.reports = @ + 1] EXCEPT !.evidence = evidence]
        PROVE Base'
    <3> DEFINE next == [op EXCEPT !.skipped = 0, !.reports = @ + 1]
    <3>1. next \in OpType /\ next.step = op.step
      <4>1. op.reports + 1 \in 0 .. MaxReports /\ 0 \in 0 .. MaxSkipped
        BY <1>d, <2>4, LimitsAssumption DEF OpType
      <4> QED
        BY <1>d, <4>1 DEF OpType
    <3>2. /\ [next EXCEPT !.evidence = evidence] \in OpType
          /\ [next EXCEPT !.evidence = evidence].step = next.step
      BY <2>1, <3>1 DEF OpType
    <3>3. op' \in OpType /\ op'.step = op.step
      BY <2>4, <3>1, <3>2
    <3> QED
      BY <1>a, <1>b, <1>c, <1>d, <2>2, <2>4, <3>3, KeepsBase DEF session, device
  <2>5. op.reports \in 0 .. MaxReports
    BY <1>d DEF OpType
  <2> QED
    BY <1>6, <2>3, <2>4, <2>5, LimitsAssumption DEF ReadBack
<1> QED
  BY <1>1, <1>2, <1>3, <1>4, <1>5, <1>6

LEMMA NextBase == Base /\ [Next]_vars => Base'
<1> SUFFICES ASSUME Base, [Next]_vars PROVE Base'
  OBVIOUS
<1>1. CASE UNCHANGED vars
  BY <1>1 DEF vars, session, device, Base, TypeOK, ClosedMeansReleased, Ended, Operating
<1> QED
  BY <1>1, CallBase, EventBase, EndingsBase, TakingsBase DEF Next

THEOREM BaseHolds == Spec => []Base
BY InitBase, NextBase, PTL DEF Spec

(* Every reachable state is well typed: the queue never exceeds its limit, *)
(* nor an operation the frames it may skip and the reports it may keep.    *)
THEOREM TypeCorrect == Spec => []TypeOK
<1>1. Base => TypeOK
  BY DEF Base
<1> QED
  BY <1>1, BaseHolds, PTL

(* A settled `closed` tells the first reason of the end, of a session that *)
(* has neither a socket nor a frame left, for every bound.                 *)
THEOREM ClosedReleases == Spec => []ClosedMeansReleased
<1>1. Base => ClosedMeansReleased
  BY DEF Base
<1> QED
  BY <1>1, BaseHolds, PTL

-----------------------------------------------------------------------------
(* At most one query is outstanding, and it is the operation's own.        *)

LEMMA InitOneQuery == Init => OneQuery
BY DEF Init, OneQuery, Single, Outstanding, NoQuery, Idle

LEMMA EndedOneQuery == end' # "none" => OneQuery'
BY DEF OneQuery

(* Nobody asks, and nothing is received or taken.                          *)
LEMMA QuietOneQuery ==
    ASSUME OneQuery, end' = end, frames' = frames, owed' = owed,
           op'.step = "answer" <=> op.step = "answer",
           ops' = ops \/ op.step # "answer"
    PROVE OneQuery'
BY DEF OneQuery, Single, Outstanding, NoQuery

(* The operation asks.                                                     *)
LEMMA AskOneQuery ==
    ASSUME OneQuery, end' = end, frames' = frames,
           op.step # "answer", op'.step = "answer",
           owed' = owed \cup {Request("query", ops')}
    PROVE OneQuery'
BY DEF OneQuery, Single, Outstanding, NoQuery, Request

(* What is left when an operation that awaits an answer has taken it, or   *)
(* one that awaits none has taken anything.                                *)
LEMMA TakenNoQuery ==
    ASSUME Base, OneQuery, end = "none", frames # <<>>,
           op.step # "answer" \/ Head(frames).cmd = "query"
    PROVE /\ \A r \in owed : r.cmd # "query"
          /\ \A i \in DOMAIN Tail(frames) : Tail(frames)[i].cmd # "query"
<1>1. /\ \A i \in DOMAIN Tail(frames) :
             i + 1 \in DOMAIN frames /\ Tail(frames)[i] = frames[i + 1]
      /\ Head(frames) = frames[1] /\ 1 \in DOMAIN frames
  BY TailType DEF Base
<1>2. DOMAIN Tail(frames) \subseteq Nat \ {0}
  BY DEF Base, TypeOK
<1> QED
  BY <1>1, <1>2 DEF OneQuery, Single, NoQuery

LEMMA SkippedOneQuery ==
    ASSUME Base, OneQuery, frames # <<>>, Head(frames).cmd # "query",
           frames' = Tail(frames), owed' = owed, end' = end, ops' = ops,
           op'.step = op.step
    PROVE OneQuery'
<1>1. \A i \in DOMAIN Tail(frames) :
         i + 1 \in DOMAIN frames /\ Tail(frames)[i] = frames[i + 1]
  BY TailType DEF Base
<1>2. DOMAIN Tail(frames) \subseteq Nat
  BY DEF Base, TypeOK
<1> QED
  BY <1>1, <1>2 DEF OneQuery, Single, Outstanding, NoQuery

LEMMA TakenOneQuery ==
    ASSUME Base, OneQuery, end = "none", frames # <<>>,
           op.step # "answer" \/ Head(frames).cmd = "query",
           frames' = Tail(frames), owed' = owed, op'.step # "answer"
    PROVE OneQuery'
BY TakenNoQuery DEF OneQuery, Single, Outstanding, NoQuery

LEMMA ReturnsIdle ==
    ASSUME NEW how, NEW evidence, NEW reply, Returns(how, evidence, reply)
    PROVE op'.step = "idle"
BY DEF Returns, Idle

LEMMA FinishOneQuery ==
    ASSUME Base, NEW reason \in Reason, Finish(reason)
    PROVE OneQuery'
BY FinishEnds, EndedOneQuery DEF Base, Finished, Reason

(* An operation that throws anything but a refusal ends the session.       *)
LEMMA ThrowsOneQuery ==
    ASSUME Base, NEW error \in Errors, NEW rest, Throws(error, rest)
    PROVE \/ OneQuery'
          \/ error = "refused" /\ frames' = rest /\ end' = end /\ op'.step = "idle"
BY ThrowsEnds, EndedOneQuery DEF Base, Finished, Reason, Idle

LEMMA CallOneQuery == Base /\ OneQuery /\ Calls => OneQuery'
<1> SUFFICES ASSUME Base, OneQuery, Calls PROVE OneQuery'
  OBVIOUS
<1>1. ASSUME NEW kind \in Kind, NEW step \in Step, Starts(kind, step)
      PROVE op'.step = step /\ op.step = "idle"
  BY <1>1, StartsType DEF Base
<1>2. CASE Connect \/ ReceiveReport \/ SetWorkParameter
  <2>1. op'.step \in {"dial", "report", "cloud"} /\ op.step = "idle"
    BY <1>1, <1>2 DEF Connect, ReceiveReport, SetWorkParameter, Kind, Step
  <2> QED
    BY <1>2, <2>1, QuietOneQuery
       DEF Connect, ReceiveReport, SetWorkParameter, session, device
<1>3. ASSUME NEW kind \in {"query"} \cup Writes, Query(kind) PROVE OneQuery'
  <2>1. op'.step = "answer" /\ op.step = "idle"
    BY <1>1, <1>3 DEF Query, Kind, Step, Writes
  <2> QED
    BY <1>3, <2>1, AskOneQuery DEF Query, session
<1>4. CASE QueryRefused
  BY <1>4, ThrowsOneQuery DEF QueryRefused, Errors, Reason
<1>5. CASE Disconnect \/ Shutdown
  BY <1>5, FinishOneQuery DEF Disconnect, Shutdown, Reason
<1>6. CASE CallerAborts
  <2>1. op'.step = op.step
    BY <1>6 DEF CallerAborts, Aborts, Base, TypeOK, OpType
  <2> QED
    BY <1>6, <2>1, QuietOneQuery DEF CallerAborts, Aborts, session, device
<1> QED
  BY <1>2, <1>3, <1>4, <1>5, <1>6 DEF Calls

LEMMA AnswersOneQuery == Base /\ OneQuery /\ Answers => OneQuery'
<1> SUFFICES ASSUME Base, OneQuery, Answers PROVE OneQuery'
  OBVIOUS
<1>1. PICK r \in owed, body \in {"ok", "refused", "bad", "forged"} :
          owed' = owed \ {r} /\ Arrives(Frame(r.cmd, r.n, body))
  BY DEF Answers
<1> DEFINE f == Frame(r.cmd, r.n, body)
<1>2. /\ end = "none" /\ end' = end /\ op' = op /\ ops' = ops
      /\ owed \subseteq RequestType /\ frames \in Seq(FrameType)
  BY DEF Answers, Base, Ended, TypeOK
<1>3. f.cmd = r.cmd /\ f.n = r.n
  BY DEF Frame
<1> HIDE DEF f
<1>4. frames' = frames \/ frames' = Append(frames, f)
  BY <1>1 DEF Arrives, Breaks, f
<1>5. CASE frames' = frames
  BY <1>1, <1>2, <1>5 DEF OneQuery, Single, Outstanding, NoQuery
<1>6. CASE frames' = Append(frames, f) /\ r.cmd # "query"
  <2>1. \A i \in DOMAIN frames' : frames'[i].cmd = "query" =>
           i \in DOMAIN frames /\ frames'[i] = frames[i]
    BY <1>2, <1>3, <1>6
  <2> QED
    BY <1>1, <1>2, <2>1 DEF OneQuery, Single, Outstanding, NoQuery
<1>7. CASE frames' = Append(frames, f) /\ r.cmd = "query"
  <2>1. \A i \in DOMAIN frames : frames[i].cmd # "query"
    BY <1>2, <1>7 DEF OneQuery, Single
  <2>2. \A i \in DOMAIN frames' : frames'[i].cmd = "query" =>
           i = Len(frames) + 1 /\ frames'[i] = f
    BY <1>2, <1>7, <2>1
  <2>3. \A q \in owed : q.cmd = "query" => q = r
    BY <1>2, <1>7 DEF OneQuery, Outstanding, RequestType
  <2>4. op.step = "answer" /\ r.n = ops
    BY <1>2, <1>7 DEF OneQuery, Outstanding, NoQuery
  <2> QED
    BY <1>1, <1>2, <1>3, <2>2, <2>3, <2>4 DEF OneQuery, Single, Outstanding, NoQuery
<1> QED
  BY <1>4, <1>5, <1>6, <1>7

LEMMA EventOneQuery ==
    Base /\ OneQuery /\ (Deadline \/ Bound \/ Connected \/ SocketClosed \/ Reports \/ Unframed
                         \/ HeartbeatFails) => OneQuery'
<1> SUFFICES ASSUME Base, OneQuery,
                    Deadline \/ Bound \/ Connected \/ SocketClosed \/ Reports \/ Unframed
                    \/ HeartbeatFails
             PROVE OneQuery'
  OBVIOUS
<1>1. CASE Deadline \/ Bound
  <2>1. op'.step = op.step
    BY <1>1 DEF Deadline, Bound, Aborts, Base, TypeOK, OpType
  <2> QED
    BY <1>1, <2>1, QuietOneQuery DEF Deadline, Bound, Aborts, session, device
<1>2. CASE Connected
  <2>1. op.step = "dial" /\ op'.step = "negotiate"
    BY <1>2 DEF Connected, Base, Operating, TypeOK, OpType
  <2>2. owed' = {Request("session", ops)} /\ frames' = frames /\ end' = end
    BY <1>2 DEF Connected
  <2> QED
    BY <2>1, <2>2 DEF OneQuery, Single, Outstanding, NoQuery, Request
<1>3. CASE SocketClosed
  <2>1. end' # "none"
    BY <1>3 DEF SocketClosed, Base, TypeOK, Reason
  <2> QED
    BY <2>1, EndedOneQuery
<1>4. CASE Reports
  <2>1. PICK body \in {"other", "control", "value", "refused", "bad"} :
            Arrives(Frame("report", 0, body))
    BY <1>4 DEF Reports
  <2> DEFINE f == Frame("report", 0, body)
  <2>2. f.cmd = "report"
    BY DEF Frame
  <2> HIDE DEF f
  <2>3. frames' = frames \/ frames' = Append(frames, f)
    BY <2>1 DEF Arrives, Breaks, f
  <2>4. \A i \in DOMAIN frames' : frames'[i].cmd = "query" =>
           i \in DOMAIN frames /\ frames'[i] = frames[i]
    BY <2>2, <2>3 DEF Base, TypeOK
  <2>5. end' = end /\ op' = op /\ ops' = ops /\ owed' = owed
    BY <1>4 DEF Reports
  <2> QED
    BY <2>4, <2>5 DEF OneQuery, Single, Outstanding, NoQuery
<1>5. CASE Unframed
  BY <1>5, QuietOneQuery DEF Unframed, Breaks, device
<1>6. CASE HeartbeatFails
  BY <1>6, FinishOneQuery DEF HeartbeatFails, Reason
<1> QED
  BY <1>1, <1>2, <1>3, <1>4, <1>5, <1>6

LEMMA EndingsOneQuery ==
    Base /\ OneQuery /\ (TimesOut \/ Interrupted \/ CloudRead \/ CloudFails \/ Forged \/ Unusable)
    => OneQuery'
<1> SUFFICES ASSUME Base, OneQuery,
                    TimesOut \/ Interrupted \/ CloudRead \/ CloudFails \/ Forged \/ Unusable
             PROVE OneQuery'
  OBVIOUS
<1>1. CASE TimesOut
  <2>1. op.step = "readback" /\ op'.step = "idle"
    BY <1>1, ReturnsIdle DEF TimesOut, Base, Operating
  <2> QED
    BY <1>1, <2>1, QuietOneQuery DEF TimesOut, session, device
<1>2. CASE Interrupted
  <2>1. PICK error \in Errors \ {"refused"}, rest \in {frames, <<>>} : Throws(error, rest)
    BY <1>2, ErrorType DEF Interrupted, Errors, Reason, Base
  <2> QED
    BY <2>1, ThrowsOneQuery
<1>3. CASE CloudRead /\ socket = "open"
  <2>1. op.step = "cloud" /\ op'.step = "answer"
    BY <1>3 DEF CloudRead, Base, TypeOK, OpType
  <2>2. owed' = owed \cup {Request("query", ops')} /\ frames' = frames /\ end' = end
    BY <1>3 DEF CloudRead, session
  <2> QED
    BY <2>1, <2>2, AskOneQuery
<1>4. CASE CloudRead /\ socket # "open"
  BY <1>4, ThrowsOneQuery DEF CloudRead, Errors, Reason
<1>5. CASE CloudFails
  <2>1. OneQuery' \/ (frames' = frames /\ end' = end /\ op'.step = "idle")
    BY <1>5, ThrowsOneQuery DEF CloudFails, Errors
  <2>2. op.step = "cloud" /\ owed' = owed
    BY <1>5 DEF CloudFails, device
  <2> QED
    BY <2>1, <2>2, QuietOneQuery
<1>6. CASE Forged
  BY <1>6, ThrowsOneQuery DEF Forged, Errors, Reason
<1>7. CASE Unusable
  <2>1. PICK error \in Errors : Throws(error, Tail(frames))
    BY <1>7 DEF Unusable, Errors, Reason
  <2>2. OneQuery' \/ (frames' = Tail(frames) /\ op'.step = "idle")
    BY <2>1, ThrowsOneQuery
  <2>3. /\ Receiving /\ Error = "none" /\ frames # <<>> /\ owed' = owed
        /\ op.step # "answer" \/ Head(frames).cmd = "query"
    BY <1>7 DEF Unusable, Takes, Receiving, device
  <2> QED
    BY <2>2, <2>3, Taking, TakenOneQuery
<1> QED
  BY <1>1, <1>2, <1>3, <1>4, <1>5, <1>6, <1>7

LEMMA TakingsOneQuery ==
    Base /\ OneQuery /\ (Skip \/ KeyAgreed \/ Answered \/ Write \/ Reported \/ Replied \/ ReadBack)
    => OneQuery'
<1> SUFFICES ASSUME Base, OneQuery,
                    Skip \/ KeyAgreed \/ Answered \/ Write \/ Reported \/ Replied \/ ReadBack
             PROVE OneQuery'
  OBVIOUS
<1>a. Receiving /\ Error = "none" /\ frames # <<>> /\ end = "none"
  BY Taking DEF Skip, KeyAgreed, Answered, Write, Reported, Replied, ReadBack, Takes, Receiving
<1>b. op \in OpType
  BY DEF Base, TypeOK
<1>1. CASE Skip
  <2>1. CASE op.step = "negotiate" \/ op.skipped >= MaxSkipped
    BY <1>1, <2>1, ThrowsOneQuery DEF Skip, Errors, Reason
  <2>2. CASE ~(op.step = "negotiate" \/ op.skipped >= MaxSkipped)
    <3>1. /\ op' = [op EXCEPT !.skipped = @ + 1] /\ frames' = Tail(frames)
          /\ end' = end /\ ops' = ops /\ owed' = owed
      BY <1>1, <2>2 DEF Skip, device
    <3>2. op'.step = op.step
      BY <1>b, <3>1 DEF OpType
    <3>3. op.step = "answer" => Head(frames).cmd # "query"
      BY <1>1 DEF Skip
    <3>4. CASE op.step = "answer"
      BY <1>a, <3>1, <3>2, <3>3, <3>4, SkippedOneQuery
    <3>5. CASE op.step # "answer"
      BY <1>a, <3>1, <3>2, <3>5, TakenOneQuery
    <3> QED
      BY <3>4, <3>5
  <2> QED
    BY <2>1, <2>2
<1>2. CASE KeyAgreed
  <2>1. CASE Head(frames).body = "bad"
    BY <1>2, <2>1, ThrowsOneQuery DEF KeyAgreed, Errors, Reason
  <2>2. CASE Head(frames).body # "bad"
    BY <1>2, <1>a, <2>2, ReturnsIdle, TakenOneQuery DEF KeyAgreed, Takes, device
  <2> QED
    BY <2>1, <2>2
<1>3. CASE Answered \/ Reported
  BY <1>3, <1>a, ReturnsIdle, TakenOneQuery DEF Answered, Reported, Takes, device
<1>4. CASE Write
  <2>1. op.step = "answer" /\ Head(frames).cmd = "query" /\ op'.step = "readback"
    BY <1>4, <1>b DEF Write, Takes, OpType
  <2>2. PICK n \in 0 .. Len(frames) - 1 :
            frames' = [i \in 1 .. Len(frames) - 1 |->
                          [frames[i + 1] EXCEPT !.early = TRUE, !.stale = i <= n]]
    BY <1>4 DEF Write
  <2>3. frames \in Seq(FrameType) /\ Len(frames) \in Nat \ {0}
        /\ \A i \in 1 .. Len(frames) : frames[i] \in FrameType
    BY <1>a DEF Base, TypeOK
  <2>4. ASSUME NEW i \in DOMAIN frames' PROVE frames'[i].cmd # "query"
    <3>1. i \in 1 .. Len(frames) - 1
      BY <2>2, <2>4
    <3>2. i + 1 \in 1 .. Len(frames) /\ frames[i + 1] \in FrameType
      BY <2>3, <3>1
    <3>3. frames'[i] = [frames[i + 1] EXCEPT !.early = TRUE, !.stale = i <= n]
      BY <2>2, <3>1
    <3>4. frames'[i].cmd = frames[i + 1].cmd
      BY <3>2, <3>3 DEF FrameType
    <3>5. frames[1].cmd = "query" /\ 1 \in DOMAIN frames /\ i + 1 \in DOMAIN frames /\ i + 1 # 1
      BY <2>1, <2>3, <3>1
    <3> QED
      BY <1>a, <3>4, <3>5 DEF OneQuery, Single
  <2>5. \A r \in owed : r.cmd # "query"
    BY <1>a, <2>1, TakenNoQuery
  <2>6. owed' = owed \cup {Request("control", ops)}
    BY <1>4 DEF Write
  <2> QED
    BY <2>1, <2>4, <2>5, <2>6 DEF OneQuery, Single, Outstanding, NoQuery, Request
<1>5. CASE Replied \/ ReadBack
  <2>1. op.step = "readback" /\ frames' = Tail(frames) /\ owed' = owed
    BY <1>5 DEF Replied, ReadBack, Takes, device
  <2>2. op'.step \in {"readback", "idle"}
    BY <1>5, <1>b, <2>1, ReturnsIdle DEF Replied, ReadBack, OpType
  <2> QED
    BY <1>a, <2>1, <2>2, TakenOneQuery
<1> QED
  BY <1>1, <1>2, <1>3, <1>4, <1>5

LEMMA NextOneQuery == Base /\ OneQuery /\ [Next]_vars => OneQuery'
<1> SUFFICES ASSUME Base, OneQuery, [Next]_vars PROVE OneQuery'
  OBVIOUS
<1>1. CASE UNCHANGED vars
  BY <1>1, QuietOneQuery DEF vars, session, device
<1> QED
  BY <1>1, CallOneQuery, AnswersOneQuery, EventOneQuery, EndingsOneQuery, TakingsOneQuery DEF Next

(* "One fresh status query": whatever the device answers late or never, no *)
(* snapshot and no check before a write rests on the answer of another     *)
(* operation's query, for any number of operations.                        *)
THEOREM AnswersAreOwn == Spec => []OwnAnswer
<1>1. Base /\ OneQuery => OwnAnswer
  BY DEF OneQuery, Outstanding, OwnAnswer
<1> QED
  BY <1>1, InitOneQuery, NextOneQuery, BaseHolds, PTL DEF Spec
=============================================================================
