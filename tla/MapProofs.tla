--------------------------- MODULE MapProofs ---------------------------
(***************************************************************************)
(* Proofs about a mower's maps.                                            *)
(*                                                                         *)
(* MapSession, for any files, demands, sends and lost sockets: that a      *)
(* demand which ends as it was asked to has stopped the mower rests on the *)
(* order of what is on the wire: the cancel is the last request of its     *)
(* session, so that the mower that has read it has nothing else to do, and *)
(* only then is there an answer to it.                                     *)
(*                                                                         *)
(* PathHistory, for any inputs and any limit: that the segments still tile *)
(* the points after a provisional tail was cut rests on where the cut is:  *)
(* the segments that start before it are the first ones, and the last of   *)
(* them reaches it.                                                        *)
(*                                                                         *)
(* MapStream, for any segments and any limits: what the file reader has    *)
(* put out and what it holds are a function of how far it has read in the  *)
(* mower's stream, and the receiver has read up to the message it gathers; *)
(* the order in which segments came is in neither.                         *)
(***************************************************************************)
EXTENDS MapSession, MapStream, PathHistory, TLAPS, FiniteSetTheorems, WellFoundedInduction

Requests == {"version", "album", "download", "cancel"}
Replies == Files \cup Answers
Tasks == [state : {"idle", "sending", "accepted", "ended", "stopped"}, sends : Nat]

(* A demand knows what it did: it has asked for the download only in and    *)
(* after that stage, and when it closes it has failed, or was stopped and   *)
(* has its cancel confirmed if there was something to cancel.               *)
DemandOK(x) ==
    /\ x \in Demands
    /\ x.accepted => x.requested /\ x.staged = {}
    /\ x.at \in {"download", "cancel"} => x.requested
    /\ x.at = "cancel" => x.reason # "none"
    /\ x.at \in {"start", "version", "album"} \cup Negotiating => ~x.requested
    /\ x.at = "closing" /\ x.failure = "none" =>
          x.reason # "none" /\ (x.requested => x.confirmed)

WireType ==
    /\ requests \in Seq(Requests) /\ replies \in Seq(Replies) /\ task \in Tasks

Late(x) == x.at \in {"cancel", "closing"}
CancelIsLast ==
    /\ \A i \in DOMAIN requests : requests[i] = "cancel" => i = Len(requests)
    /\ Active /\ ((\E i \in DOMAIN requests : requests[i] = "cancel") \/ task.state = "stopped")
          => Late(d)
    /\ task.state = "stopped" => requests = <<>>
    /\ (\E i \in DOMAIN replies : replies[i] = "cancelled") => task.state = "stopped"
    /\ Active /\ d.confirmed => task.state = "stopped"

Unknown == result.reason \in {"cancel_unconfirmed", "cleanup_unconfirmed"}
Quiet == ~pending /\ \A s \in DOMAIN sockets : sockets[s] \in {"none", "closed"}
EndOK ==
    /\ result \in Results \cup {None}
    /\ Ended => ~Active /\ (Unknown => ~inputs)
    /\ EndsCancelled
    /\ ~Active => Quiet \/ (Ended /\ result.reason = "cleanup_unconfirmed")
    /\ ~Active => shutdown # "waiting"
    /\ shutdown = "done" => ~Active
    /\ inputs => shutdown = "no"

MapInv == (Active => DemandOK(d)) /\ WireType /\ CancelIsLast /\ EndOK

-----------------------------------------------------------------------------
(* Names, and the constants they are compared with.                         *)

LEMMA NegotiatingIs ==
    /\ Negotiating = {"mqtt", "subscribe", "answer", "socket", "challenge", "complete"}
    /\ \A i \in 1..6 : Steps[i] \in Negotiating
    /\ Len(Steps) = 6 /\ DOMAIN Steps = 1..6
<1>1. DOMAIN Steps = 1..6 /\ Len(Steps) = 6
  BY DEF Steps
<1>2. /\ Steps[1] = "mqtt" /\ Steps[2] = "subscribe" /\ Steps[3] = "answer"
      /\ Steps[4] = "socket" /\ Steps[5] = "challenge" /\ Steps[6] = "complete"
  BY DEF Steps
<1>3. \A i \in 1..6 : i = 1 \/ i = 2 \/ i = 3 \/ i = 4 \/ i = 5 \/ i = 6
  OBVIOUS
<1> QED
  BY <1>1, <1>2, <1>3 DEF Negotiating

LEMMA NoneIsNone == ASSUME NEW x \in Demands \cup Results PROVE x # None
  BY MapSessionAssumption

(* Throwing leaves a demand that is closing, with what it knows.            *)
LEMMA ThrowOK ==
    ASSUME DemandOK(d), NEW why, Throw(why),
           \/ why \in {"protocol_error", "connection_failed"}
           \/ why = "session_stopped" /\ d.reason # "none" /\ ~d.requested
    PROVE DemandOK(d') /\ d'.at = "closing" /\ d'.confirmed = d.confirmed
<1> DEFINE e == [d EXCEPT !.failure = Failure(why)]
<1>1. d \in Demands
  BY DEF DemandOK
<1>2. Failure(why) \in Failures \cup {"none"}
  BY DEF Failure, Failures
<1>3. Failure(why) = "none" => d.reason # "none" /\ ~d.requested
  BY DEF Failure
<1>4. d' = [e EXCEPT !.at = "closing", !.hard = TRUE, !.staged = {}]
  BY DEF Throw, Close
<1>5. /\ d' \in Demands /\ d'.at = "closing" /\ d'.confirmed = d.confirmed
      /\ d'.failure = Failure(why) /\ d'.reason = d.reason /\ d'.requested = d.requested
      /\ d'.accepted = d.accepted /\ d'.staged = {}
  BY <1>1, <1>2, <1>4 DEF Demands
<1> QED
  BY <1>3, <1>5, NegotiatingIs DEF DemandOK

LEMMA StoppedOK ==
    ASSUME DemandOK(d), NEW why \in Stops
    PROVE /\ DemandOK(StoppedFor(why)) /\ StoppedFor(why).at = d.at
          /\ StoppedFor(why).confirmed = d.confirmed
<1>1. d \in Demands
  BY DEF DemandOK
<1>2. why # "none"
  BY DEF Stops
<1>3. CASE d.reason = "none"
  <2> DEFINE e == [d EXCEPT !.reason = why]
  <2>1. /\ e \in Demands /\ e.at = d.at /\ e.confirmed = d.confirmed /\ e.reason = why
        /\ e.requested = d.requested /\ e.accepted = d.accepted /\ e.staged = d.staged
        /\ e.failure = d.failure
    BY <1>1 DEF Demands
  <2> QED
    BY <1>2, <1>3, <2>1 DEF DemandOK, StoppedFor
<1> QED
  BY <1>3 DEF StoppedFor

LEMMA PublishOK ==
    ASSUME NEW x, DemandOK(x), NEW files \in SUBSET Files, Publish(x, files)
    PROVE DemandOK(d') /\ d'.at = x.at /\ d'.confirmed = x.confirmed
          /\ d'.reason = x.reason /\ d'.accepted = x.accepted
<1>1. x \in Demands
  BY DEF DemandOK
<1>2. CASE d' = x
  BY <1>2
<1>3. CASE d' = [x EXCEPT !.files = x.files \cup files]
  <2>1. /\ d' \in Demands /\ d'.at = x.at /\ d'.confirmed = x.confirmed /\ d'.reason = x.reason
        /\ d'.requested = x.requested /\ d'.accepted = x.accepted /\ d'.staged = x.staged
        /\ d'.failure = x.failure
    BY <1>1, <1>3 DEF Demands
  <2> QED
    BY <2>1 DEF DemandOK
<1> QED
  BY <1>2, <1>3 DEF Publish

-----------------------------------------------------------------------------
(* The effects of steps.                                                    *)

(* A running demand goes on: nothing is asked of the mower, and what it has *)
(* answered is read or not.                                                 *)
LEMMA GoesInv ==
    ASSUME MapInv, Active, DemandOK(d'), Late(d) => Late(d'),
           d'.confirmed => d.confirmed \/ task.state = "stopped",
           UNCHANGED <<inputs, shutdown, requests, task, result>>,
           replies' \in Seq(Replies), \A i \in DOMAIN replies' : \E j \in DOMAIN replies :
                                          replies'[i] = replies[j]
    PROVE MapInv'
<1>1. Active'
  BY NoneIsNone DEF DemandOK, Active
<1>2. WireType'
  BY DEF MapInv, WireType
<1>3. CancelIsLast'
  BY <1>1 DEF MapInv, CancelIsLast, Late
<1>4. EndOK'
  BY <1>1 DEF MapInv, EndOK, Ended, EndsCancelled, Unknown
<1> QED
  BY <1>1, <1>2, <1>3, <1>4 DEF MapInv

(* It asks for something else, for the cancel only when it waits for that.  *)
LEMMA AsksInv ==
    ASSUME MapInv, Active, DemandOK(d'), ~Late(d), ~d.confirmed, ~d'.confirmed, NEW r \in Requests,
           r = "cancel" => Late(d'), requests' = Append(requests, r),
           replies' \in Seq(Replies), \A i \in DOMAIN replies' : \E j \in DOMAIN replies :
                                          replies'[i] = replies[j],
           UNCHANGED <<inputs, shutdown, task, result>>
    PROVE MapInv'
<1>1. Active'
  BY NoneIsNone DEF DemandOK, Active
<1>2. /\ requests \in Seq(Requests) /\ task.state # "stopped"
      /\ \A i \in DOMAIN requests : requests[i] # "cancel"
  BY DEF MapInv, WireType, CancelIsLast
<1>3. /\ requests' \in Seq(Requests) /\ Len(requests') = Len(requests) + 1
      /\ DOMAIN requests' = 1..Len(requests) + 1
      /\ \A i \in DOMAIN requests' : requests'[i] = IF i = Len(requests) + 1 THEN r ELSE requests[i]
      /\ DOMAIN requests = 1..Len(requests) /\ Len(requests) \in Nat
  BY <1>2
<1>4. WireType'
  BY <1>3 DEF MapInv, WireType
<1>5. \A i \in DOMAIN requests' : requests'[i] = "cancel" => i = Len(requests') /\ Late(d')
  BY <1>2, <1>3
<1>6. CancelIsLast'
  BY <1>1, <1>2, <1>5 DEF MapInv, CancelIsLast, Late
<1>7. EndOK'
  BY <1>1 DEF MapInv, EndOK, Ended, EndsCancelled, Unknown
<1> QED
  BY <1>1, <1>4, <1>6, <1>7 DEF MapInv

LEMMA TailOf ==
    ASSUME NEW S, NEW s \in Seq(S), s # <<>>
    PROVE /\ Tail(s) \in Seq(S) /\ Head(s) \in S /\ 1 \in DOMAIN s /\ Head(s) = s[1]
          /\ Len(s) \in Nat \ {0} /\ Len(Tail(s)) = Len(s) - 1
          /\ DOMAIN s = 1..Len(s) /\ DOMAIN Tail(s) = 1..(Len(s) - 1)
          /\ \A i \in DOMAIN Tail(s) : i + 1 \in DOMAIN s /\ Tail(s)[i] = s[i + 1]
  OBVIOUS

-----------------------------------------------------------------------------
(* The actions.                                                             *)

LEMMA NewDemandOK == DemandOK(NewDemand) /\ NewDemand.at = "start" /\ ~NewDemand.confirmed
<1>1. NewDemand \in Demands
  BY DEF NewDemand, Demands
<1> QED
  BY <1>1, NegotiatingIs DEF NewDemand, DemandOK

LEMMA AcquireInv == MapInv /\ Acquire => MapInv'
<1> SUFFICES ASSUME MapInv, Acquire PROVE MapInv'
  OBVIOUS
<1>1. d' = NewDemand /\ Active' /\ result' = None /\ ~Ended'
  BY NewDemandOK, NoneIsNone DEF Acquire, Active, Ended, DemandOK
<1>2. task' \in Tasks /\ task'.state = "idle" /\ requests' = <<>> /\ replies' = <<>>
  BY DEF Acquire, Tasks
<1>3. WireType' /\ CancelIsLast'
  BY <1>1, <1>2, NewDemandOK DEF WireType, CancelIsLast
<1>4. EndOK'
  BY <1>1 DEF Acquire, MapInv, EndOK, EndsCancelled, Active
<1> QED
  BY <1>1, <1>3, <1>4, NewDemandOK DEF MapInv

LEMMA StopInv == ASSUME NEW why \in Stops, MapInv, Stop(why) PROVE MapInv'
<1>1. Active /\ DemandOK(d) /\ d' = StoppedFor(why)
  BY DEF Stop, MapInv
<1>2. DemandOK(d') /\ d'.at = d.at /\ d'.confirmed = d.confirmed
  BY <1>1, StoppedOK
<1>3. UNCHANGED <<inputs, shutdown, requests, replies, task, result>>
  BY DEF Stop, wire
<1> QED
  BY <1>1, <1>2, <1>3, GoesInv DEF Late, MapInv, WireType

LEMMA ShutdownInv == MapInv /\ Shutdown => MapInv'
<1> SUFFICES ASSUME MapInv, Shutdown PROVE MapInv'
  OBVIOUS
<1>1. UNCHANGED <<pending, sockets, requests, replies, task, result>> /\ ~inputs'
  BY DEF Shutdown, wire
<1>2. CASE Active
  <2>1. d' = StoppedFor("shutdown") /\ shutdown' = "waiting" /\ DemandOK(d)
    BY <1>2 DEF Shutdown, MapInv
  <2>2. DemandOK(d') /\ d'.at = d.at /\ d'.confirmed = d.confirmed
    BY <2>1, StoppedOK DEF Stops
  <2>3. Active'
    BY <2>2, NoneIsNone DEF Active, DemandOK
  <2>4. EndOK'
    BY <1>1, <1>2, <2>1, <2>3 DEF MapInv, EndOK, Ended, EndsCancelled, Unknown
  <2> QED
    BY <1>1, <1>2, <2>2, <2>3, <2>4 DEF MapInv, WireType, CancelIsLast, Late
<1>3. CASE ~Active
  <2>1. d' = d /\ shutdown' = "done" /\ ~Active'
    BY <1>3 DEF Shutdown, Active
  <2> QED
    BY <1>1, <1>3, <2>1
       DEF MapInv, WireType, CancelIsLast, EndOK, Ended, EndsCancelled, Unknown, Quiet
<1> QED
  BY <1>2, <1>3

(* What a demand comes to is what it knew when it closed.                   *)
LEMMA EndsInv == ASSUME NEW clean \in BOOLEAN, MapInv, Ends(clean) PROVE MapInv'
<1>1. Active /\ d.at = "closing" /\ DemandOK(d) /\ d \in Demands /\ (clean => Quiet)
  BY DEF Ends, MapInv, At, Cleaned, Quiet, DemandOK
<1>2. /\ d' = None /\ ~Active' /\ UNCHANGED <<pending, sockets, requests, replies, task>>
      /\ inputs' = (inputs /\ clean /\ d.failure # "cancel_unconfirmed")
      /\ shutdown' = IF shutdown = "waiting" THEN IF clean THEN "done" ELSE "failed" ELSE shutdown
  BY DEF Ends, End, wire, Active
<1>3. /\ result'.reason = IF ~clean THEN "cleanup_unconfirmed"
                          ELSE IF d.failure # "none" THEN d.failure ELSE d.reason
      /\ result'.confirmed = d.confirmed /\ result'.requested = d.requested
      /\ result' \in Results /\ result' # None
  <2>1. d.failure = "none" => d.reason # "none"
    BY <1>1 DEF DemandOK
  <2>2. result' = [reason |-> IF ~clean THEN "cleanup_unconfirmed"
                             ELSE IF d.failure # "none" THEN d.failure
                             ELSE IF d.reason # "none" THEN d.reason ELSE "protocol_error",
                  confirmed |-> d.confirmed, requested |-> d.requested]
    BY DEF Ends, End
  <2>3. /\ d.failure \in Failures \cup {"none"} /\ d.reason \in Stops \cup {"none"}
        /\ d.confirmed \in BOOLEAN /\ d.requested \in BOOLEAN
    BY <1>1 DEF Demands
  <2>4. result' \in Results
    BY <2>1, <2>2, <2>3 DEF Results
  <2> QED
    BY <2>1, <2>2, <2>4, NoneIsNone
<1>4. Stops \cap (Failures \cup {"cleanup_unconfirmed"}) = {}
  BY DEF Stops, Failures
<1>5. d.failure \in Failures \cup {"none"}
  BY <1>1 DEF Demands
<1>6. EndsCancelled'
  <2> SUFFICES ASSUME result'.reason \in Stops, result'.requested
               PROVE result'.confirmed /\ task'.state \in {"stopped"}
    BY DEF EndsCancelled
  <2>1. d.failure = "none" /\ d.requested
    BY <1>3, <1>4, <1>5
  <2>2. d.confirmed
    BY <1>1, <2>1 DEF DemandOK
  <2> QED
    BY <1>1, <1>2, <1>3, <2>2 DEF MapInv, CancelIsLast
<1>7. Unknown' => ~inputs'
  <2>1. d.failure \in Failures \cup {"none"} /\ d.reason \in Stops \cup {"none"}
    BY <1>1 DEF Demands
  <2>2. {"cancel_unconfirmed", "cleanup_unconfirmed"} \cap (Stops \cup {"none"}) = {}
    BY DEF Stops
  <2>3. "cleanup_unconfirmed" \notin Failures
    BY DEF Failures
  <2> QED
    BY <1>2, <1>3, <2>1, <2>2, <2>3 DEF Unknown
<1>8. EndOK'
  BY <1>1, <1>2, <1>3, <1>6, <1>7 DEF MapInv, EndOK, Quiet, Ended
<1> QED
  BY <1>2, <1>8 DEF MapInv, WireType, CancelIsLast

LEMMA StartInv == MapInv /\ Start => MapInv'
<1> SUFFICES ASSUME MapInv, Start PROVE MapInv'
  OBVIOUS
<1>1. Active /\ DemandOK(d) /\ d.at = "start" /\ d \in Demands
  BY DEF Start, At, MapInv, DemandOK
<1>2. UNCHANGED <<inputs, shutdown, requests, replies, task, result>> /\ replies \in Seq(Replies)
  BY DEF Start, wire, MapInv, WireType
<1>3. DemandOK(d') /\ d'.confirmed = d.confirmed /\ ~Late(d)
  <2>1. CASE d.reason = "none"
    <3>1. d' = [d EXCEPT !.at = "mqtt"]
      BY <2>1 DEF Start
    <3>2. d' \in Demands /\ d'.at = "mqtt" /\ d' = [d EXCEPT !.at = "mqtt"]
      BY <1>1, <3>1, NegotiatingIs DEF Demands
    <3> QED
      BY <1>1, <3>2, NegotiatingIs DEF DemandOK, Late, Demands
  <2>2. CASE d.reason # "none"
    <3>1. d' = [d EXCEPT !.at = "closing", !.hard = TRUE, !.staged = {}]
      BY <2>2 DEF Start, Close
    <3>2. /\ d' \in Demands /\ d'.at = "closing" /\ d'.confirmed = d.confirmed
          /\ d'.requested = d.requested /\ d'.reason = d.reason /\ d'.accepted = d.accepted
          /\ d'.staged = {}
      BY <1>1, <3>1 DEF Demands
    <3> QED
      BY <1>1, <2>2, <3>2, NegotiatingIs DEF DemandOK, Late
  <2> QED
    BY <2>1, <2>2
<1> QED
  BY <1>1, <1>2, <1>3, GoesInv

LEMMA StepDoneInv == MapInv /\ StepDone => MapInv'
<1> SUFFICES ASSUME MapInv, StepDone PROVE MapInv'
  OBVIOUS
<1> DEFINE i == CHOOSE k \in DOMAIN Steps : Steps[k] = d.at
<1>1. Active /\ DemandOK(d) /\ d.at \in Negotiating /\ d \in Demands
  BY DEF StepDone, At, MapInv, DemandOK
<1>2. UNCHANGED <<inputs, shutdown, replies, task, result>> /\ replies \in Seq(Replies)
  BY DEF StepDone, MapInv, WireType
<1>3. i \in 1..6
  BY <1>1, NegotiatingIs DEF Negotiating
<1>4. ~Late(d) /\ ~d.requested
  BY <1>1, NegotiatingIs DEF DemandOK, Late
<1>5. CASE i < 6
  <2>1. d' = [d EXCEPT !.at = Steps[i + 1]] /\ UNCHANGED requests
    BY <1>5, NegotiatingIs DEF StepDone
  <2>2. Steps[i + 1] \in Negotiating
    <3>1. \A k \in 1..6 : k < 6 => Steps[k + 1] \in Negotiating
      BY NegotiatingIs
    <3> HIDE DEF i
    <3> QED
      BY <1>3, <1>5, <3>1
  <2>3. /\ d' \in Demands /\ d'.at = Steps[i + 1] /\ d'.confirmed = d.confirmed
        /\ d'.requested = d.requested /\ d'.reason = d.reason /\ d'.accepted = d.accepted
        /\ d'.staged = d.staged
    BY <1>1, <2>1, <2>2 DEF Demands
  <2>4. DemandOK(d')
    BY <1>1, <1>4, <2>2, <2>3, NegotiatingIs DEF DemandOK
  <2> QED
    BY <1>1, <1>2, <1>4, <2>1, <2>3, <2>4, GoesInv
<1>6. CASE ~(i < 6)
  <2>1. d' = [d EXCEPT !.at = "version"] /\ requests' = Append(requests, "version")
    BY <1>6, NegotiatingIs DEF StepDone
  <2>2. /\ d' \in Demands /\ d'.at = "version" /\ d'.confirmed = d.confirmed
        /\ d'.requested = d.requested /\ d'.reason = d.reason /\ d'.accepted = d.accepted
        /\ d'.staged = d.staged
    BY <1>1, <2>1 DEF Demands, Stages
  <2>3. DemandOK(d') /\ "version" \in Requests
    BY <1>1, <1>4, <2>2, NegotiatingIs DEF DemandOK, Requests
  <2>4. ~d.confirmed
    BY <1>1, <1>4 DEF MapInv, CancelIsLast
  <2> QED
    BY <1>1, <1>2, <1>4, <2>1, <2>2, <2>3, <2>4, AsksInv
<1> QED
  BY <1>5, <1>6

(* Steps that throw.                                                        *)
LEMMA ThrowInv ==
    ASSUME MapInv, Active, NEW why, Throw(why),
           \/ why \in {"protocol_error", "connection_failed"}
           \/ why = "session_stopped" /\ d.reason # "none" /\ ~d.requested,
           UNCHANGED <<inputs, shutdown, requests, task, result>>,
           replies' \in Seq(Replies), \A i \in DOMAIN replies' : \E j \in DOMAIN replies :
                                          replies'[i] = replies[j]
    PROVE MapInv'
<1>1. DemandOK(d') /\ d'.at = "closing" /\ d'.confirmed = d.confirmed
  BY ThrowOK DEF MapInv
<1> QED
  BY <1>1, GoesInv DEF Late

LEMMA NegotiationEndsInv == MapInv /\ (StepFails \/ StepStopped) => MapInv'
<1> SUFFICES ASSUME MapInv, StepFails \/ StepStopped PROVE MapInv'
  OBVIOUS
<1>1. /\ Active /\ d.at \in Negotiating /\ replies \in Seq(Replies)
      /\ UNCHANGED <<inputs, shutdown, requests, replies, task, result>>
  BY DEF StepFails, StepStopped, At, wire, MapInv, WireType
<1>2. ~d.requested
  BY <1>1 DEF MapInv, DemandOK
<1> QED
  BY <1>1, <1>2, ThrowInv DEF StepFails, StepStopped

LEMMA StopSeenInv == MapInv /\ StopSeen => MapInv'
<1> SUFFICES ASSUME MapInv, StopSeen PROVE MapInv'
  OBVIOUS
<1>1. /\ Active /\ d.at \in {"version", "album", "download"} /\ d.reason # "none"
      /\ DemandOK(d) /\ d \in Demands /\ replies \in Seq(Replies)
      /\ UNCHANGED <<inputs, shutdown, replies, task, result>>
  BY DEF StopSeen, At, MapInv, WireType, DemandOK
<1>2. CASE d.at # "download"
  BY <1>1, <1>2, ThrowInv DEF StopSeen, DemandOK
<1>3. CASE d.at = "download" /\ sockets.io # "open"
  BY <1>1, <1>3, ThrowInv DEF StopSeen
<1>4. CASE d.at = "download" /\ sockets.io = "open"
  <2>1. d' = [d EXCEPT !.at = "cancel"] /\ requests' = Append(requests, "cancel")
    BY <1>4 DEF StopSeen
  <2>2. /\ d' \in Demands /\ d'.at = "cancel" /\ d'.confirmed = d.confirmed
        /\ d'.requested = d.requested /\ d'.reason = d.reason /\ d'.accepted = d.accepted
        /\ d'.staged = d.staged
    BY <1>1, <2>1 DEF Demands, Stages
  <2>3. DemandOK(d') /\ Late(d') /\ "cancel" \in Requests /\ ~Late(d)
    BY <1>1, <1>4, <2>2, NegotiatingIs DEF DemandOK, Late, Requests
  <2>4. ~d.confirmed
    BY <1>1, <2>3 DEF MapInv, CancelIsLast
  <2> QED
    BY <1>1, <2>1, <2>2, <2>3, <2>4, AsksInv
<1> QED
  BY <1>2, <1>3, <1>4

LEMMA CancelExpiresInv == MapInv /\ CancelExpires => MapInv'
<1> SUFFICES ASSUME MapInv, CancelExpires PROVE MapInv'
  OBVIOUS
<1>1. /\ Active /\ d.at = "cancel" /\ DemandOK(d) /\ d \in Demands
      /\ UNCHANGED <<inputs, shutdown, requests, replies, task, result>>
      /\ replies \in Seq(Replies) /\ d' = [d EXCEPT !.hard = TRUE]
  BY DEF CancelExpires, At, wire, MapInv, WireType, DemandOK
<1>2. /\ d' \in Demands /\ d'.at = "cancel" /\ d'.confirmed = d.confirmed
      /\ d'.requested = d.requested /\ d'.reason = d.reason /\ d'.accepted = d.accepted
      /\ d'.staged = d.staged
  BY <1>1 DEF Demands
<1>3. DemandOK(d') /\ Late(d')
  BY <1>1, <1>2, NegotiatingIs DEF DemandOK, Late
<1> QED
  BY <1>1, <1>2, <1>3, GoesInv

LEMMA ReadFailsInv == MapInv /\ ReadFails => MapInv'
<1> SUFFICES ASSUME MapInv, ReadFails PROVE MapInv'
  OBVIOUS
<1>1. /\ Active /\ UNCHANGED <<inputs, shutdown, requests, replies, task, result>>
      /\ replies \in Seq(Replies)
  BY DEF ReadFails, At, wire, MapInv, WireType
<1> QED
  BY <1>1, ThrowInv DEF ReadFails

(* What a session reads is what the mower has sent first.                   *)
LEMMA RepliesTail ==
    ASSUME MapInv, replies # <<>>, replies' = Tail(replies)
    PROVE /\ replies' \in Seq(Replies) /\ Head(replies) \in Replies
          /\ \A i \in DOMAIN replies' : \E j \in DOMAIN replies : replies'[i] = replies[j]
          /\ Head(replies) = "cancelled" => task.state = "stopped"
<1>1. replies \in Seq(Replies)
  BY DEF MapInv, WireType
<1>2. /\ Tail(replies) \in Seq(Replies) /\ Head(replies) \in Replies
      /\ 1 \in DOMAIN replies /\ Head(replies) = replies[1]
      /\ \A i \in DOMAIN Tail(replies) : i + 1 \in DOMAIN replies /\ Tail(replies)[i] = replies[i + 1]
  BY <1>1, TailOf
<1> QED
  BY <1>2 DEF MapInv, CancelIsLast

LEMMA FileInv ==
    ASSUME MapInv, Active, NEW m, m \in Files \cup {"terminal"}, File(m),
           UNCHANGED <<inputs, shutdown, task, result>>,
           replies' \in Seq(Replies), \A i \in DOMAIN replies' : \E j \in DOMAIN replies :
                                          replies'[i] = replies[j]
    PROVE MapInv'
<1>1. DemandOK(d) /\ d \in Demands /\ UNCHANGED requests /\ d.at \in {"download", "cancel"}
  BY DEF MapInv, DemandOK, File, Silently
<1>2. CASE d' = d
  BY <1>1, <1>2, GoesInv
<1>3. CASE d' = StoppedFor("stream_ended")
  <2>1. DemandOK(d') /\ d'.at = d.at /\ d'.confirmed = d.confirmed
    BY <1>1, <1>3, StoppedOK DEF Stops
  <2> QED
    BY <1>1, <2>1, GoesInv DEF Late
<1>4. CASE m \in Files /\ Publish(d, {m})
  <2>1. DemandOK(d') /\ d'.at = d.at /\ d'.confirmed = d.confirmed
    BY <1>1, <1>4, PublishOK
  <2> QED
    BY <1>1, <2>1, GoesInv DEF Late
<1>5. CASE m \in Files /\ ~d.accepted /\ d' = [d EXCEPT !.staged = @ \cup {m}]
  <2>1. /\ d' \in Demands /\ d'.at = d.at /\ d'.confirmed = d.confirmed
        /\ d'.requested = d.requested /\ d'.reason = d.reason /\ d'.accepted = d.accepted
    BY <1>1, <1>5 DEF Demands
  <2>2. DemandOK(d')
    BY <1>1, <1>5, <2>1, NegotiatingIs DEF DemandOK
  <2> QED
    BY <1>1, <2>1, <2>2, GoesInv DEF Late
<1> QED
  BY <1>2, <1>3, <1>4, <1>5 DEF File

LEMMA CommandInv ==
    ASSUME MapInv, Active, NEW m, Command(m), m = "cancelled" => task.state = "stopped",
           UNCHANGED <<inputs, shutdown, task, result>>,
           replies' \in Seq(Replies), \A i \in DOMAIN replies' : \E j \in DOMAIN replies :
                                          replies'[i] = replies[j]
    PROVE MapInv'
<1>1. DemandOK(d) /\ d \in Demands
  BY DEF MapInv, DemandOK
<1>2. CASE m \in {"version", "album"} /\ d.at = m /\ d.reason # "none"
           /\ Throw("session_stopped") /\ UNCHANGED requests
  BY <1>1, <1>2, ThrowInv DEF DemandOK
<1>3. CASE d.at = "version" /\ Step([d EXCEPT !.at = "album"], "album")
  <2>1. d' = [d EXCEPT !.at = "album"] /\ requests' = Append(requests, "album")
    BY <1>3 DEF Step
  <2>2. /\ d' \in Demands /\ d'.at = "album" /\ d'.confirmed = d.confirmed
        /\ d'.requested = d.requested /\ d'.reason = d.reason /\ d'.accepted = d.accepted
        /\ d'.staged = d.staged
    BY <1>1, <2>1 DEF Demands, Stages
  <2>3. DemandOK(d') /\ "album" \in Requests /\ ~Late(d)
    BY <1>1, <1>3, <2>2, NegotiatingIs DEF DemandOK, Late, Requests
  <2>4. ~d.confirmed
    BY <2>3 DEF MapInv, CancelIsLast
  <2> QED
    BY <1>1, <2>1, <2>2, <2>3, <2>4, AsksInv
<1>4. CASE d.at = "album" /\ Step([d EXCEPT !.at = "download", !.requested = TRUE], "download")
  <2>1. d' = [d EXCEPT !.at = "download", !.requested = TRUE]
        /\ requests' = Append(requests, "download")
    BY <1>4 DEF Step
  <2>2. /\ d' \in Demands /\ d'.at = "download" /\ d'.confirmed = d.confirmed
        /\ d'.requested /\ d'.reason = d.reason /\ d'.accepted = d.accepted
        /\ d'.staged = d.staged
    BY <1>1, <2>1 DEF Demands, Stages
  <2>3. DemandOK(d') /\ "download" \in Requests /\ ~Late(d)
    BY <1>1, <1>4, <2>2, NegotiatingIs DEF DemandOK, Late, Requests
  <2>4. ~d.confirmed
    BY <2>3 DEF MapInv, CancelIsLast
  <2> QED
    BY <1>1, <2>1, <2>2, <2>3, <2>4, AsksInv
<1>5. CASE d.at \in {"download", "cancel"} /\ UNCHANGED requests
           /\ Publish([d EXCEPT !.accepted = TRUE, !.staged = {}], d.staged)
  <2> DEFINE e == [d EXCEPT !.accepted = TRUE, !.staged = {}]
  <2>1. /\ e \in Demands /\ e.at = d.at /\ e.confirmed = d.confirmed
        /\ e.requested = d.requested /\ e.reason = d.reason /\ e.accepted
        /\ e.staged = {} /\ e.failure = d.failure /\ d.staged \in SUBSET Files
    BY <1>1 DEF Demands
  <2>2. DemandOK(e)
    BY <1>1, <1>5, <2>1, NegotiatingIs DEF DemandOK
  <2>3. DemandOK(d') /\ d'.at = e.at /\ d'.confirmed = e.confirmed
    BY <1>5, <2>1, <2>2, PublishOK
  <2> QED
    BY <1>1, <1>5, <2>1, <2>3, GoesInv DEF Late
<1>6. CASE m = "cancelled" /\ d.at = "cancel" /\ Close([d EXCEPT !.confirmed = TRUE])
           /\ UNCHANGED requests
  <2> DEFINE e == [d EXCEPT !.confirmed = TRUE]
  <2>1. d' = [e EXCEPT !.at = "closing", !.hard = TRUE, !.staged = {}]
    BY <1>6 DEF Close
  <2>2. /\ d' \in Demands /\ d'.at = "closing" /\ d'.confirmed /\ d'.reason = d.reason
        /\ d'.requested = d.requested /\ d'.accepted = d.accepted /\ d'.staged = {}
    BY <1>1, <2>1 DEF Demands
  <2>3. DemandOK(d') /\ Late(d')
    BY <1>1, <1>6, <2>2, NegotiatingIs DEF DemandOK, Late
  <2> QED
    BY <1>1, <1>6, <2>2, <2>3, GoesInv
<1> QED
  BY <1>2, <1>3, <1>4, <1>5, <1>6 DEF Command, Silently

LEMMA ReceiveInv == MapInv /\ Receive => MapInv'
<1> SUFFICES ASSUME MapInv, Receive PROVE MapInv'
  OBVIOUS
<1>1. /\ Active /\ replies # <<>> /\ replies' = Tail(replies)
      /\ UNCHANGED <<inputs, shutdown, task, result>>
  BY DEF Receive, At
<1>2. /\ replies' \in Seq(Replies) /\ Head(replies) \in Replies
      /\ \A i \in DOMAIN replies' : \E j \in DOMAIN replies : replies'[i] = replies[j]
      /\ Head(replies) = "cancelled" => task.state = "stopped"
  BY <1>1, RepliesTail
<1>3. CASE Head(replies) \in Files \cup {"terminal"} /\ File(Head(replies))
  BY <1>1, <1>2, <1>3, FileInv
<1>4. CASE Command(Head(replies))
  BY <1>1, <1>2, <1>4, CommandInv
<1>5. CASE Throw("protocol_error") /\ UNCHANGED requests
  BY <1>1, <1>2, <1>5, ThrowInv
<1> QED
  BY <1>3, <1>4, <1>5 DEF Receive

(* Steps without the demand.                                                *)
LEMMA SurroundingsInv ==
    ASSUME MapInv,
           PendingSettles \/ \E s \in {"mqtt", "io"} : SocketCloses(s) \/ SocketDrops(s)
    PROVE MapInv'
<1>1. UNCHANGED <<inputs, shutdown, d, requests, replies, task, result>>
  BY DEF PendingSettles, SocketCloses, SocketDrops, wire
<1>2. Quiet => Quiet'
  BY DEF PendingSettles, SocketCloses, SocketDrops, Quiet
<1> QED
  BY <1>1, <1>2
     DEF MapInv, WireType, CancelIsLast, EndOK, Active, Ended, EndsCancelled, Unknown

LEMMA ConcatOf ==
    ASSUME NEW S, NEW s \in Seq(S), NEW t \in Seq(S)
    PROVE /\ s \o t \in Seq(S)
          /\ \A i \in DOMAIN (s \o t) : \/ \E j \in DOMAIN s : (s \o t)[i] = s[j]
                                     \/ \E j \in DOMAIN t : (s \o t)[i] = t[j]
<1>1. s \o t \in Seq(S) /\ DOMAIN (s \o t) = 1..(Len(s) + Len(t))
  OBVIOUS
<1>2. ASSUME NEW i \in 1..(Len(s) + Len(t)) PROVE (s \o t)[i] = IF i <= Len(s) THEN s[i] ELSE t[i - Len(s)]
  OBVIOUS
<1>3. DOMAIN s = 1..Len(s) /\ DOMAIN t = 1..Len(t) /\ Len(s) \in Nat /\ Len(t) \in Nat
  OBVIOUS
<1>4. ASSUME NEW i \in 1..(Len(s) + Len(t))
      PROVE \/ \E j \in DOMAIN s : (s \o t)[i] = s[j]
            \/ \E j \in DOMAIN t : (s \o t)[i] = t[j]
  <2>1. i <= Len(s) => i \in DOMAIN s
    BY <1>3
  <2>2. ~(i <= Len(s)) => i - Len(s) \in DOMAIN t
    BY <1>3
  <2> QED
    BY <1>2, <2>1, <2>2
<1> QED
  BY <1>1, <1>4

(* Steps of the mower: it has stopped for good when it reads the cancel.    *)
LEMMA MowerInv ==
    ASSUME MapInv, NEW later \in Tasks, NEW says \in Seq(Replies), Mower(later, says),
           requests' \in Seq(Requests),
           \A i \in DOMAIN requests' : requests'[i] = "cancel" =>
               i = Len(requests') /\ \E j \in DOMAIN requests : requests[j] = "cancel",
           task.state = "stopped" => later.state = "stopped",
           later.state = "stopped" =>
               requests' = <<>> /\ (\E j \in DOMAIN requests : requests[j] = "cancel"),
           (\E i \in DOMAIN says : says[i] = "cancelled") => later.state = "stopped"
    PROVE MapInv'
<1>1. /\ UNCHANGED <<inputs, shutdown, d, pending, sockets, result>>
      /\ task' = later /\ replies' = replies \o says
  BY DEF Mower
<1>2. /\ replies \in Seq(Replies) /\ replies \o says \in Seq(Replies)
      /\ \A i \in DOMAIN (replies \o says) :
            \/ \E j \in DOMAIN replies : (replies \o says)[i] = replies[j]
            \/ \E j \in DOMAIN says : (replies \o says)[i] = says[j]
  <2>1. replies \in Seq(Replies)
    BY DEF MapInv, WireType
  <2> QED
    BY ONLY <2>1, says \in Seq(Replies), ConcatOf
<1>3. /\ replies' \in Seq(Replies)
      /\ \A i \in DOMAIN replies' : \/ \E j \in DOMAIN replies : replies'[i] = replies[j]
                                   \/ \E j \in DOMAIN says : replies'[i] = says[j]
  BY <1>1, <1>2
<1>4. WireType'
  BY <1>1, <1>3 DEF WireType
<1>5. CancelIsLast'
  BY <1>1, <1>3 DEF MapInv, CancelIsLast, Active, Late
<1>6. EndOK'
  BY <1>1 DEF MapInv, EndOK, Active, Ended, EndsCancelled, Unknown, Quiet
<1> QED
  BY <1>1, <1>4, <1>5, <1>6 DEF MapInv, Active

LEMMA ReadsInv == MapInv /\ Reads => MapInv'
<1> SUFFICES ASSUME MapInv, Reads PROVE MapInv'
  OBVIOUS
<1>1. /\ requests \in Seq(Requests) /\ requests # <<>> /\ requests' = Tail(requests)
      /\ task \in Tasks /\ task.state # "stopped"
  BY DEF MapInv, WireType, CancelIsLast, Reads
<1>2. /\ Tail(requests) \in Seq(Requests) /\ Head(requests) \in Requests
      /\ 1 \in DOMAIN requests /\ Head(requests) = requests[1]
      /\ Len(requests) \in Nat \ {0} /\ Len(Tail(requests)) = Len(requests) - 1
      /\ DOMAIN Tail(requests) = 1..(Len(requests) - 1)
      /\ \A i \in DOMAIN Tail(requests) :
            i + 1 \in DOMAIN requests /\ Tail(requests)[i] = requests[i + 1]
  BY <1>1, TailOf
<1>3. \A i \in DOMAIN requests : requests[i] = "cancel" => i = Len(requests)
  BY DEF MapInv, CancelIsLast
<1>4. \A i \in DOMAIN requests' : requests'[i] = "cancel" =>
          i = Len(requests') /\ \E j \in DOMAIN requests : requests[j] = "cancel"
  <2> SUFFICES ASSUME NEW i \in DOMAIN Tail(requests), Tail(requests)[i] = "cancel"
               PROVE i = Len(Tail(requests)) /\ \E j \in DOMAIN requests : requests[j] = "cancel"
    BY <1>1
  <2>1. i + 1 \in DOMAIN requests /\ requests[i + 1] = "cancel" /\ i \in Nat
    BY <1>2
  <2>2. i + 1 = Len(requests)
    BY <1>3, <2>1
  <2>3. i = Len(Tail(requests))
    <3>1. Len(Tail(requests)) = Len(requests) - 1
      BY <1>2
    <3>2. i = (i + 1) - 1
      BY <2>1
    <3> QED
      BY <2>2, <3>1, <3>2
  <2> QED
    BY <2>1, <2>3
<1>5. CASE Head(requests) = "download"
  <2> DEFINE later == [task EXCEPT !.state = "sending"]
  <2>1. Mower(later, <<>>)
    BY <1>5 DEF Reads
  <2>2. later \in Tasks /\ later.state = "sending"
    BY <1>1 DEF Tasks
  <2>3. <<>> \in Seq(Replies) /\ ~\E i \in DOMAIN <<>> : <<>>[i] = "cancelled"
    OBVIOUS
  <2>4. requests' \in Seq(Requests)
    BY <1>1, <1>2
  <2> HIDE DEF later
  <2> QED
    BY <1>1, <1>4, <2>1, <2>2, <2>3, <2>4, MowerInv
<1>6. CASE Head(requests) = "cancel"
  <2> DEFINE says == (IF task.state = "sending" THEN <<"accepted">> ELSE <<>>) \o <<"cancelled">>
             later == [task EXCEPT !.state = "stopped"]
  <2>1. Mower(later, says)
    BY <1>6 DEF Reads
  <2>2. later \in Tasks /\ later.state = "stopped"
    BY <1>1 DEF Tasks
  <2>3. says \in Seq(Replies)
    <3>1. "accepted" \in Replies /\ "cancelled" \in Replies
      BY DEF Replies, Answers
    <3>2. <<"cancelled">> \in Seq(Replies) /\ <<"accepted">> \in Seq(Replies) /\ <<>> \in Seq(Replies)
      BY <3>1
    <3> QED
      BY <3>2
  <2>4. Tail(requests) = <<>>
    BY <1>2, <1>3, <1>6
  <2>5. \E j \in DOMAIN requests : requests[j] = "cancel"
    BY <1>2, <1>6
  <2> HIDE DEF says, later
  <2> QED
    BY <1>1, <1>2, <1>4, <2>1, <2>2, <2>3, <2>4, <2>5, MowerInv
<1>7. CASE Head(requests) \in {"version", "album"}
  <2>1. Mower(task, <<Head(requests)>>)
    BY <1>7 DEF Reads
  <2>2. <<Head(requests)>> \in Seq(Replies) /\ Head(requests) # "cancelled"
    BY <1>7 DEF Replies, Answers
  <2>3. \A i \in DOMAIN <<Head(requests)>> : <<Head(requests)>>[i] # "cancelled"
    BY <2>2
  <2> QED
    BY <1>1, <1>2, <1>4, <2>1, <2>2, <2>3, MowerInv
<1> QED
  BY <1>2, <1>5, <1>6, <1>7 DEF Requests

LEMMA SendingInv == MapInv /\ (Accepts \/ EndsStream \/ \E f \in Files : Sends(f)) => MapInv'
<1> SUFFICES ASSUME MapInv, Accepts \/ EndsStream \/ \E f \in Files : Sends(f) PROVE MapInv'
  OBVIOUS
<1>1. PICK m \in Replies, later \in Tasks :
          /\ Mower(later, <<m>>) /\ UNCHANGED requests
          /\ task.state # "stopped" /\ later.state # "stopped" /\ m # "cancelled"
  <2>1. task \in Tasks
    BY DEF MapInv, WireType
  <2>2. CASE Accepts
    <3>1. /\ [task EXCEPT !.state = "accepted"] \in Tasks
          /\ [task EXCEPT !.state = "accepted"].state = "accepted" /\ "accepted" \in Replies
      BY <2>1 DEF Tasks, Replies, Answers
    <3> QED
      BY <2>2, <3>1 DEF Accepts
  <2>3. CASE EndsStream
    <3>1. /\ [task EXCEPT !.state = "ended"] \in Tasks
          /\ [task EXCEPT !.state = "ended"].state = "ended" /\ "terminal" \in Replies
      BY <2>1 DEF Tasks, Replies, Answers
    <3> QED
      BY <2>3, <3>1 DEF EndsStream
  <2>4. ASSUME NEW f \in Files, Sends(f)
        PROVE /\ Mower([task EXCEPT !.sends = @ + 1], <<f>>) /\ UNCHANGED requests
              /\ task.state # "stopped" /\ f # "cancelled" /\ f \in Replies
              /\ [task EXCEPT !.sends = @ + 1] \in Tasks
              /\ [task EXCEPT !.sends = @ + 1].state = task.state
    <3>1. f # "cancelled" /\ f \in Replies
      BY MapSessionAssumption DEF Answers, Replies
    <3>2. /\ [task EXCEPT !.sends = @ + 1] \in Tasks
          /\ [task EXCEPT !.sends = @ + 1].state = task.state
      BY <2>1 DEF Tasks
    <3> QED
      BY <2>4, <3>1, <3>2 DEF Sends
  <2> QED
    BY <2>2, <2>3, <2>4
<1>2. <<m>> \in Seq(Replies) /\ \A i \in DOMAIN <<m>> : <<m>>[i] # "cancelled"
  BY <1>1
<1>3. /\ requests' \in Seq(Requests)
      /\ \A i \in DOMAIN requests' : requests'[i] = "cancel" =>
             i = Len(requests') /\ \E j \in DOMAIN requests : requests[j] = "cancel"
  BY <1>1 DEF MapInv, WireType, CancelIsLast
<1> QED
  BY <1>1, <1>2, <1>3, MowerInv

-----------------------------------------------------------------------------

LEMMA InitInv == Init => MapInv
<1> SUFFICES ASSUME Init PROVE MapInv
  OBVIOUS
<1>1. WireType
  BY DEF Init, WireType, Tasks
<1>2. Quiet
  BY DEF Init, Quiet, NoSockets
<1> QED
  BY <1>1, <1>2 DEF Init, MapInv, CancelIsLast, EndOK, Active, Ended, EndsCancelled

LEMMA NextInv == MapInv /\ [Next]_vars => MapInv'
<1> SUFFICES ASSUME MapInv, [Next]_vars PROVE MapInv'
  OBVIOUS
<1>1. CASE UNCHANGED vars
  BY <1>1 DEF vars, wire, MapInv, WireType, CancelIsLast, EndOK, Active, Ended, EndsCancelled,
              Unknown, Quiet
<1>2. ASSUME NEW why \in Stops, Stop(why) PROVE MapInv'
  BY <1>2, StopInv
<1>3. ASSUME NEW clean \in BOOLEAN, Ends(clean) PROVE MapInv'
  BY <1>3, EndsInv
<1> QED
  BY <1>1, <1>2, <1>3, AcquireInv, ShutdownInv, StartInv, StepDoneInv, NegotiationEndsInv,
     StopSeenInv, CancelExpiresInv, ReadFailsInv, ReceiveInv, SurroundingsInv, ReadsInv, SendingInv
     DEF Next

LEMMA Invariant == Spec => []MapInv
<1> QED
  BY InitInv, NextInv, PTL DEF Spec

(* A demand that ends as it was asked to has stopped the mower, and a       *)
(* shutdown that returns has left nothing open and nothing running          *)
(* (session.ts cancel, acquisition.ts #run and shutdown, lifetime.ts close).*)
THEOREM SessionHolds == Spec => []SessionOK
<1>1. MapInv => SessionOK
  <2> SUFFICES ASSUME MapInv PROVE SessionOK
    OBVIOUS
  <2>1. TypeOK
    BY DEF MapInv, DemandOK, EndOK, TypeOK
  <2>2. ShutdownIsQuiet
    BY DEF MapInv, EndOK, ShutdownIsQuiet, Quiet
  <2> QED
    BY <2>1, <2>2 DEF MapInv, EndOK, SessionOK
<1> QED
  BY Invariant, <1>1, PTL

(* Once a demand could not say what it left behind, no further one starts   *)
(* (acquisition.ts #run).                                                   *)
THEOREM UnknownStays == Spec => UnknownIsFinal
<1>1. MapInv /\ [Next]_vars =>
        [Ended /\ result.reason \in {"cancel_unconfirmed", "cleanup_unconfirmed"} => ~(d' # None)]_vars
  <2> SUFFICES ASSUME MapInv, Next, Ended, Unknown PROVE d' = None
    BY DEF Unknown
  <2>1. ~Active /\ ~inputs
    BY DEF MapInv, EndOK
  <2> QED
    BY <2>1 DEF Next, Acquire, Active, At, Shutdown, Stop, Start, StepDone, StepFails, StepStopped,
                PendingSettles, StopSeen, CancelExpires, ReadFails, Receive, Ends, SocketCloses,
                SocketDrops, Reads, Accepts, EndsStream, Sends, Mower
<1> QED
  BY <1>1, Invariant, PTL DEF UnknownIsFinal, Spec

(* A snapshot is published only while its demand runs and after the mower   *)
(* has accepted the download (acquisition.ts publish, session.ts).          *)
THEOREM PublicationsInDemand == Spec => PublishedInDemand
<1>1. ASSUME MapInv, Next, revision' # revision
      PROVE d.reason = "none" /\ d'.accepted /\ d'.reason = "none"
  <2>1. Receive
    BY <1>1 DEF Next, Acquire, Shutdown, Stop, Start, StepDone, StepFails, StepStopped,
                PendingSettles, StopSeen, CancelExpires, ReadFails, Ends, End, SocketCloses,
                SocketDrops, Reads, Accepts, EndsStream, Sends, Mower
  <2>2. Active /\ DemandOK(d) /\ d \in Demands
    BY <1>1, <2>1 DEF Receive, At, MapInv, DemandOK
  <2>3. \/ d.accepted /\ d.reason = "none" /\ \E m \in Files : Publish(d, {m})
        \/ Publish([d EXCEPT !.accepted = TRUE, !.staged = {}], d.staged)
    BY <1>1, <2>1 DEF Receive, File, Command, Step
  <2>4. CASE d.accepted /\ d.reason = "none" /\ \E m \in Files : Publish(d, {m})
    BY <2>2, <2>4, PublishOK
  <2>5. CASE Publish([d EXCEPT !.accepted = TRUE, !.staged = {}], d.staged)
    <3> DEFINE e == [d EXCEPT !.accepted = TRUE, !.staged = {}]
    <3>1. e \in Demands /\ e.reason = d.reason /\ e.accepted
      BY <2>2 DEF Demands
    <3>2. e.reason = "none" /\ d' = [e EXCEPT !.files = e.files \cup d.staged]
      BY <1>1, <2>5 DEF Publish
    <3>3. d'.reason = e.reason /\ d'.accepted = e.accepted
      BY <3>1, <3>2 DEF Demands
    <3> QED
      BY <3>1, <3>2, <3>3
  <2> QED
    BY <2>3, <2>4, <2>5
<1>2. MapInv /\ [Next]_vars =>
        [revision' # revision => d.reason = "none" /\ d'.accepted /\ d'.reason = "none"]_vars
  BY <1>1
<1> QED
  BY <1>2, Invariant, PTL DEF PublishedInDemand, Spec

-----------------------------------------------------------------------------
(* PathHistory: sequences and numbers.                                      *)

(* A set of numbers has a least, and a bounded one a greatest element.      *)

LEMMA Least ==
    ASSUME NEW T \in SUBSET Nat, T # {}
    PROVE  \E x \in T : \A y \in T : x <= y
<1>1. PICK x \in T : \A y \in T : ~(<<y, x>> \in OpToRel(<, Nat))
  BY NatLessThanWellFounded, WFMin
<1>2. ASSUME NEW y \in T PROVE x <= y
  <2>1. ~(<<y, x>> \in OpToRel(<, Nat))
    BY <1>1, <1>2
  <2>0. x \in Nat /\ y \in Nat
    BY <1>1, <1>2
  <2>2. <<y, x>> \in Nat \X Nat
    BY <2>0
  <2>3. ~(y < x)
    <3>1. <<y, x>>[1] = y /\ <<y, x>>[2] = x
      OBVIOUS
    <3>2. SUFFICES ASSUME y < x PROVE FALSE
      OBVIOUS
    <3>3. <<y, x>>[1] < <<y, x>>[2]
      BY <3>1, <3>2
    <3> QED BY <2>1, <2>2, <3>3 DEF OpToRel
  <2> QED BY <2>0, <2>3
<1> QED BY <1>2

LEMMA Greatest ==
    ASSUME NEW T \in SUBSET Nat, T # {}, NEW n \in Nat, \A x \in T : x <= n
    PROVE  \E x \in T : \A y \in T : y <= x
<1> DEFINE D == {n - x : x \in T}
<1>1. D \in SUBSET Nat /\ D # {}
  <2>1. ASSUME NEW x \in T PROVE n - x \in Nat
    <3>1. x \in Nat /\ x <= n
      BY <2>1
    <3> QED BY <3>1
  <2> QED BY <2>1
<1>2. PICK z \in D : \A y \in D : z <= y
  BY <1>1, Least
<1>3. PICK x \in T : z = n - x
  BY <1>2
<1>4. ASSUME NEW y \in T PROVE y <= x
  <2>1. n - y \in D
    OBVIOUS
  <2>2. n - x <= n - y
    BY <1>2, <1>3, <2>1
  <2> QED BY <2>2
<1> QED BY <1>4

(* What is compared as common is common, and within both sequences.          *)
LEMMA CommonPrefixIs ==
    ASSUME NEW S, NEW a \in Seq(S), NEW b \in Seq(S), NEW offset \in 0..Len(a),
           NEW c, c = CommonPrefix(a, offset, b)
    PROVE  /\ c \in Nat /\ c <= Len(a) - offset /\ c <= Len(b)
           /\ \A i \in 1..c : a[offset + i] = b[i]
<1> DEFINE x == SubSeq(a, offset + 1, Len(a))
           CP == CommonPrefixes({x, b})
           T == {Len(p) : p \in CP}
<1>1. x \in Seq(S) /\ Len(x) = Len(a) - offset /\ \A i \in 1..Len(x) : x[i] = a[offset + i]
  OBVIOUS
<1> HIDE DEF x
<1>2. ASSUME NEW p \in CP
      PROVE  /\ p \in Seq(S) /\ Len(p) <= Len(x) /\ Len(p) <= Len(b)
             /\ SubSeq(p, 1, Len(p)) = SubSeq(x, 1, Len(p))
             /\ SubSeq(p, 1, Len(p)) = SubSeq(b, 1, Len(p))
  <2>1. PICK s \in {x, b} : p \in Prefixes(s)
    BY DEF CommonPrefixes
  <2>2. PICK l \in 0..Len(s) : p = SubSeq(s, 1, l)
    BY <2>1 DEF Prefixes
  <2>3. p \in Seq(S)
    BY <1>1, <2>1, <2>2
  <2>4. IsPrefix(p, x) /\ IsPrefix(p, b)
    BY DEF CommonPrefixes
  <2> QED BY <2>3, <2>4 DEF IsPrefix
<1>3. <<>> \in CP
  <2>1. <<>> \in Prefixes(b)
    <3>1. SubSeq(b, 1, 0) = <<>> /\ 0 \in 0..Len(b)
      OBVIOUS
    <3> QED BY <3>1 DEF Prefixes
  <2>2. ASSUME NEW t \in Seq(S) PROVE IsPrefix(<<>>, t)
    <3>1. SubSeq(<<>>, 1, 0) = <<>> /\ SubSeq(t, 1, 0) = <<>> /\ Len(<<>>) = 0 /\ 0 <= Len(t)
      OBVIOUS
    <3> QED BY <3>1 DEF IsPrefix
  <2> QED BY <1>1, <2>1, <2>2 DEF CommonPrefixes
<1>4. T \in SUBSET Nat /\ T # {} /\ \A l \in T : l <= Len(b)
  <2> HIDE DEF CP
  <2>1. ASSUME NEW p \in CP PROVE Len(p) \in Nat /\ Len(p) <= Len(b)
    <3>1. p \in Seq(S) /\ Len(p) <= Len(b)
      BY <1>2
    <3> QED BY <3>1
  <2>2. Len(<<>>) \in T
    BY <1>3
  <2> QED BY <2>1, <2>2
<1>5. PICK l \in T : \A m \in T : m <= l
  <2>1. Len(b) \in Nat
    OBVIOUS
  <2> HIDE DEF T
  <2> QED BY <1>4, <2>1, Greatest
<1>6. PICK p \in CP : l = Len(p)
  BY <1>5
<1>7. \A q \in CP : Len(q) <= Len(p)
  BY <1>5, <1>6
<1> DEFINE q == LongestCommonPrefix({x, b})
<1>8. q \in CP
  BY <1>6, <1>7 DEF LongestCommonPrefix
<1>9. c = Len(q)
  BY DEF CommonPrefix, x
<1> HIDE DEF q, CP
<1>10. /\ q \in Seq(S) /\ Len(q) <= Len(x) /\ Len(q) <= Len(b)
       /\ SubSeq(q, 1, Len(q)) = SubSeq(x, 1, Len(q))
       /\ SubSeq(q, 1, Len(q)) = SubSeq(b, 1, Len(q))
  BY <1>2, <1>8
<1>11. ASSUME NEW i \in 1..c PROVE a[offset + i] = b[i]
  <2>1. x[i] = SubSeq(x, 1, Len(q))[i] /\ b[i] = SubSeq(b, 1, Len(q))[i]
    BY <1>1, <1>9, <1>10
  <2> QED BY <1>1, <1>9, <1>10, <2>1
<1> QED BY <1>1, <1>9, <1>10, <1>11

(* Picking the first places of a sequence takes its first elements.         *)
LEMMA PickedFirst ==
    ASSUME NEW s, NEW m \in Nat
    PROVE  Picked(s, 1..m) = [k \in 1..m |-> s[k]]
<1>1. Cardinality(1..m) = m
  BY FS_Interval
<1>2. ASSUME NEW i \in 1..m PROVE Cardinality({j \in 1..m : j <= i}) = i
  <2>1. {j \in 1..m : j <= i} = 1..i
    OBVIOUS
  <2>2. Cardinality(1..i) = i
    BY FS_Interval
  <2> QED BY <2>1, <2>2
<1>3. ASSUME NEW k \in 1..m
      PROVE  (CHOOSE i \in 1..m : Cardinality({j \in 1..m : j <= i}) = k) = k
  <2>1. \A i \in 1..m : Cardinality({j \in 1..m : j <= i}) = i
    BY <1>2
  <2> DEFINE P(i) == Cardinality({j \in 1..m : j <= i}) = k
  <2>2. P(k) /\ \A i \in 1..m : P(i) => i = k
    BY <2>1
  <2> HIDE DEF P
  <2>3. (CHOOSE i \in 1..m : P(i)) = k
    BY <2>2
  <2> QED BY <2>3 DEF P
<1>5. Picked(s, 1..m) =
        [k \in 1..m |-> s[CHOOSE i \in 1..m : Cardinality({j \in 1..m : j <= i}) = k]]
  BY <1>1 DEF Picked
<1> QED BY <1>3, <1>5

-----------------------------------------------------------------------------
(* Segments of a history.                                                   *)

Segments == [start : Nat, end : Nat, receivedAt : Int, revision : Int, kind : PathKinds]

(* Segments that cover n points in their order, none older than the one before. *)
Cover(s, n) ==
    /\ s \in Seq(Segments) /\ s # <<>> /\ s[1].start = 0 /\ s[Len(s)].end = n
    /\ \A i \in DOMAIN s : s[i].start < s[i].end
    /\ \A i \in DOMAIN s : i > 1 =>
          s[i].start = s[i - 1].end /\ s[i - 1].receivedAt <= s[i].receivedAt
    /\ \A i \in DOMAIN s : \A j \in DOMAIN s : i < j => s[i].end <= s[j].start
Until(s, at) == \A i \in DOMAIN s : s[i].receivedAt <= at

(* The segments that start before a point are the first ones.               *)
LEMMA BeforeIsFirst ==
    ASSUME NEW n \in Nat, NEW s, Cover(s, n), NEW keep \in 0..n
    PROVE  \E m \in 0..Len(s) :
              /\ {i \in DOMAIN s : s[i].start < keep} = 1..m
              /\ m < Len(s) => keep <= s[m + 1].start
              /\ keep = 0 <=> m = 0
<1>1. s \in Seq(Segments) /\ Len(s) \in Nat /\ Len(s) # 0 /\ DOMAIN s = 1..Len(s)
  BY DEF Cover
<1>2. \A i \in 1..Len(s) : s[i] \in Segments
  BY <1>1
<1>3. \A i \in 1..Len(s) : s[i].start \in Nat /\ s[i].end \in Nat
  BY <1>2 DEF Segments
<1>4. \A i \in 1..Len(s) : s[i].start < s[i].end
  BY <1>1 DEF Cover
<1>5. \A i \in 1..Len(s) : \A j \in 1..Len(s) : i < j => s[i].end <= s[j].start
  BY <1>1 DEF Cover
<1>6. s[1].start = 0
  BY DEF Cover
<1> DEFINE Behind == {i \in 1..Len(s) : keep <= s[i].start}
<1>7. CASE Behind = {}
  <2>1. \A i \in 1..Len(s) : s[i].start < keep
    BY <1>3, <1>7
  <2>2. {i \in DOMAIN s : s[i].start < keep} = 1..Len(s)
    BY <1>1, <2>1
  <2>3. keep # 0
    BY <1>1, <1>6, <2>1
  <2> QED BY <1>1, <2>2, <2>3
<1>8. CASE Behind # {}
  <2>1. Behind \in SUBSET Nat
    OBVIOUS
  <2>2. PICK b \in Behind : \A y \in Behind : b <= y
    BY <1>8, <2>1, Least
  <2>3. b \in 1..Len(s) /\ keep <= s[b].start
    OBVIOUS
  <2>4. \A i \in 1..Len(s) : i < b => s[i].start < keep
    BY <1>3, <2>2, <2>3
  <2>5. ASSUME NEW j \in 1..Len(s), b < j PROVE keep <= s[j].start
    <3>1. s[b].start < s[b].end /\ s[b].end <= s[j].start
      BY <1>4, <1>5, <2>3, <2>5
    <3>2. s[b].start \in Nat /\ s[b].end \in Nat /\ s[j].start \in Nat
      BY <1>3, <2>3
    <3> QED BY <2>3, <3>1, <3>2
  <2>6. \A i \in 1..Len(s) : s[i].start < keep <=> i < b
    BY <1>3, <2>3, <2>4, <2>5
  <2>7. {i \in DOMAIN s : s[i].start < keep} = 1..(b - 1)
    BY <1>1, <2>3, <2>6
  <2>8. keep = 0 <=> b - 1 = 0
    <3>1. keep = 0 => b = 1
      BY <1>1, <1>3, <1>6, <2>3, <2>4
    <3>2. b = 1 => keep = 0
      BY <1>6, <2>3
    <3> QED BY <2>3, <3>1, <3>2
  <2>9. b - 1 \in 0..Len(s) /\ (b - 1) + 1 = b
    BY <2>3
  <2> QED BY <2>3, <2>7, <2>8, <2>9
<1> QED BY <1>7, <1>8

(* They keep where they start and who carried them, and end at the cut.     *)
LEMMA SegmentsBeforeIs ==
    ASSUME NEW n \in Nat, NEW s, Cover(s, n), NEW keep \in 0..n,
           NEW r, r = SegmentsBefore(s, keep)
    PROVE  /\ r \in Seq(Segments) /\ (keep = 0 <=> r = <<>>) /\ Len(r) <= Len(s)
           /\ r # <<>> => r[Len(r)].end = keep
           /\ \A i \in 1..Len(r) :
                 /\ r[i].start = s[i].start /\ r[i].receivedAt = s[i].receivedAt
                 /\ r[i].start < r[i].end /\ r[i].end <= keep /\ r[i].end <= s[i].end
                 /\ i < Len(r) => r[i].end = s[i].end
<1>1. s \in Seq(Segments) /\ Len(s) \in Nat /\ DOMAIN s = 1..Len(s) /\ s[Len(s)].end = n
  BY DEF Cover
<1>2. \A i \in 1..Len(s) : s[i] \in Segments
  BY <1>1
<1>3. \A i \in 1..Len(s) : s[i].start \in Nat /\ s[i].end \in Nat /\ s[i].start < s[i].end
  BY <1>1, <1>2 DEF Segments, Cover
<1>4. \A i \in 1..Len(s) : i > 1 => s[i].start = s[i - 1].end
  BY <1>1 DEF Cover
<1>5. PICK m \in 0..Len(s) :
         /\ {i \in DOMAIN s : s[i].start < keep} = 1..m
         /\ m < Len(s) => keep <= s[m + 1].start
         /\ keep = 0 <=> m = 0
  BY BeforeIsFirst
<1> DEFINE Cut(x) == IF x.end <= keep THEN x ELSE [x EXCEPT !.end = keep]
<1>6. r = [i \in 1..m |-> Cut(s[i])]
  <2>1. Picked(s, {i \in DOMAIN s : s[i].start < keep}) = [k \in 1..m |-> s[k]]
    <3>1. {i \in DOMAIN s : s[i].start < keep} = 1..m /\ m \in Nat
      BY <1>5
    <3> HIDE DEF Cut
    <3>2. Picked(s, 1..m) = [k \in 1..m |-> s[k]]
      BY <3>1, PickedFirst
    <3> QED BY <3>1, <3>2
  <2> DEFINE kept == [k \in 1..m |-> s[k]]
  <2>2. r = [i \in DOMAIN kept |->
                IF kept[i].end <= keep THEN kept[i] ELSE [kept[i] EXCEPT !.end = keep]]
    BY <2>1 DEF SegmentsBefore
  <2> QED BY <2>2
<1>7. ASSUME NEW i \in 1..m
      PROVE  /\ Cut(s[i]) \in Segments
             /\ Cut(s[i]).start = s[i].start /\ Cut(s[i]).receivedAt = s[i].receivedAt
             /\ Cut(s[i]).end = IF s[i].end <= keep THEN s[i].end ELSE keep
  <2>1. s[i] \in Segments /\ keep \in Nat
    BY <1>2
  <2> QED BY <2>1 DEF Segments
<1>8. ASSUME NEW i \in 1..m PROVE s[i].start < keep
  BY <1>5
<1>9. ASSUME NEW i \in 1..m, i < m PROVE s[i].end <= keep
  <2>1. i + 1 \in 1..m /\ i + 1 \in 1..Len(s) /\ (i + 1) - 1 = i
    BY <1>9
  <2>2. s[i + 1].start < keep
    BY <1>8, <2>1
  <2>3. s[i + 1].start = s[(i + 1) - 1].end
    BY <1>4, <2>1
  <2> QED BY <1>3, <2>1, <2>2, <2>3
<1>10. m > 0 => s[m].end >= keep
  <2>1. CASE m = Len(s)
    BY <1>1, <2>1
  <2>2. CASE m > 0 /\ m < Len(s)
    <3>1. m + 1 \in 1..Len(s) /\ (m + 1) - 1 = m /\ m + 1 > 1
      BY <2>2
    <3>2. s[m + 1].start = s[(m + 1) - 1].end
      BY <1>4, <3>1
    <3> QED BY <1>5, <2>2, <3>1, <3>2
  <2> QED BY <2>1, <2>2
<1> HIDE DEF Cut
<1>11. r \in Seq(Segments) /\ Len(r) = m
  BY <1>6, <1>7
<1>12. ASSUME NEW i \in 1..m
       PROVE  /\ r[i].start = s[i].start /\ r[i].receivedAt = s[i].receivedAt
              /\ r[i].start < r[i].end /\ r[i].end <= keep /\ r[i].end <= s[i].end
              /\ i < m => r[i].end = s[i].end
  <2>1. r[i] = Cut(s[i])
    BY <1>6
  <2>2. s[i].start \in Nat /\ s[i].end \in Nat /\ s[i].start < s[i].end
    BY <1>3
  <2> QED BY <1>7, <1>8, <1>9, <2>1, <2>2
<1>13. m > 0 => r[m].end = keep
  <2>1. SUFFICES ASSUME m > 0 PROVE r[m].end = keep
    OBVIOUS
  <2>2. m \in 1..m /\ m \in 1..Len(s)
    BY <2>1
  <2>3. r[m] = Cut(s[m]) /\ s[m].end \in Nat
    BY <1>3, <1>6, <2>2
  <2> QED BY <1>7, <1>10, <2>1, <2>2, <2>3
<1>14. r = <<>> <=> m = 0
  BY <1>11
<1> QED BY <1>5, <1>11, <1>12, <1>13, <1>14

LEMMA AtMost ==
    ASSUME NEW a \in Nat, NEW b \in Nat, NEW c \in Nat, a <= b, b <= c
    PROVE  a <= c
OBVIOUS

(* With a new segment behind the cut they cover the points again.           *)
LEMMA CoverGrows ==
    ASSUME NEW n \in Nat, NEW s, Cover(s, n), NEW keep \in 0..n,
           NEW g \in Segments, g.start = keep, g.start < g.end, Until(s, g.receivedAt),
           NEW t, t = Append(SegmentsBefore(s, keep), g)
    PROVE  Cover(t, g.end) /\ Until(t, g.receivedAt)
<1> DEFINE r == SegmentsBefore(s, keep)
<1>1. /\ r \in Seq(Segments) /\ (keep = 0 <=> r = <<>>) /\ Len(r) <= Len(s)
      /\ r # <<>> => r[Len(r)].end = keep
      /\ \A i \in 1..Len(r) :
            /\ r[i].start = s[i].start /\ r[i].receivedAt = s[i].receivedAt
            /\ r[i].start < r[i].end /\ r[i].end <= keep /\ r[i].end <= s[i].end
            /\ i < Len(r) => r[i].end = s[i].end
  BY SegmentsBeforeIs
<1>2. s \in Seq(Segments) /\ Len(s) \in Nat /\ DOMAIN s = 1..Len(s) /\ Len(s) >= 1
  BY DEF Cover
<1>3. /\ \A i \in 1..Len(s) : i > 1 =>
            s[i].start = s[i - 1].end /\ s[i - 1].receivedAt <= s[i].receivedAt
      /\ \A i \in 1..Len(s) : \A j \in 1..Len(s) : i < j => s[i].end <= s[j].start
      /\ \A i \in 1..Len(s) : s[i].receivedAt <= g.receivedAt
      /\ s[1].start = 0
  BY <1>2 DEF Cover, Until
<1> HIDE DEF r
<1> DEFINE m == Len(r)
<1>4. /\ t \in Seq(Segments) /\ Len(t) = m + 1 /\ m \in Nat /\ DOMAIN t = 1..(m + 1)
      /\ t[m + 1] = g /\ \A i \in 1..m : t[i] = r[i]
  BY <1>1 DEF r
<1>5. /\ \A i \in 1..m : r[i].start \in Nat /\ r[i].end \in Nat /\ r[i].receivedAt \in Int
      /\ \A i \in 1..Len(s) : s[i].start \in Nat /\ s[i].end \in Nat /\ s[i].receivedAt \in Int
      /\ g.start \in Nat /\ g.end \in Nat /\ g.receivedAt \in Int
  <2>1. \A i \in 1..m : r[i] \in Segments
    BY <1>1
  <2>2. \A i \in 1..Len(s) : s[i] \in Segments
    BY <1>2
  <2> QED BY <2>1, <2>2 DEF Segments
<1> HIDE DEF m
<1>6. m <= Len(s) /\ (m = 0 <=> keep = 0)
  BY <1>1 DEF m
<1>7. \A i \in 1..m :
            /\ t[i] = r[i] /\ r[i].start = s[i].start /\ r[i].receivedAt = s[i].receivedAt
            /\ r[i].start < r[i].end /\ r[i].end <= keep /\ r[i].end <= s[i].end
            /\ i < m => r[i].end = s[i].end
  BY <1>1, <1>4 DEF m
<1>8. m > 0 => r[m].end = keep
  BY <1>1, <1>4 DEF m
<1>9. t # <<>> /\ t[Len(t)].end = g.end
  BY <1>4
<1>10. t[1].start = 0
  BY <1>3, <1>4, <1>6, <1>7, <1>2
<1>11. ASSUME NEW i \in 1..(m + 1)
       PROVE  /\ t[i].start < t[i].end /\ t[i].receivedAt <= g.receivedAt
              /\ i > 1 => t[i].start = t[i - 1].end /\ t[i - 1].receivedAt <= t[i].receivedAt
  <2>1. CASE i = m + 1
    <3>1. t[i] = g /\ g.receivedAt <= g.receivedAt
      BY <1>4, <1>5, <2>1
    <3>2. ASSUME i > 1 PROVE t[i].start = t[i - 1].end /\ t[i - 1].receivedAt <= t[i].receivedAt
      <4>1. i - 1 = m /\ m > 0 /\ m \in 1..m /\ m \in 1..Len(s)
        BY <1>4, <1>6, <2>1, <3>2
      <4>2. t[m] = r[m] /\ r[m].receivedAt = s[m].receivedAt /\ r[m].end = keep
        BY <1>7, <1>8, <4>1
      <4> QED BY <1>3, <3>1, <4>1, <4>2
    <3> QED BY <3>1, <3>2
  <2>2. CASE i \in 1..m
    <3>1. i \in 1..Len(s) /\ t[i] = r[i] /\ r[i].start < r[i].end /\ r[i].start = s[i].start
          /\ r[i].receivedAt = s[i].receivedAt
      BY <1>2, <1>4, <1>6, <1>7, <2>2
    <3>2. ASSUME i > 1 PROVE t[i].start = t[i - 1].end /\ t[i - 1].receivedAt <= t[i].receivedAt
      <4>1. i - 1 \in 1..m /\ i - 1 < m
        BY <1>4, <2>2, <3>2
      <4>2. t[i - 1] = r[i - 1] /\ r[i - 1].end = s[i - 1].end /\ r[i - 1].receivedAt = s[i - 1].receivedAt
        BY <1>7, <4>1
      <4> QED BY <1>3, <3>1, <3>2, <4>2
    <3> QED BY <1>3, <3>1, <3>2
  <2> QED BY <1>4, <2>1, <2>2
<1>12. ASSUME NEW i \in 1..(m + 1), NEW j \in 1..(m + 1), i < j PROVE t[i].end <= t[j].start
  <2>1. i \in 1..m /\ i \in 1..Len(s) /\ t[i] = r[i] /\ r[i].end <= keep /\ r[i].end <= s[i].end
    BY <1>2, <1>4, <1>6, <1>7, <1>12
  <2>2. CASE j = m + 1
    BY <1>4, <2>1, <2>2
  <2>3. CASE j \in 1..m
    <3>1. j \in 1..Len(s) /\ t[j] = r[j] /\ r[j].start = s[j].start
      BY <1>2, <1>4, <1>6, <1>7, <2>3
    <3>2. s[i].end <= s[j].start
      BY <1>3, <1>12, <2>1, <3>1
    <3>3. t[i].end <= s[i].end /\ t[j].start = s[j].start
      BY <2>1, <3>1
    <3>4. t[i].end \in Nat /\ s[i].end \in Nat /\ s[j].start \in Nat
      BY <1>3, <1>5, <2>1, <3>1 DEF Segments
    <3>5. t[i].end <= s[j].start
      BY <3>2, <3>3, <3>4, AtMost, Zenon
    <3> QED BY <3>3, <3>5
  <2> QED BY <1>4, <2>2, <2>3
<1>13. Cover(t, g.end)
  BY <1>4, <1>9, <1>10, <1>11, <1>12 DEF Cover
<1>14. Until(t, g.receivedAt)
  BY <1>4, <1>11 DEF Until
<1> QED BY <1>13, <1>14

-----------------------------------------------------------------------------
(* The history, and what a merge does to it.                                *)

Fields == {"mapId", "pathId", "generation", "kind", "endPose", "points", "segments", "confirmed",
           "receivedAt", "revision"}
Held(h) ==
    /\ DOMAIN h = Fields
    /\ h.points \in Seq(Points) /\ Len(h.points) \in 1..MaxPoints
    /\ h.confirmed \in 0..Len(h.points)
    /\ h.kind \in PathKinds /\ (h.kind = "realtime" => h.confirmed = 0)
    /\ h.receivedAt \in Int
    /\ Cover(h.segments, Len(h.points)) /\ Until(h.segments, h.receivedAt)
HistoryInv == history # Absent => Held(history)

(* What is known of an input that was not refused. *)
Usable(i) ==
    /\ i.receivedAt \in Int /\ i.revision \in Int
    /\ i.path.kind \in PathKinds
    /\ i.path.points \in Seq(Points) /\ i.path.points # <<>>
Continues(h, i) ==
    /\ h.confirmed >= history.confirmed
    /\ SubSeq(h.points, 1, history.confirmed) = SubSeq(history.points, 1, history.confirmed)
    /\ ~Authoritative(i.path) =>
          /\ IsPrefix(history.points, h.points)
          /\ h.kind = history.kind /\ h.endPose = history.endPose
          /\ h.confirmed = history.confirmed
Carries(h, i) == Authoritative(i.path) => h.points = i.path.points /\ h.confirmed = Len(h.points)
MergeStep(i) ==
    \/ history' = history
    \/ outcome' = "started" /\ Held(history') /\ Carries(history', i)
    \/ outcome' = "unchanged" /\ Held(history') /\ Continues(history', i)
    \/ outcome' = "extended" /\ Held(history') /\ Continues(history', i) /\ Carries(history', i)

LEMMA SegmentIs ==
    ASSUME NEW i, Usable(i), NEW start \in Nat, NEW end \in Nat
    PROVE  LET g == NewSegment(start, end, i)
           IN  g \in Segments /\ g.start = start /\ g.end = end /\ g.receivedAt = i.receivedAt
BY DEF NewSegment, Usable, Segments

(* Each way to merge an input.                                             *)
LEMMA StartSteps ==
    ASSUME NEW i, Usable(i), StartHistory(i)
    PROVE  MergeStep(i)
<1>1. CASE Len(i.path.points) > MaxPoints
  BY <1>1 DEF StartHistory, Rejected, MergeStep
<1>2. CASE ~(Len(i.path.points) > MaxPoints)
  <2> DEFINE n == Len(i.path.points)
             g == NewSegment(0, n, i)
  <2>1. n \in Nat /\ n > 0 /\ MaxPoints \in Nat /\ n <= MaxPoints
    BY <1>2, PathHistoryAssumption DEF Usable
  <2>2. g \in Segments /\ g.start = 0 /\ g.end = n /\ g.receivedAt = i.receivedAt
    BY <2>1, SegmentIs
  <2>3. /\ outcome' = "started"
        /\ DOMAIN history' = Fields
        /\ history'.kind = i.path.kind /\ history'.points = i.path.points
        /\ history'.segments = <<g>>
        /\ history'.confirmed = IF Authoritative(i.path) THEN n ELSE 0
        /\ history'.receivedAt = i.receivedAt
    BY <1>2 DEF StartHistory, Authoritative, Fields
  <2> HIDE DEF g
  <2>4. Cover(<<g>>, n) /\ Until(<<g>>, i.receivedAt)
    <3>1. /\ <<g>> \in Seq(Segments) /\ Len(<<g>>) = 1 /\ DOMAIN <<g>> = 1..1
          /\ <<g>>[1] = g /\ <<g>> # <<>>
      BY <2>2
    <3>2. i.receivedAt \in Int
      BY DEF Usable
    <3>3. /\ <<g>>[1].start = 0 /\ <<g>>[Len(<<g>>)].end = n
          /\ \A k \in DOMAIN <<g>> : k = 1
      BY <2>2, <3>1
    <3>4. /\ \A k \in DOMAIN <<g>> : <<g>>[k].start < <<g>>[k].end
          /\ \A k \in DOMAIN <<g>> : <<g>>[k].receivedAt <= i.receivedAt
      BY <2>1, <2>2, <3>1, <3>2, <3>3
    <3>5. /\ \A k \in DOMAIN <<g>> : ~(k > 1)
          /\ \A k \in DOMAIN <<g>> : \A j \in DOMAIN <<g>> : ~(k < j)
      BY <3>3
    <3> QED BY <3>1, <3>3, <3>4, <3>5 DEF Cover, Until
  <2>5. Held(history')
    <3>1. /\ history'.points \in Seq(Points) /\ Len(history'.points) \in 1..MaxPoints
          /\ history'.receivedAt \in Int
      BY <2>1, <2>3 DEF Usable
    <3>2. /\ history'.confirmed \in 0..Len(history'.points)
          /\ history'.kind \in PathKinds
          /\ history'.kind = "realtime" => history'.confirmed = 0
      BY <2>1, <2>3 DEF Usable, Authoritative
    <3>3. Cover(history'.segments, Len(history'.points))
          /\ Until(history'.segments, history'.receivedAt)
      BY <2>3, <2>4
    <3> QED BY <2>3, <3>1, <3>2, <3>3 DEF Held
  <2>6. Carries(history', i)
    BY <2>3 DEF Carries
  <2> QED BY <2>3, <2>5, <2>6 DEF MergeStep
<1> QED BY <1>1, <1>2

LEMMA PrefixItself ==
    ASSUME NEW S, NEW s \in Seq(S)
    PROVE  IsPrefix(s, s)
BY DEF IsPrefix

LEMMA UntilGrows ==
    ASSUME NEW n, NEW s, Cover(s, n), NEW a \in Int, NEW b \in Int, a <= b, Until(s, a)
    PROVE  Until(s, b)
<1>1. ASSUME NEW i \in DOMAIN s PROVE s[i].receivedAt <= b
  <2>1. s[i] \in Segments
    BY DEF Cover
  <2>2. s[i].receivedAt \in Int
    BY <2>1 DEF Segments
  <2>3. s[i].receivedAt <= a
    BY DEF Until
  <2> QED BY <2>2, <2>3
<1> QED BY <1>1 DEF Until

LEMMA UnchangedSteps ==
    ASSUME NEW i, Usable(i), Held(history), history.receivedAt <= i.receivedAt,
           NEW common \in 0..Len(history.points), Unchanged(i, common)
    PROVE  MergeStep(i)
<1> DEFINE confirms == Authoritative(i.path) /\ common >= history.confirmed
<1>1. DOMAIN history = Fields
  BY DEF Held
<1>2. /\ outcome' = "unchanged"
      /\ DOMAIN history' = Fields
      /\ history'.points = history.points /\ history'.segments = history.segments
      /\ history'.receivedAt = i.receivedAt
      /\ history'.kind = IF confirms THEN i.path.kind ELSE history.kind
      /\ history'.confirmed = IF confirms THEN common ELSE history.confirmed
      /\ ~confirms => history'.endPose = history.endPose
  BY <1>1 DEF Unchanged, Authoritative, Confirmed, Dated, Fields
<1>3. history.points \in Seq(Points) /\ Len(history.points) \in 1..MaxPoints
      /\ history.confirmed \in 0..Len(history.points) /\ Len(history.points) \in Nat
  BY DEF Held
<1>4. Until(history.segments, i.receivedAt)
  BY UntilGrows DEF Held, Usable
<1>5. /\ history'.confirmed \in 0..Len(history.points)
      /\ history'.confirmed >= history.confirmed
      /\ history'.kind \in PathKinds
      /\ history'.kind = "realtime" => history'.confirmed = 0
  BY <1>2, <1>3 DEF Held, Usable, Authoritative
<1>6. Held(history')
  BY <1>2, <1>3, <1>4, <1>5 DEF Held, Usable
<1>7. Continues(history', i)
  <2>1. ~Authoritative(i.path) => ~confirms
    OBVIOUS
  <2>2. IsPrefix(history.points, history'.points)
    BY <1>2, <1>3, PrefixItself
  <2> QED BY <1>2, <1>5, <2>1, <2>2 DEF Continues
<1> QED BY <1>2, <1>6, <1>7 DEF MergeStep

LEMMA ConcatIs ==
    ASSUME NEW S, NEW x \in Seq(S), NEW y \in Seq(S)
    PROVE  /\ x \o y \in Seq(S) /\ Len(x \o y) = Len(x) + Len(y)
           /\ \A k \in 1..Len(x \o y) : (x \o y)[k] = IF k <= Len(x) THEN x[k] ELSE y[k - Len(x)]
OBVIOUS

(* c is the first points of a, and then those of b behind from. *)
Joins(c, S, a, keep, b, from) ==
    /\ c \in Seq(S) /\ Len(c) = keep + (Len(b) - from)
    /\ \A k \in 1..Len(c) : c[k] = IF k <= keep THEN a[k] ELSE b[from + (k - keep)]

Join(a, keep, b, from) == SubSeq(a, 1, keep) \o SubSeq(b, from + 1, Len(b))

LEMMA JoinIs ==
    ASSUME NEW S, NEW a \in Seq(S), NEW b \in Seq(S),
           NEW keep \in 0..Len(a), NEW from \in 0..Len(b)
    PROVE  Joins(Join(a, keep, b, from), S, a, keep, b, from)
<1>0. PICK c : c = Join(a, keep, b, from)
  OBVIOUS
<1>1. PICK x : x = SubSeq(a, 1, keep)
  OBVIOUS
<1>2. PICK y : y = SubSeq(b, from + 1, Len(b))
  OBVIOUS
<1>3. x \in Seq(S) /\ Len(x) = keep /\ \A k \in 1..keep : x[k] = a[k]
  BY <1>1
<1>4. y \in Seq(S) /\ Len(y) = Len(b) - from /\ \A k \in 1..Len(y) : y[k] = b[from + k]
  BY <1>2
<1>5. /\ x \o y \in Seq(S) /\ Len(x \o y) = Len(x) + Len(y)
      /\ \A k \in 1..Len(x \o y) : (x \o y)[k] = IF k <= Len(x) THEN x[k] ELSE y[k - Len(x)]
  <2>1. x \in Seq(S) /\ y \in Seq(S)
    BY <1>3, <1>4
  <2> QED BY <2>1, ConcatIs
<1>6. c = x \o y
  BY <1>0, <1>1, <1>2 DEF Join
<1>7. c \in Seq(S) /\ Len(c) = keep + (Len(b) - from)
  BY <1>3, <1>4, <1>5, <1>6
<1>8. ASSUME NEW k \in 1..Len(c)
      PROVE  c[k] = IF k <= keep THEN a[k] ELSE b[from + (k - keep)]
  <2>1. c[k] = IF k <= keep THEN x[k] ELSE y[k - keep]
    BY <1>3, <1>5, <1>6
  <2>2. CASE k <= keep
    BY <1>3, <2>1, <2>2
  <2>3. CASE k > keep
    <3>1. k - keep \in 1..Len(y)
      <4>1. k \in Nat /\ k <= keep + (Len(b) - from)
        BY <1>7, <1>8
      <4>2. Len(y) = Len(b) - from
        BY <1>4
      <4> QED BY <2>3, <4>1, <4>2
    <3>2. y[k - keep] = b[from + (k - keep)]
      BY <1>4, <3>1
    <3> QED BY <2>1, <2>3, <3>2
  <2> QED BY <1>8, <2>2, <2>3
<1> QED BY <1>0, <1>7, <1>8 DEF Joins

LEMMA JoinedIs ==
    ASSUME NEW S, history.points \in Seq(S), NEW path, path.points \in Seq(S),
           NEW keep \in 0..Len(history.points), NEW from \in 0..Len(path.points)
    PROVE  Joins(Joined(path, keep, from), S, history.points, keep, path.points, from)
<1>1. PICK a, b : a = history.points /\ b = path.points
  OBVIOUS
<1>2. a \in Seq(S) /\ b \in Seq(S) /\ keep \in 0..Len(a) /\ from \in 0..Len(b)
  BY <1>1
<1>3. Joined(path, keep, from) = Join(a, keep, b, from)
  BY <1>1 DEF Joined, Join
<1>4. Joins(Join(a, keep, b, from), S, a, keep, b, from)
  BY <1>2, JoinIs
<1> QED BY <1>1, <1>3, <1>4

LEMMA SameSubSeq ==
    ASSUME NEW S, NEW a \in Seq(S), NEW b \in Seq(S), NEW m \in Nat, m <= Len(a), m <= Len(b),
           \A k \in 1..m : a[k] = b[k]
    PROVE  SubSeq(a, 1, m) = SubSeq(b, 1, m)
OBVIOUS

LEMMA SameElements ==
    ASSUME NEW S, NEW a \in Seq(S), NEW b \in Seq(S), Len(a) = Len(b),
           \A k \in 1..Len(b) : a[k] = b[k]
    PROVE  a = b
OBVIOUS

LEMMA ExtendSteps ==
    ASSUME NEW i, Usable(i), Held(history),
           history.receivedAt <= i.receivedAt,
           NEW keep \in 0..Len(history.points), history.confirmed <= keep,
           NEW from \in 0..Len(i.path.points), from # Len(i.path.points),
           Authoritative(i.path) =>
               keep = from /\ \A k \in 1..keep : history.points[k] = i.path.points[k],
           ~Authoritative(i.path) => keep = Len(history.points),
           Extend(i, keep, from)
    PROVE  MergeStep(i)
<1> DEFINE a == history.points
           b == i.path.points
           c == Joined(i.path, keep, from)
           n == Len(c)
           g == NewSegment(keep, n, i)
           t == Append(SegmentsBefore(history.segments, keep), g)
<1>1. CASE n > MaxPoints
  BY <1>1 DEF Extend, Rejected, MergeStep
<1>2. CASE ~(n > MaxPoints)
  <2>1. /\ a \in Seq(Points) /\ b \in Seq(Points)
        /\ Len(a) \in Nat /\ Len(b) \in Nat /\ MaxPoints \in Nat
        /\ history.confirmed \in 0..Len(a)
    BY PathHistoryAssumption DEF Held, Usable
  <2>2. /\ c \in Seq(Points) /\ n = keep + (Len(b) - from)
        /\ \A k \in 1..n : c[k] = IF k <= keep THEN a[k] ELSE b[from + (k - keep)]
    <3>1. Joins(Joined(i.path, keep, from), Points, history.points, keep, i.path.points, from)
      BY <2>1, JoinedIs
    <3> QED BY <3>1 DEF Joins
  <2>3. n \in Nat /\ keep \in Nat /\ keep < n
    BY <2>1, <2>2
  <2>4. n \in 1..MaxPoints
    BY <1>2, <2>1, <2>3
  <2>5. g \in Segments /\ g.start = keep /\ g.end = n /\ g.receivedAt = i.receivedAt
    BY <2>3, SegmentIs
  <2>6. Cover(t, n) /\ Until(t, i.receivedAt)
    <3>1. Cover(history.segments, Len(a)) /\ Until(history.segments, i.receivedAt)
      BY UntilGrows DEF Held, Usable
    <3> HIDE DEF a, g
    <3>2. Cover(t, g.end) /\ Until(t, g.receivedAt)
      BY <2>1, <2>3, <2>5, <3>1, CoverGrows DEF a
    <3> QED BY <2>5, <3>2
  <2>7. DOMAIN history = Fields
    BY DEF Held
  <2> HIDE DEF c, g
  <2>8. /\ outcome' = "extended"
        /\ DOMAIN history' = Fields
        /\ history'.points = c /\ history'.segments = t
        /\ history'.receivedAt = i.receivedAt
        /\ history'.kind = IF Authoritative(i.path) THEN i.path.kind ELSE history.kind
        /\ history'.confirmed = IF Authoritative(i.path) THEN n ELSE history.confirmed
        /\ ~Authoritative(i.path) => history'.endPose = history.endPose
    <3> HIDE DEF t
    <3> DEFINE e == [Dated(history, i) EXCEPT !.points = c, !.segments = t]
    <3>1. /\ outcome' = "extended"
          /\ history' = IF Authoritative(i.path) THEN Confirmed(e, i.path, n) ELSE e
      BY <1>2 DEF Extend, Authoritative, c, g, t
    <3>2. /\ DOMAIN e = Fields /\ e.points = c /\ e.segments = t
          /\ e.receivedAt = i.receivedAt
          /\ e.kind = history.kind /\ e.confirmed = history.confirmed
          /\ e.endPose = history.endPose
      BY <2>7 DEF Dated, Fields
    <3> HIDE DEF e
    <3> QED BY <3>1, <3>2 DEF Confirmed, Fields
  <2> HIDE DEF t, n
  <2>9. /\ history'.confirmed \in 0..n
        /\ history'.confirmed >= history.confirmed
        /\ history'.kind \in PathKinds
        /\ history'.kind = "realtime" => history'.confirmed = 0
    <3>1. history.confirmed <= keep /\ history.confirmed \in Nat
      BY <2>1
    <3>2. CASE Authoritative(i.path)
      BY <2>3, <2>8, <3>1, <3>2 DEF Authoritative, Usable
    <3>3. CASE ~Authoritative(i.path)
      BY <2>3, <2>8, <3>1, <3>3 DEF Held
    <3> QED BY <3>2, <3>3
  <2>10. Held(history')
    <3>1. Len(history'.points) = n
      BY <2>8 DEF n
    <3>2. i.receivedAt \in Int
      BY DEF Usable
    <3> QED BY <2>2, <2>4, <2>6, <2>8, <2>9, <3>1, <3>2 DEF Held
  <2>11. Continues(history', i)
    <3>1. SubSeq(c, 1, history.confirmed) = SubSeq(a, 1, history.confirmed)
      <4>1. history.confirmed \in Nat /\ history.confirmed <= Len(a) /\ history.confirmed <= Len(c)
        BY <2>1, <2>3 DEF n
      <4>2. \A k \in 1..history.confirmed : c[k] = a[k]
        <5>1. ASSUME NEW k \in 1..history.confirmed PROVE k \in 1..n /\ k <= keep
          BY <2>1, <2>3, <5>1
        <5> QED BY <2>2, <5>1
      <4> HIDE DEF a
      <4> QED BY <2>1, <2>2, <4>1, <4>2, SameSubSeq
    <3>2. ASSUME ~Authoritative(i.path) PROVE IsPrefix(a, c)
      <4>1. keep = Len(a) /\ Len(a) <= Len(c)
        BY <2>1, <2>3, <3>2 DEF n
      <4> HIDE DEF a
      <4>2. SubSeq(a, 1, Len(a)) = SubSeq(c, 1, Len(a))
        <5>1. ASSUME NEW k \in 1..Len(a) PROVE a[k] = c[k]
          <6>1. k \in 1..n /\ k <= keep
            BY <2>1, <4>1, <5>1 DEF n
          <6> QED BY <2>2, <6>1
        <5> QED BY <2>1, <2>2, <4>1, <5>1, SameSubSeq
      <4> QED BY <4>1, <4>2 DEF IsPrefix
    <3> QED BY <2>8, <2>9, <3>1, <3>2 DEF Continues
  <2>12. Carries(history', i)
    <3>1. SUFFICES ASSUME Authoritative(i.path) PROVE c = b /\ n = Len(c)
      BY <2>8 DEF Carries
    <3>2. keep = from /\ \A k \in 1..keep : a[k] = b[k]
      BY <3>1
    <3>3. Len(c) = Len(b)
      BY <2>1, <2>2, <3>2 DEF n
    <3>4. ASSUME NEW k \in 1..Len(b) PROVE c[k] = b[k]
      <4>1. CASE k <= keep
        <5>1. k \in 1..n /\ k \in 1..keep
          BY <2>1, <2>3, <3>3, <4>1 DEF n
        <5>2. c[k] = a[k]
          BY <2>2, <4>1, <5>1
        <5> QED BY <3>2, <5>1, <5>2
      <4>2. CASE k > keep
        <5>1. k \in 1..n /\ ~(k <= keep) /\ from + (k - keep) = k
          BY <2>1, <2>2, <2>3, <3>2, <4>2
        <5> QED BY <2>2, <5>1
      <4> QED BY <2>3, <4>1, <4>2
    <3>5. c = b
      <4> HIDE DEF a, b
      <4> QED BY <2>1, <2>2, <3>3, <3>4, SameElements
    <3> QED BY <3>5 DEF n
  <2> QED BY <2>8, <2>10, <2>11, <2>12 DEF MergeStep
<1> QED BY <1>1, <1>2

LEMMA NotRefused ==
    ASSUME HistoryInv, NEW i \in Inputs,
           Refusal(i) = "none", i.path.points # <<>>
    PROVE  Usable(i) /\ (history # Absent => history.receivedAt <= i.receivedAt)
<1>1. /\ ~i.malformed /\ i.path # Absent /\ i.path.kind \in PathKinds
      /\ history # Absent => ~(i.receivedAt < history.receivedAt)
  BY DEF Refusal
<1>2. /\ i.receivedAt \in Int /\ i.revision \in Int
      /\ i.path.points \in Seq(Points)
  BY <1>1, PathHistoryAssumption
<1>3. history # Absent => history.receivedAt \in Int
  BY DEF HistoryInv, Held
<1> QED BY <1>1, <1>2, <1>3 DEF Usable

LEMMA ContinueSteps ==
    ASSUME NEW i, Usable(i), Held(history),
           history.receivedAt <= i.receivedAt, Continue(i)
    PROVE  MergeStep(i)
<1> DEFINE a == history.points
           b == i.path.points
           held == Len(a)
           common == CommonPrefix(a, 0, b)
           tail == CommonPrefix(a, history.confirmed, b)
<1>1. /\ a \in Seq(Points) /\ b \in Seq(Points) /\ b # <<>>
      /\ held \in Nat /\ Len(b) \in Nat /\ Len(b) > 0
      /\ history.confirmed \in 0..held
  BY DEF Held, Usable
<1>2. common \in Nat /\ common <= held /\ common <= Len(b) /\ \A k \in 1..common : a[k] = b[k]
  <2> HIDE DEF a, b
  <2>1. /\ common \in Nat /\ common <= Len(a) - 0 /\ common <= Len(b)
        /\ \A k \in 1..common : a[0 + k] = b[k]
    BY <1>1, CommonPrefixIs
  <2> QED BY <1>1, <2>1
<1>3. tail \in Nat /\ tail <= held - history.confirmed /\ tail <= Len(b)
  <2> HIDE DEF a, b
  <2> QED BY <1>1, CommonPrefixIs
<1>4. CASE common = Len(b)
  <2>1. Unchanged(i, common)
    BY <1>4 DEF Continue
  <2> HIDE DEF common
  <2> QED BY <1>1, <1>2, <2>1, UnchangedSteps
<1>5. CASE common # Len(b) /\ (common = held \/ (Authoritative(i.path) /\ common >= history.confirmed))
  <2>1. Extend(i, common, common)
    BY <1>5 DEF Continue, Authoritative
  <2> HIDE DEF common
  <2>2. common \in 0..Len(a) /\ common \in 0..Len(b) /\ history.confirmed <= common
    BY <1>1, <1>2, <1>5
  <2>3. ~Authoritative(i.path) => common = Len(a)
    BY <1>5
  <2> QED BY <1>2, <1>5, <2>1, <2>2, <2>3, ExtendSteps
<1>6. CASE common # Len(b) /\ common # held /\ Authoritative(i.path) /\ ~(common >= history.confirmed)
  <2>1. StartHistory(i)
    BY <1>6 DEF Continue, Authoritative
  <2> QED BY <2>1, StartSteps
<1>7. CASE common # Len(b) /\ common # held /\ ~Authoritative(i.path)
  <2>1. CASE tail = Len(b)
    <3>1. Unchanged(i, history.confirmed)
      BY <1>7, <2>1 DEF Continue, Authoritative
    <3> QED BY <1>1, <3>1, UnchangedSteps
  <2>2. CASE tail # Len(b)
    <3>1. \E from \in {tail, 0} : Extend(i, held, from)
      BY <1>7, <2>2 DEF Continue, Authoritative
    <3>2. PICK from \in {tail, 0} : Extend(i, held, from)
      BY <3>1
    <3> HIDE DEF tail
    <3>3. from \in 0..Len(b) /\ from # Len(b)
      BY <1>1, <1>3, <2>2, <3>2
    <3>4. held \in 0..Len(a) /\ history.confirmed <= held
      BY <1>1
    <3> QED BY <1>7, <3>2, <3>3, <3>4, ExtendSteps
  <2> QED BY <2>1, <2>2
<1> HIDE DEF common, held
<1> QED BY <1>4, <1>5, <1>6, <1>7

LEMMA MergeSteps ==
    ASSUME HistoryInv, NEW i \in Inputs, Merge(i)
    PROVE  MergeStep(i) /\ merged' = i
<1>1. merged' = i
  BY DEF Merge
<1>2. CASE Refusal(i) # "none" \/ i.path.points = <<>>
  BY <1>2 DEF Merge, Rejected, MergeStep
<1>3. CASE Refusal(i) = "none" /\ i.path.points # <<>>
  <2>1. Usable(i) /\ (history # Absent => history.receivedAt <= i.receivedAt)
    BY <1>3, NotRefused
  <2>2. StartHistory(i) \/ (history # Absent /\ Continue(i))
    BY <1>3 DEF Merge
  <2>3. CASE StartHistory(i)
    BY <1>1, <2>1, <2>3, StartSteps
  <2>4. CASE history # Absent /\ Continue(i)
    <3>1. Held(history)
      BY <2>4 DEF HistoryInv
    <3> QED BY <1>1, <2>1, <2>4, <3>1, ContinueSteps
  <2> QED BY <2>2, <2>3, <2>4
<1> QED BY <1>1, <1>2, <1>3

LEMMA StepsOfHistory ==
    ASSUME HistoryInv, [HistoryNext]_historyVars
    PROVE  /\ HistoryInv'
           /\ history # Absent /\ history' # Absent /\ outcome' # "started" =>
                /\ history'.confirmed >= history.confirmed
                /\ SubSeq(history'.points, 1, history.confirmed)
                     = SubSeq(history.points, 1, history.confirmed)
           /\ history # Absent /\ history' # Absent /\ outcome' \in {"extended", "unchanged"}
                /\ ~Authoritative(merged'.path) =>
                /\ IsPrefix(history.points, history'.points)
                /\ history'.kind = history.kind /\ history'.endPose = history.endPose
                /\ history'.confirmed = history.confirmed
           /\ outcome' \in {"started", "extended"} /\ history' # history
                /\ Authoritative(merged'.path)
                => history'.points = merged'.path.points /\ history'.confirmed = Len(history'.points)
<1>1. CASE history' = history
  <2>1. history # Absent => /\ history.confirmed \in Int
                          /\ IsPrefix(history.points, history.points)
    <3>1. ASSUME history # Absent PROVE history.points \in Seq(Points) /\ history.confirmed \in Int
      BY <3>1 DEF HistoryInv, Held
    <3> QED BY <3>1, PrefixItself
  <2>2. history # Absent => history.confirmed >= history.confirmed
    BY <2>1
  <2> QED BY <1>1, <2>1, <2>2 DEF HistoryInv
<1>2. CASE Clear
  <2>1. history' = Absent /\ outcome' = Absent /\ outcome' \notin {"started", "extended"}
    BY <1>2, PathHistoryAssumption DEF Clear
  <2> QED BY <2>1 DEF HistoryInv
<1>3. CASE history' # history /\ \E i \in Inputs : Merge(i)
  <2>1. PICK i \in Inputs : Merge(i)
    BY <1>3
  <2>2. MergeStep(i) /\ merged' = i
    BY <2>1, MergeSteps
  <2>3. Authoritative(merged'.path) <=> Authoritative(i.path)
    BY <2>2 DEF Authoritative
  <2>4. HistoryInv'
    BY <1>3, <2>2 DEF MergeStep, HistoryInv
  <2>5. CASE outcome' = "started"
    BY <1>3, <2>2, <2>3, <2>4, <2>5 DEF MergeStep, Carries
  <2>6. CASE outcome' # "started"
    <3>1. Continues(history', i) /\ (outcome' = "extended" => Carries(history', i))
      BY <1>3, <2>2, <2>6 DEF MergeStep
    <3> QED BY <2>2, <2>3, <2>4, <2>6, <3>1 DEF Continues, Carries
  <2> QED BY <2>5, <2>6
<1> QED BY <1>1, <1>2, <1>3 DEF HistoryNext, historyVars

LEMMA TilesHold ==
    ASSUME HistoryInv
    PROVE  HistoryOK
<1>1. SUFFICES ASSUME history # Absent PROVE HistoryOK
  BY DEF HistoryOK
<1>2. Held(history)
  BY <1>1 DEF HistoryInv
<1>3. Tiles(history)
  BY <1>2 DEF Tiles, Held, Cover, Until
<1> QED BY <1>2, <1>3 DEF HistoryOK, Held

(* A history is in its bounds and its segments tile its points, for any
   sequence of valid inputs: HistoryOK of PathHistory. *)
THEOREM HistoryHolds ==
    HistorySpec => []HistoryOK
<1>1. HistoryInit => HistoryInv
  BY DEF HistoryInit, HistoryInv
<1>2. HistoryInv /\ [HistoryNext]_historyVars => HistoryInv'
  BY StepsOfHistory
<1>3. HistoryInv => HistoryOK
  BY TilesHold
<1> QED BY <1>1, <1>2, <1>3, PTL DEF HistorySpec

(* What was confirmed stays, a realtime path only adds, and a whole path that
   brings points is the history: PathSteps of PathHistory. *)
THEOREM MergesKeepTheirWord ==
    HistorySpec => PathSteps
<1>1. HistoryInit => HistoryInv
  BY DEF HistoryInit, HistoryInv
<1>2. HistoryInv /\ [HistoryNext]_historyVars => HistoryInv'
  BY StepsOfHistory
<1> QED BY <1>1, <1>2, StepsOfHistory, PTL
     DEF HistorySpec, PathSteps, ConfirmedStays, RealtimeOnlyAdds,
         WholePathWins

-----------------------------------------------------------------------------
(* MapStream: picking one more place than before adds its element.          *)

LEMMA PickedNone == ASSUME NEW s PROVE Picked(s, {}) = <<>>
<1>1. Cardinality({}) = 0
  BY FS_EmptySet
<1> QED BY <1>1 DEF Picked

LEMMA PickedMore ==
    ASSUME NEW S, NEW s \in Seq(S), NEW n \in 0..(Len(s) - 1), NEW T \in SUBSET (1..n),
           Picked(s, T) \in Seq(S)
    PROVE  Picked(s, T \cup {n + 1}) = Append(Picked(s, T), s[n + 1])
<1> DEFINE U == T \cup {n + 1}
           c == Cardinality(T)
<1>0. n \in Nat /\ n + 1 \in 1..Len(s)
  BY Len(s) \in Nat
<1>1. IsFiniteSet(T) /\ c \in Nat
  <2>1. IsFiniteSet(1..n)
    BY <1>0, FS_Interval
  <2> QED BY <2>1, FS_Subset, FS_CardinalityType
<1>2. Cardinality(U) = c + 1
  <2>1. n + 1 \notin T
    OBVIOUS
  <2> QED BY <1>1, <2>1, FS_AddElement
<1>3. ASSUME NEW i \in T
      PROVE  /\ {j \in U : j <= i} = {j \in T : j <= i}
             /\ Cardinality({j \in T : j <= i}) <= c
  <2>1. {j \in U : j <= i} = {j \in T : j <= i}
    OBVIOUS
  <2>2. {j \in T : j <= i} \in SUBSET T
    OBVIOUS
  <2>3. Cardinality({j \in T : j <= i}) <= Cardinality(T)
    BY <1>1, <2>2, FS_Subset
  <2> QED BY <2>1, <2>3
<1>4. Cardinality({j \in U : j <= n + 1}) = c + 1
  <2>0. \A j \in U : j <= n + 1
    BY <1>0
  <2>1. {j \in U : j <= n + 1} = U
    BY <2>0
  <2> QED BY <1>2, <2>1
<1> DEFINE R(i) == Cardinality({j \in U : j <= i})
           Q(i) == Cardinality({j \in T : j <= i})
<1>5. (\A i \in T : R(i) = Q(i) /\ R(i) <= c) /\ R(n + 1) = c + 1
  BY <1>3, <1>4
<1>6. n + 1 \in U /\ (\A i \in U : i \in T \/ i = n + 1) /\ T \subseteq U /\ n + 1 \notin T
  OBVIOUS
<1>7. /\ Picked(s, U) = [k \in 1..(c + 1) |-> s[CHOOSE i \in U : R(i) = k]]
      /\ Picked(s, T) = [k \in 1..c |-> s[CHOOSE i \in T : Q(i) = k]]
  BY <1>2 DEF Picked
<1> HIDE DEF R, Q, U
<1>8. ASSUME NEW k \in 1..c PROVE (CHOOSE i \in U : R(i) = k) = CHOOSE i \in T : Q(i) = k
  <2>1. \A i : (i \in U /\ R(i) = k) <=> (i \in T /\ Q(i) = k)
    <3>1. R(n + 1) # k
      BY <1>1, <1>5
    <3> QED BY <1>5, <1>6, <3>1
  <2> DEFINE A(i) == i \in U /\ R(i) = k
             B(i) == i \in T /\ Q(i) = k
  <2>2. \A i : A(i) <=> B(i)
    BY <2>1
  <2>3. (CHOOSE i \in U : R(i) = k) = (CHOOSE i : A(i)) /\ (CHOOSE i \in T : Q(i) = k) = (CHOOSE i : B(i))
    OBVIOUS
  <2> HIDE DEF A, B
  <2>4. (CHOOSE i : A(i)) = CHOOSE i : B(i)
    BY <2>2
  <2> QED BY <2>3, <2>4
<1>9. (CHOOSE i \in U : R(i) = c + 1) = n + 1
  <2>1. \A i \in U : R(i) = c + 1 => i = n + 1
    <3>1. ASSUME NEW i \in T PROVE R(i) # c + 1
      <4>1. R(i) = Q(i) /\ R(i) <= c
        BY <1>5
      <4> QED BY <1>1, <4>1
    <3> QED BY <1>6, <3>1
  <2>2. n + 1 \in U /\ R(n + 1) = c + 1
    BY <1>5, <1>6
  <2> QED BY <2>1, <2>2
<1>10. ASSUME NEW k \in 1..c PROVE Picked(s, U)[k] = Picked(s, T)[k]
  <2>1. k \in 1..c /\ k \in 1..(c + 1)
    BY <1>1, <1>10
  <2>2. Picked(s, U)[k] = s[CHOOSE i \in U : R(i) = k]
    BY <1>7, <2>1
  <2>3. Picked(s, T)[k] = s[CHOOSE i \in T : Q(i) = k]
    BY <1>7, <2>1
  <2>4. (CHOOSE i \in U : R(i) = k) = CHOOSE i \in T : Q(i) = k
    BY <1>8, <2>1
  <2> QED BY <2>2, <2>3, <2>4
<1>11. Picked(s, U)[c + 1] = s[n + 1]
  <2>1. c + 1 \in 1..(c + 1)
    BY <1>1
  <2>2. Picked(s, U)[c + 1] = s[CHOOSE i \in U : R(i) = c + 1]
    BY <1>7, <2>1
  <2> QED BY <1>9, <2>2
<1>12. Len(Picked(s, T)) = c
  BY <1>1, <1>7
<1>13. DOMAIN Picked(s, U) = 1..(c + 1) /\ Picked(s, U) = [k \in 1..(c + 1) |-> Picked(s, U)[k]]
  BY <1>7
<1> DEFINE p == Picked(s, T)
           q == Picked(s, U)
           a == Append(p, s[n + 1])
<1>14. s[n + 1] \in S
  OBVIOUS
<1>15. /\ Len(p) = c /\ p \in Seq(S)
       /\ DOMAIN q = 1..(c + 1) /\ q = [k \in 1..(c + 1) |-> q[k]]
       /\ (\A k \in 1..c : q[k] = p[k]) /\ q[c + 1] = s[n + 1]
  BY <1>10, <1>11, <1>12, <1>13
<1> HIDE DEF p, q, c
<1>16. a \in Seq(S) /\ Len(a) = c + 1 /\ (\A k \in 1..c : a[k] = p[k]) /\ a[c + 1] = s[n + 1]
  BY <1>14, <1>15, <1>1
<1>17. DOMAIN a = 1..(c + 1) /\ a = [k \in 1..(c + 1) |-> a[k]]
  BY <1>16, <1>1
<1>18. \A k \in 1..(c + 1) : q[k] = a[k]
  <2>1. ASSUME NEW k \in 1..(c + 1) PROVE q[k] = a[k]
    <3>1. k \in 1..c \/ k = c + 1
      BY <1>1
    <3> QED BY <3>1, <1>15, <1>16
  <2> QED BY <2>1
<1> HIDE DEF a
<1>19. q = a
  BY <1>15, <1>17, <1>18
<1> QED BY <1>19 DEF q, a, p, U

-----------------------------------------------------------------------------
(* MapStream: the files of a stream, one segment after another.             *)

FilesOf(w) == {FileTo(w, e) : e \in 1..Len(w)}

(* The chunks of the file that is not ended within n segments.              *)
Open(w, n) == {i \in 1..n : IsChunk(w[i]) /\ \A j \in i..n : ~EndsFile(w[j])}

LEMMA OpenMore ==
    ASSUME NEW w, NEW n \in Nat
    PROVE  /\ IsChunk(w[n + 1]) => ChunksTo(w, n + 1) = Open(w, n) \cup {n + 1}
           /\ Open(w, n + 1) = IF EndsFile(w[n + 1]) THEN {}
                               ELSE IF IsChunk(w[n + 1]) THEN Open(w, n) \cup {n + 1}
                               ELSE Open(w, n)
           /\ Open(w, 0) = {}
<1>1. ASSUME NEW i \in 1..n PROVE i..(n + 1 - 1) = i..n /\ i..(n + 1) = (i..n) \cup {n + 1}
  OBVIOUS
<1>2. (1..(n + 1)) = (1..n) \cup {n + 1} /\ n + 1 \notin 1..n /\ (n + 1)..(n + 1 - 1) = {}
      /\ (n + 1)..(n + 1) = {n + 1} /\ 1..0 = {}
  OBVIOUS
<1> DEFINE C == IsChunk(w[n + 1])
           E == EndsFile(w[n + 1])
<1>3. E => C
  BY DEF EndsFile
<1>4. ASSUME C PROVE ChunksTo(w, n + 1) = Open(w, n) \cup {n + 1}
  <2>1. ASSUME NEW i \in 1..n
        PROVE  i \in ChunksTo(w, n + 1) <=> i \in Open(w, n)
    <3>1. i \in 1..(n + 1) /\ i..(n + 1 - 1) = i..n
      BY <1>1, <1>2
    <3> QED BY <3>1 DEF ChunksTo, Open
  <2>2. n + 1 \in ChunksTo(w, n + 1)
    BY <1>2, <1>4 DEF ChunksTo
  <2>3. ChunksTo(w, n + 1) \subseteq (1..n) \cup {n + 1} /\ Open(w, n) \subseteq 1..n
    BY <1>2 DEF ChunksTo, Open
  <2> QED BY <2>1, <2>2, <2>3
<1>5. ASSUME E PROVE Open(w, n + 1) = {}
  <2>1. \A i \in 1..(n + 1) : n + 1 \in i..(n + 1)
    OBVIOUS
  <2> QED BY <1>5, <2>1 DEF Open
<1>6. ASSUME ~E PROVE /\ n + 1 \in Open(w, n + 1) <=> C
                      /\ \A i \in 1..n : i \in Open(w, n + 1) <=> i \in Open(w, n)
  <2>1. n + 1 \in Open(w, n + 1) <=> C
    BY <1>2, <1>6 DEF Open
  <2>2. ASSUME NEW i \in 1..n PROVE i \in Open(w, n + 1) <=> i \in Open(w, n)
    <3>1. i \in 1..(n + 1) /\ i..(n + 1) = (i..n) \cup {n + 1}
      BY <1>1, <1>2
    <3> QED BY <1>6, <3>1 DEF Open
  <2> QED BY <2>1, <2>2
<1>7. Open(w, n + 1) \subseteq (1..n) \cup {n + 1} /\ Open(w, n) \subseteq 1..n
  BY <1>2 DEF Open
<1>8. Open(w, 0) = {}
  BY <1>2 DEF Open
<1> HIDE DEF C, E
<1>9. ~E /\ C => Open(w, n + 1) = Open(w, n) \cup {n + 1}
  BY <1>6, <1>7
<1>10. ~E /\ ~C => Open(w, n + 1) = Open(w, n)
  BY <1>6, <1>7
<1>11. Open(w, n + 1) = IF E THEN {} ELSE IF C THEN Open(w, n) \cup {n + 1} ELSE Open(w, n)
  BY <1>5, <1>9, <1>10
<1> QED BY <1>4, <1>8, <1>11 DEF C, E

LEMMA FilesMore ==
    ASSUME NEW w \in Seq(Segment), NEW n \in 0..(Len(w) - 1), FilesIn(w, n) \in Seq(FilesOf(w))
    PROVE  FilesIn(w, n + 1) = IF EndsFile(w[n + 1]) THEN Append(FilesIn(w, n), FileTo(w, n + 1))
                               ELSE FilesIn(w, n)
<1> DEFINE f == [e \in DOMAIN w |-> FileTo(w, e)]
           T == {e \in 1..n : EndsFile(w[e])}
<1>0. n \in Nat /\ n + 1 \in 1..Len(w) /\ DOMAIN w = 1..Len(w) /\ Len(w) \in Nat
  OBVIOUS
<1>1. f \in Seq(FilesOf(w)) /\ Len(f) = Len(w) /\ f[n + 1] = FileTo(w, n + 1)
  <2>1. \A e \in 1..Len(w) : FileTo(w, e) \in FilesOf(w)
    BY DEF FilesOf
  <2> QED BY <1>0, <2>1
<1>2. {e \in 1..(n + 1) : EndsFile(w[e])} = IF EndsFile(w[n + 1]) THEN T \cup {n + 1} ELSE T
  <2>1. 1..(n + 1) = (1..n) \cup {n + 1}
    BY <1>0
  <2> DEFINE E(e) == EndsFile(w[e])
  <2> HIDE DEF E
  <2>2. {e \in 1..(n + 1) : E(e)} =
            IF E(n + 1) THEN {e \in 1..n : E(e)} \cup {n + 1} ELSE {e \in 1..n : E(e)}
    BY <2>1
  <2> QED BY <2>2 DEF E
<1>3. FilesIn(w, n) = Picked(f, T)
  BY DEF FilesIn
<1>4. FilesIn(w, n + 1) = Picked(f, {e \in 1..(n + 1) : EndsFile(w[e])})
  BY DEF FilesIn
<1>5. T \in SUBSET (1..n)
  OBVIOUS
<1> HIDE DEF f, T
<1>6. n \in 0..(Len(f) - 1) /\ Picked(f, T) \in Seq(FilesOf(w))
  BY <1>1, <1>3
<1>7. Picked(f, T \cup {n + 1}) = Append(Picked(f, T), f[n + 1])
  BY <1>1, <1>5, <1>6, PickedMore
<1> QED BY <1>1, <1>2, <1>3, <1>4, <1>7

LEMMA FilesAre ==
    ASSUME NEW w \in Seq(Segment), NEW n \in 0..Len(w)
    PROVE  FilesIn(w, n) \in Seq(FilesOf(w))
<1> DEFINE Bad == {k \in 0..Len(w) : FilesIn(w, k) \notin Seq(FilesOf(w))}
<1>0. Len(w) \in Nat
  OBVIOUS
<1>1. SUFFICES ASSUME Bad # {} PROVE FALSE
  OBVIOUS
<1>2. PICK k \in Bad : \A l \in Bad : k <= l
  <2>1. Bad \in SUBSET Nat
    BY <1>0
  <2> HIDE DEF Bad
  <2> QED BY <1>1, <2>1, Least
<1>3. k # 0
  <2>1. 1..0 = {} /\ {e \in 1..0 : EndsFile(w[e])} = {}
    OBVIOUS
  <2>2. FilesIn(w, 0) = <<>>
    BY <2>1, PickedNone DEF FilesIn
  <2>3. <<>> \in Seq(FilesOf(w))
    OBVIOUS
  <2>4. FilesIn(w, k) \notin Seq(FilesOf(w))
    OBVIOUS
  <2> HIDE DEF Bad
  <2> QED BY <2>2, <2>3, <2>4
<1>4. k - 1 \in 0..(Len(w) - 1) /\ k - 1 \in 0..Len(w) /\ (k - 1) + 1 = k /\ k \in 1..Len(w) /\ ~(k <= k - 1)
  BY <1>0, <1>3
<1>5. FilesIn(w, k - 1) \in Seq(FilesOf(w))
  BY <1>2, <1>4
<1>6. FilesIn(w, (k - 1) + 1) = IF EndsFile(w[(k - 1) + 1])
                                THEN Append(FilesIn(w, k - 1), FileTo(w, (k - 1) + 1))
                                ELSE FilesIn(w, k - 1)
  BY <1>4, <1>5, FilesMore
<1>7. FileTo(w, k) \in FilesOf(w)
  BY <1>4 DEF FilesOf
<1>8. Append(FilesIn(w, k - 1), FileTo(w, k)) \in Seq(FilesOf(w))
  BY <1>5, <1>7
<1> QED BY <1>4, <1>5, <1>6, <1>8

LEMMA PrefixGrows ==
    ASSUME NEW S, NEW a \in Seq(S), NEW b \in Seq(S), NEW c \in Seq(S)
    PROVE  /\ IsPrefix(a, a) /\ IsPrefix(a, a \o b)
           /\ IsPrefix(a, b) /\ IsPrefix(b, c) => IsPrefix(a, c)
<1>1. IsPrefix(a, a)
  BY DEF IsPrefix
<1>2. IsPrefix(a, a \o b)
  <2>1. a \o b \in Seq(S) /\ Len(a) <= Len(a \o b) /\ Len(a) \in Nat
    OBVIOUS
  <2>2. \A i \in 1..Len(a) : (a \o b)[i] = a[i]
    OBVIOUS
  <2>3. SubSeq(a \o b, 1, Len(a)) = SubSeq(a, 1, Len(a))
    BY <2>1, <2>2
  <2> QED BY <2>1, <2>3 DEF IsPrefix
<1>3. ASSUME IsPrefix(a, b), IsPrefix(b, c) PROVE IsPrefix(a, c)
  <2>1. Len(a) <= Len(b) /\ SubSeq(a, 1, Len(a)) = SubSeq(b, 1, Len(a))
    BY <1>3 DEF IsPrefix
  <2>2. Len(b) <= Len(c) /\ SubSeq(b, 1, Len(b)) = SubSeq(c, 1, Len(b))
    BY <1>3 DEF IsPrefix
  <2>3. \A i \in 1..Len(b) : b[i] = c[i]
    <3>1. \A i \in 1..Len(b) : SubSeq(b, 1, Len(b))[i] = b[i] /\ SubSeq(c, 1, Len(b))[i] = c[i]
      BY <2>2
    <3> QED BY <2>2, <3>1
  <2>4. SubSeq(b, 1, Len(a)) = SubSeq(c, 1, Len(a))
    BY <2>1, <2>2, <2>3
  <2>5. Len(a) <= Len(c)
    BY <2>1, <2>2
  <2> QED BY <2>1, <2>4, <2>5 DEF IsPrefix
<1> QED BY <1>1, <1>2, <1>3

LEMMA FilesGrow ==
    ASSUME NEW w \in Seq(Segment), NEW n \in 0..Len(w), NEW m \in n..Len(w)
    PROVE  IsPrefix(FilesIn(w, n), FilesIn(w, m))
<1> DEFINE Bad == {k \in n..Len(w) : ~IsPrefix(FilesIn(w, n), FilesIn(w, k))}
           S == FilesOf(w)
<1>0. Len(w) \in Nat /\ n \in Nat
  OBVIOUS
<1>1. SUFFICES ASSUME Bad # {} PROVE FALSE
  OBVIOUS
<1>2. PICK k \in Bad : \A l \in Bad : k <= l
  <2>1. Bad \in SUBSET Nat
    BY <1>0
  <2> HIDE DEF Bad
  <2> QED BY <1>1, <2>1, Least
<1>3. k # n
  <2>1. FilesIn(w, n) \in Seq(S)
    BY FilesAre
  <2>2. IsPrefix(FilesIn(w, n), FilesIn(w, n))
    BY <2>1, PrefixGrows
  <2> QED BY <2>2
<1>4. /\ k - 1 \in 0..(Len(w) - 1) /\ k - 1 \in n..Len(w) /\ (k - 1) + 1 = k /\ ~(k <= k - 1)
      /\ k \in 1..Len(w) /\ k - 1 \in 0..Len(w) /\ k \in 0..Len(w)
  BY <1>0, <1>3
<1>5. IsPrefix(FilesIn(w, n), FilesIn(w, k - 1))
  BY <1>2, <1>4
<1>6. FilesIn(w, n) \in Seq(S) /\ FilesIn(w, k - 1) \in Seq(S) /\ FilesIn(w, k) \in Seq(S)
  BY <1>4, FilesAre
<1>7. FilesIn(w, k) = IF EndsFile(w[k]) THEN Append(FilesIn(w, k - 1), FileTo(w, k))
                      ELSE FilesIn(w, k - 1)
  <2>1. FilesIn(w, (k - 1) + 1) = IF EndsFile(w[(k - 1) + 1])
                                  THEN Append(FilesIn(w, k - 1), FileTo(w, (k - 1) + 1))
                                  ELSE FilesIn(w, k - 1)
    BY <1>4, <1>6, FilesMore
  <2> QED BY <2>1, <1>4
<1>8. IsPrefix(FilesIn(w, k - 1), FilesIn(w, k))
  <2>1. CASE EndsFile(w[k])
    <3> DEFINE f == FileTo(w, k)
               p == FilesIn(w, k - 1)
    <3>1. f \in S
      BY <1>4 DEF FilesOf
    <3>2. p \in Seq(S)
      BY <1>6
    <3>3. FilesIn(w, k) = Append(p, f)
      BY <1>7, <2>1
    <3> HIDE DEF f, p, S
    <3>4. Append(p, f) = p \o <<f>> /\ <<f>> \in Seq(S)
      BY <3>1, <3>2
    <3>5. IsPrefix(p, p \o <<f>>)
      BY <3>2, <3>4, PrefixGrows
    <3> QED BY <3>3, <3>4, <3>5 DEF p
  <2>2. CASE ~EndsFile(w[k])
    BY <2>2, <1>6, <1>7, PrefixGrows
  <2> QED BY <2>1, <2>2
<1>9. IsPrefix(FilesIn(w, n), FilesIn(w, k))
  BY <1>5, <1>6, <1>8, PrefixGrows
<1> QED BY <1>9

-----------------------------------------------------------------------------
(* MapStream: the file reader. What it has put out and what it holds is     *)
(* what the segments it has read make of it.                                *)

MapFile == [file : STRING \cup {Undefined}, chunks : Seq(Record)]
Reader == [current : MapFile \cup {Undefined}, index : Nat \cup {Undefined}, terminal : BOOLEAN,
           out : Seq(MapFile), handed : Seq(MapFile), failed : BOOLEAN]
Records(w) == [i \in DOMAIN w |-> w[i].record]

(* Chunks of one file, numbered, the last one not among them.               *)
Partial(c) ==
    /\ c \in MapFile /\ Len(c.chunks) >= 1 /\ Len(c.chunks) <= c.chunks[1].total
    /\ \A i \in 1..Len(c.chunks) :
          /\ c.chunks[i].file = c.file
          /\ c.chunks[i].index = c.chunks[1].index + i - 1
          /\ ~c.chunks[i].end
LastIndex(c) == c.chunks[Len(c.chunks)].index
Holds(w, n, c, last) ==
    IF c = Undefined THEN Open(w, n) = {}
    ELSE Partial(c) /\ last = LastIndex(c) /\ c.chunks = Picked(Records(w), Open(w, n))
AllWhole(s) == \A i \in 1..Len(s) : Whole(s[i])
Fits(w, n, r) ==
    /\ r.handed \o r.out = FilesIn(w, n) /\ AllWhole(r.out)
    /\ Holds(w, n, r.current, r.index)

ReaderOK(w, n, r) ==
    /\ r \in Reader
    /\ IsPrefix(r.handed, FilesIn(w, n)) /\ AllWhole(r.handed)
    /\ ~r.failed => Fits(w, n, r)

LEMMA NoFile == Undefined \notin MapFile /\ Undefined \notin Int
BY MapStreamAssumption DEF MapFile

LEMMA ReaderIs ==
    ASSUME NEW r \in Reader
    PROVE  /\ r = [current |-> r.current, index |-> r.index, terminal |-> r.terminal, out |-> r.out,
                   handed |-> r.handed, failed |-> r.failed]
           /\ r.current \in MapFile \cup {Undefined} /\ r.index \in Nat \cup {Undefined}
           /\ r.terminal \in BOOLEAN /\ r.out \in Seq(MapFile) /\ r.handed \in Seq(MapFile)
           /\ r.failed \in BOOLEAN
BY DEF Reader

LEMMA BrokenIs ==
    ASSUME NEW r \in Reader
    PROVE  Broken(r) \in Reader /\ Broken(r).failed /\ Broken(r).handed = r.handed
BY DEF Reader, Broken

LEMMA WholeAppended ==
    ASSUME NEW s \in Seq(MapFile), AllWhole(s), NEW f \in MapFile, Whole(f)
    PROVE  AllWhole(Append(s, f)) /\ Append(s, f) \in Seq(MapFile)
<1>1. /\ Append(s, f) \in Seq(MapFile) /\ Len(Append(s, f)) = Len(s) + 1 /\ Len(s) \in Nat
      /\ (\A i \in 1..Len(s) : Append(s, f)[i] = s[i]) /\ Append(s, f)[Len(s) + 1] = f
  OBVIOUS
<1>2. \A i \in 1..(Len(s) + 1) : i \in 1..Len(s) \/ i = Len(s) + 1
  OBVIOUS
<1> QED BY <1>1, <1>2 DEF AllWhole

LEMMA WholeJoined ==
    ASSUME NEW s \in Seq(MapFile), AllWhole(s), NEW t \in Seq(MapFile), AllWhole(t)
    PROVE  AllWhole(s \o t) /\ s \o t \in Seq(MapFile)
<1>1. /\ s \o t \in Seq(MapFile) /\ Len(s \o t) = Len(s) + Len(t) /\ Len(s) \in Nat /\ Len(t) \in Nat
      /\ (\A i \in 1..Len(s) : (s \o t)[i] = s[i])
      /\ (\A i \in 1..Len(t) : (s \o t)[Len(s) + i] = t[i])
  OBVIOUS
<1>2. \A i \in 1..(Len(s) + Len(t)) : i \in 1..Len(s) \/ (i - Len(s) \in 1..Len(t) /\ i = Len(s) + (i - Len(s)))
  OBVIOUS
<1>3. ASSUME NEW i \in 1..(Len(s) + Len(t)) PROVE Whole((s \o t)[i])
  <2>1. CASE i \in 1..Len(s)
    <3>1. (s \o t)[i] = s[i] /\ Whole(s[i])
      BY <1>1, <2>1 DEF AllWhole
    <3> QED BY <3>1
  <2>2. CASE i - Len(s) \in 1..Len(t)
    <3>1. (s \o t)[Len(s) + (i - Len(s))] = t[i - Len(s)] /\ Whole(t[i - Len(s)])
      BY <1>1, <2>2 DEF AllWhole
    <3>2. i = Len(s) + (i - Len(s))
      BY <1>1
    <3> QED BY <3>1, <3>2
  <2> QED BY <1>2, <2>1, <2>2
<1> QED BY <1>1, <1>3 DEF AllWhole

(* The chunks so far with the one that comes.                               *)
With(c, record) ==
    IF c = Undefined THEN [file |-> record.file, chunks |-> <<record>>]
    ELSE [c EXCEPT !.chunks = Append(@, record)]

(* A chunk that is not refused continues its file; the last one completes it. *)
LEMMA PartIs ==
    ASSUME NEW c \in MapFile \cup {Undefined}, NEW record \in Record, NEW last \in Nat \cup {Undefined},
           record.index # -1, last # Undefined => record.index = last + 1,
           c # Undefined => Partial(c) /\ last = LastIndex(c),
           NEW part, part = With(c, record),
           part.file = record.file, part.chunks[1].total = record.total,
           Len(part.chunks) <= record.total, record.end => Len(part.chunks) = record.total
    PROVE  /\ part \in MapFile /\ Len(part.chunks) >= 1
           /\ part.chunks = IF c = Undefined THEN <<record>> ELSE Append(c.chunks, record)
           /\ LastIndex(part) = record.index
           /\ record.end => Whole(part)
           /\ ~record.end => Partial(part)
<1>0. /\ record.index \in Nat /\ record.total \in Nat /\ record.file \in STRING \cup {Undefined}
      /\ record.end \in BOOLEAN
  BY DEF Record
<1>1. CASE c = Undefined
  <2>1. part = [file |-> record.file, chunks |-> <<record>>]
    BY <1>1 DEF With
  <2>2. part.chunks = <<record>> /\ part.file = record.file /\ <<record>> \in Seq(Record)
    BY <2>1
  <2>3. part \in MapFile
    BY <1>0, <2>1, <2>2 DEF MapFile
  <2>4. Len(part.chunks) = 1 /\ part.chunks[1] = record
    BY <2>2
  <2>5. \A i \in 1..1 : i = 1
    OBVIOUS
  <2>6. record.end => Whole(part)
    <3>1. SUFFICES ASSUME record.end PROVE Whole(part)
      OBVIOUS
    <3>2. record.total = 1
      BY <2>4, <3>1
    <3>3. DOMAIN part.chunks = 1..1
      BY <2>2
    <3> QED BY <1>0, <2>2, <2>4, <2>5, <3>1, <3>2, <3>3 DEF Whole
  <2>7. ~record.end => Partial(part)
    BY <1>0, <2>2, <2>3, <2>4, <2>5 DEF Partial
  <2>8. LastIndex(part) = record.index
    BY <2>4 DEF LastIndex
  <2> QED BY <1>1, <2>2, <2>3, <2>4, <2>6, <2>7, <2>8
<1>2. CASE c # Undefined
  <2> DEFINE k == Len(c.chunks)
  <2>0. c \in MapFile /\ Partial(c) /\ last = LastIndex(c)
    BY <1>2
  <2>1. c.chunks \in Seq(Record) /\ c.file \in STRING \cup {Undefined} /\ k \in Nat /\ k >= 1
    BY <2>0 DEF MapFile, Partial
  <2>2. part = [c EXCEPT !.chunks = Append(c.chunks, record)]
    BY <1>2 DEF With
  <2>3. part \in MapFile /\ part.chunks = Append(c.chunks, record) /\ part.file = c.file
    <3>1. Append(c.chunks, record) \in Seq(Record)
      BY <2>1
    <3> QED BY <2>0, <2>2, <3>1 DEF MapFile
  <2>4. /\ Len(part.chunks) = k + 1 /\ part.chunks[k + 1] = record
        /\ \A i \in 1..k : part.chunks[i] = c.chunks[i]
    BY <2>1, <2>3
  <2>5. 1 \in 1..k /\ \A i \in 1..(k + 1) : i \in 1..k \/ i = k + 1
    BY <2>1
  <2>6. part.chunks[1] = c.chunks[1] /\ c.chunks[1] \in Record /\ c.chunks[1].index \in Int
    <3>1. c.chunks[1] \in Record
      BY <2>1, <2>5
    <3> QED BY <2>4, <2>5, <3>1 DEF Record
  <2>7. \A i \in 1..k : /\ c.chunks[i].file = c.file
                        /\ c.chunks[i].index = c.chunks[1].index + i - 1
                        /\ ~c.chunks[i].end
    BY <2>0 DEF Partial
  <2>8. last = c.chunks[k].index /\ last = c.chunks[1].index + k - 1
    <3>1. k \in 1..k
      BY <2>1
    <3> QED BY <2>0, <2>7, <3>1 DEF LastIndex
  <2>9. last # Undefined /\ record.index = last + 1
    <3>1. last # Undefined
      <4>1. c.chunks[k] \in Record
        BY <2>1
      <4>2. last \in Int
        BY <2>8, <4>1 DEF Record
      <4> QED BY <4>2, NoFile
    <3> QED BY <3>1
  <2>10. record.index = c.chunks[1].index + (k + 1) - 1
    BY <2>1, <2>6, <2>8, <2>9
  <2> DEFINE p == part.chunks
  <2>11. ASSUME NEW i \in 1..(k + 1)
         PROVE  p[i].file = part.file /\ p[i].index = p[1].index + i - 1 /\ (p[i].end <=> i = k + 1 /\ record.end)
    <3>1. CASE i \in 1..k
      BY <2>1, <2>3, <2>4, <2>6, <2>7, <3>1
    <3>2. CASE i = k + 1
      BY <2>3, <2>4, <2>6, <2>10, <3>2
    <3> QED BY <2>5, <3>1, <3>2
  <2>12. record.end => Whole(part)
    <3>1. DOMAIN part.chunks = 1..(k + 1)
      <4>1. part.chunks \in Seq(Record)
        BY <2>3 DEF MapFile
      <4> QED BY <2>4, <4>1
    <3> QED BY <1>0, <2>4, <2>11, <3>1 DEF Whole
  <2>13. ~record.end => Partial(part)
    <3>1. Len(part.chunks) >= 1
      BY <2>1, <2>4
    <3> QED BY <1>0, <2>3, <2>4, <2>11, <3>1 DEF Partial
  <2>14. LastIndex(part) = record.index
    BY <2>4 DEF LastIndex
  <2>15. Len(part.chunks) >= 1
    BY <2>1, <2>4
  <2> QED BY <1>2, <2>3, <2>12, <2>13, <2>14, <2>15
<1> QED BY <1>1, <1>2

LEMMA AppendJoined ==
    ASSUME NEW a \in Seq(MapFile), NEW b \in Seq(MapFile), NEW x \in MapFile
    PROVE  Append(a \o b, x) = a \o Append(b, x)
<1> DEFINE y == Append(a \o b, x)
           z == a \o Append(b, x)
<1>1. /\ a \o b \in Seq(MapFile) /\ Append(b, x) \in Seq(MapFile)
      /\ Len(a \o b) = Len(a) + Len(b) /\ Len(Append(b, x)) = Len(b) + 1
      /\ Len(a) \in Nat /\ Len(b) \in Nat
  OBVIOUS
<1>2. y \in Seq(MapFile) /\ z \in Seq(MapFile) /\ Len(y) = Len(a) + Len(b) + 1 /\ Len(z) = Len(y)
  BY <1>1
<1>3. ASSUME NEW i \in 1..Len(y) PROVE y[i] = z[i]
  <2>1. CASE i = Len(a) + Len(b) + 1
    <3>1. y[i] = x
      BY <1>1, <2>1
    <3>2. z[i] = Append(b, x)[Len(b) + 1]
      BY <1>1, <2>1
    <3> QED BY <3>1, <3>2
  <2>2. CASE i # Len(a) + Len(b) + 1
    <3>1. i \in 1..(Len(a) + Len(b)) /\ y[i] = (a \o b)[i]
      BY <1>1, <1>2, <2>2
    <3>2. CASE i <= Len(a)
      BY <1>1, <3>1, <3>2
    <3>3. CASE i > Len(a)
      <4>1. i - Len(a) \in 1..Len(b) /\ y[i] = b[i - Len(a)]
        BY <1>1, <3>1, <3>3
      <4>2. z[i] = Append(b, x)[i - Len(a)]
        BY <1>1, <3>1, <3>3
      <4> QED BY <4>1, <4>2
    <3> QED BY <1>1, <3>1, <3>2, <3>3
  <2> QED BY <2>1, <2>2
<1> HIDE DEF y, z
<1>4. y = z
  BY <1>2, <1>3
<1> QED BY <1>4 DEF y, z

(* Why a chunk is refused.                                                  *)
Refused(r, record, part) ==
    \/ r.index # Undefined /\ record.index # r.index + 1
    \/ part.file # record.file \/ part.chunks[1].total # record.total
    \/ Len(part.chunks) > record.total
    \/ (record.end /\ Len(part.chunks) # record.total)

LEMMA ChunkIs ==
    ASSUME NEW r, NEW record
    PROVE  Chunk(r, record) =
             IF Refused(r, record, With(r.current, record)) THEN Broken(r)
             ELSE IF record.end
             THEN [r EXCEPT !.index = record.index, !.current = Undefined,
                            !.out = Append(@, With(r.current, record))]
             ELSE [r EXCEPT !.index = record.index, !.current = With(r.current, record)]
BY DEF Chunk, ChunkUnordered, With, Refused

LEMMA ChunkOK ==
    ASSUME NEW w \in Seq(Segment), NEW n \in 0..(Len(w) - 1), NEW r \in Reader, ~r.failed,
           Fits(w, n, r), IsChunk(w[n + 1]), NEW c, c = Chunk(r, w[n + 1].record)
    PROVE  c \in Reader /\ c.handed = r.handed /\ (c.failed \/ Fits(w, n + 1, c))
<1> DEFINE record == w[n + 1].record
           part == With(r.current, record)
           bad == Refused(r, record, part)
           ended == [r EXCEPT !.index = record.index, !.current = Undefined, !.out = Append(@, part)]
           more == [r EXCEPT !.index = record.index, !.current = part]
<1>0. n \in Nat /\ n + 1 \in 1..Len(w) /\ DOMAIN w = 1..Len(w) /\ n \in 0..Len(w) /\ n + 1 \in 0..Len(w)
  OBVIOUS
<1>1. w[n + 1] \in Segment /\ record \in Record /\ record.index # -1 /\ record.index \in Nat
      /\ record.end \in BOOLEAN
  <2>1. w[n + 1] \in Segment
    BY <1>0
  <2>2. record \in Record /\ record.index # -1
    BY <2>1 DEF Segment, IsChunk
  <2> QED BY <2>1, <2>2 DEF Record
<1>2. c = IF bad THEN Broken(r) ELSE IF record.end THEN ended ELSE more
  <2>1. c = Chunk(r, record)
    OBVIOUS
  <2> QED BY <2>1, ChunkIs
<1>3. CASE bad
  <2>1. c = Broken(r)
    BY <1>2, <1>3
  <2> QED BY <2>1, BrokenIs
<1>4. CASE ~bad
  <2>1. c = IF record.end THEN ended ELSE more
    BY <1>2, <1>4
  <2>2. /\ r.index # Undefined => record.index = r.index + 1
        /\ part.file = record.file /\ part.chunks[1].total = record.total
        /\ ~(Len(part.chunks) > record.total)
        /\ record.end => Len(part.chunks) = record.total
    BY <1>4 DEF Refused
  <2>3. r.current \in MapFile \cup {Undefined} /\ r.index \in Nat \cup {Undefined} /\ r.out \in Seq(MapFile)
        /\ r.handed \in Seq(MapFile)
    BY ReaderIs
  <2>4. Holds(w, n, r.current, r.index) /\ r.handed \o r.out = FilesIn(w, n) /\ AllWhole(r.out)
    BY DEF Fits
  <2>5. r.current # Undefined => Partial(r.current) /\ r.index = LastIndex(r.current)
    BY <2>4 DEF Holds
  <2>6. part.chunks \in Seq(Record) /\ record.total \in Nat
    <3>1. record.total \in Nat
      BY <1>1 DEF Record
    <3>2. CASE r.current = Undefined
      <4>1. part.chunks = <<record>>
        BY <3>2 DEF With
      <4> HIDE DEF record, part
      <4> QED BY <3>1, <4>1, <1>1
    <3>3. CASE r.current # Undefined
      <4>1. r.current \in MapFile
        BY <2>3, <3>3
      <4>2. r.current.chunks \in Seq(Record) /\ part.chunks = Append(r.current.chunks, record)
        BY <3>3, <4>1 DEF MapFile, With
      <4> HIDE DEF record, part
      <4> QED BY <3>1, <4>2, <1>1
    <3> QED BY <3>2, <3>3
  <2> HIDE DEF record, part, bad, ended, more
  <2>7. Len(part.chunks) <= record.total
    <3>1. Len(part.chunks) \in Nat
      BY <2>6
    <3> QED BY <2>2, <2>6, <3>1
  <2>8. /\ part \in MapFile /\ Len(part.chunks) >= 1
        /\ part.chunks = IF r.current = Undefined THEN <<record>> ELSE Append(r.current.chunks, record)
        /\ LastIndex(part) = record.index
        /\ record.end => Whole(part)
        /\ ~record.end => Partial(part)
    <3>1. part = With(r.current, record)
      BY DEF part
    <3>2. /\ r.current \in MapFile \cup {Undefined} /\ record \in Record
          /\ r.index \in Nat \cup {Undefined} /\ record.index # -1
      BY <1>1, <2>3
    <3> QED BY <2>2, <2>5, <2>7, <3>1, <3>2, PartIs
  <2> DEFINE O == Open(w, n)
             R == Records(w)
  <2>9. part.chunks = Picked(R, O \cup {n + 1})
    <3>1. R \in Seq(Record) /\ Len(R) = Len(w) /\ R[n + 1] = record
      <4>1. \A i \in 1..Len(w) : w[i].record \in Record
        <5>1. \A i \in 1..Len(w) : w[i] \in Segment
          OBVIOUS
        <5> QED BY <5>1 DEF Segment
      <4> QED BY <1>0, <4>1 DEF Records, record
    <3>2. O \in SUBSET (1..n)
      BY DEF Open
    <3>3. Picked(R, O) = IF r.current = Undefined THEN <<>> ELSE r.current.chunks
      <4>1. CASE r.current = Undefined
        BY <2>4, <4>1, PickedNone DEF Holds
      <4>2. CASE r.current # Undefined
        BY <2>4, <4>2 DEF Holds
      <4> QED BY <4>1, <4>2
    <3>4. Picked(R, O) \in Seq(Record)
      <4>1. r.current # Undefined => r.current.chunks \in Seq(Record)
        BY <2>3 DEF MapFile
      <4>2. <<>> \in Seq(Record)
        OBVIOUS
      <4> QED BY <3>3, <4>1, <4>2
    <3> HIDE DEF O, R
    <3>5. n \in 0..(Len(R) - 1)
      BY <3>1
    <3>6. Picked(R, O \cup {n + 1}) = Append(Picked(R, O), record)
      BY <3>1, <3>2, <3>4, <3>5, PickedMore
    <3>7. Append(<<>>, record) = <<record>>
      OBVIOUS
    <3> QED BY <2>8, <3>3, <3>6, <3>7
  <2>10. /\ ChunksTo(w, n + 1) = O \cup {n + 1}
         /\ Open(w, n + 1) = IF EndsFile(w[n + 1]) THEN {} ELSE O \cup {n + 1}
    BY <1>0, OpenMore
  <2>11. EndsFile(w[n + 1]) <=> record.end
    BY DEF EndsFile, record
  <2>12. FilesIn(w, n + 1) = IF EndsFile(w[n + 1]) THEN Append(FilesIn(w, n), FileTo(w, n + 1))
                             ELSE FilesIn(w, n)
    <3>1. FilesIn(w, n) \in Seq(FilesOf(w))
      BY <1>0, FilesAre
    <3> QED BY <3>1, FilesMore
  <2>13. CASE record.end
    <3>1. c = ended
      BY <2>1, <2>13
    <3>2. /\ c \in Reader /\ c.handed = r.handed /\ c.current = Undefined /\ c.out = Append(r.out, part)
      <4>1. Append(r.out, part) \in Seq(MapFile)
        BY <2>3, <2>8
      <4> QED BY <1>1, <3>1, <4>1 DEF Reader, ended
    <3>3. FileTo(w, n + 1) = part
      <4>1. FileTo(w, n + 1) = [file |-> record.file, chunks |-> part.chunks]
        BY <2>9, <2>10 DEF FileTo, Records, record
      <4>2. part = [file |-> part.file, chunks |-> part.chunks]
        BY <2>8 DEF MapFile
      <4> QED BY <2>2, <4>1, <4>2
    <3>4. FilesIn(w, n + 1) = c.handed \o c.out
      <4>1. FilesIn(w, n + 1) = Append(r.handed \o r.out, part)
        BY <2>4, <2>11, <2>12, <2>13, <3>3
      <4>2. Append(r.handed \o r.out, part) = r.handed \o Append(r.out, part)
        <5>1. r.handed \in Seq(MapFile) /\ r.out \in Seq(MapFile) /\ part \in MapFile
          BY <2>3, <2>8
        <5> QED BY <5>1, AppendJoined
      <4> QED BY <3>2, <4>1, <4>2
    <3>5. AllWhole(c.out)
      BY <2>3, <2>4, <2>8, <2>13, <3>2, WholeAppended
    <3>6. Holds(w, n + 1, c.current, c.index)
      BY <2>10, <2>11, <2>13, <3>2 DEF Holds
    <3> QED BY <3>2, <3>4, <3>5, <3>6 DEF Fits
  <2>14. CASE ~record.end
    <3>1. c = more
      BY <2>1, <2>14
    <3>2. /\ c \in Reader /\ c.handed = r.handed /\ c.current = part /\ c.out = r.out
          /\ c.index = record.index
      BY <1>1, <2>8, <3>1 DEF Reader, more
    <3>3. FilesIn(w, n + 1) = c.handed \o c.out /\ AllWhole(c.out)
      BY <2>4, <2>11, <2>12, <2>14, <3>2
    <3>4. Holds(w, n + 1, c.current, c.index)
      <4>1. part # Undefined
        BY <2>8, NoFile
      <4>2. Open(w, n + 1) = O \cup {n + 1}
        BY <2>10, <2>11, <2>14
      <4> QED BY <2>8, <2>9, <2>14, <3>2, <4>1, <4>2 DEF Holds
    <3> QED BY <3>2, <3>3, <3>4 DEF Fits
  <2> QED BY <1>1, <2>13, <2>14
<1> QED BY <1>3, <1>4

LEMMA ReadOK ==
    ASSUME NEW w \in Seq(Segment), NEW n \in 0..(Len(w) - 1), NEW r \in Reader, ~r.failed,
           Fits(w, n, r), NEW c, c = Read(r, w[n + 1])
    PROVE  c \in Reader /\ c.handed = r.handed /\ (c.failed \/ Fits(w, n + 1, c))
<1>0. n \in Nat /\ n + 1 \in 1..Len(w) /\ n \in 0..Len(w)
  OBVIOUS
<1>1. w[n + 1] \in Segment /\ w[n + 1].last \in BOOLEAN
  <2>1. w[n + 1] \in Segment
    BY <1>0
  <2> QED BY <2>1 DEF Segment
(* What is not a chunk changes neither the files nor the open one.          *)
<1>2. ASSUME ~IsChunk(w[n + 1])
      PROVE  FilesIn(w, n + 1) = FilesIn(w, n) /\ Open(w, n + 1) = Open(w, n)
  <2>1. ~EndsFile(w[n + 1])
    BY <1>2 DEF EndsFile
  <2>2. FilesIn(w, n) \in Seq(FilesOf(w))
    BY <1>0, FilesAre
  <2>3. FilesIn(w, n + 1) = FilesIn(w, n)
    BY <2>1, <2>2, FilesMore
  <2> QED BY <1>0, <1>2, <2>1, <2>3, OpenMore
<1>3. CASE w[n + 1].record.index = -1
  <2>1. ~IsChunk(w[n + 1])
    BY <1>3 DEF IsChunk
  <2>2. c = Terminal(r, w[n + 1])
    BY <1>3 DEF Read
  <2>3. c = Broken(r) \/ c = [r EXCEPT !.terminal = TRUE]
    BY <2>2 DEF Terminal
  <2>4. CASE c = Broken(r)
    BY <2>4, BrokenIs
  <2>5. CASE c = [r EXCEPT !.terminal = TRUE]
    <3>1. /\ c \in Reader /\ c.handed = r.handed /\ c.out = r.out /\ c.current = r.current
          /\ c.index = r.index
      BY <2>5 DEF Reader
    <3> QED BY <1>2, <2>1, <3>1 DEF Fits, Holds
  <2> QED BY <2>3, <2>4, <2>5
<1>4. CASE w[n + 1].record.index # -1 /\ r.terminal
  <2>1. c = Broken(r)
    BY <1>4 DEF Read
  <2> QED BY <2>1, BrokenIs
<1>5. CASE w[n + 1].record.index # -1 /\ ~r.terminal /\ w[n + 1].last
  <2>1. IsChunk(w[n + 1])
    BY <1>5 DEF IsChunk
  <2>2. c = Chunk(r, w[n + 1].record)
    BY <1>5 DEF Read
  <2> QED BY <2>1, <2>2, ChunkOK
<1>6. CASE w[n + 1].record.index # -1 /\ ~r.terminal /\ ~w[n + 1].last
  <2>1. ~IsChunk(w[n + 1])
    BY <1>6 DEF IsChunk
  <2>2. c = r
    BY <1>6 DEF Read
  <2> QED BY <1>2, <2>1, <2>2 DEF Fits, Holds
<1> QED BY <1>3, <1>4, <1>5, <1>6

LEMMA PieceOK ==
    ASSUME NEW w \in Seq(Segment), NEW n \in 0..(Len(w) - 1), NEW r, ReaderOK(w, n, r),
           NEW p, p = Piece(r, w[n + 1])
    PROVE  ReaderOK(w, n + 1, p) /\ (~p.failed /\ w[n + 1].fragment = 0 => p.out = <<>>)
<1> DEFINE read == Read(r, w[n + 1])
           F == FilesIn(w, n)
           G == FilesIn(w, n + 1)
<1>0. /\ n \in 0..Len(w) /\ n + 1 \in n..Len(w) /\ r \in Reader /\ r.handed \in Seq(MapFile)
      /\ IsPrefix(r.handed, F) /\ AllWhole(r.handed)
  BY DEF ReaderOK, Reader
<1>1. p = IF r.failed THEN r
          ELSE IF read.failed \/ w[n + 1].fragment # 0 THEN read
          ELSE [read EXCEPT !.handed = @ \o read.out, !.out = <<>>]
  BY DEF Piece
<1>2. IsPrefix(r.handed, G)
  <2>1. IsPrefix(F, G)
    BY <1>0, FilesGrow
  <2>2. F \in Seq(FilesOf(w)) /\ G \in Seq(FilesOf(w))
    BY <1>0, FilesAre
  <2> DEFINE S == MapFile \cup FilesOf(w)
  <2>3. r.handed \in Seq(S) /\ F \in Seq(S) /\ G \in Seq(S)
    <3> HIDE DEF F, G
    <3>1. \A s \in Seq(MapFile) : s \in Seq(S)
      OBVIOUS
    <3>2. \A s \in Seq(FilesOf(w)) : s \in Seq(S)
      OBVIOUS
    <3> QED BY <1>0, <2>2, <3>1, <3>2
  <2> HIDE DEF S, F, G
  <2> QED BY <1>0, <2>1, <2>3, PrefixGrows
<1>3. CASE r.failed
  <2>1. p = r
    BY <1>1, <1>3
  <2> QED BY <1>0, <1>2, <1>3, <2>1 DEF ReaderOK
<1>4. CASE ~r.failed
  <2>1. Fits(w, n, r)
    BY <1>4 DEF ReaderOK
  <2>2. read \in Reader /\ read.handed = r.handed /\ (read.failed \/ Fits(w, n + 1, read))
    BY <1>0, <1>4, <2>1, ReadOK
  <2> HIDE DEF read
  <2>3. CASE read.failed
    <3>1. p = read
      BY <1>1, <1>4, <2>3
    <3> QED BY <1>0, <1>2, <2>2, <2>3, <3>1 DEF ReaderOK
  <2>4. CASE ~read.failed /\ w[n + 1].fragment # 0
    <3>1. p = read
      BY <1>1, <1>4, <2>4
    <3>2. Fits(w, n + 1, read)
      BY <2>2, <2>4
    <3> QED BY <1>0, <1>2, <2>2, <2>4, <3>1, <3>2 DEF ReaderOK
  <2>5. CASE ~read.failed /\ w[n + 1].fragment = 0
    <3> DEFINE h == read.handed \o read.out
    <3>1. p = [read EXCEPT !.handed = h, !.out = <<>>]
      BY <1>1, <1>4, <2>5
    <3>2. Fits(w, n + 1, read) /\ read.handed \in Seq(MapFile) /\ read.out \in Seq(MapFile)
      BY <2>2, <2>5 DEF Reader
    <3>3. h = G /\ AllWhole(read.out) /\ Holds(w, n + 1, read.current, read.index)
      BY <3>2 DEF Fits
    <3>4. AllWhole(h) /\ h \in Seq(MapFile)
      BY <1>0, <2>2, <3>2, <3>3, WholeJoined
    <3> HIDE DEF h
    <3>5. /\ p \in Reader /\ p.handed = h /\ p.out = <<>> /\ p.current = read.current
          /\ p.index = read.index /\ ~p.failed
      <4>1. h \in Seq(MapFile) /\ <<>> \in Seq(MapFile) /\ read \in Reader
        BY <2>2, <3>4
      <4>2. p \in Reader
        BY <3>1, <4>1 DEF Reader
      <4>3. /\ p.handed = h /\ p.out = <<>> /\ p.current = read.current
            /\ p.index = read.index /\ p.failed = read.failed
        BY <3>1, <4>1 DEF Reader
      <4> QED BY <2>5, <4>2, <4>3
    <3>6. h \o <<>> = h /\ AllWhole(<<>>)
      BY <3>4 DEF AllWhole
    <3>7. Fits(w, n + 1, p)
      BY <3>3, <3>5, <3>6 DEF Fits
    <3>8. IsPrefix(p.handed, G)
      <4>1. p.handed = G /\ p.handed \in Seq(MapFile)
        BY <3>3, <3>4, <3>5
      <4> HIDE DEF G
      <4>2. IsPrefix(p.handed, p.handed)
        BY <4>1, PrefixGrows
      <4> QED BY <4>1, <4>2
    <3> QED BY <3>4, <3>5, <3>7, <3>8 DEF ReaderOK
  <2> QED BY <2>3, <2>4, <2>5
<1> QED BY <1>3, <1>4

(* What reads the pieces one after another.                                 *)
ReadsInto(parts, after) ==
    after = [i \in 0..Len(parts) |-> IF i = 0 THEN reader ELSE Piece(after[i - 1], parts[i])]

LEMMA ReadsExists == ASSUME NEW parts \in Seq(Segment) PROVE \E after : ReadsInto(parts, after)
<1> DEFINE G(g, m) == g = [i \in 0..m |-> IF i = 0 THEN reader ELSE Piece(g[i - 1], parts[i])]
           Bad == {m \in Nat : ~\E g : G(g, m)}
<1>1. SUFFICES ASSUME Bad # {} PROVE FALSE
  <2>1. Len(parts) \in Nat
    OBVIOUS
  <2>2. \E g : G(g, Len(parts))
    BY <1>1, <2>1
  <2> QED BY <2>2 DEF ReadsInto
<1>2. PICK m \in Bad : \A l \in Bad : m <= l
  <2>1. Bad \in SUBSET Nat
    OBVIOUS
  <2> HIDE DEF Bad
  <2> QED BY <1>1, <2>1, Least
<1>3. m # 0
  <2> DEFINE g == [i \in 0..0 |-> reader]
  <2>1. \A i \in 0..0 : i = 0
    OBVIOUS
  <2>2. G(g, 0)
    <3>1. g = [i \in 0..0 |-> IF i = 0 THEN reader ELSE Piece(g[i - 1], parts[i])]
      BY <2>1
    <3> QED BY <3>1
  <2> HIDE DEF g, G
  <2> QED BY <2>2
<1>4. m - 1 \in Nat /\ ~(m <= m - 1) /\ m \in Nat
  BY <1>3
<1>5. PICK f : G(f, m - 1)
  <2> HIDE DEF G
  <2> QED BY <1>2, <1>4
<1> DEFINE k == [i \in 0..m |-> IF i = m THEN Piece(f[m - 1], parts[m]) ELSE f[i]]
<1>6. \A i \in 0..(m - 1) : i \in 0..m /\ k[i] = f[i]
  BY <1>4
<1>7. ASSUME NEW i \in 0..m PROVE k[i] = IF i = 0 THEN reader ELSE Piece(k[i - 1], parts[i])
  <2>1. CASE i = 0
    <3>1. 0 \in 0..(m - 1)
      BY <1>4
    <3>2. f[0] = reader
      BY <1>5, <3>1
    <3>3. k[0] = f[0]
      BY <1>6, <3>1
    <3> QED BY <2>1, <3>2, <3>3
  <2>2. CASE i # 0 /\ i # m
    <3>1. i \in 0..(m - 1) /\ i - 1 \in 0..(m - 1)
      BY <1>4, <2>2
    <3>2. f[i] = Piece(f[i - 1], parts[i])
      BY <1>5, <2>2, <3>1
    <3>3. k[i] = f[i] /\ k[i - 1] = f[i - 1]
      BY <1>6, <3>1
    <3> QED BY <2>2, <3>2, <3>3
  <2>3. CASE i = m
    <3>1. m - 1 \in 0..(m - 1) /\ m \in 0..m
      BY <1>4
    <3>2. k[m - 1] = f[m - 1]
      BY <1>6, <3>1
    <3>3. k[m] = Piece(f[m - 1], parts[m])
      BY <3>1
    <3> QED BY <1>3, <2>3, <3>2, <3>3
  <2> QED BY <2>1, <2>2, <2>3
<1>8. DOMAIN k = 0..m /\ k = [i \in 0..m |-> k[i]]
  OBVIOUS
<1> HIDE DEF k
<1>9. G(k, m)
  <2>1. k = [i \in 0..m |-> IF i = 0 THEN reader ELSE Piece(k[i - 1], parts[i])]
    BY <1>7, <1>8
  <2> QED BY <2>1
<1> HIDE DEF G
<1> QED BY <1>9, <1>2

(* What was read fits what the mower sent as far as it was read.            *)
LEMMA ReadAllOK ==
    ASSUME NEW w \in Seq(Segment), NEW parts \in Seq(Segment), NEW n \in 0..Len(w),
           n + Len(parts) <= Len(w), \A i \in 1..Len(parts) : parts[i] = w[n + i],
           ReaderOK(w, n, reader), NEW r, r = ReadAll(parts)
    PROVE  /\ ReaderOK(w, n + Len(parts), r)
           /\ Len(parts) = 0 => r = reader
           /\ Len(parts) # 0 /\ parts[Len(parts)].fragment = 0 /\ ~r.failed => r.out = <<>>
<1> DEFINE after == CHOOSE f : ReadsInto(parts, f)
           m == Len(parts)
<1>1. ReadsInto(parts, after)
  BY ReadsExists
<1>2. r = after[m]
  BY DEF ReadAll, ReadsInto
<1> HIDE DEF after
<1>3. m \in Nat /\ n \in Nat /\ Len(w) \in Nat
  OBVIOUS
<1>4. \A i \in 0..m : after[i] = IF i = 0 THEN reader ELSE Piece(after[i - 1], parts[i])
  <2>1. after = [i \in 0..m |-> IF i = 0 THEN reader ELSE Piece(after[i - 1], parts[i])]
    BY <1>1 DEF ReadsInto
  <2> HIDE DEF m
  <2> QED BY <2>1
<1>5. /\ after[0] = reader
      /\ \A i \in 1..m : after[i] = Piece(after[i - 1], w[n + (i - 1) + 1])
  <2>1. 0 \in 0..m /\ \A i \in 1..m : i \in 0..m /\ i # 0 /\ n + (i - 1) + 1 = n + i
    BY <1>3
  <2> QED BY <1>4, <2>1
<1>6. ASSUME NEW i \in 1..m, ReaderOK(w, n + (i - 1), after[i - 1])
      PROVE  /\ ReaderOK(w, n + i, after[i])
             /\ ~after[i].failed /\ w[n + i].fragment = 0 => after[i].out = <<>>
  <2> DEFINE l == n + (i - 1)
  <2>1. l \in 0..(Len(w) - 1) /\ l + 1 = n + i
    BY <1>3
  <2>2. after[i] = Piece(after[i - 1], w[l + 1])
    BY <1>5
  <2>3. ReaderOK(w, l, after[i - 1])
    BY <1>6
  <2> HIDE DEF l
  <2> QED BY <2>1, <2>2, <2>3, PieceOK
<1> DEFINE Bad == {i \in 0..m : ~ReaderOK(w, n + i, after[i])}
<1>7. Bad = {}
  <2>1. SUFFICES ASSUME Bad # {} PROVE FALSE
    OBVIOUS
  <2>2. PICK i \in Bad : \A j \in Bad : i <= j
    <3>1. Bad \in SUBSET Nat
      BY <1>3
    <3> HIDE DEF Bad
    <3> QED BY <2>1, <3>1, Least
  <2>3. i # 0
    <3>1. n + 0 = n
      BY <1>3
    <3> QED BY <1>5, <3>1
  <2>4. i \in 1..m /\ i - 1 \in 0..m /\ ~(i <= i - 1)
    BY <1>3, <2>3
  <2>5. ReaderOK(w, n + (i - 1), after[i - 1])
    BY <2>2, <2>4
  <2> QED BY <1>6, <2>4, <2>5
<1>8. ReaderOK(w, n + m, r)
  <2>1. m \in 0..m
    BY <1>3
  <2> QED BY <1>2, <1>7, <2>1
<1>9. ASSUME m # 0, parts[m].fragment = 0, ~r.failed PROVE r.out = <<>>
  <2>1. m \in 1..m /\ m - 1 \in 0..m
    BY <1>3, <1>9
  <2>2. ReaderOK(w, n + (m - 1), after[m - 1])
    BY <1>7, <2>1
  <2>3. parts[m] = w[n + m]
    BY <2>1
  <2> QED BY <1>2, <1>6, <1>9, <2>1, <2>2, <2>3
<1> QED BY <1>2, <1>5, <1>8, <1>9

-----------------------------------------------------------------------------
(* MapStream: the receiver.                                                 *)

(* What is gathered of a message: the segments before the next one, the end *)
(* of the message not among them.                                           *)
Gathered ==
    /\ fragments \in Seq(Segment) /\ Len(fragments) <= 7 /\ Len(fragments) <= next
    /\ CountsDown(fragments)
    /\ \A i \in 1..Len(fragments) :
          /\ fragments[i] = stream[next - Len(fragments) + i]
          /\ fragments[i].fragment # 0

Sequenced ==
    /\ stream \in Seq(Segment) /\ sent \in 0..Len(stream)
    /\ next \in 0..sent /\ ahead \subseteq next..(sent - 1) /\ next \notin ahead
    /\ Cardinality(ahead) <= PendingLimit
Counted == messages \in Nat /\ (~failed => messages <= MessageLimit /\ ~reader.failed)
HandedOver ==
    /\ reader \in Reader
    /\ IsPrefix(reader.handed, FilesIn(stream, next)) /\ AllWhole(reader.handed)
InStep ==
    ~closed /\ ~failed =>
        ReaderOK(stream, next - Len(fragments), reader) /\ reader.out = <<>>
StreamInv ==
    /\ Sequenced /\ Counted /\ HandedOver /\ AcknowledgedIsKept
    /\ ~closed => Gathered
    /\ InStep

(* A message has 8 pieces at most.                                          *)
LEMMA FewPieces ==
    ASSUME NEW s \in Seq(Segment), CountsDown(s), \A i \in 1..Len(s) : s[i].fragment # 0
    PROVE  Len(s) <= 7
<1>0. Len(s) \in Nat /\ DOMAIN s = 1..Len(s)
  OBVIOUS
<1>1. \A i \in 1..Len(s) : s[i].fragment \in 1..7
  <2>1. ASSUME NEW i \in 1..Len(s) PROVE s[i].fragment \in 1..7
    <3>1. s[i] \in Segment /\ s[i].fragment # 0
      OBVIOUS
    <3>2. s[i].fragment \in 0..7
      BY <3>1 DEF Segment
    <3> QED BY <3>1, <3>2
  <2> QED BY <2>1
<1> DEFINE f(i) == s[i].fragment
           Bad == {i \in 1..Len(s) : ~(f(i) <= 8 - i)}
<1>2. \A i \in 2..Len(s) : i \in 1..Len(s) /\ i - 1 \in 1..Len(s) /\ f(i) = f(i - 1) - 1
  <2>1. \A i \in 2..Len(s) : i \in 1..Len(s) /\ i - 1 \in 1..Len(s)
    BY <1>0
  <2> QED BY <2>1 DEF CountsDown
<1>3. \A i \in 1..Len(s) : f(i) \in 1..7
  BY <1>1
<1> HIDE DEF f
<1>4. Bad = {}
  <2>1. SUFFICES ASSUME Bad # {} PROVE FALSE
    OBVIOUS
  <2>2. PICK i \in Bad : \A j \in Bad : i <= j
    <3>1. Bad \in SUBSET Nat
      BY <1>0
    <3> HIDE DEF Bad
    <3> QED BY <2>1, <3>1, Least
  <2>3. i # 1
    BY <1>3
  <2>4. i \in 2..Len(s) /\ ~(i <= i - 1) /\ i - 1 \in 1..Len(s)
    BY <1>0, <2>3
  <2>5. f(i - 1) <= 8 - (i - 1) /\ f(i - 1) \in 1..7
    BY <1>3, <2>2, <2>4
  <2>6. f(i) = f(i - 1) - 1
    BY <1>2, <2>4
  <2>7. f(i) <= 8 - i
    BY <2>4, <2>5, <2>6
  <2> QED BY <2>7
<1>5. CASE Len(s) = 0
  BY <1>5
<1>6. CASE Len(s) # 0
  <2>1. Len(s) \in 1..Len(s)
    BY <1>0, <1>6
  <2>2. f(Len(s)) <= 8 - Len(s) /\ f(Len(s)) \in 1..7
    BY <1>3, <1>4, <2>1
  <2> QED BY <1>0, <2>2
<1> QED BY <1>5, <1>6

(* What is taken ends at the first segment that is not there.               *)
LEMMA RunEndIs ==
    ASSUME Sequenced, NEW sn \in 0..(sent - 1), NEW held, held = HeldWith(sn),
           NEW to, to = RunEnd(held)
    PROVE  /\ to \in next..sent /\ to \notin held /\ \A k \in next..(to - 1) : k \in held
           /\ held \subseteq next..(sent - 1) /\ ahead \subseteq held
           /\ held \cup 0..(next - 1) = ahead \cup 0..(next - 1) \cup {sn}
           /\ sn >= next => held = ahead \cup {sn}
           /\ sn < next => held = ahead
<1>1. /\ sent \in Nat /\ next \in Nat /\ next <= sent /\ Len(stream) \in Nat /\ sent <= Len(stream)
      /\ ahead \subseteq next..(sent - 1)
  BY DEF Sequenced
<1>2. /\ sn >= next => held = ahead \cup {sn}
      /\ sn < next => held = ahead
  BY <1>1 DEF HeldWith
<1>3. held \subseteq next..(sent - 1) /\ ahead \subseteq held
  <2>1. CASE sn >= next
    <3>1. sn \in next..(sent - 1)
      BY <1>1, <2>1
    <3> QED BY <1>1, <1>2, <2>1, <3>1
  <2>2. CASE sn < next
    BY <1>1, <1>2, <2>2
  <2> QED BY <1>1, <2>1, <2>2
<1>4. held \cup 0..(next - 1) = ahead \cup 0..(next - 1) \cup {sn}
  <2>1. CASE sn >= next
    BY <1>2, <2>1
  <2>2. CASE sn < next
    <3>1. sn \in 0..(next - 1)
      BY <1>1, <2>2
    <3> QED BY <1>2, <2>2, <3>1
  <2> QED BY <1>1, <2>1, <2>2
<1> DEFINE Free == {k \in next..sent : k \notin held}
           P(n) == n \notin held /\ \A k \in next..(n - 1) : k \in held
<1>5. PICK n \in Free : \A k \in Free : n <= k
  <2>1. sent \in Free
    BY <1>1, <1>3
  <2>2. Free \in SUBSET Nat /\ Free # {}
    BY <1>1, <2>1
  <2> HIDE DEF Free
  <2> QED BY <2>2, Least
<1>6. n \in next..(next + Len(stream)) /\ P(n)
  <2>1. n \in next..sent /\ n \notin held
    BY <1>5
  <2>2. ASSUME NEW k \in next..(n - 1) PROVE k \in held
    <3>1. k \in next..sent /\ ~(n <= k)
      BY <1>1, <2>1
    <3> QED BY <1>5, <3>1
  <2>3. n \in next..(next + Len(stream))
    BY <1>1, <2>1
  <2> QED BY <2>1, <2>2, <2>3
<1>7. to \in next..(next + Len(stream)) /\ P(to)
  <2>1. to = CHOOSE k \in next..(next + Len(stream)) : P(k)
    BY DEF RunEnd
  <2> HIDE DEF P
  <2> QED BY <1>6, <2>1
<1>8. to <= sent
  <2>1. SUFFICES ASSUME to > sent PROVE FALSE
    BY <1>1, <1>7
  <2>2. sent \in next..(to - 1)
    BY <1>1, <1>7, <2>1
  <2>3. sent \in held
    BY <1>7, <2>2
  <2> QED BY <1>1, <1>3, <2>3
<1>9. to \in next..sent
  BY <1>1, <1>7, <1>8
<1> QED BY <1>2, <1>3, <1>4, <1>7, <1>9

(* The pieces there are now are the segments from the first one gathered to *)
(* the first one missing; the messages in them end with the last 0.         *)
LEMMA PartsAre ==
    ASSUME Sequenced, Gathered, NEW to \in next..sent
    PROVE  LET parts == fragments \o Run(next, to)
               c == Complete(parts)
           IN  /\ parts \in Seq(Segment)
               /\ Len(parts) = to - (next - Len(fragments))
               /\ \A i \in 1..Len(parts) : parts[i] = stream[next - Len(fragments) + i]
               /\ c \in 0..Len(parts) /\ (c # 0 => parts[c].fragment = 0)
               /\ \A i \in (c + 1)..Len(parts) : parts[i].fragment # 0
               /\ Cardinality(MessageEnds(parts)) \in Nat
<1>1. /\ sent \in Nat /\ next \in Nat /\ Len(stream) \in Nat /\ sent <= Len(stream)
      /\ to \in Nat /\ next <= to /\ to <= sent /\ stream \in Seq(Segment)
      /\ fragments \in Seq(Segment) /\ Len(fragments) \in Nat /\ Len(fragments) <= next
  BY DEF Sequenced, Gathered
<1> DEFINE run == Run(next, to)
           parts == fragments \o run
           c == Complete(parts)
           f == Len(fragments)
           n == next - f
<1>2. run \in Seq(Segment) /\ Len(run) = to - next /\ \A i \in 1..(to - next) : run[i] = stream[next + i]
  <2>1. \A i \in 1..(to - next) : next + i \in 1..Len(stream)
    BY <1>1
  <2>2. \A i \in 1..(to - next) : stream[next + i] \in Segment
    BY <1>1, <2>1
  <2>3. to - next \in Nat
    BY <1>1
  <2> QED BY <2>2, <2>3 DEF Run
<1>3. parts = fragments \o run /\ c = Complete(parts)
  OBVIOUS
<1> HIDE DEF run, parts, c
<1>4. /\ parts \in Seq(Segment) /\ Len(parts) = f + (to - next)
      /\ \A i \in 1..Len(parts) : parts[i] = IF i <= f THEN fragments[i] ELSE run[i - f]
  <2>1. fragments \in Seq(Segment) /\ run \in Seq(Segment)
    BY <1>1, <1>2
  <2> DEFINE x == fragments
  <2>2. /\ x \o run \in Seq(Segment) /\ Len(x \o run) = Len(x) + Len(run)
        /\ \A k \in 1..Len(x \o run) :
              (x \o run)[k] = IF k <= Len(x) THEN x[k] ELSE run[k - Len(x)]
    BY <2>1, ConcatIs
  <2> QED BY <1>1, <1>2, <1>3, <2>2
<1>5. Len(parts) = to - n /\ Len(parts) \in Nat
  BY <1>1, <1>4
<1>6. ASSUME NEW i \in 1..Len(parts) PROVE parts[i] = stream[n + i]
  <2>1. CASE i <= f
    <3>1. i \in 1..f
      BY <1>1, <2>1
    <3>2. fragments[i] = stream[n + i]
      BY <3>1 DEF Gathered
    <3> QED BY <1>4, <2>1, <3>2
  <2>2. CASE i > f
    <3>1. i - f \in 1..(to - next) /\ next + (i - f) = n + i /\ ~(i <= f)
      BY <1>1, <1>4, <2>2
    <3>2. run[i - f] = stream[n + i]
      BY <1>2, <3>1
    <3> QED BY <1>4, <3>1, <3>2
  <2> QED BY <1>1, <2>1, <2>2
<1> DEFINE E == MessageEnds(parts)
<1>7. E \subseteq 1..Len(parts) /\ \A i \in 1..Len(parts) : i \in E <=> parts[i].fragment = 0
  BY <1>4 DEF MessageEnds
<1>8. Cardinality(E) \in Nat
  <2>1. IsFiniteSet(1..Len(parts))
    BY <1>5, FS_Interval
  <2> HIDE DEF E
  <2> QED BY <1>7, <2>1, FS_Subset, FS_CardinalityType
<1>9. c = IF E = {} THEN 0 ELSE CHOOSE i \in E : \A j \in E : j <= i
  BY <1>3 DEF Complete
<1> HIDE DEF E
<1> DEFINE Goal == /\ parts \in Seq(Segment)
                   /\ Len(parts) = to - n
                   /\ \A i \in 1..Len(parts) : parts[i] = stream[n + i]
                   /\ c \in 0..Len(parts) /\ (c # 0 => parts[c].fragment = 0)
                   /\ \A i \in (c + 1)..Len(parts) : parts[i].fragment # 0
                   /\ Cardinality(MessageEnds(parts)) \in Nat
<1>10. ASSUME E = {} PROVE Goal
  <2>1. c = 0
    BY <1>9, <1>10
  <2>2. \A i \in (c + 1)..Len(parts) : i \in 1..Len(parts)
    BY <2>1
  <2> QED BY <1>4, <1>5, <1>6, <1>7, <1>8, <1>10, <2>1, <2>2 DEF E
<1>11. ASSUME E # {} PROVE Goal
  <2>1. E \in SUBSET Nat /\ \A x \in E : x <= Len(parts)
    BY <1>5, <1>7
  <2>2. \E x \in E : \A y \in E : y <= x
    BY <1>5, <1>11, <2>1, Greatest
  <2>3. c \in E /\ \A j \in E : j <= c
    BY <1>9, <1>11, <2>2
  <2>4. c \in 1..Len(parts) /\ parts[c].fragment = 0
    BY <1>7, <2>3
  <2>5. ASSUME NEW i \in (c + 1)..Len(parts) PROVE parts[i].fragment # 0
    <3>1. i \in 1..Len(parts) /\ ~(i <= c)
      BY <1>5, <2>4
    <3> QED BY <1>7, <2>3, <3>1
  <2>6. c \in 0..Len(parts)
    BY <1>5, <2>4
  <2> QED BY <1>4, <1>5, <1>6, <1>8, <2>4, <2>5, <2>6 DEF E
<1>12. Goal
  BY <1>10, <1>11
<1> QED BY <1>12 DEF parts, c, run

LEMMA SplitIs ==
    ASSUME NEW s \in Seq(Segment), NEW c \in 0..Len(s)
    PROVE  LET rest == SubSeq(s, c + 1, Len(s))
               read == SubSeq(s, 1, c)
           IN  /\ rest \in Seq(Segment) /\ Len(rest) = Len(s) - c
               /\ \A i \in 1..Len(rest) : rest[i] = s[c + i]
               /\ read \in Seq(Segment) /\ Len(read) = c
               /\ \A i \in 1..c : read[i] = s[i]
<1> DEFINE rest == SubSeq(s, c + 1, Len(s))
           read == SubSeq(s, 1, c)
<1>0. Len(s) \in Nat /\ c \in Nat /\ c <= Len(s)
  OBVIOUS
<1>1. rest \in Seq(Segment) /\ Len(rest) = Len(s) - c
  BY <1>0
<1>2. ASSUME NEW i \in 1..Len(rest) PROVE rest[i] = s[c + i]
  BY <1>0, <1>1
<1>3. read \in Seq(Segment) /\ Len(read) = c
  BY <1>0
<1>4. ASSUME NEW i \in 1..c PROVE read[i] = s[i]
  BY <1>0, <1>3
<1> QED BY <1>1, <1>2, <1>3, <1>4

LEMMA ReceiveSegmentInv ==
    ASSUME StreamInv, ~failed, ~closed, NEW sn \in 0..(sent - 1), ReceiveSegment(sn),
           UNCHANGED <<stream, sent, closed>>
    PROVE  StreamInv'
<1> DEFINE held == HeldWith(sn)
           to == RunEnd(held)
           parts == fragments \o Run(next, to)
           c == Complete(parts)
           e == Cardinality(MessageEnds(parts))
           n == next - Len(fragments)
<1>0. Sequenced /\ Counted /\ HandedOver /\ AcknowledgedIsKept /\ Gathered /\ InStep
  BY DEF StreamInv
<1>1. /\ to \in next..sent /\ to \notin held /\ (\A k \in next..(to - 1) : k \in held)
      /\ held \subseteq next..(sent - 1) /\ ahead \subseteq held
      /\ held \cup 0..(next - 1) = ahead \cup 0..(next - 1) \cup {sn}
      /\ (sn >= next => held = ahead \cup {sn})
      /\ (sn < next => held = ahead)
  BY <1>0, RunEndIs
<1>2. /\ parts \in Seq(Segment) /\ Len(parts) = to - n
      /\ (\A i \in 1..Len(parts) : parts[i] = stream[n + i])
      /\ c \in 0..Len(parts) /\ (c # 0 => parts[c].fragment = 0)
      /\ (\A i \in (c + 1)..Len(parts) : parts[i].fragment # 0)
      /\ e \in Nat
  <2>1. /\ Sequenced /\ Gathered /\ to \in next..sent /\ parts = fragments \o Run(next, to)
        /\ c = Complete(parts) /\ e = Cardinality(MessageEnds(parts)) /\ n = next - Len(fragments)
    BY <1>0, <1>1
  <2> HIDE DEF held, to, parts, c, e, n
  <2>2. /\ parts \in Seq(Segment)
        /\ Len(parts) = to - (next - Len(fragments))
        /\ \A i \in 1..Len(parts) : parts[i] = stream[next - Len(fragments) + i]
        /\ c \in 0..Len(parts) /\ (c # 0 => parts[c].fragment = 0)
        /\ \A i \in (c + 1)..Len(parts) : parts[i].fragment # 0
        /\ Cardinality(MessageEnds(parts)) \in Nat
    BY <2>1, PartsAre
  <2> QED BY <2>1, <2>2
<1>3. /\ sent \in Nat /\ next \in Nat /\ Len(stream) \in Nat /\ sent <= Len(stream) /\ next <= sent
      /\ stream \in Seq(Segment) /\ ahead \subseteq next..(sent - 1) /\ next \notin ahead
      /\ Cardinality(ahead) <= PendingLimit /\ PendingLimit \in Nat /\ MessageLimit \in Nat
      /\ messages \in Nat /\ messages <= MessageLimit /\ ~reader.failed
  BY <1>0, MapStreamAssumption DEF Sequenced, Counted
<1>4. Len(fragments) \in Nat /\ Len(fragments) <= next /\ fragments \in Seq(Segment)
  BY <1>0 DEF Gathered
<1>5. CASE Fails
  <2>1. /\ failed' = TRUE /\ stream' = stream /\ sent' = sent /\ closed' = closed /\ next' = next
        /\ ahead' = ahead /\ fragments' = fragments /\ messages' = messages /\ reader' = reader
        /\ acked' = acked
    BY <1>5 DEF Fails
  <2>2. Sequenced' /\ Counted' /\ HandedOver' /\ AcknowledgedIsKept' /\ InStep'
    BY <1>0, <2>1 DEF Sequenced, Counted, HandedOver, AcknowledgedIsKept, InStep
  <2>3. Gathered'
    <3>1. \A i \in 1..Len(fragments') : fragments'[i] = stream'[next' - Len(fragments') + i]
                                        /\ fragments'[i].fragment # 0
      BY <1>0, <2>1 DEF Gathered
    <3>2. CountsDown(fragments)'
      BY <1>0, <2>1 DEF Gathered, CountsDown
    <3> QED BY <1>0, <2>1, <3>1, <3>2 DEF Gathered
  <2> QED BY <2>2, <2>3 DEF StreamInv
<1>6. CASE ~Fails
  <2>1. /\ ~(sn >= next + Window)
        /\ ~(sn >= next /\ sn \notin ahead /\ Cardinality(ahead) >= PendingLimit)
        /\ CountsDown(parts) /\ ~(messages + e > MessageLimit)
        /\ next' = to /\ ahead' = Waiting(held, to)
        /\ fragments' = SubSeq(parts, c + 1, Len(parts))
        /\ messages' = messages + e
        /\ reader' = ReadAll(SubSeq(parts, 1, c))
        /\ failed' = reader'.failed
        /\ acked' = acked \cup {sn}
    BY <1>6 DEF ReceiveSegment
  <2>2. stream' = stream /\ sent' = sent /\ closed' = closed
    OBVIOUS
  <2> HIDE DEF held, to, parts, c, e
  <2>3. Cardinality(held) <= PendingLimit /\ IsFiniteSet(held)
    <3>1. IsFiniteSet(ahead) /\ Cardinality(ahead) \in Nat
      <4>1. IsFiniteSet(next..(sent - 1))
        BY <1>3, FS_Interval
      <4> QED BY <1>3, <4>1, FS_Subset, FS_CardinalityType
    <3>2. CASE sn < next \/ sn \in ahead
      <4>1. held = ahead
        <5>1. CASE sn < next
          BY <1>1, <5>1
        <5>2. CASE sn >= next /\ sn \in ahead
          BY <1>1, <5>2
        <5> QED BY <1>3, <3>2, <5>1, <5>2
      <4> QED BY <1>3, <3>1, <4>1
    <3>3. CASE sn >= next /\ sn \notin ahead
      <4>1. held = ahead \cup {sn}
        BY <1>1, <3>3
      <4>2. Cardinality(held) = Cardinality(ahead) + 1 /\ IsFiniteSet(held)
        BY <3>1, <3>3, <4>1, FS_AddElement
      <4>3. Cardinality(ahead) < PendingLimit
        BY <1>3, <2>1, <3>1, <3>3
      <4> QED BY <1>3, <3>1, <4>2, <4>3
    <3> QED BY <1>3, <3>2, <3>3
  <2>4. ahead' = {k \in held : k >= to}
    BY <2>1 DEF Waiting
  <2>5. Sequenced'
    <3>1. ahead' \subseteq to..(sent - 1) /\ to \notin ahead'
      <4>1. ASSUME NEW k \in held, k >= to PROVE k \in to..(sent - 1)
        <5>1. k \in next..(sent - 1) /\ to \in next..sent
          BY <1>1
        <5> QED BY <1>3, <4>1, <5>1
      <4> QED BY <1>1, <2>4, <4>1
    <3>2. Cardinality(ahead') <= PendingLimit
      <4>1. ahead' \in SUBSET held
        BY <2>4
      <4>2. Cardinality(ahead') <= Cardinality(held) /\ IsFiniteSet(ahead')
        BY <2>3, <4>1, FS_Subset
      <4>3. Cardinality(ahead') \in Nat /\ Cardinality(held) \in Nat
        BY <2>3, <4>2, FS_CardinalityType
      <4> QED BY <1>3, <2>3, <4>2, <4>3
    <3>3. to \in 0..sent
      BY <1>1, <1>3
    <3>4. stream' \in Seq(Segment) /\ sent' \in 0..Len(stream') /\ next' \in 0..sent'
      BY <1>3, <2>1, <2>2, <3>3
    <3>5. ahead' \subseteq next'..(sent' - 1) /\ next' \notin ahead'
      BY <2>1, <2>2, <3>1
    <3> QED BY <3>2, <3>4, <3>5 DEF Sequenced
  <2>6. Counted'
    BY <1>2, <1>3, <2>1 DEF Counted
  <2>7. AcknowledgedIsKept'
    <3>1. acked = ahead \cup 0..(next - 1)
      BY <1>0 DEF AcknowledgedIsKept
    <3>2. acked' = held \cup 0..(next - 1)
      BY <1>1, <2>1, <3>1
    <3>3. held \cup 0..(next - 1) = {k \in held : k >= to} \cup 0..(to - 1)
      <4>1. ASSUME NEW k \in held PROVE k >= to \/ k \in 0..(to - 1)
        BY <1>1, <1>3
      <4>2. ASSUME NEW k \in 0..(to - 1) PROVE k \in held \/ k \in 0..(next - 1)
        <5>1. k >= next => k \in next..(to - 1)
          BY <1>1, <1>3
        <5> QED BY <1>1, <1>3, <5>1
      <4>3. 0..(next - 1) \subseteq 0..(to - 1)
        BY <1>1, <1>3
      <4> QED BY <4>1, <4>2, <4>3
    <3>4. acked' = ahead' \cup 0..(next' - 1)
      BY <2>1, <2>4, <3>2, <3>3
    <3> QED BY <3>4 DEF AcknowledgedIsKept
  <2> DEFINE rest == SubSeq(parts, c + 1, Len(parts))
             read == SubSeq(parts, 1, c)
             m == n + c
  <2>8. /\ rest \in Seq(Segment) /\ Len(rest) = Len(parts) - c
        /\ (\A i \in 1..Len(rest) : rest[i] = parts[c + i])
        /\ read \in Seq(Segment) /\ Len(read) = c
        /\ (\A i \in 1..c : read[i] = parts[i])
    BY <1>2, SplitIs
  <2>9. fragments' = rest /\ reader' = ReadAll(read)
    BY <2>1
  <2>20. n = next - Len(fragments)
    OBVIOUS
  <2> HIDE DEF n
  <2>10. /\ n \in Nat /\ m \in Nat /\ c \in Nat /\ Len(parts) \in Nat /\ m <= to /\ to - Len(rest) = m
         /\ n \in 0..Len(stream) /\ m \in 0..Len(stream) /\ to \in m..Len(stream) /\ to \in Nat
    <3> HIDE DEF rest, read, m
    <3>1. /\ n \in Nat /\ c \in Nat /\ Len(parts) \in Nat /\ to \in Nat /\ Len(parts) = to - n
          /\ c <= Len(parts) /\ to <= Len(stream) /\ Len(stream) \in Nat
      BY <1>1, <1>2, <1>3, <1>4, <2>20
    <3>2. m = n + c
      BY DEF m
    <3> QED BY <2>8, <3>1, <3>2
  <2>21. m = n + c
    OBVIOUS
  <2> HIDE DEF rest, read, m
  <2>22. Len(rest) = Len(parts) - c /\ c \in Nat /\ Len(parts) \in Nat /\ n \in Nat
    BY <2>8, <2>10
  <2>11. /\ \A i \in 1..Len(rest) : rest[i] = stream[m + i] /\ rest[i].fragment # 0
         /\ CountsDown(rest)
    <3>1. ASSUME NEW i \in 1..Len(rest)
          PROVE  rest[i] = stream[m + i] /\ rest[i].fragment # 0
      <4>1. c + i \in 1..Len(parts) /\ c + i \in (c + 1)..Len(parts) /\ n + (c + i) = m + i
        BY <2>22, <2>21
      <4> QED BY <1>2, <2>8, <4>1
    <3>2. ASSUME NEW i \in 2..Len(rest), rest[i - 1].fragment # 0
          PROVE  rest[i].fragment = rest[i - 1].fragment - 1
      <4>1. /\ i \in 1..Len(rest) /\ i - 1 \in 1..Len(rest) /\ c + i \in 2..Len(parts)
            /\ c + (i - 1) = (c + i) - 1
        BY <2>22
      <4>2. rest[i] = parts[c + i] /\ rest[i - 1] = parts[(c + i) - 1]
        BY <2>8, <4>1
      <4>3. \A j \in 2..Len(parts) : parts[j - 1].fragment # 0 =>
                parts[j].fragment = parts[j - 1].fragment - 1
        BY <2>1 DEF CountsDown
      <4> QED BY <3>2, <4>1, <4>2, <4>3
    <3> QED BY <3>1, <3>2 DEF CountsDown
  <2>12. Gathered'
    <3>1. Len(rest) <= 7
      BY <2>8, <2>11, FewPieces
    <3>2. Len(rest) <= to /\ to - Len(rest) = m
      BY <2>8, <2>10
    <3>3. \A i \in 1..Len(fragments') : /\ fragments'[i] = stream'[next' - Len(fragments') + i]
                                        /\ fragments'[i].fragment # 0
      BY <2>1, <2>2, <2>9, <2>11, <3>2
    <3>4. CountsDown(fragments)'
      BY <2>9, <2>11 DEF CountsDown
    <3> QED BY <2>1, <2>8, <2>9, <3>1, <3>2, <3>3, <3>4 DEF Gathered
  <2>13. ReaderOK(stream, n, reader) /\ reader.out = <<>>
    BY <1>0, <2>20 DEF InStep
  <2>14. /\ ReaderOK(stream, m, reader')
         /\ ~reader'.failed => reader'.out = <<>>
    <3> DEFINE r == ReadAll(read)
    <3>1. /\ n + Len(read) <= Len(stream)
          /\ \A i \in 1..Len(read) : read[i] = stream[n + i]
      <4>1. \A i \in 1..c : i \in 1..Len(parts)
        BY <2>10, <2>22, c \in 0..Len(parts), <1>2
      <4>2. \A i \in 1..c : read[i] = stream[n + i]
        BY <1>2, <2>8, <4>1
      <4>3. Len(read) = c /\ n + c <= Len(stream)
        BY <2>8, <2>10, <2>21
      <4> QED BY <4>2, <4>3
    <3>2. /\ ReaderOK(stream, n + Len(read), r)
          /\ Len(read) = 0 => r = reader
          /\ Len(read) # 0 /\ read[Len(read)].fragment = 0 /\ ~r.failed => r.out = <<>>
      <4>1. stream \in Seq(Segment) /\ read \in Seq(Segment) /\ n \in 0..Len(stream)
        BY <1>3, <2>8, <2>10
      <4> QED BY <2>13, <3>1, <4>1, ReadAllOK
    <3>3. Len(read) # 0 => read[Len(read)].fragment = 0
      <4>1. c # 0 => c \in 1..c /\ read[c] = parts[c]
        BY <2>8, <2>10
      <4> QED BY <1>2, <2>8, <4>1
    <3> HIDE DEF r
    <3>4. ReaderOK(stream, m, r) /\ (~r.failed => r.out = <<>>)
      BY <2>8, <2>13, <2>21, <3>2, <3>3
    <3>5. reader' = r
      BY <2>9 DEF r
    <3> QED BY <3>4, <3>5
  <2>15. HandedOver'
    <3> DEFINE h == reader'.handed
    <3>1. reader' \in Reader /\ IsPrefix(h, FilesIn(stream, m)) /\ AllWhole(h)
      BY <2>14 DEF ReaderOK
    <3>2. IsPrefix(FilesIn(stream, m), FilesIn(stream, to))
      BY <1>3, <2>10, FilesGrow
    <3>3. IsPrefix(h, FilesIn(stream, to))
      <4> DEFINE F == FilesIn(stream, m)
                 G == FilesIn(stream, to)
                 S == MapFile \cup FilesOf(stream)
      <4>1. F \in Seq(FilesOf(stream)) /\ G \in Seq(FilesOf(stream)) /\ h \in Seq(MapFile)
        <5>1. to \in 0..Len(stream)
          BY <2>10
        <5>2. h \in Seq(MapFile)
          BY <3>1 DEF Reader
        <5> QED BY <1>3, <2>10, <5>1, <5>2, FilesAre
      <4> HIDE DEF F, G, h
      <4>2. F \in Seq(S) /\ G \in Seq(S) /\ h \in Seq(S)
        <5>1. \A s \in Seq(MapFile) : s \in Seq(S)
          OBVIOUS
        <5>2. \A s \in Seq(FilesOf(stream)) : s \in Seq(S)
          OBVIOUS
        <5> QED BY <4>1, <5>1, <5>2
      <4> HIDE DEF S
      <4>3. IsPrefix(h, F) /\ IsPrefix(F, G)
        BY <3>1, <3>2 DEF F, G, h
      <4>4. IsPrefix(h, G)
        BY <4>2, <4>3, PrefixGrows
      <4> QED BY <4>4 DEF G
    <3>4. FilesIn(stream, next)' = FilesIn(stream, to)
      BY <2>1, <2>2 DEF FilesIn, FileTo, ChunksTo
    <3> QED BY <3>1, <3>3, <3>4 DEF HandedOver, AllWhole
  <2>16. InStep'
    <3>1. next' - Len(fragments') = m
      BY <2>1, <2>9, <2>10
    <3>2. ~failed' => ReaderOK(stream', next' - Len(fragments'), reader') /\ reader'.out = <<>>
      BY <2>1, <2>2, <2>14, <3>1
    <3> QED BY <3>2 DEF InStep
  <2> QED BY <2>5, <2>6, <2>7, <2>12, <2>15, <2>16 DEF StreamInv
<1> QED BY <1>5, <1>6

LEMMA CloseStreamInv == StreamInv /\ CloseStream => StreamInv'
<1> SUFFICES ASSUME StreamInv, CloseStream PROVE StreamInv'
  OBVIOUS
<1>0. Sequenced /\ Counted /\ HandedOver /\ AcknowledgedIsKept
  BY DEF StreamInv
<1>1. /\ closed' = TRUE /\ ahead' = {} /\ fragments' = <<>> /\ stream' = stream /\ sent' = sent
      /\ next' = next /\ messages' = messages /\ failed' = failed /\ acked' = acked
      /\ reader' = [reader EXCEPT !.current = Undefined]
  BY DEF CloseStream, mower
<1>2. reader' \in Reader /\ reader'.handed = reader.handed /\ reader'.failed = reader.failed
  <2>1. reader \in Reader
    BY <1>0 DEF HandedOver
  <2> QED BY <1>1, <2>1 DEF Reader
<1>3. Sequenced'
  <2>1. Cardinality({}) = 0 /\ PendingLimit \in Nat
    BY FS_EmptySet, MapStreamAssumption
  <2> QED BY <1>0, <1>1, <2>1 DEF Sequenced
<1>4. Counted'
  BY <1>0, <1>1, <1>2 DEF Counted
<1>5. HandedOver'
  BY <1>0, <1>1, <1>2 DEF HandedOver
<1> QED BY <1>1, <1>3, <1>4, <1>5 DEF StreamInv, AcknowledgedIsKept, InStep

LEMMA MowerSendsInv == StreamInv /\ MowerSends => StreamInv'
<1> SUFFICES ASSUME StreamInv, MowerSends PROVE StreamInv'
  OBVIOUS
<1>0. Sequenced /\ Counted /\ HandedOver /\ AcknowledgedIsKept /\ InStep /\ (~closed => Gathered)
  BY DEF StreamInv
<1>1. /\ sent < Len(stream) /\ sent' = sent + 1 /\ stream' = stream /\ acked' = acked /\ next' = next
      /\ ahead' = ahead /\ fragments' = fragments /\ messages' = messages /\ reader' = reader
      /\ failed' = failed /\ closed' = closed
  BY DEF MowerSends
<1>2. Sequenced'
  <2>1. sent \in Nat /\ Len(stream) \in Nat /\ sent + 1 \in 0..Len(stream) /\ next \in 0..(sent + 1)
    BY <1>0, <1>1 DEF Sequenced
  <2>2. ahead \subseteq next..((sent + 1) - 1)
    BY <1>0, <2>1 DEF Sequenced
  <2> QED BY <1>0, <1>1, <2>1, <2>2 DEF Sequenced
<1>3. Counted' /\ HandedOver' /\ AcknowledgedIsKept' /\ InStep'
  BY <1>0, <1>1 DEF Counted, HandedOver, AcknowledgedIsKept, InStep
<1>4. ~closed' => Gathered'
  BY <1>0, <1>1 DEF Gathered, CountsDown
<1> QED BY <1>2, <1>3, <1>4 DEF StreamInv

LEMMA StreamInitInv == StreamInit => StreamInv
<1> SUFFICES ASSUME StreamInit PROVE StreamInv
  OBVIOUS
<1>1. /\ stream \in Wires /\ sent = 0 /\ acked = {} /\ next = 0 /\ ahead = {} /\ fragments = <<>>
      /\ messages = 0 /\ reader = NewReader /\ failed = FALSE /\ closed = FALSE
  BY DEF StreamInit
<1>2. stream \in Seq(Segment) /\ Len(stream) \in Nat /\ PendingLimit \in Nat /\ MessageLimit \in Nat
  BY <1>1, MapStreamAssumption
<1>3. Sequenced
  <2>1. Cardinality({}) = 0
    BY FS_EmptySet
  <2> QED BY <1>1, <1>2, <2>1 DEF Sequenced
<1>4. /\ reader \in Reader /\ reader.handed = <<>> /\ reader.out = <<>> /\ reader.current = Undefined
      /\ ~reader.failed
  BY <1>1 DEF NewReader, Reader
<1>5. Counted
  BY <1>1, <1>2, <1>4 DEF Counted
<1>6. FilesIn(stream, 0) = <<>>
  <2>1. 1..0 = {} /\ {e \in 1..0 : EndsFile(stream[e])} = {}
    OBVIOUS
  <2> QED BY <2>1, PickedNone DEF FilesIn
<1>7. AllWhole(<<>>) /\ <<>> \o <<>> = <<>> /\ IsPrefix(<<>>, <<>>)
  BY DEF AllWhole, IsPrefix
<1>8. HandedOver
  BY <1>1, <1>4, <1>6, <1>7 DEF HandedOver
<1>9. AcknowledgedIsKept
  <2>1. 0..(0 - 1) = {}
    OBVIOUS
  <2> QED BY <1>1, <2>1 DEF AcknowledgedIsKept
<1>10. Gathered
  <2>1. /\ fragments \in Seq(Segment) /\ Len(fragments) = 0 /\ 1..0 = {}
        /\ \A i \in 2..Len(fragments) : FALSE
    BY <1>1
  <2> QED BY <1>1, <2>1 DEF Gathered, CountsDown
<1>11. InStep
  <2>1. next - Len(fragments) = 0
    <3>1. Len(<<>>) = 0 /\ 0 - 0 = 0
      OBVIOUS
    <3> QED BY <1>1, <3>1
  <2>2. Open(stream, 0) = {}
    BY OpenMore
  <2>3. Fits(stream, 0, reader)
    BY <1>4, <1>6, <1>7, <2>2 DEF Fits, Holds
  <2>4. ReaderOK(stream, 0, reader)
    BY <1>4, <1>6, <1>7, <2>3 DEF ReaderOK
  <2> QED BY <1>4, <2>1, <2>4 DEF InStep
<1> QED BY <1>3, <1>5, <1>8, <1>9, <1>10, <1>11 DEF StreamInv

LEMMA StreamNextInv == StreamInv /\ [StreamNext]_streamVars => StreamInv'
<1> SUFFICES ASSUME StreamInv, [StreamNext]_streamVars PROVE StreamInv'
  OBVIOUS
<1>1. CASE CloseStream
  BY <1>1, CloseStreamInv
<1>2. CASE MowerSends
  BY <1>2, MowerSendsInv
<1>3. CASE \E sn \in Numbers : Arrives(sn)
  <2>1. PICK sn \in Numbers : Arrives(sn)
    BY <1>3
  <2>2. /\ ~failed /\ ~closed /\ sn \in 0..(sent - 1) /\ ReceiveSegment(sn)
        /\ UNCHANGED <<stream, sent, closed>>
    BY <2>1 DEF Arrives
  <2> QED BY <2>2, ReceiveSegmentInv
<1>4. CASE UNCHANGED streamVars
  <2>1. /\ sent' = sent /\ stream' = stream /\ acked' = acked /\ next' = next
        /\ ahead' = ahead /\ fragments' = fragments /\ messages' = messages /\ reader' = reader
        /\ failed' = failed /\ closed' = closed
    BY <1>4 DEF streamVars, mower
  <2>2. Sequenced' /\ Counted' /\ HandedOver' /\ AcknowledgedIsKept' /\ InStep'
    BY <2>1 DEF StreamInv, Sequenced, Counted, HandedOver, AcknowledgedIsKept, InStep
  <2>3. ~closed' => Gathered'
    BY <2>1 DEF StreamInv, Gathered, CountsDown
  <2> QED BY <2>2, <2>3 DEF StreamInv
<1> QED BY <1>1, <1>2, <1>3, <1>4 DEF StreamNext

LEMMA StreamInvOK == StreamInv => StreamOK
<1> SUFFICES ASSUME StreamInv PROVE StreamOK
  OBVIOUS
<1>0. Sequenced /\ Counted /\ HandedOver /\ AcknowledgedIsKept /\ InStep /\ (~closed => Gathered)
  BY DEF StreamInv
<1>1. StreamType
  <2>1. ~closed => Len(fragments) <= 8
    <3>1. ~closed => Len(fragments) \in Nat /\ Len(fragments) <= 7
      BY <1>0 DEF Gathered
    <3> QED BY <3>1
  <2> QED BY <1>0, <2>1 DEF StreamType, Sequenced, Counted
<1>2. FilesInOrder
  <2>1. ~failed /\ ~closed => reader.handed = FilesIn(stream, next - Len(fragments))
    <3>1. SUFFICES ASSUME ~failed, ~closed
                   PROVE  reader.handed = FilesIn(stream, next - Len(fragments))
      OBVIOUS
    <3>2. ReaderOK(stream, next - Len(fragments), reader) /\ reader.out = <<>> /\ ~reader.failed
      BY <1>0, <3>1 DEF InStep, Counted
    <3>3. reader.handed \o <<>> = FilesIn(stream, next - Len(fragments)) /\ reader.handed \in Seq(MapFile)
      BY <3>2 DEF ReaderOK, Fits, Reader
    <3> QED BY <3>3
  <2>2. \A i \in DOMAIN reader.handed : Whole(reader.handed[i])
    <3>1. reader.handed \in Seq(MapFile)
      BY <1>0 DEF HandedOver, Reader
    <3> QED BY <1>0, <3>1 DEF HandedOver, AllWhole
  <2> QED BY <1>0, <2>1, <2>2 DEF FilesInOrder, HandedOver
<1> QED BY <1>0, <1>1, <1>2 DEF StreamOK

(* The receiver and the file reader, for any segments a mower sends and in  *)
(* whatever order and however often they arrive: what is handed over is the *)
(* whole files of the stream up to the first gap, in their order, and what  *)
(* was acknowledged is kept.                                                *)
THEOREM StreamHolds == StreamSpec => []StreamOK
<1>1. StreamInit => StreamInv
  BY StreamInitInv
<1>2. StreamInv /\ [StreamNext]_streamVars => StreamInv'
  BY StreamNextInv
<1>3. StreamInv => StreamOK
  BY StreamInvOK
<1> QED BY <1>1, <1>2, <1>3, PTL DEF StreamSpec
=============================================================================
