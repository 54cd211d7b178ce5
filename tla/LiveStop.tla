------------------------------ MODULE LiveStop ------------------------------
(***************************************************************************)
(* Starting and stopping the live streams of one camera on the primary     *)
(* session: openLive, confirmStop, stopLive, finishLive and the session    *)
(* handlers of src/device-transport.ts, over the command queue, the stream *)
(* timers and the disconnect of the vendored P2P session.                  *)
(*                                                                         *)
(* DeviceTransport takes a START and a STOP as one request with an outcome.*)
(* Here they are messages.  The session sends one message at a time and    *)
(* waits for its datagram acknowledgement; the device executes messages in *)
(* the order it received them; its results name the message they answer    *)
(* and may come late, in any order or never.  What the transport sees of a *)
(* STOP result is only its channel.                                        *)
(*                                                                         *)
(* An action is a callback with its continuations, as in DeviceTransport.  *)
(* Left out: messages that wait 120 s in the queue, results that ask for a *)
(* repetition (ERROR_FAILED_TO_REQUEST), streams of other channels.        *)
(***************************************************************************)
EXTENDS Naturals, FiniteSets, SequencesExt

CONSTANTS
    MaxAttempts,    \* bound on live starts
    MaxQueries      \* bound on other commands sent on the session

ASSUME AttemptsAssumption == MaxAttempts \in Nat \ {0}
ASSUME QueriesAssumption == MaxQueries \in Nat

VARIABLES
    link,       \* "up", "ending" while END is being sent, or "down"
    queue,      \* sendQueue
    wire,       \* messageStates in the order they were sent
    asked,      \* other commands so far
    camera,     \* the attempt whose START the camera executes, 0 if none
    stream,     \* the session's VIDEO stream
    attempt,    \* the last live start
    pc,         \* where that start, or its stream, is
    live,       \* the fields of its ActiveLive
    outcome,    \* the 'live-stop' report of each attempt
    acks        \* STOP results with return code 0 so far

network == <<link, asked>>
messages == <<queue, wire>>
owner == <<attempt, pc, live, outcome>>
vars == <<network, messages, camera, stream, owner, acks>>

Attempt == 1 .. MaxAttempts

(* Where the attempt is.                                                   *)
(*   wait      START is issued, awaiting 'livestream start'                *)
(*   live      the handle is with the caller                               *)
(*   confirm   the start failed, awaiting a STOP result                    *)
(*   close     no STOP result, awaiting station.close()                    *)
Pc == {"free", "wait", "live", "confirm", "close"}

Start(n) == [cmd |-> "start", n |-> n]
Stop(n) == [cmd |-> "stop", n |-> n]
Query == [cmd |-> "query", n |-> 0]
Command == {Start(n) : n \in Attempt} \cup {Stop(n) : n \in Attempt} \cup {Query}

(* `effect`: the continuation after the first send has run.  `dev`: what   *)
(* the device did with it.                                                 *)
Sent(c) == [c |-> c, effect |-> FALSE, ack |-> FALSE, dev |-> "none"]
Message == [c : Command, effect : BOOLEAN, ack : BOOLEAN,
            dev : {"none", "ok", "refused"}]

NoStream == [n |-> 0, answered |-> FALSE, started |-> FALSE, invalid |-> FALSE]
On == stream # NoStream
NoLive == [acknowledged |-> FALSE, stopped |-> FALSE, stop |-> FALSE]

Init ==
    /\ link = "up"
    /\ queue = <<>>
    /\ wire = <<>>
    /\ asked = 0
    /\ camera = 0
    /\ stream = NoStream
    /\ attempt = 0
    /\ pc = "free"
    /\ live = NoLive
    /\ outcome = [n \in Attempt |-> "none"]
    /\ acks = 0

-----------------------------------------------------------------------------
(* Steps that the handlers share.                                          *)

(* sendQueuedMessage: the head of the queue goes out when no message waits *)
(* for its acknowledgement.                                                *)
Pump(q, w, l) ==
    IF l # "down" /\ q # <<>> /\ \A i \in DOMAIN w : w[i].ack
    THEN queue' = Tail(q) /\ wire' = Append(w, Sent(Head(q)))
    ELSE queue' = q /\ wire' = w

Push(c) == Pump(Append(queue, c), wire, link)

(* station.close() up to its first await: the queue is emptied, and END is *)
(* on its way if there is a link.                                          *)
Shut ==
    /\ link' = IF link = "up" THEN "ending" ELSE link
    /\ queue' = <<>>
    /\ UNCHANGED asked

Reported(r) == outcome' = [outcome EXCEPT ![attempt] = r]

(* finishLive, and openLive's end after a confirmed cleanup.               *)
Finish(r) ==
    /\ Reported(r)
    /\ pc' = "free"
    /\ live' = NoLive
    /\ UNCHANGED attempt

(* Mutant: the session is closed without waiting for it.                   *)
CleanupFailsFreeing ==
    /\ Reported("unconfirmed")
    /\ pc' = "free"
    /\ UNCHANGED <<attempt, live>>

(* openLive when its cleanup failed: the report, then station.close().     *)
CleanupFails ==
    /\ Reported("unconfirmed")
    /\ pc' = "close"
    /\ UNCHANGED <<attempt, live>>

(* Mutant: the local end of the stream is taken for the device's answer.   *)
LocalStopConfirms ==
    IF pc = "live" THEN Finish("confirmed") ELSE UNCHANGED owner

(* The transport's 'livestream stop' handler.                              *)
LocalStop ==
    CASE pc = "live" /\ live.acknowledged -> Finish("confirmed")
      [] pc = "live" /\ ~live.acknowledged ->
            /\ live' = [live EXCEPT !.stopped = TRUE]
            /\ UNCHANGED <<attempt, pc, outcome>>
      [] OTHER -> UNCHANGED owner

(* endStream(VIDEO) on a stream that is on.                                *)
EndStream ==
    /\ stream' = NoStream
    /\ IF stream.started /\ ~stream.invalid THEN LocalStop ELSE UNCHANGED owner

(* The transport's handlers of a STOP result with return code 0.           *)
StopConfirmed ==
    CASE pc = "confirm" \/ (pc = "live" /\ live.stopped) -> Finish("confirmed")
      [] pc = "live" /\ ~live.stopped ->
            /\ live' = [live EXCEPT !.acknowledged = TRUE]
            /\ UNCHANGED <<attempt, pc, outcome>>
      [] OTHER -> UNCHANGED owner

(* The same for another return code, ERROR_COMMAND_TIMEOUT included.       *)
StopFailed(w) ==
    CASE pc = "live" -> Finish("unconfirmed") /\ Shut /\ wire' = w
      [] pc = "confirm" -> CleanupFails /\ Shut /\ wire' = w
      [] OTHER -> Pump(queue, w, link) /\ UNCHANGED <<owner, network>>

-----------------------------------------------------------------------------
(* The transport.                                                          *)

(* openLive on a session that is connected.  startLivestream throws while  *)
(* the session still streams; the failed start is cleaned up all the same. *)
StartLive ==
    /\ pc = "free"
    /\ attempt < MaxAttempts
    /\ link # "down"
    /\ attempt' = attempt + 1
    /\ IF On
       THEN pc' = "confirm" /\ Push(Stop(attempt'))
       ELSE pc' = "wait" /\ Push(Start(attempt'))
    /\ UNCHANGED <<network, camera, stream, live, outcome, acks>>

(* The caller cancels, or 20 s pass without 'livestream start'.            *)
StartFails ==
    /\ pc = "wait"
    /\ pc' = "confirm"
    /\ Push(Stop(attempt))
    /\ UNCHANGED <<network, camera, stream, attempt, live, outcome, acks>>

(* confirmStop's 8 s timeout.                                              *)
ConfirmTimeout ==
    /\ pc = "confirm"
    /\ CleanupFails
    /\ Shut
    /\ UNCHANGED <<wire, camera, stream, acks>>

Released ==
    /\ pc = "close"
    /\ link # "ending"
    /\ pc' = "free"
    /\ UNCHANGED <<network, messages, camera, stream, attempt, live, outcome, acks>>

(* stopLive: by the caller, an abort, a stream error or the live bound.    *)
(* stopLivestream throws on a stream that is off; stopLive then closes.    *)
StopLive ==
    /\ pc = "live"
    /\ ~live.stop
    /\ live' = [live EXCEPT !.stop = TRUE]
    /\ IF On
       THEN Push(Stop(attempt)) /\ UNCHANGED network
       ELSE Shut /\ UNCHANGED wire
    /\ UNCHANGED <<camera, stream, attempt, pc, outcome, acks>>

(* Mutant: the local end of the stream clears the timer.                   *)
StopTimeoutUnlessStopped ==
    /\ pc = "live"
    /\ live.stop /\ ~live.stopped
    /\ Finish("unconfirmed")
    /\ Shut
    /\ UNCHANGED <<wire, camera, stream, acks>>

(* stopLive's 8 s timeout.                                                 *)
StopTimeout ==
    /\ pc = "live"
    /\ live.stop
    /\ Finish("unconfirmed")
    /\ Shut
    /\ UNCHANGED <<wire, camera, stream, acks>>

(* Any other command on the session; it only takes its place in the queue. *)
Ask ==
    /\ asked < MaxQueries
    /\ link = "up"
    /\ asked' = asked + 1
    /\ Push(Query)
    /\ UNCHANGED <<link, camera, stream, owner, acks>>

-----------------------------------------------------------------------------
(* The session.                                                            *)

Without(i) == RemoveAt(wire, i)

(* _sendCommand after its first send: START turns the stream on (or renews *)
(* its start timer), STOP ends it.                                         *)
SendEffect(i) ==
    /\ ~wire[i].effect
    /\ wire' = [wire EXCEPT ![i].effect = TRUE]
    /\ CASE wire[i].c.cmd = "start" ->
              /\ stream' = IF On THEN [stream EXCEPT !.answered = FALSE]
                           ELSE [NoStream EXCEPT !.n = wire[i].c.n]
              /\ UNCHANGED owner
         [] wire[i].c.cmd = "stop" /\ On -> EndStream
         [] OTHER -> UNCHANGED <<stream, owner>>
    /\ UNCHANGED <<network, queue, camera, acks>>

Ack(i) ==
    /\ wire[i].effect /\ ~wire[i].ack
    /\ Pump(queue, [wire EXCEPT ![i].ack = TRUE], link)
    /\ UNCHANGED <<network, camera, stream, owner, acks>>

(* A result of the device.  Any result of START arms the stall timer.      *)
Result(i) ==
    /\ wire[i].dev # "none"
    /\ IF wire[i].c.cmd = "stop"
       THEN /\ UNCHANGED stream
            /\ IF wire[i].dev = "ok"
               THEN /\ acks' = acks + 1
                    /\ StopConfirmed
                    /\ Pump(queue, Without(i), link)
                    /\ UNCHANGED network
               ELSE StopFailed(Without(i)) /\ UNCHANGED acks
       ELSE /\ stream' = IF wire[i].c.cmd = "start" /\ On
                         THEN [stream EXCEPT !.answered = TRUE] ELSE stream
            /\ Pump(queue, Without(i), link)
            /\ UNCHANGED <<network, owner, acks>>
    /\ UNCHANGED camera

(* 30 s without a result, or ten repetitions without an acknowledgement;   *)
(* a START that was never acknowledged also ends the stream.               *)
NoResult(i) ==
    /\ link = "up"
    /\ wire[i].effect
    /\ wire[i].ack \/ wire[i].dev = "none"
    /\ IF wire[i].c.cmd = "stop"
       THEN /\ StopFailed(Without(i))
            /\ UNCHANGED stream
       ELSE /\ IF wire[i].c.cmd = "start" /\ ~wire[i].ack /\ On
               THEN EndStream ELSE UNCHANGED <<stream, owner>>
            /\ Pump(queue, Without(i), link)
            /\ UNCHANGED network
    /\ UNCHANGED <<camera, acks>>

(* Video arrives.  The first frame makes the stream start.                 *)
Data ==
    /\ link # "down"
    /\ camera # 0
    /\ On /\ ~stream.invalid
    /\ stream' = [stream EXCEPT !.started = TRUE, !.answered = TRUE]
    /\ pc' = IF pc = "wait" /\ ~stream.started THEN "live" ELSE pc
    /\ UNCHANGED <<network, messages, camera, attempt, live, outcome, acks>>

(* Mutant: the transport does not listen to 'livestream error'.            *)
InvalidUnheard ==
    /\ link # "down"
    /\ camera # 0
    /\ On /\ ~stream.invalid
    /\ stream' = [stream EXCEPT !.invalid = TRUE, !.answered = TRUE]
    /\ UNCHANGED <<network, messages, camera, owner, acks>>

(* A frame whose key cannot be decrypted: 'livestream error'.              *)
Invalid ==
    /\ link # "down"
    /\ camera # 0
    /\ On /\ ~stream.invalid
    /\ stream' = [stream EXCEPT !.invalid = TRUE, !.answered = TRUE]
    /\ IF pc = "live" THEN Finish("unconfirmed") ELSE UNCHANGED owner
    /\ UNCHANGED <<network, messages, camera, acks>>

(* The stall timer: 5 s after START's result or the last frame (or 20 s in *)
(* a gap of the sequence) the session stops the stream itself, before any  *)
(* of them it only gives the stream up after 20 s.                         *)
Stall ==
    /\ On
    /\ EndStream
    /\ \/ /\ stream.answered \/ camera # 0
          /\ Push(Stop(stream.n))
       \/ /\ ~stream.answered
          /\ UNCHANGED messages
    /\ UNCHANGED <<network, camera, acks>>

(* _disconnected on a connected session: the stream ends first, then       *)
(* 'close' ends the live, fails the start or its cleanup.                  *)
Disconnect ==
    /\ link' = "down"
    /\ wire' = <<>>
    /\ stream' = NoStream
    /\ camera' = 0
    /\ CASE pc = "live" ->
              /\ Finish(IF On /\ stream.started /\ ~stream.invalid /\ live.acknowledged
                        THEN "confirmed" ELSE "unconfirmed")
              /\ UNCHANGED queue
         [] pc = "wait" ->
              /\ pc' = "confirm"
              /\ queue' = Append(queue, Stop(attempt))
              /\ UNCHANGED <<attempt, live, outcome>>
         [] pc = "confirm" -> CleanupFails /\ queue' = <<>>
         [] OTHER -> UNCHANGED <<owner, queue>>
    /\ UNCHANGED <<asked, acks>>

Lost == link = "up" /\ Disconnect
EndSent == link = "ending" /\ Disconnect

(* A dial succeeds, for a connect() or for the messages in the queue.      *)
LinkUp ==
    /\ link = "down"
    /\ link' = "up"
    /\ Pump(queue, wire, "up")
    /\ UNCHANGED <<asked, camera, stream, owner, acks>>

-----------------------------------------------------------------------------
(* The device executes messages in the order it received them, or answers  *)
(* that it will not.                                                       *)
Execute(i) ==
    /\ wire[i].effect
    /\ wire[i].dev = "none"
    /\ \A j \in 1 .. i - 1 : wire[j].dev # "none"
    /\ \E answer \in {"ok", "refused"} :
          /\ wire' = [wire EXCEPT ![i].dev = answer]
          /\ camera' = CASE answer = "refused" \/ wire[i].c.cmd = "query" -> camera
                         [] answer = "ok" /\ wire[i].c.cmd = "start" -> wire[i].c.n
                         [] answer = "ok" /\ wire[i].c.cmd = "stop" -> 0
    /\ UNCHANGED <<network, queue, stream, owner, acks>>

OnWire ==
    \E i \in DOMAIN wire : SendEffect(i) \/ Ack(i) \/ Result(i) \/ NoResult(i) \/ Execute(i)

Next ==
    \/ StartLive \/ StartFails \/ ConfirmTimeout \/ Released
    \/ StopLive \/ StopTimeout \/ Ask
    \/ OnWire
    \/ Data \/ Invalid \/ Stall
    \/ Lost \/ EndSent \/ LinkUp

(* Timers fire, and the session's close finishes.  Nothing is assumed of   *)
(* the camera, the network or the caller.                                  *)
Fairness ==
    /\ WF_vars(StartFails)
    /\ WF_vars(ConfirmTimeout)
    /\ WF_vars(StopLive)
    /\ WF_vars(StopTimeout)
    /\ WF_vars(EndSent)
    /\ WF_vars(Released)

Spec == Init /\ [][Next]_vars /\ Fairness

-----------------------------------------------------------------------------
TypeOK ==
    /\ link \in {"up", "ending", "down"}
    /\ queue \in Seq(Command)
    /\ wire \in Seq(Message)
    /\ asked \in 0 .. MaxQueries
    /\ camera \in {0} \cup Attempt
    /\ stream \in [n : {0} \cup Attempt, answered : BOOLEAN, started : BOOLEAN,
                   invalid : BOOLEAN]
    /\ attempt \in {0} \cup Attempt
    /\ pc \in Pc
    /\ live \in [acknowledged : BOOLEAN, stopped : BOOLEAN, stop : BOOLEAN]
    /\ outcome \in [Attempt -> {"none", "confirmed", "unconfirmed"}]
    /\ acks \in Nat

(* A live stream whose session has not ended it is a stream the session    *)
(* is receiving and can decrypt: no consumer holds a handle that nothing   *)
(* will ever feed and that only a timer would end.                         *)
LiveHasStream ==
    pc = "live" /\ ~live.stopped => stream.started /\ ~stream.invalid

(* While a failed start waits for a STOP result its own STOP is queued or  *)
(* sent, whatever became of its START: openLive "still owns device         *)
(* cleanup".  The connection attempts of other calls, which can take the   *)
(* session away, are DeviceTransport's.                                    *)
CleanupHasStop ==
    pc = "confirm" =>
        \/ \E i \in DOMAIN queue : queue[i] = Stop(attempt)
        \/ \E i \in DOMAIN wire : wire[i].c = Stop(attempt)

(* Each phase of an attempt (openLive, stopLive) has what it rests on.     *)
StreamOwned == TypeOK /\ LiveHasStream /\ CleanupHasStop

Confirmed == {n \in Attempt : outcome[n] = "confirmed"}

(* Every `confirmed: true` uses up a device acknowledgement of its own: no *)
(* local end of a stream, loss, timeout or refusal is reported as one, and *)
(* one acknowledgement never confirms two streams.                         *)
AcknowledgementsCover == Cardinality(Confirmed) <= acks

(* docs/API.md:404 "`confirmed: true` requires the device's STOP           *)
(* acknowledgement": the stream reported as stopped does not run on.       *)
ConfirmedMeansStopped ==
    \A n \in Attempt : link = "up" /\ outcome[n] = "confirmed" => camera # n

(* Every start and every stream ends, with no help from the device, the    *)
(* network or the caller, and the camera is free again.                    *)
AttemptsEnd == pc # "free" ~> pc = "free"

Stage ==
    CASE pc = "free" -> "none"
      [] pc = "wait" -> "starting"
      [] pc = "live" -> "live"
      [] pc = "confirm" -> "cleaning"
      [] pc = "close" -> "closing"

Promise == INSTANCE LiveHandle WITH begun <- attempt, stage <- Stage, report <- outcome

(* The transport implements LiveHandle: one attempt at a time, each one    *)
(* reported exactly once before the next begins, whatever the session and  *)
(* its late results do.                                                    *)
Handle == Promise!Spec
=============================================================================
