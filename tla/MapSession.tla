------------------------------ MODULE MapSession ------------------------------
(* A map acquisition of one mower (src/src/mowers/maps/acquisition.ts), the
   lifetime that owns its sockets and timers (lifetime.ts, socket.ts) and the
   session it runs (session.ts, mqtt.ts): the negotiation over MQTT and the
   carrier, then version, album, download and cancel over one connection. The
   mower is external: it answers in order, sends files before or after it accepts
   a download, may end the stream or fall silent, and stops when it reads the
   cancel.

   Not here: the encodings, the keys, the matching of answers to this session's
   own identifiers, the heartbeat, and the bytes behind a file (module MapData). *)
EXTENDS Naturals, Sequences, FiniteSets

CONSTANTS
    Files,          \* the map files of a snapshot
    None,
    MaxDemands,     \* bound: acquire() calls
    MaxSends,       \* bound: files the mower sends in a session
    MaxDrops        \* bound: sockets lost

Steps == <<"mqtt", "subscribe", "answer", "socket", "challenge", "complete">>
Negotiating == {Steps[i] : i \in DOMAIN Steps}
Stages == {"version", "album", "download", "cancel"}
Stops == {"demand_expired", "aborted", "disconnected", "shutdown", "negotiation_timeout",
          "stream_ended"}
Failures == {"protocol_error", "connection_failed", "cancel_unconfirmed"}

(* What a demand is, and what its acquire() resolves with. *)
Demands == [at : {"start", "closing"} \cup Negotiating \cup Stages, reason : Stops \cup {"none"},
            hard : BOOLEAN, failure : Failures \cup {"none"}, confirmed : BOOLEAN,
            requested : BOOLEAN, accepted : BOOLEAN, staged : SUBSET Files, files : SUBSET Files]
Results == [reason : Stops \cup Failures \cup {"cleanup_unconfirmed"},
            confirmed : BOOLEAN, requested : BOOLEAN]
Answers == {"version", "album", "accepted", "cancelled", "terminal"}

ASSUME MapSessionAssumption ==
    /\ IsFiniteSet(Files) /\ Files # {} /\ Files \cap Answers = {}
    /\ None \notin Demands \cup Results
    /\ {MaxDemands, MaxSends, MaxDrops} \subseteq Nat

VARIABLES
    inputs,     \* does the acquisition still have its provisioning
    shutdown,   \* its shutdown(): "no", "waiting", "done" or "failed"
    revision,   \* the last snapshot's revision
    d,          \* the active demand, or None
    pending,    \* does a step of the negotiation go on behind the demand
    sockets,    \* the state of each socket of the demand
    requests,   \* what the mower has not read yet
    replies,    \* what the mower has sent and the session has not read
    task,       \* mower: what it does with the session's download
    result,     \* of the last demand, or None
    spent       \* how much of the bounds is used
wire == <<requests, replies, task>>
vars == <<inputs, shutdown, revision, d, pending, sockets, wire, result, spent>>

NewDemand ==
    [at |-> "start", reason |-> "none", hard |-> FALSE, failure |-> "none", confirmed |-> FALSE,
     requested |-> FALSE, accepted |-> FALSE, staged |-> {}, files |-> {}]
NoSockets == [mqtt |-> "none", io |-> "none"]

Init ==
    /\ inputs = TRUE /\ shutdown = "no" /\ revision = 0
    /\ d = None /\ pending = FALSE /\ sockets = NoSockets
    /\ requests = <<>> /\ replies = <<>> /\ task = [state |-> "idle", sends |-> 0]
    /\ result = None /\ spent = [demands |-> 0, drops |-> 0]

Active == d # None
At(places) == IF Active THEN d.at \in places ELSE FALSE
Running == At({"start"} \cup Negotiating \cup Stages)
StoppedFor(why) == IF d.reason = "none" THEN [d EXCEPT !.reason = why] ELSE d

(******************************** acquisition ********************************)

Acquire ==
    /\ inputs /\ shutdown = "no" /\ ~Active /\ spent.demands < MaxDemands
    /\ d' = NewDemand
    /\ pending' = FALSE /\ sockets' = NoSockets
    /\ requests' = <<>> /\ replies' = <<>> /\ task' = [state |-> "idle", sends |-> 0]
    /\ result' = None
    /\ spent' = [spent EXCEPT !.demands = @ + 1]
    /\ UNCHANGED <<inputs, shutdown, revision>>

(* A soft stop: the caller's signal, disconnect(), and the timers of the demand
   and of the negotiation. The first reason stays. *)
Stop(why) ==
    /\ Active
    /\ why \in {"demand_expired", "negotiation_timeout"} => Running
    /\ why = "negotiation_timeout" => d.at \in Negotiating \cup {"version"}
    /\ d.reason = "none" /\ d' = StoppedFor(why)
    /\ UNCHANGED <<inputs, shutdown, revision, pending, sockets, wire, result, spent>>

Shutdown ==
    /\ shutdown = "no"
    /\ inputs' = FALSE
    /\ shutdown' = IF Active THEN "waiting" ELSE "done"
    /\ d' = IF Active THEN StoppedFor("shutdown") ELSE d
    /\ UNCHANGED <<revision, pending, sockets, wire, result, spent>>

PublishAlways(demand, files) ==
    LET all == demand.files \cup files
    IN  /\ d' = [demand EXCEPT !.files = all]
        /\ revision' = IF files # {} /\ all = Files THEN revision + 1 ELSE revision
(* publish: whole files of a running demand; with the last missing one, and with
   every later one, a snapshot. *)
Publish(demand, files) ==
    LET all == demand.files \cup files
    IN  IF demand.reason # "none" \/ demand.hard THEN d' = demand /\ UNCHANGED revision
        ELSE /\ d' = [demand EXCEPT !.files = all]
             /\ revision' = IF files # {} /\ all = Files THEN revision + 1 ELSE revision

(* The session throws. After a stop, only the session's own answer to it counts
   as a clean end; anything else leaves the cancel unconfirmed. Then close():
   every socket is destroyed. *)
Failure(why) ==
    IF d.hard \/ (d.reason # "none" /\ why # "session_stopped") THEN "cancel_unconfirmed"
    ELSE IF d.reason = "none" THEN why ELSE "none"
Destroyed == [s \in DOMAIN sockets |-> IF sockets[s] = "open" THEN "destroyed" ELSE sockets[s]]
Close(demand) ==
    /\ d' = [demand EXCEPT !.at = "closing", !.hard = TRUE, !.staged = {}]
    /\ sockets' = Destroyed
Throw(why) == Close([d EXCEPT !.failure = Failure(why)])

(* close() has closed everything, also the step that was left behind, or gives
   up after its timer; an acquisition that does not know what its session left
   behind takes no further demand. *)
Cleaned == ~pending /\ \A s \in DOMAIN sockets : sockets[s] \in {"none", "closed"}
End(clean) ==
    /\ d' = None
    /\ result' = [reason |-> IF ~clean THEN "cleanup_unconfirmed"
                             ELSE IF d.failure # "none" THEN d.failure
                             ELSE IF d.reason # "none" THEN d.reason ELSE "protocol_error",
                  confirmed |-> d.confirmed, requested |-> d.requested]
    /\ shutdown' = IF shutdown = "waiting" THEN IF clean THEN "done" ELSE "failed" ELSE shutdown
    /\ UNCHANGED <<revision, pending, sockets, wire, spent>>
EndKeepingInputs(clean) ==
    /\ At({"closing"}) /\ (clean => Cleaned)
    /\ End(clean) /\ UNCHANGED inputs
Ends(clean) ==
    /\ At({"closing"}) /\ (clean => Cleaned)
    /\ End(clean)
    /\ inputs' = (inputs /\ clean /\ d.failure # "cancel_unconfirmed")

(******************************** negotiation ********************************)

(* The demand runs its session, unless it was stopped before. *)
Start ==
    /\ At({"start"})
    /\ IF d.reason = "none"
       THEN /\ d' = [d EXCEPT !.at = "mqtt"]
            /\ sockets' = [sockets EXCEPT !.mqtt = "open"]
       ELSE Close(d)
    /\ UNCHANGED <<inputs, shutdown, revision, pending, wire, result, spent>>

(* A step ends and the next one is begun; the last one is followed by the
   version request. *)
StepDone ==
    /\ At(Negotiating)
    /\ d.at \in {"mqtt", "subscribe", "answer"} => sockets.mqtt = "open"
    /\ d.at \in {"socket", "challenge", "complete"} => sockets.io = "open"
    /\ LET i == CHOOSE k \in DOMAIN Steps : Steps[k] = d.at
       IN  IF i < Len(Steps)
           THEN /\ d' = [d EXCEPT !.at = Steps[i + 1]]
                /\ sockets' = IF Steps[i + 1] = "socket" THEN [sockets EXCEPT !.io = "open"] ELSE sockets
                /\ UNCHANGED requests
           ELSE /\ d' = [d EXCEPT !.at = "version"]
                /\ requests' = Append(requests, "version")
                /\ UNCHANGED sockets
    /\ UNCHANGED <<inputs, shutdown, revision, pending, replies, task, result, spent>>
(* The step fails, its answer does not match, or its socket is lost. *)
StepFails ==
    /\ At(Negotiating)
    /\ \E why \in {"protocol_error", "connection_failed"} : Throw(why)
    /\ UNCHANGED <<inputs, shutdown, revision, pending, wire, result, spent>>
(* A stop ends the wait for a step, which itself goes on. *)
StepStopped ==
    /\ At(Negotiating) /\ d.reason # "none"
    /\ Throw("session_stopped") /\ pending' = TRUE
    /\ UNCHANGED <<inputs, shutdown, revision, wire, result, spent>>
PendingSettles ==
    /\ pending /\ pending' = FALSE
    /\ UNCHANGED <<inputs, shutdown, revision, d, sockets, wire, result, spent>>

(********************************** session **********************************)

(* The loop sees the stop: a requested download is cancelled, with 5 s for the
   answer; anything earlier ends. A write on a lost socket fails. *)
StopSeenUncancelled ==
    /\ At({"version", "album", "download"}) /\ d.reason # "none"
    /\ Throw("session_stopped") /\ UNCHANGED <<requests>>
    /\ UNCHANGED <<inputs, shutdown, revision, pending, replies, task, result, spent>>
StopSeen ==
    /\ At({"version", "album", "download"}) /\ d.reason # "none"
    /\ IF d.at # "download" THEN Throw("session_stopped") /\ UNCHANGED requests
       ELSE IF sockets.io # "open" THEN Throw("connection_failed") /\ UNCHANGED requests
       ELSE /\ d' = [d EXCEPT !.at = "cancel"]
            /\ requests' = Append(requests, "cancel")
            /\ UNCHANGED sockets
    /\ UNCHANGED <<inputs, shutdown, revision, pending, replies, task, result, spent>>
CancelExpiresSoftly ==
    /\ At({"cancel"}) /\ ~d.hard
    /\ d' = [d EXCEPT !.hard = TRUE]
    /\ UNCHANGED <<inputs, shutdown, revision, pending, sockets, wire, result, spent>>
CancelExpires ==
    /\ At({"cancel"}) /\ ~d.hard
    /\ d' = [d EXCEPT !.hard = TRUE] /\ sockets' = Destroyed
    /\ UNCHANGED <<inputs, shutdown, revision, pending, wire, result, spent>>
(* The read fails once the socket is closed, or something breaks the protocol. *)
ReadFails ==
    /\ At(Stages)
    /\ IF sockets.io = "closed" THEN Throw("connection_failed") ELSE Throw("protocol_error")
    /\ UNCHANGED <<inputs, shutdown, revision, pending, wire, result, spent>>

Step(demand, request) ==
    /\ d' = demand /\ requests' = Append(requests, request)
    /\ UNCHANGED <<sockets, revision>>
Silently == UNCHANGED <<sockets, requests>>

(* A command of the mower. *)
Command(m) ==
    \/ /\ m = "version" /\ d.at = "version"
       /\ IF d.reason # "none" THEN Throw("session_stopped") /\ UNCHANGED <<requests, revision>>
          ELSE Step([d EXCEPT !.at = "album"], "album")
    \/ /\ m = "album" /\ d.at = "album"
       /\ IF d.reason # "none" THEN Throw("session_stopped") /\ UNCHANGED <<requests, revision>>
          ELSE Step([d EXCEPT !.at = "download", !.requested = TRUE], "download")
    \/ /\ m = "accepted" /\ d.at \in {"download", "cancel"} /\ ~d.accepted
       /\ Publish([d EXCEPT !.accepted = TRUE, !.staged = {}], d.staged) /\ Silently
    \/ /\ m = "cancelled" /\ d.at = "cancel"
       /\ Close([d EXCEPT !.confirmed = TRUE]) /\ UNCHANGED <<requests, revision>>
(* A whole file, kept until the download is accepted, or the end of the stream,
   which stops the demand. After a stop neither is looked at. *)
File(m) ==
    /\ d.at \in {"download", "cancel"}
    /\ IF d.reason # "none" \/ d.at = "cancel" THEN UNCHANGED <<d, revision>>
       ELSE IF m = "terminal" THEN d' = StoppedFor("stream_ended") /\ UNCHANGED revision
       ELSE IF d.accepted THEN Publish(d, {m})
       ELSE d' = [d EXCEPT !.staged = @ \cup {m}] /\ UNCHANGED revision
    /\ Silently
Expected(m) ==
    \/ m \in Files \cup {"terminal"} /\ d.at \in {"download", "cancel"}
    \/ m = d.at /\ m \in {"version", "album"}
    \/ m = "accepted" /\ d.at \in {"download", "cancel"} /\ ~d.accepted
    \/ m = "cancelled" /\ d.at = "cancel"
Receive ==
    /\ At(Stages) /\ replies # <<>> /\ sockets.io = "open"
    /\ replies' = Tail(replies)
    /\ LET m == Head(replies)
       IN  \/ m \in Files \cup {"terminal"} /\ File(m)
           \/ m \notin Files \cup {"terminal"} /\ Command(m)
           \/ ~Expected(m) /\ Throw("protocol_error") /\ UNCHANGED <<requests, revision>>
    /\ UNCHANGED <<inputs, shutdown, pending, task, result, spent>>

(***************************** sockets and mower *****************************)

SocketCloses(s) ==
    /\ sockets[s] = "destroyed"
    /\ sockets' = [sockets EXCEPT ![s] = "closed"]
    /\ UNCHANGED <<inputs, shutdown, revision, d, pending, wire, result, spent>>
SocketDrops(s) ==
    /\ sockets[s] = "open" /\ spent.drops < MaxDrops
    /\ sockets' = [sockets EXCEPT ![s] = "closed"]
    /\ spent' = [spent EXCEPT !.drops = @ + 1]
    /\ UNCHANGED <<inputs, shutdown, revision, d, pending, wire, result>>

Mower(next, sent) ==
    /\ task' = next /\ replies' = replies \o sent
    /\ UNCHANGED <<inputs, shutdown, revision, d, pending, sockets, result, spent>>
Reads ==
    /\ requests # <<>> /\ sockets.io = "open"
    /\ requests' = Tail(requests)
    /\ LET r == Head(requests)
       IN  CASE r = "download" ->
                    Mower([task EXCEPT !.state = "sending"], <<>>)
             [] r = "cancel" ->
                    Mower([task EXCEPT !.state = "stopped"],
                          (IF task.state = "sending" THEN <<"accepted">> ELSE <<>>) \o <<"cancelled">>)
             [] OTHER -> Mower(task, <<r>>)
Accepts ==
    /\ task.state = "sending" /\ sockets.io = "open"
    /\ Mower([task EXCEPT !.state = "accepted"], <<"accepted">>) /\ UNCHANGED requests
Sends(f) ==
    /\ task.state \in {"sending", "accepted"} /\ sockets.io = "open" /\ task.sends < MaxSends
    /\ Mower([task EXCEPT !.sends = @ + 1], <<f>>) /\ UNCHANGED requests
EndsStream ==
    /\ task.state = "accepted" /\ sockets.io = "open"
    /\ Mower([task EXCEPT !.state = "ended"], <<"terminal">>) /\ UNCHANGED requests

Next ==
    \/ Acquire \/ Shutdown \/ \E why \in Stops \ {"shutdown", "stream_ended"} : Stop(why)
    \/ Start \/ StepDone \/ StepFails \/ StepStopped \/ PendingSettles
    \/ StopSeen \/ CancelExpires \/ ReadFails \/ Receive
    \/ \E clean \in BOOLEAN : Ends(clean)
    \/ \E s \in {"mqtt", "io"} : SocketCloses(s)
    \/ \E s \in {"mqtt", "io"} : SocketDrops(s)
    \/ Reads \/ Accepts \/ EndsStream \/ \E f \in Files : Sends(f)

(* Fairness: the session goes on, its own timers fire, and a destroyed socket is
   closed. Neither the peers nor the caller need do anything. *)
Fairness ==
    /\ WF_vars(Start) /\ WF_vars(StepStopped) /\ WF_vars(StopSeen)
    /\ WF_vars(\E why \in {"demand_expired"} : Stop(why))
    /\ WF_vars(CancelExpires) /\ WF_vars(At(Stages) /\ sockets.io = "closed" /\ ReadFails)
    /\ WF_vars(\E clean \in BOOLEAN : Ends(clean))
    /\ \A s \in {"mqtt", "io"} : WF_vars(SocketCloses(s))
Spec == Init /\ [][Next]_vars /\ Fairness

-------------------------------------------------------------------------------

Ended == result # None

(* A demand is at one place, and what it holds fits it. *)
TypeOK ==
    /\ Active => /\ d \in Demands
                 /\ d.accepted => d.requested /\ d.staged = {}
                 /\ d.at \in {"download", "cancel"} => d.requested
                 /\ d.at = "cancel" => d.reason # "none"
    /\ ~Active => shutdown # "waiting"
    /\ inputs => shutdown = "no"

(* A snapshot is published only while its demand runs and after the mower has
   accepted the download, although files arrive before that, while the stop is on
   its way to the mower and after it. *)
PublishedInDemand ==
    [][revision' # revision => d.reason = "none" /\ d'.accepted /\ d'.reason = "none"]_vars

(* A demand that ends as it was asked to, after it requested a download, has
   stopped the mower's task: its reason is never a plain stop while the mower may
   still be sending. *)
EndsCancelled ==
    Ended => (result.reason \in Stops /\ result.requested
                => result.confirmed /\ task.state \in {"stopped"})

(* Once a demand could not say what it left on the mower or on its sockets, no
   further one starts. *)
UnknownIsFinal ==
    [][Ended /\ result.reason \in {"cancel_unconfirmed", "cleanup_unconfirmed"} => ~(d' # None)]_vars

(* shutdown() returns only when the demand has ended and every socket and every
   step left behind is closed, and it says so when it gave up on them. (A demand
   that gave up before shutdown() was called has reported so itself: shutdown()
   returns then although its sockets may be open.) *)
ShutdownIsQuiet ==
    shutdown = "done" /\ ~(Ended /\ result.reason = "cleanup_unconfirmed")
        => ~Active /\ ~pending /\ \A s \in DOMAIN sockets : sockets[s] \in {"none", "closed"}

(* What the demand, its sockets and the mower's task are to each other. *)
SessionOK == TypeOK /\ EndsCancelled /\ ShutdownIsQuiet

(* Every demand ends, and shutdown() with it, also when the mower, the broker and
   the relay fall silent in any step. *)
DemandEnds == Active ~> ~Active
================================================================================
