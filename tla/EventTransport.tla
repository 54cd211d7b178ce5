---------------------------- MODULE EventTransport ----------------------------
(* startEvents and shutdown of the client (src/src/client.ts), the EventTransport
   they create (src/src/event-transport.ts) and the chain through which it saves
   its session in the cloud's session store (src/src/cloud.ts). The push
   receiver is a library: it connects, delivers, reconnects and closes when it
   likes. Detections are reduced to what the saving depends on: a message waits
   in `pending`, is reported once and its key is then in `seen` (module
   Detections has the rest).

   A JavaScript promise that another one waits for is a number: saves are issued
   and completed in order, and a wait is over when `done` has reached it. *)
EXTENDS Naturals, Sequences, FiniteSets

CONSTANTS
    Messages,       \* keys of push messages
    None,
    MaxStarts,      \* bound: startEvents calls
    MaxConnects,    \* bound: connections of the receiver
    MaxCrashes      \* bound: crashes of the process

ASSUME EventTransportAssumption == {MaxStarts, MaxConnects, MaxCrashes} \subseteq Nat

VARIABLES
    client,     \* the client: closed, its startEvents call, its shutdown
    t,          \* the client's current EventTransport, or None
    link,       \* is the receiver of t connected
    saves,      \* the saves of t that have not ended, the first one being written
    rest,       \* the same of each EventTransport that was replaced, in order
    writes,     \* cloud: the writes that have not ended, in order
    done,       \* how many saves of t have ended
    session,    \* cloud.session.events in memory
    store,      \* the session store: survives a crash
    held,       \* server: the messages not yet acknowledged
    reported,   \* the messages reported, in order
    spent       \* how much of the bounds is used; late: how often a transport was
                \* closed to be replaced while one before it still had saves
chain == <<saves, rest, writes, done, session, store>>
vars == <<client, t, link, chain, held, reported, spent>>

Snapshot == [registered : BOOLEAN, ids : SUBSET Messages, seen : SUBSET Messages]
Empty == [registered |-> FALSE, ids |-> {}, seen |-> {}]
NewClient == [closed |-> FALSE, call |-> "none", shutdown |-> "none", left |-> 0]

(* phase: where open() is. closes: who has called close(), what it waits for, and
   whether the save that it waits for has not failed. *)
Closers == [who : {"replace", "open", "shutdown"}, step : {1, 2}, until : Nat, ok : BOOLEAN]
Transports ==
    [phase : {"initializing", "opening", "open", "failing", "failed"},
     closed : BOOLEAN, connected : BOOLEAN, ready : {"no", "yes", "no longer"},
     registered : BOOLEAN, ids : SUBSET Messages, seen : SUBSET Messages,
     pending : SUBSET Messages, registering : Nat, closes : SUBSET Closers]
ASSUME NoneAssumption == None \notin Transports
NewTransport ==
    [phase |-> "initializing", closed |-> FALSE, connected |-> FALSE, ready |-> "no",
     registered |-> FALSE, ids |-> {}, seen |-> {}, pending |-> {},
     registering |-> 0, closes |-> {}]

Init ==
    /\ client = NewClient /\ t = None /\ link = FALSE
    /\ saves = <<>> /\ rest = <<>> /\ writes = <<>> /\ done = 0
    /\ session = Empty /\ store = Empty
    /\ held = Messages /\ reported = <<>>
    /\ spent = [starts |-> 0, connects |-> 0, crashes |-> 0, late |-> 0]

Exists == t # None
Issued == done + Len(saves)
(* The transports of a process are numbered; t is the last one. *)
Number == Len(rest) + 1
Chain(g) == IF g = Number THEN saves ELSE rest[g]
NoneBehind == \A g \in DOMAIN rest : rest[g] = <<>>

(* The first save of a chain has handed its state to the cloud, which copies its
   whole session for one more write. *)
Handed(state) ==
    /\ session' = state
    /\ writes' = Append(writes, [state |-> state, from |-> Number])

(* Persist: the state is copied now, and handed over when every earlier save of
   the transport has ended. *)
State(tr) == [registered |-> TRUE, ids |-> tr.ids, seen |-> tr.seen]
PersistLastFirst(tr, by) ==
    LET save == <<[state |-> State(tr), by |-> by]>>
    IN  IF ~tr.registered THEN UNCHANGED chain
        ELSE /\ IF saves = <<>>
                THEN saves' = save /\ Handed(State(tr))
                ELSE /\ saves' = SubSeq(saves, 1, 1) \o save \o Tail(saves)
                     /\ UNCHANGED <<session, writes>>
             /\ UNCHANGED <<rest, done, store>>
Persist(tr, by) ==
    IF ~tr.registered THEN UNCHANGED chain
    ELSE /\ saves' = Append(saves, [state |-> State(tr), by |-> by])
         /\ IF saves = <<>> THEN Handed(State(tr)) ELSE UNCHANGED <<session, writes>>
         /\ UNCHANGED <<rest, done, store>>
LastOf(tr) == IF tr.registered THEN Issued + 1 ELSE done

(* Close: nothing is accepted any more, the receiver is closed, and the caller
   waits for its own save and then for the newest one; its timers are stopped when
   both are written or one has failed. *)
Closed(tr, who) ==
    [tr EXCEPT !.closed = TRUE, !.connected = FALSE,
               !.closes = @ \cup {[who |-> who, step |-> 1, until |-> LastOf(tr), ok |-> TRUE]}]
Close(tr, who) ==
    /\ t' = Closed(tr, who) /\ link' = FALSE
    /\ Persist(tr, "close")

CloseWaits(c) ==
    /\ Exists /\ c \in t.closes /\ c.step = 1 /\ c.until <= done /\ c.ok
    /\ t' = [t EXCEPT !.closes = (@ \ {c}) \cup {[c EXCEPT !.step = 2, !.until = Issued]}]
    /\ UNCHANGED <<client, link, chain, held, reported, spent>>
Over(c) == /\ Exists /\ c \in t.closes /\ c.until <= done /\ (c.step = 2 \/ ~c.ok)
           /\ client' = IF c.who = "replace" /\ ~c.ok THEN [client EXCEPT !.call = "none"] ELSE client
CloseDropsNothing(c) ==
    /\ Over(c)
    /\ t' = [t EXCEPT !.closes = @ \ {c}]
    /\ UNCHANGED <<link, chain, held, reported, spent>>
CloseEnds(c) ==
    /\ Over(c)
    /\ t' = [t EXCEPT !.closes = @ \ {c}, !.pending = {}]
    /\ UNCHANGED <<link, chain, held, reported, spent>>
ClosingBy(who) == \E c \in t.closes : c.who = who

(******************************** startEvents ********************************)

StartEvents ==
    /\ spent.starts < MaxStarts
    /\ client.call = "none" /\ ~client.closed
    /\ client' = [client EXCEPT !.call = "loading"]
    /\ spent' = [spent EXCEPT !.starts = @ + 1]
    /\ UNCHANGED <<t, link, chain, held, reported>>

(* Once the device transport is there: a closed client and active events end the
   call, an earlier EventTransport is closed first. *)
Loaded ==
    /\ client.call = "loading"
    /\ \/ /\ client.closed \/ (Exists /\ t.connected)
          /\ client' = [client EXCEPT !.call = "none"]
          /\ UNCHANGED <<t, link, chain, spent>>
       \/ /\ ~client.closed /\ Exists /\ ~t.connected
          /\ client' = [client EXCEPT !.call = "replacing"]
          /\ Close(t, "replace")
          /\ spent' = IF NoneBehind THEN spent ELSE [spent EXCEPT !.late = @ + 1]
       \/ /\ ~client.closed /\ ~Exists
          /\ client' = [client EXCEPT !.call = "opening"]
          /\ t' = NewTransport /\ UNCHANGED <<link, chain, spent>>
    /\ UNCHANGED <<held, reported>>
(* The next EventTransport, without another look at `closed`; when a save failed
   under that close, the call has failed. Saves that still wait are left behind. *)
Replaced ==
    /\ client.call = "replacing" /\ ~ClosingBy("replace")
    /\ t' = NewTransport /\ client' = [client EXCEPT !.call = "opening"]
    /\ saves' = <<>> /\ done' = 0 /\ rest' = Append(rest, saves)
    /\ UNCHANGED <<writes, session, store, link, held, reported, spent>>

(* The library is loaded: the saved session is restored, or the transport was
   closed meanwhile, or what was saved cannot be read. *)
RestoredAnew == [t EXCEPT !.phase = "opening", !.registered = session.registered]
Restored ==
    [t EXCEPT !.phase = "opening", !.registered = session.registered,
              !.ids = IF session.registered THEN session.ids ELSE {},
              !.seen = IF session.registered THEN @ \cup session.seen ELSE @]
Opening == Exists /\ client.call = "opening"
Initialized ==
    /\ Opening /\ t.phase = "initializing"
    /\ \/ /\ t.closed
          /\ client' = [client EXCEPT !.call = "none"]
          /\ t' = [t EXCEPT !.phase = "failed"]
       \/ /\ ~t.closed
          /\ t' = Restored /\ UNCHANGED client
    /\ UNCHANGED <<link, chain, held, reported, spent>>

(* open() is over when the receiver is registered, and fails on the first
   refusal, on the 30 s timer and when the caller or close() cancels it. It then
   closes the transport itself. *)
Open ==
    /\ Opening /\ t.phase = "opening" /\ t.ready = "yes"
    /\ t' = [t EXCEPT !.phase = "open"]
    /\ client' = [client EXCEPT !.call = "none"]
    /\ UNCHANGED <<link, chain, held, reported, spent>>
FailsUntimed ==
    /\ Opening
    /\ \/ t.phase = "opening" /\ (t.ready = "no longer" \/ t.closed)
       \/ t.phase = "initializing" /\ ~t.closed /\ session.registered
    /\ Close([t EXCEPT !.phase = "failing"], "open")
    /\ UNCHANGED <<client, held, reported, spent>>
Fails ==
    /\ Opening
    /\ \/ t.phase = "opening" /\ (t.ready # "yes" \/ t.closed)
       \/ t.phase = "initializing" /\ ~t.closed /\ session.registered
    /\ Close([t EXCEPT !.phase = "failing"], "open")
    /\ UNCHANGED <<client, held, reported, spent>>
Failed ==
    /\ Opening /\ t.phase = "failing" /\ ~ClosingBy("open")
    /\ t' = [t EXCEPT !.phase = "failed"]
    /\ client' = [client EXCEPT !.call = "none"]
    /\ UNCHANGED <<link, chain, held, reported, spent>>

(********************************* receiver *********************************)

Running == Exists /\ t.phase \in {"opening", "open"} /\ ~t.closed

(* The first login creates a registration, which is saved. *)
Credential ==
    /\ Running /\ ~t.registered
    /\ t' = [t EXCEPT !.registered = TRUE]
    /\ Persist([t EXCEPT !.registered = TRUE], "credential")
    /\ UNCHANGED <<client, link, held, reported, spent>>
(* A login hands over the delivery ids and forgets them; the transport saves and
   will then register the token. *)
Connects ==
    /\ Running /\ t.registered /\ ~link
    /\ spent.connects < MaxConnects
    /\ spent' = [spent EXCEPT !.connects = @ + 1]
    /\ link' = TRUE
    /\ held' = held \ t.ids
    /\ t' = [t EXCEPT !.ids = {}]
    /\ Persist([t EXCEPT !.ids = {}], "connect")
    /\ UNCHANGED <<client, reported>>
Drops ==
    /\ link
    /\ link' = FALSE /\ t' = [t EXCEPT !.connected = FALSE]
    /\ UNCHANGED <<client, chain, held, reported, spent>>

(* A message not acknowledged yet is delivered, once in a connection. *)
Accepted(m) == IF m \in t.seen THEN {} ELSE {m}
MessageIn(m, tr) ==
    /\ link /\ m \in held \ t.ids
    /\ t' = tr
    /\ Persist(tr, "message")
    /\ UNCHANGED <<client, link, held, reported, spent>>
Message(m) == MessageIn(m, [t EXCEPT !.ids = @ \cup {m}, !.pending = @ \cup Accepted(m)])

(* A detection settles: it is reported, also while close() waits. *)
Settled(m) == [t EXCEPT !.pending = @ \ {m}, !.seen = @ \cup {m}]
Flush(m) ==
    /\ Exists /\ m \in t.pending
    /\ t' = Settled(m)
    /\ reported' = Append(reported, m)
    /\ Persist(Settled(m), "flush")
    /\ UNCHANGED <<client, link, held, spent>>

(* Registering the token. After a close() the answer, which the abort makes an
   error, has no effect. *)
Registered ==
    /\ Exists /\ t.registering > 0 /\ ~t.closed
    /\ t' = [t EXCEPT !.registering = @ - 1, !.connected = TRUE,
                      !.ready = IF @ = "no" THEN "yes" ELSE @]
    /\ UNCHANGED <<client, link, chain, held, reported, spent>>
Refused(tr) == [tr EXCEPT !.connected = FALSE, !.ready = IF @ = "no" THEN "no longer" ELSE @]
RegisterFails ==
    /\ Exists /\ t.registering > 0
    /\ t' = Refused([t EXCEPT !.registering = @ - 1])
    /\ UNCHANGED <<client, link, chain, held, reported, spent>>

(********************************** saving **********************************)

(* A write ends. The save it belongs to ends with it, and the next save of the
   same chain is handed over in the same turn. A failed write fails the save
   but not the ones behind it. *)
NextOf(waiting, from) ==
    LET left == Tail(writes)
    IN  IF Len(waiting) > 1
        THEN /\ session' = waiting[2].state
             /\ writes' = Append(left, [state |-> waiting[2].state, from |-> from])
        ELSE writes' = left /\ UNCHANGED session
Told(ok) ==
    [t EXCEPT !.closes = {IF ~ok /\ c.until = done + 1 THEN [c EXCEPT !.ok = FALSE] ELSE c : c \in @}]
Ends(ok) ==
    LET by == saves[1].by
    IN  t' = CASE by = "connect" /\ ok -> [Told(ok) EXCEPT !.registering = @ + 1]
               [] by \in {"connect", "credential"} /\ ~ok -> Refused(Told(ok))
               [] OTHER -> Told(ok)
WriteEnds(ok) ==
    /\ writes # <<>>
    /\ store' = IF ok THEN Head(writes).state ELSE store
    /\ LET from == Head(writes).from
       IN  /\ NextOf(Chain(from), from)
           /\ \/ /\ from = Number
                 /\ saves' = Tail(saves) /\ done' = done + 1 /\ Ends(ok)
                 /\ UNCHANGED rest
              \/ /\ from # Number
                 /\ rest' = [rest EXCEPT ![from] = Tail(@)]
                 /\ UNCHANGED <<t, saves, done>>
    /\ client' = [client EXCEPT !.left = IF @ > 0 THEN @ - 1 ELSE 0]
    /\ UNCHANGED <<link, held, reported, spent>>

(************************** shutdown, crash, Next **************************)

Shutdown ==
    /\ ~client.closed
    /\ client' = [client EXCEPT !.closed = TRUE, !.shutdown = "waiting"]
    /\ IF Exists THEN Close(t, "shutdown") ELSE UNCHANGED <<t, link, chain>>
    /\ UNCHANGED <<held, reported, spent>>
(* flush() waits for the writes that are queued when it is called. *)
Flushes ==
    /\ client.shutdown = "waiting" /\ client.call = "none"
    /\ Exists => ~ClosingBy("shutdown")
    /\ client' = [client EXCEPT !.shutdown = "flushing", !.left = Len(writes)]
    /\ UNCHANGED <<t, link, chain, held, reported, spent>>
ShutdownEnds ==
    /\ client.shutdown = "flushing" /\ client.left = 0
    /\ client' = [client EXCEPT !.shutdown = "done"]
    /\ UNCHANGED <<t, link, chain, held, reported, spent>>

(* The process dies and starts again with what the store holds. *)
Crash ==
    /\ spent.crashes < MaxCrashes
    /\ spent' = [spent EXCEPT !.crashes = @ + 1]
    /\ client' = NewClient /\ t' = None /\ link' = FALSE
    /\ saves' = <<>> /\ rest' = <<>> /\ writes' = <<>> /\ done' = 0
    /\ session' = store
    /\ UNCHANGED <<store, held, reported>>

Closing(c) == CloseWaits(c) \/ CloseEnds(c)
Next ==
    \/ StartEvents \/ Loaded \/ Replaced \/ Initialized \/ Open \/ Fails \/ Failed
    \/ Exists /\ \E c \in t.closes : CloseWaits(c)
    \/ Exists /\ \E c \in t.closes : CloseEnds(c)
    \/ Credential \/ Connects \/ Drops
    \/ \E m \in Messages : Message(m)
    \/ \E m \in Messages : Flush(m)
    \/ Registered \/ RegisterFails
    \/ \E ok \in BOOLEAN : WriteEnds(ok)
    \/ Shutdown \/ Flushes \/ ShutdownEnds \/ Crash
(* Fairness: what the runtime does without the user, the receiver or a new
   message: promises go on, writes end, and open() has a timer. *)
Fairness ==
    /\ WF_vars(Loaded) /\ WF_vars(Replaced) /\ WF_vars(Initialized)
    /\ WF_vars(Open) /\ WF_vars(Fails) /\ WF_vars(Failed)
    /\ WF_vars(Exists /\ \E c \in t.closes : Closing(c))
    /\ WF_vars(\E ok \in BOOLEAN : WriteEnds(ok))
    /\ WF_vars(Flushes) /\ WF_vars(ShutdownEnds)
Spec == Init /\ [][Next]_vars /\ Fairness

-------------------------------------------------------------------------------

Count(m) == Cardinality({i \in DOMAIN reported : reported[i] = m})

(* The state of the transport, with the chain of saves: a write belongs to the
   first save of a chain, and at most one save of a chain is being written. *)
Saves == [state : Snapshot, by : {"credential", "connect", "message", "flush", "close"}]
TypeOK ==
    /\ \A g \in 1..Number : \A i \in DOMAIN Chain(g) : Chain(g)[i] \in Saves
    /\ {session, store} \subseteq Snapshot
    /\ \A i \in DOMAIN writes :
          /\ writes[i].from \in 1..Number /\ Chain(writes[i].from) # <<>>
          /\ writes[i].state = Chain(writes[i].from)[1].state
    /\ \A g \in 1..Number :
          Cardinality({i \in DOMAIN writes : writes[i].from = g}) = IF Chain(g) = <<>> THEN 0 ELSE 1
    /\ Exists => /\ t \in Transports /\ t.pending \cap t.seen = {}
                 /\ t.closed => ~t.connected
    /\ link => Running

(* Nothing happens after close() has returned to its last caller: no detection
   waits for its timer, and events are not shown as connected, whichever of
   open(), the connect handler and the saves was still waiting. *)
ClosedIsQuiet ==
    Exists /\ t.closed /\ t.closes = {} => t.pending = {} /\ ~t.connected /\ ~link

(* As long as the process lives, a message is reported once, although the
   receiver reconnects, the server delivers again what was not acknowledged, and
   events are closed and started again between the saves. The saves that a replaced
   transport has left behind may overtake those of the next one: when that is
   closed to be replaced before they are over, once more. *)
ReportedOnce == \A m \in Messages : Count(m) <= 1 + spent.crashes + spent.late

(* The state of the transport, between any two steps of its callers, callbacks and
   saves. *)
TransportOK == TypeOK /\ ClosedIsQuiet /\ ReportedOnce

(* Whatever the process did before it crashed, a message whose key had reached
   the store is not reported again (`late` as in ReportedOnce). *)
NoReplay ==
    [][spent.late = 0 => \A m \in Messages : m \in store.seen => Count(m)' = Count(m)]_vars

(* Saves are written in the order in which they were asked for: the store never
   loses a key that the current transport knows, also when writes fail, as long
   as no transport that it replaced has saves left. *)
SavedInOrder ==
    [][Exists /\ NoneBehind /\ spent.late = 0 => t.seen \cap store.seen \subseteq store'.seen]_vars

(* startEvents returns, and so does shutdown(), in whatever order receiver,
   saves, failures and the two calls go on. *)
CallsEnd ==
    /\ client.call # "none" ~> client.call = "none"
    /\ client.shutdown # "none" ~> client.shutdown \in {"done", "none"}

(* "Initialization cannot create new transports after closed is set"
   (client.ts:290). *)
NothingNewAfterClosed ==
    [][client.closed /\ t' # t /\ t' # None => t'.phase # "initializing" \/ t.phase = "initializing"]_vars
===============================================================================
