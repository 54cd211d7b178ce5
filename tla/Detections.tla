------------------------------ MODULE Detections ------------------------------
(* Detections (src/src/detections.ts): one detection per occurrence, although
   the cameras report it several times. A push message carries a code, often an
   identity and an occurrence time, and comes in several formats ("transports")
   and again after a reconnect; a device event carries only a type and perhaps a
   name. A report waits `Settle` in `pending`, where its companions are merged
   into it, and is then reported; the keys of what was reported are remembered
   in `seen`, also over a restart.

   A message m: m.about is the occurrence it describes (nothing in the code can
   see it), m.id its identity or Nothing, m.at its occurrence time or Nothing. *)
EXTENDS Integers, Sequences, FiniteSets, SequencesExt, Subsequences

CONSTANTS
    Serials,        \* cameras
    Pushes,         \* push messages: [about, serial, type, code, id, at, name, transport]
    Reports,        \* device events: [about, serial, type, name]
    Nothing,        \* no identity, no time, no name, no code
    Settle,         \* settleMs, 500 ms in the code
    Suppress,       \* how long a push silences device events, 1500 ms
    Near,           \* how far apart two formats may date one occurrence, 1000 ms
    Keep,           \* how long a reported key is remembered, 300 s
    PendingLimit,   \* 256 in the code
    SeenLimit,      \* 2048 in the code
    Spread,         \* the reports of one occurrence arrive within this time
    MaxTime,        \* bound: the clock
    MaxInputs       \* bound: reports, restarts and inventory changes

ASSUME DetectionsAssumption ==
    /\ {Settle, Suppress, Near, Keep, Spread, MaxTime, MaxInputs} \subseteq Nat
    /\ PendingLimit \in Nat \ {0} /\ SeenLimit \in Nat \ {0}
    /\ \A m \in Pushes : m.serial \in Serials
    /\ \A r \in Reports : r.serial \in Serials

VARIABLES
    now,        \* Date.now()
    known,      \* the serials of the current inventory
    pending,    \* the pending set, in insertion order
    seen,       \* the keys reported, in insertion order: [key, until]
    lastPush,   \* serial -> when its last push arrived
    delivered,  \* what deliver() was called with, with its keys and the time
    inputs,     \* how many reports, restarts and inventory changes there were
    first       \* occurrence -> when it was first reported (environment)
detectionsVars == <<now, known, pending, seen, lastPush, delivered, inputs, first>>

Occurrences == {m.about : m \in Pushes} \cup {r.about : r \in Reports}
Never == -Suppress - 1

(* The key of a message: its serial and type, with its identity or its time. *)
Key(m) == [serial |-> m.serial, type |-> m.type, id |-> m.id, at |-> m.at]
Keys(m) == IF m.id = Nothing /\ m.at = Nothing THEN <<>> ELSE <<Key(m)>>
Ids(p) == ToSet(p.ids)

DetectionsInit ==
    /\ now = 0 /\ known = Serials /\ pending = <<>> /\ seen = <<>>
    /\ lastPush = [s \in Serials |-> Never]
    /\ delivered = <<>> /\ inputs = 0
    /\ first = [o \in Occurrences |-> Nothing]

(***************************** queue and flush *****************************)

(* The keys of a detection are set in the memory. Map.set keeps the place of a
   key that is there already. *)
Remembered(kept, ids) ==
    LET again == [i \in DOMAIN kept |->
                     IF kept[i].key \in ToSet(ids) THEN [kept[i] EXCEPT !.until = now + Keep]
                     ELSE kept[i]]
        new == Picked(ids, {i \in DOMAIN ids : \A e \in ToSet(kept) : e.key # ids[i]})
    IN  again \o [i \in DOMAIN new |-> [key |-> new[i], until |-> now + Keep]]
Newest(kept) == IF Len(kept) > SeenLimit
                THEN SubSeq(kept, Len(kept) - SeenLimit + 1, Len(kept)) ELSE kept

(* The keys that have not expired. *)
Live(kept) == Picked(kept, {i \in DOMAIN kept : kept[i].until > now})

(* flush: a detection that left the pending set is reported, and its keys are
   remembered, if its camera is still known. *)
FlushForgetting(kept, p) ==
    /\ seen' = kept
    /\ delivered' = IF p.event.serial \in known
                   THEN Append(delivered, [entry |-> p, when |-> now]) ELSE delivered
FlushPending(kept, p) ==
    IF p.event.serial \in known
    THEN /\ seen' = Newest(Remembered(kept, p.ids))
         /\ delivered' = Append(delivered, [entry |-> p, when |-> now])
    ELSE seen' = kept /\ UNCHANGED delivered

(* queue: a full pending set first flushes its oldest member. *)
Entry(event, ids, transports) ==
    [after |-> Len(delivered), event |-> event, ids |-> ids, transports |-> transports,
     due |-> now + Settle]
Queue(kept, p) ==
    IF Len(pending) >= PendingLimit
    THEN FlushPending(kept, Head(pending)) /\ pending' = Append(Tail(pending), p)
    ELSE seen' = kept /\ UNCHANGED delivered /\ pending' = Append(pending, p)

(* The timer of a pending detection. *)
Elapsed(i) ==
    /\ pending[i].due <= now
    /\ FlushPending(seen, pending[i])
    /\ pending' = RemoveAt(pending, i)
    /\ UNCHANGED <<now, known, lastPush, inputs, first>>

(********************************** push **********************************)

NameOf(r) == IF r.type = "person" THEN r.name ELSE Nothing
RecognitionOf(m) ==
    CASE m.type # "person" -> "not_applicable"
      [] m.type = "person" /\ (m.name # Nothing \/ m.code \in {3111, 3303}) -> "known"
      [] m.type = "person" /\ m.name = Nothing /\ m.code = 3112 -> "unknown"
      [] OTHER -> "unidentified"
PushEvent(m) ==
    [serial |-> m.serial, type |-> m.type, source |-> "push", code |-> m.code,
     at |-> m.at, name |-> NameOf(m), recognition |-> RecognitionOf(m)]

(* The pending detection a message belongs to: any device event of the camera
   it can explain; of the pushes the same type or code with the same key, or in
   another format about the same time, or without any key on either side. *)
SameTime(m, p) ==
    \/ m.at = Nothing \/ p.event.at = Nothing
    \/ m.at - p.event.at \in -Near..Near
CompanionByType(m, p) ==
    /\ p.event.serial = m.serial
    /\ p.event.type = m.type \/ p.event.source = "device"
Companion(m, p) ==
    /\ p.event.serial = m.serial
    /\ \/ /\ p.event.source = "device"
          /\ p.event.type \in {m.type, "motion"} \/ m.type = "notification"
       \/ /\ p.event.type = m.type \/ p.event.code = m.code
          /\ \/ ToSet(Keys(m)) \cap Ids(p) # {}
             \/ m.transport \notin p.transports /\ SameTime(m, p)
             \/ Keys(m) = <<>> /\ p.ids = <<>>

(* What is known of a detection after a message is merged into it. *)
Merged(m, old) ==
    LET new == [PushEvent(m) EXCEPT !.at = IF m.at # Nothing THEN m.at ELSE old.at]
    IN  CASE m.type = "notification" /\ old.type # "notification" ->
               [new EXCEPT !.type = old.type, !.name = old.name,
                           !.recognition = old.recognition]
          [] m.type = "person" /\ NameOf(m) = Nothing /\ old.type = "person" /\ old.name # Nothing ->
               [new EXCEPT !.name = old.name, !.recognition = "known"]
          [] OTHER -> new

MergePush(m, i) ==
    pending' = [pending EXCEPT
        ![i].event = Merged(m, @),
        ![i].ids = IF ToSet(Keys(m)) \subseteq Ids(pending[i]) THEN @ ELSE @ \o Keys(m),
        ![i].transports = @ \cup {m.transport}]

(* The environment: the reports of one occurrence arrive within Spread of the
   first, device events also within Suppress of the camera's last push; a message
   that was taken once may be delivered again at any time if it has a key, and is
   delivered once if it has none. *)
Input == inputs < MaxInputs /\ inputs' = inputs + 1
Arrives(o) ==
    /\ Input
    /\ first' = IF first[o] = Nothing THEN [first EXCEPT ![o] = now] ELSE first
Replayed(m) ==
    \E p \in ToSet(pending) \cup {r.entry : r \in ToSet(delivered)} :
        ToSet(Keys(m)) \cap Ids(p) # {}
InTime(o) == first[o] # Nothing => now - first[o] \in 0..Spread

Taken(kept, m) == \E e \in ToSet(kept) : <<e.key>> = Keys(m)
Push(m) ==
    LET live == Live(seen)
        at == SelectInSeq(pending, LAMBDA p : Companion(m, p))
    IN  /\ IF Keys(m) = <<>> THEN first[m.about] = Nothing ELSE InTime(m.about) \/ Replayed(m)
        /\ Arrives(m.about)
        /\ \/ /\ m.serial \notin known
              /\ UNCHANGED <<pending, seen, lastPush, delivered>>
           \/ /\ m.serial \in known /\ Taken(live, m)
              /\ seen' = live
              /\ UNCHANGED <<pending, lastPush, delivered>>
           \/ /\ m.serial \in known /\ ~Taken(live, m)
              /\ lastPush' = [lastPush EXCEPT ![m.serial] = now]
              /\ IF at # 0
                 THEN MergePush(m, at) /\ seen' = live /\ UNCHANGED delivered
                 ELSE Queue(live, Entry(PushEvent(m), Keys(m), {m.transport}))
        /\ UNCHANGED <<now, known>>

(********************************* device *********************************)

DeviceEvent(r) ==
    [serial |-> r.serial, type |-> r.type, source |-> "device", code |-> Nothing,
     at |-> Nothing, name |-> NameOf(r),
     recognition |-> CASE r.type # "person" -> "not_applicable"
                       [] r.type = "person" /\ r.name # Nothing -> "known"
                       [] r.type = "person" /\ r.name = Nothing /\ r.stranger -> "unknown"
                       [] OTHER -> "unidentified"]

(* What a device event tells about the pushes that wait: it types the first
   one that could not be decoded, and names the first one of its type. *)
FirstPush(r, type) ==
    SelectInSeq(pending, LAMBDA p : /\ p.event.serial = r.serial
                                    /\ p.event.source = "push" /\ p.event.type = type)
Informed(r, i) ==
    LET new == DeviceEvent(r)
    IN  CASE i = FirstPush(r, "notification") ->
               [pending[i].event EXCEPT !.type = r.type, !.name = new.name,
                                        !.recognition = new.recognition]
          [] i = FirstPush(r, r.type) /\ new.name # Nothing ->
               [pending[i].event EXCEPT !.name = new.name, !.recognition = "known"]
          [] OTHER -> pending[i].event

(* A device event beside or shortly after a push of its camera is the same
   detection. Generic motion and a typed event of the device are one, too. *)
PushedLatelyOnlyPending(r) ==
    \E p \in ToSet(pending) : p.event.serial = r.serial /\ p.event.source = "push"
PushedLately(r) ==
    \/ \E p \in ToSet(pending) : p.event.serial = r.serial /\ p.event.source = "push"
    \/ now - lastPush[r.serial] < Suppress
MergeReport(r, i) ==
    LET old == pending[i].event
        new == DeviceEvent(r)
        name == IF new.name # Nothing THEN new.name ELSE old.name
    IN  pending' = IF r.type = "motion" /\ old.type # "motion" THEN pending
                   ELSE [pending EXCEPT ![i].event =
                           [new EXCEPT !.name = name,
                                !.recognition = IF name # Nothing THEN "known" ELSE @]]
Device(r) ==
    LET at == SelectInSeq(pending, LAMBDA p :
                  /\ p.event.serial = r.serial /\ p.event.source = "device"
                  /\ p.event.type \in {r.type, "motion"} \/ r.type = "motion")
    IN  /\ InTime(r.about) \/ (first[r.about] # Nothing /\ now - lastPush[r.serial] < Suppress)
        /\ Arrives(r.about)
        /\ \/ /\ PushedLately(r)
              /\ pending' = [i \in DOMAIN pending |-> [pending[i] EXCEPT !.event = Informed(r, i)]]
              /\ UNCHANGED <<seen, delivered>>
           \/ /\ ~PushedLately(r) /\ at # 0
              /\ MergeReport(r, at)
              /\ UNCHANGED <<seen, delivered>>
           \/ /\ ~PushedLately(r) /\ at = 0
              /\ Queue(seen, Entry(DeviceEvent(r), <<>>, {}))
        /\ UNCHANGED <<now, known, lastPush>>

(*************************** restart, inventory, clock ***************************)

(* Close, and a new Detections that restores what was exported: the newest keys
   that have not expired. What was pending is lost. The companions of one
   occurrence are not taken to straddle a restart. *)
Straddling == Never - Spread
Restart ==
    /\ pending' = <<>>
    /\ seen' = Newest(Live(seen))
    /\ lastPush' = [s \in Serials |-> Never]
    /\ first' = [o \in Occurrences |-> IF first[o] = Nothing THEN Nothing ELSE Straddling]
    /\ Input /\ UNCHANGED <<now, known, delivered>>

Inventory(s) ==
    /\ known' = IF s \in known THEN known \ {s} ELSE known \cup {s}
    /\ Input /\ UNCHANGED <<now, pending, seen, lastPush, delivered, first>>
Tick ==
    /\ now < MaxTime /\ now' = now + 1
    /\ UNCHANGED <<known, pending, seen, lastPush, delivered, inputs, first>>

DetectionsNext ==
    \/ \E m \in Pushes : Push(m)
    \/ \E r \in Reports : Device(r)
    \/ \E i \in DOMAIN pending : Elapsed(i)
    \/ Restart
    \/ \E s \in Serials : Inventory(s)
    \/ Tick
DetectionsSpec == DetectionsInit /\ [][DetectionsNext]_detectionsVars

-------------------------------------------------------------------------------

Events == [serial : Serials, type : {x.type : x \in Pushes \cup Reports},
           source : {"push", "device"}, code : {m.code : m \in Pushes} \cup {Nothing},
           at : {m.at : m \in Pushes} \cup {Nothing},
           name : {x.name : x \in Pushes \cup Reports} \cup {Nothing},
           recognition : {"known", "unknown", "unidentified", "not_applicable"}]
All == pending \o [i \in DOMAIN delivered |-> delivered[i].entry]
(* The memory stays within its limits whatever arrives (queue, flush and
   restoreSeen), a pending detection has no timer later than its settling
   window, and only a person has a name, which is then recognised as known. *)
DetectionsType ==
    /\ Len(pending) <= PendingLimit /\ Len(seen) <= SeenLimit
    /\ \A i \in DOMAIN seen : seen[i].until <= now + Keep
    /\ \A i \in DOMAIN pending : pending[i].due <= now + Settle
    /\ \A i \in DOMAIN All :
          /\ All[i].event \in Events
          /\ All[i].event.name # Nothing =>
                 All[i].event.type = "person" /\ All[i].event.recognition = "known"

(* "Distinct IDs in the SAME format are distinct detections, even very close
   together" (detections.ts:143): each key of a detection came in a format of its
   own, however the messages, their copies and device events interleave. *)
DistinctKept ==
    \A i \in DOMAIN All :
        \E format \in [Ids(All[i]) -> All[i].transports] :
            \A key \in Ids(All[i]) :
                /\ \E m \in Pushes : Keys(m) = <<key>> /\ m.transport = format[key]
                /\ \A k \in Ids(All[i]) : format[k] = format[key] => k = key

(* The pending and the remembered detections are in order. *)
DetectionsOK == DetectionsType /\ DistinctKept

(* A key that was reported starts no detection until it has been forgotten: Keep
   later, or after more newer keys than are remembered. Restarts in between
   change nothing. Two detections that wait at the same time may come to share a
   key, when a device event types the one while a copy of a message of the other
   is on its way: both are then reported, and the key has its place in the memory
   from the first of them. *)
KeysOf(h, j) == UNION {Ids(delivered[x].entry) : x \in h..j}
NoRepeat ==
    \A i, j \in DOMAIN delivered : \A key \in Ids(delivered[i].entry) :
        key \in Ids(delivered[j].entry) /\ i <= delivered[j].entry.after
            => \/ delivered[j].when - delivered[i].when >= Keep
               \/ \E h \in (delivered[i].entry.after + 1)..i :
                     /\ key \in Ids(delivered[h].entry)
                     /\ Cardinality(KeysOf(h, j - 1)) > SeenLimit

(* However the messages and device events of the occurrences interleave, no
   camera gets more detections than it had occurrences: the companions are
   paired in either order. Detections that were pushed out of a full pending set
   and keys that had been forgotten are excepted. *)
Fresh(i) == \A j \in 1..i-1 : Ids(All[i]) \cap Ids(All[j]) = {}
OccurrencesOf(s) == {x.about : x \in {y \in Pushes \cup Reports : y.serial = s}}
OnePerOccurrence ==
    (\A i \in DOMAIN delivered : delivered[i].when >= delivered[i].entry.due) =>
        \A s \in Serials :
            Cardinality({i \in DOMAIN All : All[i].event.serial = s /\ Fresh(i)})
                <= Cardinality({o \in OccurrencesOf(s) : first[o] # Nothing})

===============================================================================
