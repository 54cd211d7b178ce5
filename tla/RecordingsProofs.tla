--------------------------- MODULE RecordingsProofs ---------------------------
(***************************************************************************)
(* Proofs about Recordings, for any recordings, page widths, caps and       *)
(* bounds, and for any chunks.                                              *)
(*                                                                         *)
(* An answer does not say which question it answers. That it is nonetheless *)
(* the operation's own rests on the session being clean whenever none is   *)
(* on it: an operation that ends well has read all that the device had to  *)
(* send on CONTROL, and any other closes the session. On BINARY, and among *)
(* the results of commands, only a complete transfer leaves something.      *)
(*                                                                         *)
(* That "complete" means all that was put into the streams rests on a      *)
(* stream taking chunks only until it ends and being read only afterwards; *)
(* that "ok" means the whole list, on comparing a page with the one before.*)
(***************************************************************************)
EXTENDS Recordings, FiniteSetTheorems, TLAPS

Answers == [by : Nat, event : {"answer"}, refused : BOOLEAN, rows : SUBSET Rows]
Events == [by : Nat, event : {"converted", "broadcast", "finish"}]
Chunks == [by : Nat, of : Kinds]
Binaries ==
    [next : Nat, on : BOOLEAN, known : BOOLEAN, heard : SUBSET Kinds, told : BOOLEAN]
OneStream == [waiting : SUBSET Nat, read : BOOLEAN]
BothStreams ==
    [video : OneStream, audio : OneStream, put : SUBSET Nat, counted : SUBSET Nat,
     seen : BOOLEAN]
Tasks == {"idle"} \cup {<<"asked", n, x>> : n \in Nat, x \in Nat}
                  \cup {<<"transfer", n>> : n \in Nat}
Devices ==
    [rows : SUBSET Rows, shown : SUBSET Rows, cap : Caps \cup {None}, task : Tasks,
     sent : Nat, converted : BOOLEAN, finished : SUBSET Nat, changes : Nat]

RecordingsType ==
    /\ op \in Operations \cup {None} /\ session \in {"down", "up", "closing"}
    /\ wire \in Seq(Answers \cup Events) /\ data \in Seq(Chunks) /\ binary \in Binaries
    /\ results \in SUBSET Commands /\ device \in Devices /\ streams \in BothStreams
    /\ references \in Seq(Rows) /\ Len(references) <= MaxReferences
    /\ begun \in Nat

Clean == wire = <<>> /\ device.task = "idle"
Own(o) == \A c \in o.counted : c[1] = o.id
(* What is left of chunks and of the results of starts and cancels.         *)
LeftBy(mine, chunks, commands) ==
    /\ \A i \in DOMAIN chunks : chunks[i].by \in mine
    /\ \A c \in commands : c[2] # "query" => c[1] \in mine

(* What the device answers: all it holds, or as much as the page or its cap *)
(* allows.                                                                 *)
Shows(o, rows, d) ==
    /\ rows \subseteq d.shown
    /\ Cardinality(rows) <= Limits[o.page] /\ (d.cap # None => Cardinality(rows) <= d.cap)
    /\ \/ Cardinality(rows) \in {Limits[o.page], Cardinality(d.shown)}
       \/ d.cap # None /\ Cardinality(rows) = d.cap
(* A page that led to the next one was full, and so is no wider than the cap. *)
Before(o, d) ==
    IF o.page = 1 THEN o.previous = {}
    ELSE /\ Cardinality(o.previous) = Limits[o.page - 1]
         /\ d.cap # None => Limits[o.page - 1] <= d.cap
(* A query has one question or one answer on the session.                   *)
WaitsFor(o, w, d, rs) ==
    /\ o.kind \in Queries /\ o.page \in 1..Len(Limits)
    /\ o.kind # "thumbnail" => \A c \in rs : c \in o.earlier \/ c[1] = o.id
    /\ \/ w = <<>> /\ d.task = <<"asked", o.id, Limits[o.page]>>
       \/ /\ d.task = "idle"
          /\ \E m \in Answers : /\ w = <<m>> /\ m.by = o.id
                                /\ o.kind = "list" /\ ~m.refused => Shows(o, m.rows, d)
    /\ o.kind = "list" => Before(o, d)

(* A transfer's finish is the last that the device sends on CONTROL.        *)
Transfers(o, w, d, b) ==
    /\ o.kind = "download"
    /\ d.task = "idle" \/ d.task = <<"transfer", o.id>>
    /\ \A i \in DOMAIN w :
          /\ w[i].by = o.id
          /\ w[i].event = "finish" => i = Len(w) /\ d.task = "idle" /\ o.id \in d.finished
    /\ o.confirmed => w = <<>> /\ d.task = "idle" /\ o.id \in d.finished /\ ~b.on
(* Its streams take every chunk from the first on until they end, and are   *)
(* read to the end only then.                                              *)
Streaming(o, s, b) ==
    /\ s.put = s.counted \cup s.video.waiting \cup s.audio.waiting
    /\ s.video.read => o.finished /\ s.video.waiting = {}
    /\ s.audio.read => o.finished /\ s.audio.waiting = {}
    /\ o.handle /\ ~o.finished => b.on /\ b.told /\ b.known
    /\ ~o.finished => /\ ~b.on => s.put = {}
                      /\ \A n \in s.put : n < b.next /\ n..(b.next - 1) \subseteq s.put
    /\ Unbroken(s.put)

Rests == Clean /\ ~binary.on /\ LeftBy(completed, data, results)
Untouched(o, s) ==
    s = NoStreams /\ o.previous = {} /\ ~o.handle /\ ~o.finished /\ ~o.confirmed
Placed(o) ==
    /\ o.at = "closing" <=> session = "closing"
    /\ o.at \in {"query", "transfer"} => session = "up"
    /\ o.at = "connect" => Rests /\ Untouched(o, streams)
    /\ o.at = "query" => /\ WaitsFor(o, wire, device, results)
                         /\ ~binary.on /\ LeftBy(completed, data, results)
    /\ o.at = "transfer" => /\ Transfers(o, wire, device, binary) /\ Streaming(o, streams, binary)
                            /\ LeftBy(completed \cup {o.id}, data, results)

RecordingsInv ==
    /\ RecordingsType /\ CountsOwn
    /\ session # "up" => wire = <<>> /\ data = <<>> /\ results = {} /\ ~binary.on
    /\ binary.known => binary.on
    /\ op = None => Rests /\ session # "closing"
    /\ op # None => Own(op) /\ Placed(op)
-----------------------------------------------------------------------------
(* Sequences, and the references that are kept.                             *)

LEMMA MemberOf == ASSUME NEW S, NEW s \in Seq(S), NEW i \in DOMAIN s PROVE s[i] \in S
  OBVIOUS

LEMMA TailOf ==
    ASSUME NEW S, NEW s \in Seq(S), s # <<>>
    PROVE /\ Tail(s) \in Seq(S) /\ Head(s) \in S /\ 1 \in DOMAIN s /\ Head(s) = s[1]
          /\ Len(s) \in Nat \ {0} /\ Len(Tail(s)) = Len(s) - 1
          /\ DOMAIN s = 1..Len(s) /\ DOMAIN Tail(s) = 1..(Len(s) - 1)
          /\ \A i \in DOMAIN Tail(s) : i + 1 \in DOMAIN s /\ i \in Nat /\ Tail(s)[i] = s[i + 1]
  OBVIOUS

LEMMA AppendOf ==
    ASSUME NEW S, NEW s \in Seq(S), NEW x \in S
    PROVE /\ Append(s, x) \in Seq(S) /\ Len(Append(s, x)) = Len(s) + 1 /\ Len(s) \in Nat
          /\ \A i \in DOMAIN Append(s, x) : \/ i \in DOMAIN s /\ Append(s, x)[i] = s[i]
                                            \/ i = Len(s) + 1 /\ Append(s, x)[i] = x
  OBVIOUS

LEMMA KeptIs ==
    ASSUME NEW refs \in Seq(Rows)
    PROVE Kept(refs) \in Seq(Rows) /\ Len(Kept(refs)) <= MaxReferences
<1> DEFINE from == Max({1, Len(refs) - MaxReferences + 1})
<1>1. MaxReferences \in Nat /\ Len(refs) \in Nat
  BY RecordingsAssumption
<1>2. \E x \in {1, Len(refs) - MaxReferences + 1} : \A y \in {1, Len(refs) - MaxReferences + 1} : x >= y
  <2>1. CASE 1 >= Len(refs) - MaxReferences + 1
    BY <1>1, <2>1
  <2>2. CASE ~(1 >= Len(refs) - MaxReferences + 1)
    BY <1>1, <2>2
  <2> QED
    BY <2>1, <2>2
<1>3. from \in {1, Len(refs) - MaxReferences + 1} /\ \A y \in {1, Len(refs) - MaxReferences + 1} : from >= y
  BY <1>2 DEF Max
<1>4. from \in Nat /\ from >= 1 /\ from >= Len(refs) - MaxReferences + 1
  BY <1>1, <1>3
<1> HIDE DEF from
<1>5. SubSeq(refs, from, Len(refs)) \in Seq(Rows)
  BY <1>1, <1>4
<1>6. Len(SubSeq(refs, from, Len(refs))) <= MaxReferences
  BY <1>1, <1>4
<1> QED
  BY <1>5, <1>6 DEF Kept, from

LEMMA SetToSeqIs ==
    ASSUME NEW S \in SUBSET Rows
    PROVE SetToSeq(S) \in Seq(Rows)
<1>1. IsFiniteSet(S)
  BY RecordingsAssumption, FS_Subset
<1>2. Cardinality(S) \in Nat /\ \E f \in [1..Cardinality(S) -> S] : IsInjective(f)
  BY <1>1, FS_CardinalityType DEF ExistsBijection, Bijection, Injection, IsInjective
<1>3. SetToSeq(S) \in [1..Cardinality(S) -> S]
  BY <1>2 DEF SetToSeq
<1> QED
  BY <1>2, <1>3

LEMMA EmptyIs == ASSUME NEW s \in Seq(Answers \cup Events), Len(s) = 0 PROVE s = <<>>
  OBVIOUS

LEMMA SubSeqOf ==
    ASSUME NEW S, NEW s \in Seq(S), NEW skip \in Nat, skip <= Len(s)
    PROVE LET t == SubSeq(s, skip + 1, Len(s))
          IN  /\ t \in Seq(S)
              /\ \A i \in DOMAIN t : \E j \in DOMAIN s : t[i] = s[j]
<1> DEFINE t == SubSeq(s, skip + 1, Len(s))
<1>1. Len(s) \in Nat /\ DOMAIN s = 1..Len(s)
  OBVIOUS
<1>2. t \in Seq(S) /\ DOMAIN t = 1..(Len(s) - skip) /\ \A i \in 1..(Len(s) - skip) : t[i] = s[i + skip]
  BY <1>1
<1>3. \A i \in 1..(Len(s) - skip) : i + skip \in 1..Len(s)
  BY <1>1
<1> HIDE DEF t
<1>4. \A i \in DOMAIN t : \E j \in DOMAIN s : t[i] = s[j]
  BY <1>1, <1>2, <1>3
<1> QED
  BY <1>2, <1>4 DEF t

-----------------------------------------------------------------------------
(* How an operation ends, fails and goes on.                                *)

LEMMA Some == ASSUME RecordingsInv, op # None
              PROVE op \in Operations /\ Own(op) /\ Placed(op) /\ op.id \in Nat
  BY DEF RecordingsInv, RecordingsType, Operations

(* The types, one by one.                                                   *)
LEMMA TypeOf == RecordingsInv =>
    /\ op \in Operations \cup {None} /\ session \in {"down", "up", "closing"}
    /\ wire \in Seq(Answers \cup Events) /\ data \in Seq(Chunks) /\ binary \in Binaries
    /\ results \in SUBSET Commands /\ device \in Devices /\ streams \in BothStreams
    /\ references \in Seq(Rows) /\ Len(references) <= MaxReferences
    /\ begun \in Nat
  BY DEF RecordingsInv, RecordingsType

LEMMA TasksIs == "idle" \in Tasks /\ \A n \in Nat : /\ \A x \in Nat : <<"asked", n, x>> \in Tasks
                                                   /\ <<"transfer", n>> \in Tasks
  BY DEF Tasks

LEMMA DeviceTask ==
    ASSUME NEW d \in Devices, NEW t \in Tasks
    PROVE LET e == [d EXCEPT !.task = t]
          IN  /\ e \in Devices /\ e.task = t /\ e.shown = d.shown /\ e.cap = d.cap
              /\ e.finished = d.finished /\ e.rows = d.rows /\ e.sent = d.sent
  BY DEF Devices

LEMMA LimitIs == ASSUME NEW p \in 1..Len(Limits) PROVE Limits[p] \in Nat
  BY RecordingsAssumption

LEMMA OffIs ==
    \A n \in Nat : /\ Off(n) \in Binaries /\ ~Off(n).on /\ ~Off(n).known /\ Off(n).next = n
  BY DEF Off, Binaries

LEMMA NoStreamsIs ==
    /\ NoStreams \in BothStreams /\ NoStreams.put = {} /\ NoStreams.counted = {}
    /\ NoStreams.video = [waiting |-> {}, read |-> FALSE]
    /\ NoStreams.audio = [waiting |-> {}, read |-> FALSE]
  BY DEF NoStreams, NoStream, BothStreams, OneStream

LEMMA CommandIs ==
    ASSUME NEW n \in Nat, NEW m \in Nat, NEW kind \in {"query", "start", "cancel"}
    PROVE LET c == <<n, kind, m>> IN c \in Commands /\ c[1] = n /\ c[2] = kind
  BY DEF Commands

LEMMA EndsInv ==
    ASSUME RecordingsInv, op # None, NEW code, NEW rows, Ends(Outcome(code, rows)),
           RecordingsType', Rests', session' = session, session # "closing",
           session' # "up" => wire' = <<>> /\ data' = <<>> /\ results' = {},
           binary'.known => binary'.on
    PROVE RecordingsInv'
<1>1. op' = None /\ last'.counted = op.counted /\ last'.by = op.id
  BY DEF Ends, Outcome
<1>2. CountsOwn'
  BY <1>1, Some DEF CountsOwn, Own
<1> QED
  BY <1>1, <1>2 DEF RecordingsInv, Rests

LEMMA FailsInv ==
    ASSUME RecordingsInv, op # None, Fails, UNCHANGED device,
           references' \in Seq(Rows), Len(references') <= MaxReferences, begun' = begun
    PROVE RecordingsInv'
<1>1. /\ op \in Operations /\ op' = [op EXCEPT !.at = "closing"] /\ session' = "closing" /\ wire' = <<>>
      /\ data' = <<>> /\ binary' = Off(0) /\ results' = {} /\ streams' = NoStreams
      /\ last'.counted = op.counted /\ last'.by = op.id
  BY Some DEF Fails, Outcome
<1>2. op' \in Operations /\ op'.at = "closing" /\ op'.counted = op.counted /\ op'.id = op.id
  BY <1>1 DEF Operations
<1>3. CountsOwn' /\ Own(op)'
  BY <1>1, <1>2, Some DEF CountsOwn, Own
<1>4. Placed(op)'
  BY <1>1, <1>2 DEF Placed
<1>5. wire' \in Seq(Answers \cup Events) /\ data' \in Seq(Chunks) /\ results' \in SUBSET Commands
  BY <1>1
<1>6. RecordingsType'
  BY <1>1, <1>2, <1>5, TypeOf, OffIs, NoStreamsIs DEF RecordingsType
<1>7. op' # None
  BY <1>2, RecordingsAssumption
<1> QED
  BY <1>1, <1>3, <1>4, <1>6, <1>7, OffIs DEF RecordingsInv

LEMMA GoesOnInv ==
    ASSUME RecordingsInv, RecordingsType', op' \in Operations, Own(op)', Placed(op)',
           last' = last \/ last' = None, binary'.known => binary'.on,
           session' # "up" => wire' = <<>> /\ data' = <<>> /\ results' = {} /\ ~binary'.on
    PROVE RecordingsInv'
<1>1. op' # None
  BY RecordingsAssumption
<1>2. CountsOwn'
  BY DEF RecordingsInv, CountsOwn
<1> QED
  BY <1>1, <1>2 DEF RecordingsInv

-----------------------------------------------------------------------------
(* The actions.                                                             *)

LEMMA InitInv == Init => RecordingsInv
<1> SUFFICES ASSUME Init PROVE RecordingsInv
  OBVIOUS
<1>1. /\ op = None /\ session = "down" /\ wire = <<>> /\ data = <<>> /\ results = {} /\ last = None
      /\ binary = Off(0) /\ streams = NoStreams /\ begun = 0
      /\ device = [rows |-> {}, shown |-> {}, cap |-> None, task |-> "idle", sent |-> 0,
                   converted |-> FALSE, finished |-> {}, changes |-> 0]
  BY DEF Init
<1>2. device \in Devices /\ device.task = "idle"
  BY <1>1, TasksIs DEF Devices
<1>3. references \in Seq(Rows) /\ Len(references) <= MaxReferences
  <2>1. MaxReferences \in Nat /\ MaxReferences >= 1 /\ Listing \subseteq Rows
    BY RecordingsAssumption
  <2>2. CASE references = <<>>
    BY <2>1, <2>2
  <2>3. ASSUME NEW r \in Listing, references = <<r>> PROVE references \in Seq(Rows) /\ Len(references) <= MaxReferences
    BY <2>1, <2>3
  <2> QED
    BY <2>2, <2>3 DEF Init
<1>4. binary \in Binaries /\ ~binary.on /\ ~binary.known
  BY <1>1, OffIs
<1>5. wire \in Seq(Answers \cup Events) /\ data \in Seq(Chunks)
  BY <1>1
<1>6. RecordingsType
  BY <1>1, <1>2, <1>3, <1>4, <1>5, NoStreamsIs DEF RecordingsType
<1>7. Rests
  BY <1>1, <1>2, <1>4 DEF Rests, Clean, LeftBy
<1> QED
  BY <1>1, <1>4, <1>6, <1>7 DEF RecordingsInv, CountsOwn

LEMMA BeginInv ==
    ASSUME RecordingsInv, NEW kind \in Queries \cup {"download"}, Begin(kind)
    PROVE RecordingsInv'
<1>1. /\ op = None /\ UNCHANGED <<session, wire, data, binary, results, references, completed>>
      /\ last' = None /\ streams' = NoStreams /\ begun' = begun + 1
      /\ op' = [id |-> begun + 1, kind |-> kind, at |-> "connect",
                page |-> 0, previous |-> {}, earlier |-> {}, counted |-> {}, handle |-> FALSE,
                stopping |-> FALSE, finished |-> FALSE, confirmed |-> FALSE]
  BY DEF Begin, carried
<1>2. PICK rows \in SUBSET Rows, cap \in Caps \cup {None} :
          device' = [device EXCEPT !.rows = rows, !.shown = {}, !.cap = cap,
                                   !.converted = FALSE, !.finished = {}, !.changes = 0]
  BY DEF Begin
<1>3. device' \in Devices /\ device'.task = device.task
  BY <1>2, TypeOf DEF Devices
<1>4. begun' \in Nat
  BY <1>1, TypeOf
<1>5. op' \in Operations
  <2>1. 0 \in 0..Len(Limits)
    BY RecordingsAssumption
  <2>2. begun + 1 \in Nat
    BY TypeOf
  <2> QED
    BY <1>1, <2>1, <2>2 DEF Operations
<1>6. Own(op)' /\ op'.at = "connect" /\ Untouched(op', streams')
  BY <1>1 DEF Own, Untouched
<1>7. Placed(op)'
  BY <1>1, <1>3, <1>6 DEF Placed, RecordingsInv, Rests, Clean
<1>8. RecordingsType'
  BY <1>1, <1>3, <1>4, <1>5, TypeOf, NoStreamsIs DEF RecordingsType
<1>9. /\ binary'.known => binary'.on
      /\ session' # "up" => wire' = <<>> /\ data' = <<>> /\ results' = {} /\ ~binary'.on
  BY <1>1 DEF RecordingsInv
<1> QED
  BY <1>1, <1>5, <1>6, <1>7, <1>8, <1>9, GoesOnInv

LEMMA SendOK ==
    ASSUME RecordingsInv, NEW o \in Operations, NEW page \in 1..Len(Limits), Send(o, page)
    PROVE /\ op' \in Operations /\ op'.at = "query" /\ op'.counted = o.counted /\ op'.id = o.id
          /\ op'.kind = o.kind /\ op'.earlier = o.earlier /\ op'.previous = o.previous
          /\ op'.page = page /\ device' \in Devices
          /\ device'.task = <<"asked", o.id, Limits[page]>>
          /\ device'.shown = device.shown /\ device'.cap = device.cap
          /\ results' = results \cup {<<o.id, "query", page>>} /\ results' \in SUBSET Commands
<1>1. page \in Nat /\ o.id \in Nat /\ Limits[page] \in Nat /\ page \in 0..Len(Limits)
  BY RecordingsAssumption, LimitIs DEF Operations
<1>2. op' \in Operations /\ op'.at = "query" /\ op'.counted = o.counted /\ op'.id = o.id
      /\ op'.kind = o.kind /\ op'.earlier = o.earlier /\ op'.previous = o.previous
      /\ op'.page = page
  BY <1>1 DEF Send, Operations
<1>3. <<"asked", o.id, Limits[page]>> \in Tasks
  BY <1>1, TasksIs
<1>4. device' = [device EXCEPT !.task = <<"asked", o.id, Limits[page]>>]
  BY DEF Send
<1>5. device' \in Devices /\ device'.task = <<"asked", o.id, Limits[page]>>
      /\ device'.shown = device.shown /\ device'.cap = device.cap
  BY <1>3, <1>4, TypeOf, DeviceTask
<1>6. <<o.id, "query", page>> \in Commands /\ results' = results \cup {<<o.id, "query", page>>}
  BY <1>1, CommandIs DEF Send
<1> QED
  BY <1>1, <1>2, <1>5, <1>6, TypeOf

(* A question leaves nothing but the record of its own page.                *)
LEMMA AskedLeaves ==
    ASSUME NEW mine, NEW chunks, NEW commands, LeftBy(mine, chunks, commands), NEW n, NEW p
    PROVE LeftBy(mine, chunks, commands \cup {<<n, "query", p>>})
  BY DEF LeftBy

LEMMA ConnectedInv == RecordingsInv /\ Connected => RecordingsInv'
<1> SUFFICES ASSUME RecordingsInv, Connected PROVE RecordingsInv'
  OBVIOUS
<1> DEFINE o == [op EXCEPT !.earlier = Earlier]
<1>1. /\ op # None /\ op.at = "connect" /\ session' = "up"
      /\ UNCHANGED <<wire, data, streams, references, last, completed, begun>>
  BY DEF Connected, Holds
<1>2. /\ op \in Operations /\ Own(op) /\ Rests /\ Untouched(op, streams) /\ op.id \in Nat
      /\ wire = <<>> /\ device.task = "idle" /\ ~binary.on /\ LeftBy(completed, data, results)
  BY <1>1, Some DEF Placed, Rests, Clean
<1>3. Earlier \in SUBSET Commands
  BY TypeOf DEF Earlier
<1>4. /\ o \in Operations /\ o.id = op.id /\ o.counted = op.counted /\ o.kind = op.kind
      /\ o.earlier = Earlier /\ o.finished = op.finished /\ o.confirmed = op.confirmed
      /\ o.handle = op.handle /\ o.kind \in Queries \cup {"download"} /\ o.previous = op.previous
  BY <1>2, <1>3 DEF Operations
<1>5. \/ op.kind # "download" /\ Send(o, 1) /\ UNCHANGED binary
      \/ op.kind = "download" /\ Starts(o)
  BY <1>4 DEF Connected
<1> HIDE DEF o
<1>6. CASE op.kind # "download" /\ Send(o, 1) /\ UNCHANGED binary
  <2>1. 1 \in 1..Len(Limits)
    BY RecordingsAssumption
  <2>2. /\ op' \in Operations /\ op'.at = "query" /\ op'.counted = o.counted /\ op'.id = o.id
        /\ op'.kind = o.kind /\ op'.earlier = o.earlier /\ op'.previous = o.previous
        /\ op'.page = 1 /\ device' \in Devices
        /\ device'.task = <<"asked", o.id, Limits[1]>>
        /\ results' = results \cup {<<o.id, "query", 1>>} /\ results' \in SUBSET Commands
    BY <1>4, <1>6, <2>1, SendOK
  <2>3. op'.kind # "thumbnail" => \A c \in results' : c \in op'.earlier \/ c[1] = op'.id
    BY <1>4, <1>6, <2>2 DEF Earlier
  <2>4. Before(op', device')
    BY <1>2, <1>4, <2>2 DEF Before, Untouched
  <2>5. WaitsFor(op', wire', device', results')
    BY <1>1, <1>2, <1>4, <1>6, <2>1, <2>2, <2>3, <2>4 DEF WaitsFor
  <2>6. LeftBy(completed, data, results \cup {<<o.id, "query", 1>>})
    BY <1>2, AskedLeaves
  <2>7. LeftBy(completed', data', results')
    BY <1>1, <2>2, <2>6
  <2>8. Own(op)' /\ Placed(op)'
    BY <1>1, <1>2, <1>4, <1>6, <2>2, <2>5, <2>7 DEF Own, Placed
  <2>9. RecordingsType'
    BY <1>1, <1>6, <2>2, TypeOf DEF RecordingsType
  <2>10. binary'.known => binary'.on
    BY <1>6 DEF RecordingsInv
  <2> QED
    BY <1>1, <2>2, <2>8, <2>9, <2>10, GoesOnInv
<1>7. CASE op.kind = "download" /\ Starts(o)
  <2>1. /\ op' = [o EXCEPT !.at = "transfer"] /\ results' = results \cup {<<o.id, "start", 0>>}
        /\ device' = [device EXCEPT !.task = <<"transfer", o.id>>]
        /\ binary' = [binary EXCEPT !.on = TRUE, !.known = TRUE]
    BY <1>7 DEF Starts
  <2>2. /\ op' \in Operations /\ op'.at = "transfer" /\ op'.counted = o.counted /\ op'.id = o.id
        /\ op'.kind = o.kind /\ op'.finished = o.finished /\ op'.confirmed = o.confirmed
        /\ op'.handle = o.handle
    BY <1>4, <2>1 DEF Operations
  <2>3. device' \in Devices /\ device'.task = <<"transfer", o.id>>
    BY <1>2, <1>4, <2>1, TypeOf, TasksIs, DeviceTask
  <2>4. binary' \in Binaries /\ binary'.on
    BY <2>1, TypeOf DEF Binaries
  <2>5. results' \in SUBSET Commands
    <3>1. <<op.id, "start", 0>> \in Commands
      BY <1>2 DEF Commands
    <3> QED
      BY <1>4, <2>1, <3>1, TypeOf
  <2>6. Transfers(op', wire', device', binary')
    BY <1>1, <1>2, <1>4, <1>7, <2>2, <2>3 DEF Transfers, Untouched
  <2>7. Streaming(op', streams', binary')
    BY <1>1, <1>2, <1>4, <2>2, <2>4, NoStreamsIs DEF Streaming, Untouched, Unbroken
  <2>8. LeftBy(completed' \cup {op'.id}, data', results')
    BY <1>1, <1>2, <1>4, <2>1, <2>2 DEF LeftBy
  <2>9. Own(op)' /\ Placed(op)'
    BY <1>1, <1>2, <1>4, <2>2, <2>6, <2>7, <2>8 DEF Own, Placed
  <2>10. RecordingsType'
    BY <1>1, <2>2, <2>3, <2>4, <2>5, TypeOf DEF RecordingsType
  <2> QED
    BY <1>1, <2>2, <2>4, <2>9, <2>10, GoesOnInv
<1> QED
  BY <1>5, <1>6, <1>7

LEMMA ConnectFailsInv == RecordingsInv /\ ConnectFails => RecordingsInv'
<1> SUFFICES ASSUME RecordingsInv, ConnectFails PROVE RecordingsInv'
  OBVIOUS
<1>1. /\ op # None /\ op.at = "connect" /\ Ends(Outcome("failed", {})) /\ op' = None
      /\ UNCHANGED <<session, wire, data, binary, results, device, streams, references,
                     completed, begun>>
  BY DEF ConnectFails, Holds, Ends, carried
<1>2. Rests /\ session # "closing"
  BY <1>1, Some DEF Placed
<1>3. Rests'
  BY <1>1, <1>2 DEF Rests, Clean
<1>4. RecordingsType'
  BY <1>1, TypeOf DEF RecordingsType
<1>5. /\ binary'.known => binary'.on
      /\ session' # "up" => wire' = <<>> /\ data' = <<>> /\ results' = {}
  BY <1>1 DEF RecordingsInv
<1> QED
  BY <1>1, <1>2, <1>3, <1>4, <1>5, EndsInv

LEMMA ClosedInv == RecordingsInv /\ Closed => RecordingsInv'
<1> SUFFICES ASSUME RecordingsInv, Closed PROVE RecordingsInv'
  OBVIOUS
<1>1. /\ op' = None /\ session' = "down"
      /\ UNCHANGED <<wire, data, binary, results, streams, references, last, completed, begun>>
      /\ device' = [device EXCEPT !.task = "idle"]
      /\ wire = <<>> /\ data = <<>> /\ results = {} /\ ~binary.on
      /\ binary.known => binary.on
  BY DEF Closed, RecordingsInv, carried
<1>2. device' \in Devices /\ device'.task = "idle"
  BY <1>1, TypeOf, TasksIs, DeviceTask
<1>3. RecordingsType'
  BY <1>1, <1>2, TypeOf DEF RecordingsType
<1>4. Rests'
  BY <1>1, <1>2 DEF Rests, Clean, LeftBy
<1>5. CountsOwn'
  BY <1>1 DEF CountsOwn, RecordingsInv
<1> QED
  BY <1>1, <1>3, <1>4, <1>5 DEF RecordingsInv

-----------------------------------------------------------------------------
(* A query: it has one question or one answer on the session.               *)

LEMMA QueryIs ==
    ASSUME RecordingsInv, Querying
    PROVE /\ op # None /\ op \in Operations /\ op.at = "query" /\ session = "up" /\ Own(op)
          /\ op.id \in Nat /\ WaitsFor(op, wire, device, results) /\ ~binary.on
          /\ LeftBy(completed, data, results) /\ op.kind \in Queries
          /\ op.page \in 1..Len(Limits) /\ (binary.known => binary.on)
<1>1. op # None /\ op.at = "query"
  BY DEF Querying, Holds
<1>2. op \in Operations /\ Own(op) /\ Placed(op) /\ op.id \in Nat
  BY <1>1, Some
<1>3. session = "up" /\ WaitsFor(op, wire, device, results) /\ ~binary.on
      /\ LeftBy(completed, data, results)
  BY <1>1, <1>2 DEF Placed
<1>4. binary.known => binary.on
  BY DEF RecordingsInv
<1> QED
  BY <1>1, <1>2, <1>3, <1>4 DEF WaitsFor

LEMMA AnswerIs ==
    ASSUME RecordingsInv, Querying, wire # <<>>
    PROVE /\ device.task = "idle" /\ Head(wire) \in Answers /\ Tail(wire) = <<>>
          /\ op.kind = "list" /\ ~Head(wire).refused => Shows(op, Head(wire).rows, device)
          /\ op.kind = "list" => Before(op, device)
<1>1. WaitsFor(op, wire, device, results)
  BY QueryIs
<1>2. PICK m \in Answers :
          wire = <<m>> /\ (op.kind = "list" /\ ~m.refused => Shows(op, m.rows, device))
  BY <1>1 DEF WaitsFor
<1>3. Head(wire) = m /\ Tail(wire) = <<>>
  BY <1>2
<1> QED
  BY <1>1, <1>2, <1>3 DEF WaitsFor

(* It ends well when its answer has been read.                              *)
LEMMA ReadInv ==
    ASSUME RecordingsInv, Querying, wire # <<>>, NEW code, NEW rows, Ends(Outcome(code, rows)),
           Takes, UNCHANGED <<results, device, completed, begun>>,
           references' \in Seq(Rows), Len(references') <= MaxReferences
    PROVE RecordingsInv'
<1>1. op # None /\ session = "up" /\ ~binary.on /\ LeftBy(completed, data, results)
      /\ device.task = "idle" /\ Tail(wire) = <<>> /\ (binary.known => binary.on)
  BY QueryIs, AnswerIs
<1>2. op' = None /\ wire' = <<>> /\ UNCHANGED <<session, data, binary, streams>>
  BY <1>1 DEF Ends, Takes
<1>3. wire' \in Seq(Answers \cup Events)
  BY <1>2
<1>4. RecordingsType'
  BY <1>2, <1>3, TypeOf DEF RecordingsType
<1>5. Rests'
  BY <1>1, <1>2 DEF Rests, Clean
<1> QED
  BY <1>1, <1>2, <1>4, <1>5, EndsInv

(* The next page: the one before was full.                                  *)
LEMMA WidensInv ==
    ASSUME RecordingsInv, Querying, wire # <<>>, NEW rows \in SUBSET Rows, Shows(op, rows, device),
           Widens(rows), Send([op EXCEPT !.previous = rows], op.page + 1), Takes,
           UNCHANGED <<last, references, completed, begun>>
    PROVE RecordingsInv'
<1> DEFINE o == [op EXCEPT !.previous = rows]
<1>1. /\ op \in Operations /\ session = "up" /\ ~binary.on /\ LeftBy(completed, data, results)
      /\ Tail(wire) = <<>> /\ (binary.known => binary.on) /\ op.kind \in Queries /\ Own(op)
      /\ op.page \in 1..Len(Limits) /\ op.id \in Nat /\ WaitsFor(op, wire, device, results)
  BY QueryIs, AnswerIs
<1>2. /\ o \in Operations /\ o.id = op.id /\ o.counted = op.counted /\ o.kind = op.kind
      /\ o.earlier = op.earlier /\ o.previous = rows
  BY <1>1 DEF Operations
<1>3. Send(o, op.page + 1) /\ wire' = <<>> /\ UNCHANGED <<session, data, binary, streams>>
  BY <1>1 DEF Takes
<1> HIDE DEF o
<1>4. op.page + 1 \in 1..Len(Limits) /\ op.page + 1 # 1 /\ (op.page + 1) - 1 = op.page
      /\ Cardinality(rows) = Limits[op.page]
  <2>1. Len(Limits) \in Nat /\ op.page \in Nat /\ op.page >= 1
    BY <1>1, RecordingsAssumption
  <2>2. op.page < Len(Limits) /\ Cardinality(rows) = Limits[op.page]
    BY DEF Widens
  <2>3. op.page + 1 \in 1..Len(Limits) /\ op.page + 1 # 1 /\ (op.page + 1) - 1 = op.page
    BY <2>1, <2>2
  <2> QED
    BY <2>2, <2>3
<1>5. /\ op' \in Operations /\ op'.at = "query" /\ op'.counted = o.counted /\ op'.id = o.id
      /\ op'.kind = o.kind /\ op'.earlier = o.earlier /\ op'.previous = o.previous
      /\ op'.page = op.page + 1 /\ device' \in Devices
      /\ device'.task = <<"asked", o.id, Limits[op.page + 1]>>
      /\ device'.shown = device.shown /\ device'.cap = device.cap
      /\ results' = results \cup {<<o.id, "query", op.page + 1>>} /\ results' \in SUBSET Commands
  BY <1>2, <1>3, <1>4, SendOK
<1>6. op'.kind # "thumbnail" => \A c \in results' : c \in op'.earlier \/ c[1] = op'.id
  BY <1>1, <1>2, <1>5 DEF WaitsFor
<1>7. Before(op', device')
  <2>1. device.cap # None => Limits[op.page] <= device.cap
    BY <1>4 DEF Shows
  <2> QED
    BY <1>2, <1>4, <1>5, <2>1 DEF Before
<1>8. WaitsFor(op', wire', device', results')
  BY <1>1, <1>2, <1>3, <1>4, <1>5, <1>6, <1>7 DEF WaitsFor
<1>9. LeftBy(completed, data, results \cup {<<o.id, "query", op.page + 1>>})
  BY <1>1, AskedLeaves
<1>10. LeftBy(completed', data', results')
  BY <1>3, <1>5, <1>9
<1>11. Own(op)' /\ Placed(op)'
  BY <1>1, <1>2, <1>3, <1>5, <1>8, <1>10 DEF Own, Placed
<1>12. wire' \in Seq(Answers \cup Events)
  BY <1>3
<1>13. RecordingsType'
  BY <1>3, <1>5, <1>12, TypeOf DEF RecordingsType
<1> QED
  BY <1>1, <1>3, <1>5, <1>11, <1>13, GoesOnInv

LEMMA ListedInv ==
    ASSUME RecordingsInv, Querying, wire # <<>>, NEW rows \in SUBSET Rows, Shows(op, rows, device),
           Listed(rows), UNCHANGED <<completed, begun>>
    PROVE RecordingsInv'
<1>1. \/ Fails /\ UNCHANGED <<device, references>>
      \/ /\ Ends(Outcome("ok", rows)) /\ references' = Kept(references \o SetToSeq(rows))
         /\ Takes /\ UNCHANGED <<results, device>>
      \/ /\ Widens(rows) /\ Send([op EXCEPT !.previous = rows], op.page + 1) /\ Takes
         /\ UNCHANGED <<last, references>>
  BY DEF Listed
<1>2. CASE Fails /\ UNCHANGED <<device, references>>
  BY <1>2, QueryIs, FailsInv, TypeOf
<1>3. CASE /\ Ends(Outcome("ok", rows)) /\ references' = Kept(references \o SetToSeq(rows))
           /\ Takes /\ UNCHANGED <<results, device>>
  <2>1. references \o SetToSeq(rows) \in Seq(Rows)
    BY SetToSeqIs, TypeOf
  <2>2. references' \in Seq(Rows) /\ Len(references') <= MaxReferences
    BY <1>3, <2>1, KeptIs
  <2> QED
    BY <1>3, <2>2, ReadInv
<1>4. CASE /\ Widens(rows) /\ Send([op EXCEPT !.previous = rows], op.page + 1) /\ Takes
           /\ UNCHANGED <<last, references>>
  BY <1>4, WidensInv
<1> QED
  BY <1>1, <1>2, <1>3, <1>4

LEMMA AnswerInv == RecordingsInv /\ Answer => RecordingsInv'
<1> SUFFICES ASSUME RecordingsInv, Answer PROVE RecordingsInv'
  OBVIOUS
<1>1. Querying /\ wire # <<>> /\ UNCHANGED <<completed, begun>>
  BY DEF Answer
<1>2. /\ Head(wire) \in Answers
      /\ op.kind = "list" /\ ~Head(wire).refused => Shows(op, Head(wire).rows, device)
  BY <1>1, AnswerIs
<1>3. \/ Fails /\ UNCHANGED <<device, references>>
      \/ \E code : Ends(Outcome(code, {})) /\ Takes /\ UNCHANGED <<results, device, references>>
      \/ ~Head(wire).refused /\ op.kind = "list" /\ Listed(Head(wire).rows)
  BY DEF Answer
<1>4. CASE Fails /\ UNCHANGED <<device, references>>
  BY <1>1, <1>4, QueryIs, FailsInv, TypeOf
<1>5. ASSUME NEW code, Ends(Outcome(code, {})), Takes, UNCHANGED <<results, device, references>>
      PROVE RecordingsInv'
  BY <1>1, <1>5, ReadInv, TypeOf
<1>6. CASE ~Head(wire).refused /\ op.kind = "list" /\ Listed(Head(wire).rows)
  <2>1. Head(wire).rows \in SUBSET Rows
    BY <1>2 DEF Answers
  <2> QED
    BY <1>1, <1>2, <1>6, <2>1, ListedInv
<1> QED
  BY <1>3, <1>4, <1>5, <1>6

LEMMA QueryFailsInv == RecordingsInv /\ QueryFails => RecordingsInv'
  BY QueryIs, FailsInv, TypeOf DEF QueryFails

LEMMA ResultInv == ASSUME RecordingsInv, NEW c \in results, Result(c) PROVE RecordingsInv'
<1>1. /\ results' = results \ {c}
      /\ UNCHANGED <<session, wire, data, binary, device, streams, references, last, completed, begun>>
      /\ results' \in SUBSET Commands /\ c \in Commands
  BY TypeOf DEF Result
<1>2. \A mine : LeftBy(mine, data, results) => LeftBy(mine, data', results')
  BY <1>1 DEF LeftBy
<1>3. CASE op' = op
  <2>1. RecordingsType'
    BY <1>1, <1>3, TypeOf DEF RecordingsType
  <2>2. WaitsFor(op, wire, device, results) => WaitsFor(op', wire', device', results')
    BY <1>1, <1>3 DEF WaitsFor
  <2>3. op # None => Own(op)' /\ Placed(op)'
    BY <1>1, <1>2, <1>3, <2>2, Some DEF Own, Placed, Rests, Clean
  <2>4. Rests => Rests'
    BY <1>1, <1>2 DEF Rests, Clean
  <2>5. results = {} => results' = {}
    BY <1>1
  <2> QED
    BY <1>1, <1>3, <2>1, <2>3, <2>4, <2>5 DEF RecordingsInv, CountsOwn
<1>4. CASE Counts(c) /\ op' = [op EXCEPT !.counted = @ \cup {c}]
  <2>1. /\ op # None /\ op \in Operations /\ Own(op) /\ op.at = "query" /\ session = "up"
        /\ WaitsFor(op, wire, device, results) /\ ~binary.on /\ LeftBy(completed, data, results)
        /\ (binary.known => binary.on) /\ c \notin op.earlier /\ op.kind # "thumbnail"
    BY <1>4, QueryIs DEF Counts
  <2>2. /\ op' \in Operations /\ op'.counted = op.counted \cup {c} /\ op'.id = op.id /\ op'.at = "query"
        /\ op'.kind = op.kind /\ op'.earlier = op.earlier /\ op'.page = op.page
        /\ op'.previous = op.previous
    BY <1>1, <1>4, <2>1 DEF Operations
  <2>3. c[1] = op.id
    BY <2>1 DEF WaitsFor
  <2>4. /\ \A rows : Shows(op, rows, device) => Shows(op', rows, device')
        /\ Before(op, device) => Before(op', device')
    BY <1>1, <2>2 DEF Shows, Before
  <2>5. WaitsFor(op', wire', device', results') /\ Own(op)'
    BY <1>1, <2>1, <2>2, <2>3, <2>4 DEF WaitsFor, Own
  <2>6. Placed(op)' /\ RecordingsType'
    BY <1>1, <1>2, <2>1, <2>2, <2>5, TypeOf DEF Placed, RecordingsType
  <2> QED
    BY <1>1, <2>1, <2>2, <2>5, <2>6, GoesOnInv
<1> QED
  BY <1>3, <1>4 DEF Result

-----------------------------------------------------------------------------
(* A transfer.                                                              *)

LEMMA TransferIs ==
    ASSUME RecordingsInv, Transferring
    PROVE /\ op # None /\ op \in Operations /\ op.at = "transfer" /\ session = "up" /\ Own(op)
          /\ op.id \in Nat /\ Transfers(op, wire, device, binary) /\ Streaming(op, streams, binary)
          /\ LeftBy(completed \cup {op.id}, data, results) /\ (binary.known => binary.on)
<1>1. op # None /\ op.at = "transfer"
  BY DEF Transferring, Holds
<1>2. op \in Operations /\ Own(op) /\ Placed(op) /\ op.id \in Nat
  BY <1>1, Some
<1>3. binary.known => binary.on
  BY DEF RecordingsInv
<1> QED
  BY <1>1, <1>2, <1>3 DEF Placed

(* Another state of the same transfer.                                      *)
Same(o) == o.at = op.at /\ o.counted = op.counted /\ o.id = op.id /\ o.kind = op.kind
Onto(o, s) ==
    /\ Transfers(o, wire', device', binary') /\ Streaming(o, s, binary')
    /\ LeftBy(completed \cup {op.id}, data', results') /\ (binary'.known => binary'.on)
    /\ wire' \in Seq(Answers \cup Events) /\ data' \in Seq(Chunks) /\ binary' \in Binaries
    /\ results' \in SUBSET Commands /\ device' \in Devices
    /\ UNCHANGED <<session, references, begun>>

LEMMA TransferGoesOn ==
    ASSUME RecordingsInv, Transferring, NEW o \in Operations, Same(o),
           NEW s \in BothStreams, Onto(o, s),
           op' = o, streams' = s, UNCHANGED <<last, completed>>
    PROVE RecordingsInv'
<1>1. op.at = "transfer" /\ session = "up" /\ Own(op)
  BY TransferIs
<1>2. op' \in Operations /\ op'.at = "transfer" /\ session' = "up" /\ Own(op)'
  BY <1>1 DEF Same, Onto, Own
<1>3. Placed(op)'
  BY <1>2 DEF Same, Onto, Placed
<1>4. RecordingsType'
  BY TypeOf DEF Onto, RecordingsType
<1> QED
  BY <1>2, <1>3, <1>4, GoesOnInv DEF Onto

LEMMA SettlesInv ==
    ASSUME RecordingsInv, Transferring, NEW o \in Operations, Same(o),
           NEW s \in BothStreams, Onto(o, s), Settles(o, s)
    PROVE RecordingsInv'
<1>1. CASE Finished(o, s)
  <2>1. /\ op # None /\ session = "up" /\ op' = None /\ Ends(Outcome("complete", {}))
        /\ completed' = completed \cup {op.id} /\ streams' = NoStreams
    BY <1>1, TransferIs DEF Settles, Ends
  <2>2. wire' = <<>> /\ device'.task = "idle" /\ ~binary'.on
    BY <1>1 DEF Finished, Onto, Transfers
  <2>3. Rests'
    BY <2>1, <2>2 DEF Rests, Clean, Onto
  <2>4. RecordingsType'
    BY <2>1, NoStreamsIs, TypeOf DEF Onto, RecordingsType
  <2>5. session' = session /\ (binary'.known => binary'.on)
    BY DEF Onto
  <2> QED
    BY <2>1, <2>3, <2>4, <2>5, EndsInv
<1>2. CASE ~Finished(o, s)
  BY <1>2, TransferGoesOn DEF Settles
<1> QED
  BY <1>1, <1>2

(* What depends on the state of the transfer, of the streams and of BINARY. *)
LEMMA TransfersSame ==
    ASSUME NEW o, NEW p, NEW w, NEW d, NEW b, Transfers(o, w, d, b),
           p.kind = o.kind, p.id = o.id, p.confirmed = o.confirmed
    PROVE Transfers(p, w, d, b)
  BY DEF Transfers

LEMMA TransfersPopped ==
    ASSUME NEW o, NEW w \in Seq(Answers \cup Events), w # <<>>, NEW d, NEW b, NEW e, Transfers(o, w, d, b)
    PROVE Transfers(o, Tail(w), d, e)
<1>1. /\ Len(w) \in Nat \ {0} /\ Len(Tail(w)) = Len(w) - 1
      /\ \A i \in DOMAIN Tail(w) : i + 1 \in DOMAIN w /\ i \in Nat /\ Tail(w)[i] = w[i + 1]
  BY TailOf
<1>2. \A i \in DOMAIN Tail(w) : i + 1 = Len(w) => i = Len(Tail(w))
  BY <1>1
<1> QED
  BY <1>1, <1>2 DEF Transfers

LEMMA StreamingSame ==
    ASSUME NEW o, NEW p, NEW s, NEW b, Streaming(o, s, b), p.handle = o.handle, p.finished = o.finished
    PROVE Streaming(p, s, b)
  BY DEF Streaming

LEMMA StopIs ==
    ASSUME NEW o \in Operations
    PROVE /\ Stop(o) \in Operations /\ Stop(o).at = o.at /\ Stop(o).counted = o.counted
          /\ Stop(o).id = o.id /\ Stop(o).kind = o.kind /\ Stop(o).handle = o.handle
          /\ Stop(o).finished = o.finished /\ Stop(o).confirmed = o.confirmed
  BY DEF Stop, Operations

LEMMA StartedIs ==
    ASSUME NEW o \in Operations
    PROVE /\ Started(o) \in Operations /\ Started(o).at = o.at /\ Started(o).counted = o.counted
          /\ Started(o).id = o.id /\ Started(o).kind = o.kind
          /\ Started(o).finished = o.finished /\ Started(o).confirmed = o.confirmed
          /\ Started(o).handle => o.handle \/ binary.known
<1>1. LET p == [o EXCEPT !.handle = TRUE]
      IN  /\ p \in Operations /\ p.at = o.at /\ p.counted = o.counted /\ p.id = o.id
          /\ p.kind = o.kind /\ p.finished = o.finished /\ p.confirmed = o.confirmed
  BY DEF Operations
<1> QED
  BY <1>1, StopIs DEF Started

LEMMA EndedIs ==
    ASSUME NEW o \in Operations
    PROVE /\ Ended(o) \in Operations /\ Ended(o).at = o.at /\ Ended(o).counted = o.counted
          /\ Ended(o).id = o.id /\ Ended(o).kind = o.kind
          /\ Ended(o).handle = o.handle /\ Ended(o).confirmed = o.confirmed
          /\ o.finished \/ (binary.told /\ binary.known) <=> Ended(o).finished
<1> DEFINE p == [o EXCEPT !.finished = TRUE]
<1>1. /\ p \in Operations /\ p.at = o.at /\ p.counted = o.counted /\ p.id = o.id
      /\ p.kind = o.kind /\ p.finished /\ p.confirmed = o.confirmed /\ p.handle = o.handle
  BY DEF Operations
<1> HIDE DEF p
<1>2. CASE ~(binary.told /\ binary.known) \/ o.finished
  BY <1>2 DEF Ended
<1>3. CASE binary.told /\ binary.known /\ ~o.finished
  <2>1. Ended(o) \in {p, Stop(p)}
    BY <1>3 DEF Ended, p
  <2> QED
    BY <1>1, <1>3, <2>1, StopIs
<1> QED
  BY <1>2, <1>3

-----------------------------------------------------------------------------
(* The streams of a transfer take chunks, and end.                          *)

LEMMA StreamIs ==
    ASSUME NEW s \in BothStreams
    PROVE /\ s.video \in OneStream /\ s.audio \in OneStream /\ s.put \in SUBSET Nat
          /\ s.counted \in SUBSET Nat /\ s.video.waiting \in SUBSET Nat
          /\ s.audio.waiting \in SUBSET Nat
  BY DEF BothStreams, OneStream

(* The streams after one more chunk.                                        *)
Put(s, kind, n) == [s EXCEPT ![kind].waiting = @ \cup {n}, !.put = @ \cup {n}]
LEMMA PutIs ==
    ASSUME NEW s \in BothStreams, NEW kind \in Kinds, NEW n \in Nat
    PROVE LET t == Put(s, kind, n)
          IN  /\ t \in BothStreams /\ t.put = s.put \cup {n} /\ t.counted = s.counted
              /\ t.video.read = s.video.read /\ t.audio.read = s.audio.read
              /\ t.video.waiting \cup t.audio.waiting = s.video.waiting \cup s.audio.waiting \cup {n}
<1> DEFINE t == Put(s, kind, n)
<1>1. CASE kind = "video"
  <2>1. /\ t.video = [s.video EXCEPT !.waiting = @ \cup {n}] /\ t.audio = s.audio
        /\ t.put = s.put \cup {n} /\ t.counted = s.counted /\ t.seen = s.seen
    BY <1>1 DEF BothStreams, Put
  <2>2. t.video \in OneStream /\ t.video.waiting = s.video.waiting \cup {n}
        /\ t.video.read = s.video.read
    BY <2>1, StreamIs DEF OneStream
  <2>3. t \in BothStreams
    BY <1>1, <2>1, <2>2, StreamIs DEF BothStreams, Put
  <2> HIDE DEF t
  <2> QED
    BY <2>1, <2>2, <2>3 DEF t
<1>2. CASE kind = "audio"
  <2>1. /\ t.audio = [s.audio EXCEPT !.waiting = @ \cup {n}] /\ t.video = s.video
        /\ t.put = s.put \cup {n} /\ t.counted = s.counted /\ t.seen = s.seen
    BY <1>2 DEF BothStreams, Put
  <2>2. t.audio \in OneStream /\ t.audio.waiting = s.audio.waiting \cup {n}
        /\ t.audio.read = s.audio.read
    BY <2>1, StreamIs DEF OneStream
  <2>3. t \in BothStreams
    BY <1>2, <2>1, <2>2, StreamIs DEF BothStreams, Put
  <2> HIDE DEF t
  <2> QED
    BY <2>1, <2>2, <2>3 DEF t
<1> QED
  BY <1>1, <1>2 DEF Kinds

LEMMA RunIs ==
    ASSUME NEW S \in SUBSET Nat, NEW next \in Nat,
           \A n \in S : n < next /\ n..(next - 1) \subseteq S
    PROVE Unbroken(S)
<1> SUFFICES ASSUME NEW m \in S, NEW n \in S, NEW i \in m..n PROVE i \in S
  BY DEF Unbroken
<1>1. m \in Nat /\ n \in Nat /\ n < next /\ m..(next - 1) \subseteq S
  OBVIOUS
<1>2. i \in m..(next - 1)
  BY <1>1
<1> QED
  BY <1>1, <1>2

LEMMA NextIs ==
    ASSUME NEW S \in SUBSET Nat, NEW next \in Nat,
           \A n \in S : n < next /\ n..(next - 1) \subseteq S
    PROVE LET T == S \cup {next}
          IN \A n \in T : n < next + 1 /\ n..((next + 1) - 1) \subseteq T
<1> DEFINE T == S \cup {next}
<1> SUFFICES ASSUME NEW n \in T PROVE n < next + 1 /\ n..((next + 1) - 1) \subseteq T
  OBVIOUS
<1>1. CASE n = next
  BY <1>1
<1>2. CASE n \in S
  <2>1. n \in Nat /\ n < next /\ n..(next - 1) \subseteq S
    BY <1>2
  <2>2. ASSUME NEW i \in n..((next + 1) - 1) PROVE i \in n..(next - 1) \/ i = next
    BY <2>1, <2>2
  <2> QED
    BY <2>1, <2>2
<1> QED
  BY <1>1, <1>2

(* A chunk is put into a stream that has not ended.                         *)
LEMMA PutStreaming ==
    ASSUME NEW o, NEW p, NEW s \in BothStreams, NEW b \in Binaries, NEW c \in Binaries,
           NEW kind \in Kinds, Streaming(o, s, b), ~o.finished, ~p.finished, c.next = b.next + 1,
           c.on, p.handle => c.told /\ c.known
    PROVE Streaming(p, Put(s, kind, b.next), c)
<1> DEFINE t == Put(s, kind, b.next)
<1>1. b.next \in Nat /\ s.put \in SUBSET Nat
  BY StreamIs DEF Binaries
<1>2. /\ t.put = s.put \cup {b.next} /\ t.counted = s.counted
      /\ t.video.read = s.video.read /\ t.audio.read = s.audio.read
      /\ t.video.waiting \cup t.audio.waiting = s.video.waiting \cup s.audio.waiting \cup {b.next}
  BY <1>1, PutIs
<1> HIDE DEF t
<1>3. /\ s.put = s.counted \cup s.video.waiting \cup s.audio.waiting /\ ~s.video.read /\ ~s.audio.read
      /\ \A n \in s.put : n < b.next /\ n..(b.next - 1) \subseteq s.put
  BY DEF Streaming
<1>4. \A n \in t.put : n < c.next /\ n..(c.next - 1) \subseteq t.put
  BY <1>1, <1>2, <1>3, NextIs
<1>5. Unbroken(t.put) /\ c.next \in Nat
  <2>1. t.put \in SUBSET Nat /\ c.next \in Nat
    BY <1>1, <1>2
  <2> QED
    BY <1>4, <2>1, RunIs
<1>6. t.put = t.counted \cup t.video.waiting \cup t.audio.waiting
  BY <1>2, <1>3
<1>7. Streaming(p, t, c)
  BY <1>2, <1>3, <1>4, <1>5, <1>6 DEF Streaming
<1> QED
  BY <1>7 DEF t

LEMMA ChunkInv == RecordingsInv /\ Chunk => RecordingsInv'
<1> SUFFICES ASSUME RecordingsInv, Chunk PROVE RecordingsInv'
  OBVIOUS
<1> DEFINE kind == Head(data).of
           heard == binary.heard \cup {kind}
           told == binary.told \/ heard = Kinds
           b == [binary EXCEPT !.next = @ + 1, !.heard = heard, !.told = told]
           o == IF told /\ ~binary.told THEN Started(op) ELSE op
           s == IF op.finished THEN streams
                ELSE Put(streams, kind, binary.next)
<1>1. /\ Transferring /\ binary.on /\ data # <<>> /\ data' = Tail(data) /\ binary' = b /\ op' = o
      /\ streams' = s
      /\ UNCHANGED <<session, wire, results, device, references, last, completed, begun>>
  BY DEF Chunk, Put
<1>2. /\ op \in Operations /\ Transfers(op, wire, device, binary) /\ Streaming(op, streams, binary)
      /\ LeftBy(completed \cup {op.id}, data, results) /\ (binary.known => binary.on)
  BY <1>1, TransferIs
<1>3. /\ data' \in Seq(Chunks) /\ kind \in Kinds
      /\ \A i \in DOMAIN data' : i + 1 \in DOMAIN data /\ data'[i] = data[i + 1]
  <2>1. data \in Seq(Chunks)
    BY TypeOf
  <2>2. Tail(data) \in Seq(Chunks) /\ Head(data) \in Chunks
        /\ \A i \in DOMAIN Tail(data) : i + 1 \in DOMAIN data /\ Tail(data)[i] = data[i + 1]
    BY <1>1, <2>1, TailOf
  <2> QED
    BY <1>1, <2>2 DEF Chunks
<1>4. told \in BOOLEAN /\ heard \in SUBSET Kinds /\ binary.next \in Nat
  BY <1>3, TypeOf DEF Binaries
<1> HIDE DEF kind, heard, told
<1>5. /\ b \in Binaries /\ b.on = binary.on /\ b.known = binary.known /\ b.next = binary.next + 1
      /\ b.told = told
  <2>1. binary \in Binaries /\ binary.next + 1 \in Nat
    BY <1>4, TypeOf
  <2>2. b \in Binaries
    BY <1>4, <2>1 DEF Binaries
  <2>3. b.on = binary.on /\ b.known = binary.known /\ b.next = binary.next + 1 /\ b.told = told
    BY <2>1 DEF Binaries
  <2> QED
    BY <2>2, <2>3
<1>6. /\ o \in Operations /\ Same(o) /\ o.finished = op.finished /\ o.confirmed = op.confirmed
      /\ o.handle => op.handle \/ (told /\ binary.known)
  BY <1>2, StartedIs DEF Same
<1>7. o.handle /\ ~op.finished => told /\ binary.known
  BY <1>2, <1>6 DEF Streaming, told
<1> HIDE DEF b, o
<1>8. s \in BothStreams
  BY <1>3, <1>4, TypeOf, PutIs
<1>9. Streaming(o, s, b)
  <2>1. CASE op.finished
    BY <1>2, <1>6, <2>1 DEF Streaming
  <2>2. CASE ~op.finished
    <3>1. streams \in BothStreams /\ binary \in Binaries
      BY TypeOf
    <3> QED
      BY <1>1, <1>2, <1>3, <1>5, <1>6, <1>7, <2>2, <3>1, PutStreaming
  <2> QED
    BY <2>1, <2>2
<1>10. Transfers(o, wire, device, b)
  BY <1>2, <1>5, <1>6 DEF Transfers, Same
<1>11. LeftBy(completed \cup {op.id}, data', results)
  BY <1>2, <1>3 DEF LeftBy
<1>12. Onto(o, s)
  BY <1>1, <1>2, <1>3, <1>5, <1>9, <1>10, <1>11, TypeOf DEF Onto
<1> QED
  BY <1>1, <1>6, <1>8, <1>12, TransferGoesOn

LEMMA AudioAbsentInv == RecordingsInv /\ AudioAbsent => RecordingsInv'
<1> SUFFICES ASSUME RecordingsInv, AudioAbsent PROVE RecordingsInv'
  OBVIOUS
<1>1. /\ Transferring /\ binary.on /\ ~binary.told /\ binary' = [binary EXCEPT !.told = TRUE]
      /\ op' = Started(op)
      /\ UNCHANGED <<session, wire, data, results, device, streams, references, last, completed,
                     begun>>
  BY DEF AudioAbsent
<1>2. /\ op \in Operations /\ Transfers(op, wire, device, binary) /\ Streaming(op, streams, binary)
      /\ LeftBy(completed \cup {op.id}, data, results) /\ (binary.known => binary.on)
  BY <1>1, TransferIs
<1>3. /\ binary' \in Binaries /\ binary'.on = binary.on /\ binary'.known = binary.known
      /\ binary'.next = binary.next /\ binary'.told
  BY <1>1, TypeOf DEF Binaries
<1> DEFINE o == Started(op)
<1>4. /\ o \in Operations /\ Same(o) /\ o.finished = op.finished /\ o.confirmed = op.confirmed
      /\ o.handle => op.handle \/ binary.known
  BY <1>2, StartedIs DEF Same
<1> HIDE DEF o
<1>5. Streaming(o, streams, binary')
  BY <1>1, <1>2, <1>3, <1>4 DEF Streaming
<1>6. Transfers(o, wire', device', binary')
  BY <1>1, <1>2, <1>3, <1>4 DEF Transfers, Same
<1>7. Onto(o, streams)
  BY <1>1, <1>2, <1>3, <1>5, <1>6, TypeOf DEF Onto
<1>8. op' = o /\ streams' = streams /\ streams \in BothStreams
  BY <1>1, TypeOf DEF o
<1> QED
  BY <1>1, <1>4, <1>7, <1>8, TransferGoesOn

(* The session ends the streams: it has no stream afterwards.               *)
LEMMA EndsStreamIs ==
    ASSUME RecordingsInv, NEW o, NEW skip \in Skips, EndsStream(o, skip)
    PROVE /\ ~binary'.on /\ ~binary'.known /\ binary' \in Binaries /\ data' \in Seq(Chunks)
          /\ \A i \in DOMAIN data' : \E j \in DOMAIN data : data'[i] = data[j]
<1>1. skip \in Nat /\ skip <= Len(data) /\ data \in Seq(Chunks) /\ binary \in Binaries
      /\ (binary.known => binary.on)
  <2>1. Len(data) \in Nat /\ data \in Seq(Chunks) /\ binary \in Binaries
    BY TypeOf
  <2>2. (binary.known => binary.on)
    BY DEF RecordingsInv
  <2> QED
    BY <2>1, <2>2 DEF Skips
<1>2. CASE ~binary.on
  BY <1>1, <1>2 DEF EndsStream
<1>3. CASE binary.on
  <2>1. data' = SubSeq(data, skip + 1, Len(data)) /\ binary' = Off(binary.next + skip)
    BY <1>3 DEF EndsStream
  <2>2. binary.next + skip \in Nat
    BY <1>1 DEF Binaries
  <2>3. /\ data' \in Seq(Chunks)
        /\ \A i \in DOMAIN data' : \E j \in DOMAIN data : data'[i] = data[j]
    BY <1>1, <2>1, SubSeqOf
  <2> QED
    BY <2>1, <2>2, <2>3, OffIs
<1> QED
  BY <1>2, <1>3

LEMMA EndsStreaming ==
    ASSUME NEW o \in Operations, NEW s \in BothStreams, Streaming(o, s, binary), binary.on,
           NEW c, ~c.on
    PROVE Streaming(Ended(o), IF o.handle THEN s ELSE NoStreams, c)
<1> DEFINE p == Ended(o)
<1>1. p.handle = o.handle /\ (o.finished \/ (binary.told /\ binary.known) <=> p.finished)
  BY EndedIs
<1> HIDE DEF p
<1>2. CASE o.handle
  <2>1. Streaming(p, s, c)
    BY <1>1, <1>2 DEF Streaming
  <2> QED
    BY <1>2, <2>1 DEF p
<1>3. CASE ~o.handle
  <2>1. Streaming(p, NoStreams, c)
    BY <1>1, <1>3, NoStreamsIs DEF Streaming, Unbroken
  <2> QED
    BY <1>3, <2>1 DEF p
<1> QED
  BY <1>2, <1>3

LEMMA EndsStreamInv ==
    ASSUME RecordingsInv, Transferring, NEW o \in Operations, Same(o), o.handle = op.handle,
           o.finished = op.finished, NEW skip \in Skips, EndsStream(o, skip),
           Transfers(o, wire', device', binary'), wire' \in Seq(Answers \cup Events),
           results' \in SUBSET Commands, device' \in Devices,
           \A c \in results' : c \in results \/ c[1] = op.id,
           UNCHANGED <<session, references, begun>>
    PROVE RecordingsInv'
<1>1. /\ op \in Operations /\ Streaming(op, streams, binary) /\ streams \in BothStreams
      /\ LeftBy(completed \cup {op.id}, data, results)
  BY TransferIs, TypeOf
<1>2. /\ ~binary'.on /\ ~binary'.known /\ binary' \in Binaries /\ data' \in Seq(Chunks)
      /\ \A i \in DOMAIN data' : \E j \in DOMAIN data : data'[i] = data[j]
  BY EndsStreamIs
<1>3. LeftBy(completed \cup {op.id}, data', results')
  BY <1>1, <1>2 DEF LeftBy
<1>4. Streaming(o, streams, binary)
  BY <1>1, StreamingSame
<1>5. CASE ~binary.on
  <2>1. Settles(o, streams) /\ UNCHANGED <<data, binary>>
    BY <1>5 DEF EndsStream
  <2>2. Onto(o, streams)
    BY <1>2, <1>3, <1>4, <2>1 DEF Onto
  <2> QED
    BY <1>1, <2>1, <2>2, SettlesInv
<1>6. CASE binary.on
  <2> DEFINE p == Ended(o)
             s == IF o.handle THEN streams ELSE NoStreams
  <2>1. Settles(p, s)
    BY <1>6 DEF EndsStream
  <2>2. p \in Operations /\ Same(p) /\ p.kind = o.kind /\ p.id = o.id /\ p.confirmed = o.confirmed
    BY EndedIs DEF Same
  <2>3. Streaming(p, s, binary')
    BY <1>1, <1>2, <1>4, <1>6, EndsStreaming
  <2>4. s \in BothStreams
    BY <1>1, NoStreamsIs
  <2> HIDE DEF p, s
  <2>5. Onto(p, s)
    BY <1>2, <1>3, <2>2, <2>3, TransfersSame DEF Onto
  <2> QED
    BY <2>1, <2>2, <2>4, <2>5, SettlesInv
<1> QED
  BY <1>5, <1>6

LEMMA DroppedInv == RecordingsInv /\ Dropped => RecordingsInv'
<1> SUFFICES ASSUME RecordingsInv, Dropped PROVE RecordingsInv'
  OBVIOUS
<1>1. /\ session = "up" /\ ~binary.on /\ data # <<>> /\ data' = Tail(data)
      /\ binary' = [binary EXCEPT !.next = @ + 1]
      /\ UNCHANGED <<op, session, wire, results, device, streams, references, last, completed, begun>>
  BY DEF Dropped
<1>2. /\ data' \in Seq(Chunks)
      /\ \A i \in DOMAIN data' : i + 1 \in DOMAIN data /\ data'[i] = data[i + 1]
  BY <1>1, TypeOf, TailOf
<1>3. /\ binary' \in Binaries /\ binary'.on = binary.on /\ binary'.known = binary.known
  <2>1. binary \in Binaries /\ binary.next + 1 \in Nat
    BY TypeOf DEF Binaries
  <2> QED
    BY <1>1, <2>1 DEF Binaries
<1>4. \A mine : LeftBy(mine, data, results) => LeftBy(mine, data', results')
  BY <1>1, <1>2 DEF LeftBy
<1>5. RecordingsType'
  BY <1>1, <1>2, <1>3, TypeOf DEF RecordingsType
<1>6. Rests => Rests'
  BY <1>1, <1>3, <1>4 DEF Rests, Clean
<1>7. Transfers(op, wire, device, binary) => Transfers(op', wire', device', binary')
  BY <1>1, <1>3 DEF Transfers
<1>8. Streaming(op, streams, binary) => Streaming(op', streams', binary')
  BY <1>1, <1>3 DEF Streaming
<1>9. WaitsFor(op, wire, device, results) => WaitsFor(op', wire', device', results')
  BY <1>1
<1>10. op # None => Own(op)' /\ Placed(op)'
  BY <1>1, <1>3, <1>4, <1>6, <1>7, <1>8, <1>9, Some DEF Own, Placed
<1> QED
  BY <1>1, <1>3, <1>5, <1>6, <1>10 DEF RecordingsInv, CountsOwn

LEMMA ReceiveInv == RecordingsInv /\ Receive => RecordingsInv'
<1> SUFFICES ASSUME RecordingsInv, Receive PROVE RecordingsInv'
  OBVIOUS
<1>1. /\ Transferring /\ wire # <<>> /\ wire' = Tail(wire)
      /\ UNCHANGED <<session, results, device, references, begun>>
  BY DEF Receive
<1>2. /\ op \in Operations /\ Transfers(op, wire, device, binary) /\ Streaming(op, streams, binary)
      /\ LeftBy(completed \cup {op.id}, data, results) /\ (binary.known => binary.on)
      /\ wire \in Seq(Answers \cup Events) /\ binary \in Binaries /\ streams \in BothStreams
      /\ data \in Seq(Chunks) /\ results \in SUBSET Commands /\ device \in Devices
  BY <1>1, TransferIs, TypeOf
<1>3. wire' \in Seq(Answers \cup Events) /\ 1 \in DOMAIN wire /\ Head(wire) = wire[1]
      /\ Len(wire) \in Nat \ {0} /\ Len(wire') = Len(wire) - 1
  BY <1>1, <1>2, TailOf
<1>4. ASSUME NEW event \in {"converted", "broadcast"},
             binary' = [binary EXCEPT !.on = TRUE, !.known = @ \/ event = "converted"],
             UNCHANGED <<op, data, streams, last, completed>>
      PROVE RecordingsInv'
  <2>1. /\ binary' \in Binaries /\ binary'.on /\ binary'.next = binary.next
        /\ binary'.told = binary.told /\ (binary.known => binary'.known)
    BY <1>2, <1>4 DEF Binaries
  <2>2. ~op.confirmed
    BY <1>1, <1>2 DEF Transfers
  <2>3. Transfers(op, wire', device', binary')
    BY <1>1, <1>2, TransfersPopped
  <2>4. Streaming(op, streams, binary')
    BY <1>2, <2>1 DEF Streaming
  <2>5. LeftBy(completed \cup {op.id}, data', results')
    BY <1>1, <1>2, <1>4
  <2>6. Onto(op, streams)
    BY <1>1, <1>2, <1>3, <1>4, <2>1, <2>3, <2>4, <2>5 DEF Onto
  <2>7. Same(op)
    BY DEF Same
  <2> QED
    BY <1>1, <1>2, <1>4, <2>6, <2>7, TransferGoesOn
<1>5. ASSUME NEW skip \in Skips, Head(wire).event = "finish",
             EndsStream([op EXCEPT !.confirmed = @ \/ binary.known], skip)
      PROVE RecordingsInv'
  <2> DEFINE o == [op EXCEPT !.confirmed = @ \/ binary.known]
  <2>1. binary.known \in BOOLEAN /\ op.confirmed \in BOOLEAN
    BY <1>2 DEF Binaries, Operations
  <2>2. o \in Operations /\ Same(o) /\ o.handle = op.handle /\ o.finished = op.finished
        /\ o.kind = op.kind /\ o.id = op.id
    BY <1>2, <2>1 DEF Operations, Same
  <2> HIDE DEF o
  <2>3. EndsStream(o, skip)
    BY <1>5 DEF o
  <2>4. ~binary'.on
    BY <1>5, <2>3, EndsStreamIs
  <2>5. device.task = "idle" /\ op.id \in device.finished /\ 1 = Len(wire)
    BY <1>2, <1>3, <1>5 DEF Transfers
  <2>6. wire' = <<>>
    <3>1. wire' \in Seq(Answers \cup Events) /\ Len(wire') = Len(wire) - 1
      BY <1>3
    <3>2. Len(wire') = 0
      BY <2>5, <3>1
    <3> QED
      BY <3>1, <3>2, EmptyIs
  <2>7. Transfers(o, wire', device', binary')
    BY <1>1, <1>2, <2>2, <2>4, <2>5, <2>6 DEF Transfers
  <2> QED
    BY <1>1, <1>2, <1>3, <2>2, <2>3, <2>7, EndsStreamInv
<1>6. \/ \E event \in {"converted", "broadcast"} :
            /\ binary' = [binary EXCEPT !.on = TRUE, !.known = @ \/ event = "converted"]
            /\ UNCHANGED <<op, data, streams, last, completed>>
      \/ \E skip \in Skips : /\ Head(wire).event = "finish"
                             /\ EndsStream([op EXCEPT !.confirmed = @ \/ binary.known], skip)
  BY DEF Receive
<1> QED
  BY <1>4, <1>5, <1>6

(* The session or stop() ends the streams, with or without a cancel.        *)
LEMMA CancelIs ==
    ASSUME RecordingsInv, Transferring, NEW who \in {0, 1}, Cancels(who)
    PROVE results' \in SUBSET Commands /\ \A c \in results' : c \in results \/ c[1] = op.id
<1> DEFINE c == <<op.id, "cancel", who>>
<1>1. c \in Commands /\ c[1] = op.id
  BY TransferIs DEF Commands
<1>2. results' = results \cup {c}
  BY DEF Cancels, Cancel
<1> HIDE DEF c
<1> QED
  BY <1>1, <1>2, TypeOf

LEMMA EndsAgain ==
    ASSUME RecordingsInv, Transferring, NEW skip \in Skips, EndsStream(op, skip),
           results' \in SUBSET Commands, \A c \in results' : c \in results \/ c[1] = op.id,
           UNCHANGED <<session, wire, device, references, begun>>
    PROVE RecordingsInv'
<1>1. op \in Operations /\ Transfers(op, wire, device, binary) /\ Same(op)
  BY TransferIs DEF Same
<1>2. ~binary'.on
  BY EndsStreamIs
<1>3. Transfers(op, wire', device', binary')
  BY <1>1, <1>2 DEF Transfers
<1>4. wire' \in Seq(Answers \cup Events) /\ device' \in Devices
  BY TypeOf
<1> QED
  BY <1>1, <1>3, <1>4, EndsStreamInv

LEMMA StreamsEndInv == RecordingsInv /\ (SessionGivesUp \/ CancelSent) => RecordingsInv'
<1> SUFFICES ASSUME RecordingsInv, SessionGivesUp \/ CancelSent PROVE RecordingsInv'
  OBVIOUS
<1>1. Transferring /\ UNCHANGED <<session, wire, device, references, begun>>
  BY DEF SessionGivesUp, CancelSent
<1>2. PICK skip \in Skips :
          EndsStream(op, skip) /\ (UNCHANGED results \/ \E who \in {0, 1} : Cancels(who))
  BY DEF SessionGivesUp, CancelSent
<1>3. results' \in SUBSET Commands /\ \A c \in results' : c \in results \/ c[1] = op.id
  BY <1>1, <1>2, CancelIs, TypeOf
<1> QED
  BY <1>1, <1>2, <1>3, EndsAgain

LEMMA TransferFailsInv ==
    RecordingsInv /\ (StopExpires \/ \E c \in results : TransferResult(c)) => RecordingsInv'
  BY TransferIs, FailsInv, TypeOf DEF StopExpires, TransferResult

(* Reading moves a chunk from those that wait to those counted.             *)
Flow(s, kind, n) ==
    [s EXCEPT ![kind].waiting = @ \ {n}, !.counted = @ \cup {n}, !.seen = @ \/ kind = "video"]
LEMMA FlowIs ==
    ASSUME NEW s \in BothStreams, NEW kind \in Kinds, NEW n \in s[kind].waiting
    PROVE LET t == Flow(s, kind, n)
          IN  /\ t \in BothStreams /\ t.put = s.put
              /\ t.video.read = s.video.read /\ t.audio.read = s.audio.read
              /\ t.video.waiting \subseteq s.video.waiting /\ t.audio.waiting \subseteq s.audio.waiting
              /\ t.counted \cup t.video.waiting \cup t.audio.waiting
                    = s.counted \cup s.video.waiting \cup s.audio.waiting
<1> DEFINE t == Flow(s, kind, n)
<1>1. s.seen \in BOOLEAN /\ n \in Nat
  <2>1. n \in s.video.waiting \/ n \in s.audio.waiting
    BY DEF Kinds
  <2> QED
    BY <2>1, StreamIs DEF BothStreams
<1>2. CASE kind = "video"
  <2>1. /\ t.video = [s.video EXCEPT !.waiting = @ \ {n}] /\ t.audio = s.audio
        /\ t.put = s.put /\ t.counted = s.counted \cup {n} /\ t.seen \in BOOLEAN
    BY <1>1, <1>2 DEF BothStreams, Flow
  <2>2. t.video \in OneStream /\ t.video.waiting = s.video.waiting \ {n}
        /\ t.video.read = s.video.read
    BY <2>1, StreamIs DEF OneStream
  <2>3. t \in BothStreams
    BY <1>1, <1>2, <2>1, <2>2, StreamIs DEF BothStreams, Flow
  <2>4. n \in s.video.waiting
    BY <1>2
  <2> HIDE DEF t
  <2> QED
    BY <2>1, <2>2, <2>3, <2>4 DEF t
<1>3. CASE kind = "audio"
  <2>1. /\ t.audio = [s.audio EXCEPT !.waiting = @ \ {n}] /\ t.video = s.video
        /\ t.put = s.put /\ t.counted = s.counted \cup {n} /\ t.seen \in BOOLEAN
    BY <1>1, <1>3 DEF BothStreams, Flow
  <2>2. t.audio \in OneStream /\ t.audio.waiting = s.audio.waiting \ {n}
        /\ t.audio.read = s.audio.read
    BY <2>1, StreamIs DEF OneStream
  <2>3. t \in BothStreams
    BY <1>1, <1>3, <2>1, <2>2, StreamIs DEF BothStreams, Flow
  <2>4. n \in s.audio.waiting
    BY <1>3
  <2> HIDE DEF t
  <2> QED
    BY <2>1, <2>2, <2>3, <2>4 DEF t
<1> QED
  BY <1>2, <1>3 DEF Kinds

LEMMA FlowsInv == ASSUME RecordingsInv, NEW kind \in Kinds, Flows(kind) PROVE RecordingsInv'
<1>1. /\ Transferring
      /\ UNCHANGED <<session, wire, data, binary, results, device, references, last, completed, begun>>
  BY DEF Flows, carried
<1>2. PICK n \in streams[kind].waiting : streams' = Flow(streams, kind, n)
  BY DEF Flows, Flow
<1>3. op' \in {op, Stop(op)}
  BY DEF Flows
<1>4. /\ op \in Operations /\ Transfers(op, wire, device, binary) /\ Streaming(op, streams, binary)
      /\ LeftBy(completed \cup {op.id}, data, results) /\ (binary.known => binary.on)
  BY <1>1, TransferIs
<1> DEFINE s == Flow(streams, kind, n)
<1>5. /\ s \in BothStreams /\ s.put = streams.put
      /\ s.video.read = streams.video.read /\ s.audio.read = streams.audio.read
      /\ s.video.waiting \subseteq streams.video.waiting
      /\ s.audio.waiting \subseteq streams.audio.waiting
      /\ s.counted \cup s.video.waiting \cup s.audio.waiting
            = streams.counted \cup streams.video.waiting \cup streams.audio.waiting
  <2>1. streams \in BothStreams
    BY TypeOf
  <2> QED
    BY <2>1, FlowIs
<1> HIDE DEF s
<1>6. Streaming(op, s, binary)
  BY <1>4, <1>5 DEF Streaming
<1>7. op' \in Operations /\ Same(op') /\ op'.handle = op.handle /\ op'.finished = op.finished
      /\ op'.confirmed = op.confirmed
  BY <1>3, <1>4, StopIs DEF Same
<1>8. PICK o \in Operations : o = op'
  BY <1>7
<1>9. Same(o) /\ Transfers(o, wire, device, binary) /\ Streaming(o, s, binary)
  BY <1>4, <1>6, <1>7, <1>8, TransfersSame, StreamingSame DEF Same
<1>10. Onto(o, s)
  BY <1>1, <1>4, <1>9, TypeOf DEF Onto
<1> QED
  BY <1>1, <1>2, <1>5, <1>8, <1>9, <1>10, TransferGoesOn DEF s

LEMMA StreamEndsInv ==
    ASSUME RecordingsInv, NEW kind \in Kinds, StreamEnds(kind) PROVE RecordingsInv'
<1> DEFINE s == [streams EXCEPT ![kind].read = TRUE]
<1>1. /\ Transferring /\ op.finished /\ streams[kind].waiting = {} /\ Settles(op, s)
      /\ UNCHANGED <<session, wire, data, binary, results, device, references, begun>>
  BY DEF StreamEnds, carried
<1>2. /\ op \in Operations /\ Transfers(op, wire, device, binary) /\ Streaming(op, streams, binary)
      /\ LeftBy(completed \cup {op.id}, data, results) /\ (binary.known => binary.on)
      /\ streams \in BothStreams
  BY <1>1, TransferIs, TypeOf
<1>3. /\ s \in BothStreams /\ s.put = streams.put /\ s.counted = streams.counted
      /\ s.video.waiting = streams.video.waiting /\ s.audio.waiting = streams.audio.waiting
      /\ s.video.read => streams.video.read \/ kind = "video"
      /\ s.audio.read => streams.audio.read \/ kind = "audio"
  BY <1>2 DEF BothStreams, OneStream, Kinds
<1> HIDE DEF s
<1>4. Streaming(op, s, binary)
  BY <1>1, <1>2, <1>3 DEF Streaming
<1>5. Onto(op, s) /\ Same(op)
  BY <1>1, <1>2, <1>4, TypeOf DEF Onto, Same
<1> QED
  BY <1>1, <1>2, <1>3, <1>5, SettlesInv

LEMMA TransferStopsInv == RecordingsInv /\ TransferStops => RecordingsInv'
<1> SUFFICES ASSUME RecordingsInv, TransferStops PROVE RecordingsInv'
  OBVIOUS
<1>1. /\ Transferring /\ op' = Stop(op)
      /\ UNCHANGED <<session, wire, data, binary, results, device, streams, references, last,
                     completed, begun>>
  BY DEF TransferStops, carried
<1>2. /\ op \in Operations /\ Transfers(op, wire, device, binary) /\ Streaming(op, streams, binary)
      /\ LeftBy(completed \cup {op.id}, data, results) /\ (binary.known => binary.on)
      /\ streams \in BothStreams
  BY <1>1, TransferIs, TypeOf
<1> DEFINE o == Stop(op)
<1>3. o \in Operations /\ Same(o) /\ o.handle = op.handle /\ o.finished = op.finished
      /\ o.confirmed = op.confirmed
  BY <1>2, StopIs DEF Same
<1> HIDE DEF o
<1>4. Onto(o, streams)
  BY <1>1, <1>2, <1>3, TransfersSame, StreamingSame, TypeOf DEF Onto, Same
<1>5. op' = o /\ streams' = streams
  BY <1>1 DEF o
<1> QED
  BY <1>1, <1>2, <1>3, <1>4, <1>5, TransferGoesOn

-----------------------------------------------------------------------------
(* The session, the references and the device.                              *)

LEMMA SessionLostInv == RecordingsInv /\ SessionLost => RecordingsInv'
<1> SUFFICES ASSUME RecordingsInv, SessionLost PROVE RecordingsInv'
  OBVIOUS
<1>1. session = "up" /\ UNCHANGED <<device, references, completed, begun>>
  BY DEF SessionLost
<1>2. CASE Querying \/ Transferring
  <2>1. op # None /\ Fails
    BY <1>2, QueryIs, TransferIs DEF SessionLost
  <2> QED
    BY <1>1, <2>1, FailsInv, TypeOf
<1>3. CASE ~(Querying \/ Transferring)
  <2>1. /\ session' = "down" /\ wire' = <<>> /\ data' = <<>> /\ results' = {} /\ binary' = Off(0)
        /\ UNCHANGED <<op, last, streams>>
    BY <1>3 DEF SessionLost
  <2>2. op # None => op.at = "connect" /\ op \in Operations /\ Own(op) /\ Placed(op)
    <3>1. ASSUME op # None PROVE op \in Operations /\ Own(op) /\ Placed(op)
      BY <3>1, Some
    <3>2. ASSUME op # None
          PROVE op.at # "closing" /\ (op.at = "query" => op.kind \in Queries)
                /\ (op.at = "transfer" => op.kind = "download")
      BY <1>1, <3>1, <3>2 DEF Placed, WaitsFor, Transfers
    <3>3. ASSUME op # None PROVE op.at \in {"connect", "query", "transfer", "closing"}
      BY <3>1, <3>3 DEF Operations
    <3> QED
      BY <1>3, <3>1, <3>2, <3>3 DEF Querying, Transferring, Holds
  <2>3. ~binary'.on /\ ~binary'.known /\ binary' \in Binaries
    BY <2>1, OffIs
  <2>4. Rests => Rests'
    BY <1>1, <2>1, <2>3 DEF Rests, Clean, LeftBy
  <2>5. op # None => Own(op)' /\ Placed(op)'
    BY <1>1, <2>1, <2>2, <2>4 DEF Own, Placed
  <2>6. wire' \in Seq(Answers \cup Events) /\ data' \in Seq(Chunks) /\ results' \in SUBSET Commands
    BY <2>1
  <2>7. RecordingsType'
    BY <1>1, <2>1, <2>3, <2>6, TypeOf DEF RecordingsType
  <2> QED
    BY <1>1, <2>1, <2>3, <2>4, <2>5, <2>7 DEF RecordingsInv, CountsOwn
<1> QED
  BY <1>2, <1>3

LEMMA SameInv ==
    ASSUME RecordingsInv, device' \in Devices,
           UNCHANGED <<op, session, wire, data, binary, results, streams, last, completed, begun>>,
           device'.task = device.task, device'.shown = device.shown, device'.cap = device.cap,
           device'.finished = device.finished,
           references' \in Seq(Rows), Len(references') <= MaxReferences
    PROVE RecordingsInv'
<1>1. RecordingsType'
  BY TypeOf DEF RecordingsType
<1>2. \A o, rows : Shows(o, rows, device) => Shows(o, rows, device')
  BY DEF Shows
<1>3. \A o : Before(o, device) => Before(o, device')
  BY DEF Before
<1>4. WaitsFor(op, wire, device, results) => WaitsFor(op', wire', device', results')
  BY <1>2, <1>3 DEF WaitsFor
<1>5. Transfers(op, wire, device, binary) => Transfers(op', wire', device', binary')
  BY DEF Transfers
<1>6. Rests => Rests'
  BY DEF Rests, Clean
<1>7. op # None => Own(op)' /\ Placed(op)'
  BY <1>4, <1>5, <1>6, Some DEF Own, Placed
<1> QED
  BY <1>1, <1>6, <1>7 DEF RecordingsInv, CountsOwn

LEMMA SurroundingsInv == RecordingsInv /\ (Expires \/ DeviceChanges) => RecordingsInv'
<1> SUFFICES ASSUME RecordingsInv, Expires \/ DeviceChanges PROVE RecordingsInv'
  OBVIOUS
<1>1. UNCHANGED <<op, session, wire, data, binary, results, streams, last, completed, begun>>
  BY DEF Expires, DeviceChanges, carried
<1>2. CASE Expires
  <2>1. references # <<>> /\ references' = Tail(references) /\ UNCHANGED device
    BY <1>2 DEF Expires
  <2>2. references' \in Seq(Rows) /\ Len(references') <= MaxReferences
    <3>1. references \in Seq(Rows) /\ Len(references) <= MaxReferences /\ MaxReferences \in Nat
      BY TypeOf, RecordingsAssumption
    <3> QED
      BY <2>1, <3>1
  <2> QED
    BY <1>1, <2>1, <2>2, SameInv, TypeOf
<1>3. CASE DeviceChanges
  <2>1. PICK rows \in SUBSET Rows : device' = [device EXCEPT !.rows = rows, !.changes = @ + 1]
    BY <1>3 DEF DeviceChanges
  <2>2. UNCHANGED references
    BY <1>3 DEF DeviceChanges
  <2>3. device \in Devices /\ device.changes + 1 \in Nat
    BY TypeOf DEF Devices
  <2>4. device' \in Devices
    BY <2>1, <2>3 DEF Devices
  <2>5. device'.task = device.task /\ device'.shown = device.shown /\ device'.cap = device.cap
        /\ device'.finished = device.finished
    BY <2>1, <2>3 DEF Devices
  <2> QED
    BY <1>1, <2>2, <2>4, <2>5, SameInv, TypeOf
<1> QED
  BY <1>2, <1>3

(* Whom the device is busy with.                                            *)
LEMMA BusyWith ==
    ASSUME RecordingsInv, session = "up", device.task # "idle"
    PROVE /\ op # None /\ op \in Operations /\ Own(op) /\ Placed(op) /\ op.id \in Nat
          /\ device.task[2] = op.id
          /\ \/ /\ op.at = "query" /\ wire = <<>> /\ WaitsFor(op, wire, device, results)
                /\ device.task = <<"asked", op.id, Limits[op.page]>>
             \/ op.at = "transfer" /\ device.task = <<"transfer", op.id>>
<1>1. op # None
  BY DEF RecordingsInv, Rests, Clean
<1>2. op \in Operations /\ Own(op) /\ Placed(op) /\ op.id \in Nat
  BY <1>1, Some
<1>3. op.at \in {"query", "transfer"}
  BY <1>2 DEF Operations, Placed, Rests, Clean
<1>4. CASE op.at = "query"
  BY <1>1, <1>2, <1>4 DEF Placed, WaitsFor
<1>5. CASE op.at = "transfer"
  <2>1. device.task = <<"transfer", op.id>>
    BY <1>2, <1>5 DEF Placed, Transfers
  <2> QED
    BY <1>1, <1>2, <1>5, <2>1
<1> QED
  BY <1>3, <1>4, <1>5

(* How many rows the device gives.                                          *)
LEMMA GivesIs ==
    ASSUME NEW limit \in Nat, NEW rows \in SUBSET Rows, NEW cap \in Caps \cup {None}
    PROVE LET g == Min({limit, Cardinality(rows)} \cup ({cap} \ {None}))
          IN  /\ g \in Nat /\ g <= limit /\ (cap # None => g <= cap)
              /\ g = limit \/ g = Cardinality(rows) \/ (cap # None /\ g = cap)
<1>1. Cardinality(rows) \in Nat
  BY RecordingsAssumption, FS_Subset, FS_CardinalityType
<1>2. cap # None => cap \in Nat
  BY RecordingsAssumption
<1> DEFINE S == {limit, Cardinality(rows)} \cup ({cap} \ {None})
<1>3. S \subseteq Nat
  BY <1>1, <1>2
<1>4. \E x \in S : \A y \in S : x =< y
  <2>1. PICK a \in {limit, Cardinality(rows)} : a <= limit /\ a <= Cardinality(rows)
    <3>1. CASE limit <= Cardinality(rows)
      BY <1>1, <3>1
    <3>2. CASE ~(limit <= Cardinality(rows))
      BY <1>1, <3>2
    <3> QED
      BY <3>1, <3>2
  <2>2. CASE cap = None
    BY <2>1, <2>2
  <2>3. CASE cap # None /\ a <= cap
    BY <2>1, <2>3
  <2>4. CASE cap # None /\ ~(a <= cap)
    <3>1. cap \in S /\ cap <= a /\ cap \in Nat /\ a \in Nat
      BY <1>1, <1>2, <2>1, <2>4
    <3>2. ASSUME NEW y \in S PROVE cap <= y
      <4>1. y = limit \/ y = Cardinality(rows) \/ y = cap
        BY <3>2
      <4> QED
        BY <1>1, <2>1, <3>1, <4>1
    <3> QED
      BY <3>1, <3>2
  <2> QED
    BY <2>2, <2>3, <2>4
<1> HIDE DEF S
<1>5. Min(S) \in S /\ \A y \in S : Min(S) <= y
  BY <1>4 DEF Min
<1>6. limit \in S /\ Cardinality(rows) \in S /\ (cap # None => cap \in S)
  BY DEF S
<1>7. Min(S) = limit \/ Min(S) = Cardinality(rows) \/ (cap # None /\ Min(S) = cap)
  BY <1>5 DEF S
<1>8. Min(S) \in Nat
  BY <1>3, <1>5
<1> QED
  BY <1>5, <1>6, <1>7, <1>8 DEF S

LEMMA DeviceAnswersInv == RecordingsInv /\ DeviceAnswers => RecordingsInv'
<1> SUFFICES ASSUME RecordingsInv, DeviceAnswers PROVE RecordingsInv'
  OBVIOUS
<1>1. /\ session = "up" /\ device.task # "idle" /\ device.task[1] = "asked"
      /\ device' = [device EXCEPT !.task = "idle", !.shown = device.rows]
      /\ UNCHANGED <<op, session, data, binary, results, streams, references, last, completed, begun>>
  BY DEF DeviceAnswers
<1>2. /\ op # None /\ op \in Operations /\ Own(op) /\ Placed(op) /\ op.id \in Nat
      /\ op.at = "query" /\ wire = <<>> /\ WaitsFor(op, wire, device, results)
      /\ device.task = <<"asked", op.id, Limits[op.page]>>
  BY <1>1, BusyWith
<1>3. op.page \in 1..Len(Limits) /\ Limits[op.page] \in Nat
  BY <1>2, LimitIs DEF WaitsFor
<1>4. device.task[2] = op.id /\ device.task[3] = Limits[op.page]
  BY <1>2
<1>5. /\ device' \in Devices /\ device'.task = "idle" /\ device'.shown = device.rows
      /\ device'.cap = device.cap /\ device.rows \in SUBSET Rows /\ device.cap \in Caps \cup {None}
  <2>1. device \in Devices /\ "idle" \in Tasks
    BY TypeOf, TasksIs
  <2> QED
    BY <1>1, <2>1 DEF Devices
<1> DEFINE many == Min({Limits[op.page], Cardinality(device.rows)} \cup ({device.cap} \ {None}))
<1>6. /\ many \in Nat /\ many <= Limits[op.page] /\ (device.cap # None => many <= device.cap)
      /\ \/ many = Limits[op.page] \/ many = Cardinality(device.rows)
         \/ device.cap # None /\ many = device.cap
  BY <1>3, <1>5, GivesIs
<1>7. \/ Sent([by |-> op.id, event |-> "answer", refused |-> TRUE, rows |-> {}])
      \/ \E rows \in SUBSET device.rows :
            /\ Cardinality(rows) = many
            /\ Sent([by |-> op.id, event |-> "answer", refused |-> FALSE, rows |-> rows])
  BY <1>4 DEF DeviceAnswers, Whom
<1> HIDE DEF many
<1>8. PICK m \in Answers : Sent(m) /\ m.by = op.id /\ (~m.refused => Shows(op, m.rows, device'))
  <2>1. CASE Sent([by |-> op.id, event |-> "answer", refused |-> TRUE, rows |-> {}])
    <3> DEFINE m == [by |-> op.id, event |-> "answer", refused |-> TRUE, rows |-> {}]
    <3>1. m \in Answers /\ m.by = op.id /\ m.refused
      BY <1>2 DEF Answers
    <3> QED
      BY <2>1, <3>1
  <2>2. ASSUME NEW rows \in SUBSET device.rows, Cardinality(rows) = many,
               Sent([by |-> op.id, event |-> "answer", refused |-> FALSE, rows |-> rows])
        PROVE \E m \in Answers : Sent(m) /\ m.by = op.id /\ (~m.refused => Shows(op, m.rows, device'))
    <3> DEFINE m == [by |-> op.id, event |-> "answer", refused |-> FALSE, rows |-> rows]
    <3>1. m \in Answers /\ m.by = op.id /\ m.rows = rows
      BY <1>2, <1>5 DEF Answers
    <3>2. Shows(op, rows, device')
      BY <1>5, <1>6, <2>2 DEF Shows
    <3> QED
      BY <2>2, <3>1, <3>2
  <2> QED
    BY <1>7, <2>1, <2>2
<1>9. wire' = <<m>> /\ wire' \in Seq(Answers \cup Events)
  BY <1>2, <1>8 DEF Sent
<1>10. Before(op, device) => Before(op, device')
  BY <1>5 DEF Before
<1>11. WaitsFor(op', wire', device', results')
  BY <1>1, <1>2, <1>5, <1>8, <1>9, <1>10 DEF WaitsFor
<1>12. Own(op)' /\ Placed(op)'
  BY <1>1, <1>2, <1>11 DEF Own, Placed
<1>13. RecordingsType'
  BY <1>1, <1>5, <1>9, TypeOf DEF RecordingsType
<1>14. binary'.known => binary'.on
  BY <1>1 DEF RecordingsInv
<1> QED
  BY <1>1, <1>2, <1>12, <1>13, <1>14, GoesOnInv

LEMMA DeviceTransfersInv == RecordingsInv /\ DeviceTransfers => RecordingsInv'
<1> SUFFICES ASSUME RecordingsInv, DeviceTransfers PROVE RecordingsInv'
  OBVIOUS
<1>1. /\ session = "up" /\ device.task # "idle" /\ device.task[1] = "transfer"
      /\ UNCHANGED <<op, session, binary, results, streams, references, last, completed, begun>>
  BY DEF DeviceTransfers
<1>2. /\ op # None /\ op \in Operations /\ op.id \in Nat /\ op.at = "transfer"
      /\ device.task = <<"transfer", op.id>> /\ Placed(op) /\ Own(op)
  BY <1>1, BusyWith
<1>3. /\ Transfers(op, wire, device, binary) /\ Streaming(op, streams, binary)
      /\ LeftBy(completed \cup {op.id}, data, results) /\ (binary.known => binary.on)
  BY <1>2 DEF Placed, RecordingsInv
<1>4. /\ device \in Devices /\ "idle" \in Tasks /\ device.sent \in Nat
      /\ device.finished \in SUBSET Nat /\ wire \in Seq(Answers \cup Events) /\ data \in Seq(Chunks)
  BY TypeOf, TasksIs DEF Devices
<1>5. \/ /\ device.sent < Len(Frames) /\ device' = [device EXCEPT !.sent = @ + 1]
         /\ data' = Append(data, [by |-> op.id, of |-> Frames[device.sent + 1]])
         /\ UNCHANGED wire
      \/ /\ device' = [device EXCEPT !.converted = TRUE] /\ UNCHANGED data
         /\ \E event \in {"converted", "broadcast"} : Sent([by |-> op.id, event |-> event])
      \/ /\ device' = [device EXCEPT !.task = "idle", !.finished = @ \cup {op.id}]
         /\ Sent([by |-> op.id, event |-> "finish"]) /\ UNCHANGED data
  BY <1>2 DEF DeviceTransfers, Whom
<1>6. ~op.confirmed /\ \A i \in DOMAIN wire : wire[i].by = op.id /\ wire[i].event # "finish"
  BY <1>1, <1>3 DEF Transfers
<1>7. ASSUME device' \in Devices, wire' \in Seq(Answers \cup Events), data' \in Seq(Chunks),
             Transfers(op, wire', device', binary), LeftBy(completed \cup {op.id}, data', results)
      PROVE RecordingsInv'
  <2>1. Own(op)' /\ Placed(op)'
    BY <1>1, <1>2, <1>3, <1>7 DEF Own, Placed
  <2>2. RecordingsType'
    BY <1>1, <1>7, TypeOf DEF RecordingsType
  <2> QED
    BY <1>1, <1>2, <1>3, <2>1, <2>2, GoesOnInv
<1>8. CASE /\ device.sent < Len(Frames) /\ device' = [device EXCEPT !.sent = @ + 1]
           /\ data' = Append(data, [by |-> op.id, of |-> Frames[device.sent + 1]])
           /\ UNCHANGED wire
  <2> DEFINE m == [by |-> op.id, of |-> Frames[device.sent + 1]]
  <2>1. Frames[device.sent + 1] \in Kinds /\ device.sent + 1 \in Nat
    BY <1>4, <1>8, RecordingsAssumption DEF Kinds
  <2>2. m \in Chunks /\ m.by = op.id
    BY <1>2, <2>1 DEF Chunks
  <2>3. device' \in Devices /\ device'.task = device.task
    BY <1>4, <1>8, <2>1 DEF Devices
  <2> HIDE DEF m
  <2>4. /\ Append(data, m) \in Seq(Chunks)
        /\ \A i \in DOMAIN Append(data, m) : \/ i \in DOMAIN data /\ Append(data, m)[i] = data[i]
                                             \/ i = Len(data) + 1 /\ Append(data, m)[i] = m
    BY <1>4, <2>2, AppendOf
  <2>5. data' = Append(data, m)
    BY <1>8 DEF m
  <2>6. LeftBy(completed \cup {op.id}, data', results)
    BY <1>3, <2>2, <2>4, <2>5 DEF LeftBy
  <2>7. Transfers(op, wire', device', binary)
    BY <1>1, <1>3, <1>6, <1>8, <2>3 DEF Transfers
  <2> QED
    BY <1>4, <1>7, <1>8, <2>3, <2>4, <2>5, <2>6, <2>7
<1>9. ASSUME NEW m \in Events, m.by = op.id, Sent(m), UNCHANGED data, device' \in Devices,
             device'.task \in {device.task, "idle"},
             m.event = "finish" => device'.task = "idle" /\ op.id \in device'.finished
      PROVE RecordingsInv'
  <2>1. /\ wire' \in Seq(Answers \cup Events) /\ Len(wire') = Len(wire) + 1
        /\ \A i \in DOMAIN wire' : \/ i \in DOMAIN wire /\ wire'[i] = wire[i]
                                   \/ i = Len(wire) + 1 /\ wire'[i] = m
    BY <1>4, <1>9, AppendOf DEF Sent
  <2>2. Transfers(op, wire', device', binary)
    BY <1>2, <1>3, <1>6, <1>9, <2>1 DEF Transfers
  <2> QED
    BY <1>3, <1>4, <1>7, <1>9, <2>1, <2>2
<1>10. CASE /\ device' = [device EXCEPT !.converted = TRUE] /\ UNCHANGED data
            /\ \E event \in {"converted", "broadcast"} : Sent([by |-> op.id, event |-> event])
  <2>1. PICK event \in {"converted", "broadcast"} : Sent([by |-> op.id, event |-> event])
    BY <1>10
  <2> DEFINE m == [by |-> op.id, event |-> event]
  <2>2. m \in Events /\ m.by = op.id /\ m.event # "finish"
    BY <1>2 DEF Events
  <2>3. device' \in Devices /\ device'.task = device.task
    BY <1>4, <1>10 DEF Devices
  <2> QED
    BY <1>9, <1>10, <2>1, <2>2, <2>3
<1>11. CASE /\ device' = [device EXCEPT !.task = "idle", !.finished = @ \cup {op.id}]
            /\ Sent([by |-> op.id, event |-> "finish"]) /\ UNCHANGED data
  <2> DEFINE m == [by |-> op.id, event |-> "finish"]
  <2>1. m \in Events /\ m.by = op.id
    BY <1>2 DEF Events
  <2>2. device.finished \cup {op.id} \in SUBSET Nat
    BY <1>2, <1>4
  <2>3. device' \in Devices /\ device'.task = "idle" /\ op.id \in device'.finished
    BY <1>4, <1>11, <2>2 DEF Devices
  <2> QED
    BY <1>9, <1>11, <2>1, <2>3
<1> QED
  BY <1>5, <1>8, <1>10, <1>11

-----------------------------------------------------------------------------
(* The invariant, and that nothing of another operation is read.            *)

LEMMA NextInv == RecordingsInv /\ [Next]_vars => RecordingsInv'
<1> SUFFICES ASSUME RecordingsInv, [Next]_vars PROVE RecordingsInv'
  OBVIOUS
<1>1. CASE UNCHANGED vars
  <2>1. UNCHANGED <<op, session, wire, data, binary, results, device, streams, references, last,
                    completed, begun>>
    BY <1>1 DEF vars
  <2> QED
    BY <2>1, SameInv, TypeOf
<1>2. ASSUME NEW kind \in Queries, Query(kind) PROVE RecordingsInv'
  BY <1>2, BeginInv DEF Query
<1>3. CASE Thumbnail \/ Download
  BY <1>3, BeginInv DEF Thumbnail, Download, Queries
<1>4. ASSUME NEW c \in results, Result(c) PROVE RecordingsInv'
  BY <1>4, ResultInv
<1>5. ASSUME NEW kind \in Kinds, Flows(kind) \/ StreamEnds(kind) PROVE RecordingsInv'
  BY <1>5, FlowsInv, StreamEndsInv
<1>6. CASE Connected \/ ConnectFails \/ Closed \/ Answer \/ QueryFails
  BY <1>6, ConnectedInv, ConnectFailsInv, ClosedInv, AnswerInv, QueryFailsInv
<1>7. CASE Chunk \/ AudioAbsent \/ Dropped \/ Receive \/ SessionGivesUp \/ CancelSent
  BY <1>7, ChunkInv, AudioAbsentInv, DroppedInv, ReceiveInv, StreamsEndInv
<1>8. CASE StopExpires \/ (\E c \in results : TransferResult(c)) \/ TransferStops
  BY <1>8, TransferFailsInv, TransferStopsInv
<1>9. CASE SessionLost \/ Expires \/ DeviceAnswers \/ DeviceTransfers \/ DeviceChanges
  BY <1>9, SessionLostInv, SurroundingsInv, DeviceAnswersInv, DeviceTransfersInv
<1> QED
  BY <1>1, <1>2, <1>3, <1>4, <1>5, <1>6, <1>7, <1>8, <1>9 DEF Next

LEMMA Invariant == Spec => []RecordingsInv
<1>1. Init => RecordingsInv
  BY InitInv
<1>2. RecordingsInv /\ [Next]_vars => RecordingsInv'
  BY NextInv
<1> QED
  BY <1>1, <1>2, PTL DEF Spec

(* Nothing of another operation gets into an operation: neither an answer,  *)
(* a notice or a count, nor a chunk or a result of a start or a cancel that *)
(* a complete transfer has not left behind (recordings.ts perform, download.ts *)
(* settle, session.ts BINARY and CONTROL).                                  *)
THEOREM OperationsReadTheirOwn == Spec => []OwnResults
<1>1. RecordingsInv => OwnResults
  <2> SUFFICES ASSUME RecordingsInv PROVE OwnResults
    OBVIOUS
  <2>1. TypeOK
    <3>1. op # None => op \in Operations /\ (op.at = "closing" <=> session = "closing")
      BY Some DEF Placed
    <3> QED
      BY <3>1 DEF TypeOK, RecordingsInv, RecordingsType
  <2>2. NothingStale
    <3>1. ASSUME Querying, NEW i \in DOMAIN wire PROVE wire[i].by = op.id
      <4>1. WaitsFor(op, wire, device, results)
        BY <3>1, QueryIs
      <4>2. PICK m \in Answers : wire = <<m>> /\ m.by = op.id
        BY <3>1, <4>1 DEF WaitsFor
      <4> QED
        BY <3>1, <4>2
    <3>2. ASSUME Transferring, NEW i \in DOMAIN wire PROVE wire[i].by = op.id
      BY <3>2, TransferIs DEF Transfers
    <3> QED
      BY <3>1, <3>2 DEF NothingStale
  <2>3. LeftByComplete
    <3>1. CASE Transferring
      BY <3>1, TransferIs DEF LeftBy, LeftByComplete, Mine
    <3>2. CASE ~Transferring
      <4>1. LeftBy(completed, data, results)
        <5>1. CASE op = None
          BY <5>1 DEF RecordingsInv, Rests
        <5>2. CASE op # None
          <6>1. op \in Operations /\ Placed(op)
            BY <5>2, Some
          <6>2. op.at # "transfer"
            BY <3>2, <5>2, <6>1 DEF Placed, Transfers, Transferring, Holds
          <6>3. CASE op.at = "closing"
            BY <6>1, <6>3 DEF Placed, LeftBy, RecordingsInv
          <6>4. CASE op.at \in {"connect", "query"}
            BY <6>1, <6>4 DEF Placed, Rests
          <6> QED
            BY <6>1, <6>2, <6>3, <6>4 DEF Operations
        <5> QED
          BY <5>1, <5>2
      <4> QED
        BY <3>2, <4>1 DEF LeftBy, LeftByComplete, Mine
    <3> QED
      BY <3>1, <3>2
  <2>4. CountsOwn
    BY DEF RecordingsInv
  <2> QED
    BY <2>1, <2>2, <2>3, <2>4 DEF OwnResults
<1> QED
  BY <1>1, Invariant, PTL

-----------------------------------------------------------------------------
(* What an operation tells when it ends.                                    *)

Whole ==
    /\ op.id \in device.finished /\ streams.counted = streams.put /\ Unbroken(streams.put)
TellsNothing == last' = last \/ last' = None
TellsFailure == last' = Outcome("failed", {})
TellsComplete == last' = Outcome("complete", {}) /\ Whole
TellsList ==
    /\ Querying /\ wire # <<>> /\ op.kind = "list" /\ ~Head(wire).refused /\ UNCHANGED device
    /\ last' = Outcome("ok", Head(wire).rows) /\ Complete(Head(wire).rows)
TellsOther == op.kind # "list" /\ last' = Outcome("ok", {})

(* The streams have been read to their end: nothing waits in them.          *)
LEMMA ReadWhole ==
    ASSUME RecordingsInv, Transferring, op.id \in device.finished,
           streams.video.waiting = {}, streams.audio.waiting = {}
    PROVE Whole
<1>1. Streaming(op, streams, binary)
  BY TransferIs
<1> QED
  BY <1>1 DEF Streaming, Whole

LEMMA EndsStreamTells ==
    ASSUME RecordingsInv, Transferring, NEW o \in Operations, o.handle = op.handle,
           NEW skip, EndsStream(o, skip), o.confirmed => op.id \in device.finished
    PROVE TellsNothing \/ TellsComplete
<1>1. Streaming(op, streams, binary)
  BY TransferIs
<1>2. ASSUME NEW p, p.confirmed = o.confirmed, Settles(p, streams) PROVE TellsNothing \/ TellsComplete
  <2>1. CASE Finished(p, streams)
    <3>1. op.id \in device.finished /\ streams.video.waiting = {} /\ streams.audio.waiting = {}
      BY <1>1, <1>2, <2>1 DEF Finished, Streaming
    <3>2. last' = Outcome("complete", {})
      BY <1>2, <2>1 DEF Settles, Ends
    <3> QED
      BY <3>1, <3>2, ReadWhole DEF TellsComplete
  <2>2. CASE ~Finished(p, streams)
    BY <1>2, <2>2 DEF Settles, TellsNothing
  <2> QED
    BY <2>1, <2>2
<1>3. CASE ~binary.on
  BY <1>2, <1>3 DEF EndsStream
<1>4. CASE binary.on
  <2> DEFINE p == Ended(o)
  <2>1. Settles(p, IF o.handle THEN streams ELSE NoStreams)
    BY <1>4 DEF EndsStream
  <2>2. p.handle = o.handle /\ p.confirmed = o.confirmed
    BY EndedIs
  <2> HIDE DEF p
  <2>3. CASE o.handle
    BY <1>2, <2>1, <2>2, <2>3
  <2>4. CASE ~o.handle
    BY <2>1, <2>2, <2>4 DEF Settles, Finished, TellsNothing
  <2> QED
    BY <2>3, <2>4
<1> QED
  BY <1>3, <1>4

LEMMA ReceiveTells == RecordingsInv /\ Receive => TellsNothing \/ TellsComplete
<1> SUFFICES ASSUME RecordingsInv, Receive PROVE TellsNothing \/ TellsComplete
  OBVIOUS
<1>1. /\ Transferring /\ op \in Operations /\ Transfers(op, wire, device, binary)
      /\ wire # <<>> /\ wire \in Seq(Answers \cup Events) /\ binary \in Binaries
  BY TransferIs, TypeOf DEF Receive
<1>2. 1 \in DOMAIN wire /\ Head(wire) = wire[1]
  BY <1>1, TailOf
<1>3. \/ UNCHANGED last
      \/ \E skip \in Skips : /\ Head(wire).event = "finish"
                             /\ EndsStream([op EXCEPT !.confirmed = @ \/ binary.known], skip)
  BY DEF Receive
<1>4. ASSUME NEW skip \in Skips, Head(wire).event = "finish",
             EndsStream([op EXCEPT !.confirmed = @ \/ binary.known], skip)
      PROVE TellsNothing \/ TellsComplete
  <2> DEFINE o == [op EXCEPT !.confirmed = @ \/ binary.known]
  <2>1. binary.known \in BOOLEAN /\ op.confirmed \in BOOLEAN
    BY <1>1 DEF Binaries, Operations
  <2>2. o \in Operations /\ o.handle = op.handle
    BY <1>1, <2>1 DEF Operations
  <2>3. op.id \in device.finished
    BY <1>1, <1>2, <1>4 DEF Transfers
  <2> HIDE DEF o
  <2>4. EndsStream(o, skip)
    BY <1>4 DEF o
  <2> QED
    BY <1>1, <2>2, <2>3, <2>4, EndsStreamTells
<1> QED
  BY <1>3, <1>4 DEF TellsNothing

LEMMA StreamsEndTells ==
    RecordingsInv /\ (SessionGivesUp \/ CancelSent) => TellsNothing \/ TellsComplete
<1> SUFFICES ASSUME RecordingsInv, SessionGivesUp \/ CancelSent PROVE TellsNothing \/ TellsComplete
  OBVIOUS
<1>1. Transferring /\ \E skip \in Skips : EndsStream(op, skip)
  BY DEF SessionGivesUp, CancelSent
<1>2. op \in Operations /\ (op.confirmed => op.id \in device.finished)
  BY <1>1, TransferIs DEF Transfers
<1> QED
  BY <1>1, <1>2, EndsStreamTells

LEMMA StreamEndsTells ==
    ASSUME RecordingsInv, NEW kind \in Kinds, StreamEnds(kind) PROVE TellsNothing \/ TellsComplete
<1> DEFINE s == [streams EXCEPT ![kind].read = TRUE]
<1>1. /\ Transferring /\ streams[kind].waiting = {} /\ Settles(op, s)
  BY DEF StreamEnds
<1>2. /\ op \in Operations /\ Transfers(op, wire, device, binary) /\ Streaming(op, streams, binary)
      /\ streams \in BothStreams
  BY <1>1, TransferIs, TypeOf
<1>3. /\ s.video.read => streams.video.read \/ kind = "video"
      /\ s.audio.read => streams.audio.read \/ kind = "audio"
  BY <1>2 DEF BothStreams, OneStream, Kinds
<1> HIDE DEF s
<1>4. CASE Finished(op, s)
  <2>1. op.id \in device.finished /\ streams.video.waiting = {} /\ streams.audio.waiting = {}
    BY <1>1, <1>2, <1>3, <1>4 DEF Finished, Streaming, Transfers
  <2>2. last' = Outcome("complete", {})
    BY <1>1, <1>4 DEF Settles, Ends
  <2> QED
    BY <1>1, <2>1, <2>2, ReadWhole DEF TellsComplete
<1>5. CASE ~Finished(op, s)
  BY <1>1, <1>5 DEF Settles, TellsNothing
<1> QED
  BY <1>4, <1>5

LEMMA AnswerTells ==
    RecordingsInv /\ Answer => TellsNothing \/ TellsFailure \/ TellsOther \/ TellsList
<1> SUFFICES ASSUME RecordingsInv, Answer PROVE TellsNothing \/ TellsFailure \/ TellsOther \/ TellsList
  OBVIOUS
<1>1. Querying /\ wire # <<>>
  BY DEF Answer
<1>2. \/ Fails \/ Ends(Outcome("failed", {}))
      \/ op.kind # "list" /\ Ends(Outcome("ok", {}))
      \/ ~Head(wire).refused /\ op.kind = "list" /\ Listed(Head(wire).rows)
  BY DEF Answer
<1>3. CASE Fails \/ Ends(Outcome("failed", {}))
  BY <1>3 DEF Fails, Ends, TellsFailure
<1>4. CASE op.kind # "list" /\ Ends(Outcome("ok", {}))
  BY <1>4 DEF Ends, TellsOther
<1>5. CASE ~Head(wire).refused /\ op.kind = "list" /\ Listed(Head(wire).rows)
  <2> DEFINE rows == Head(wire).rows
  <2>1. \/ Fails \/ UNCHANGED last
        \/ Complete(rows) /\ Ends(Outcome("ok", rows)) /\ UNCHANGED device
    BY <1>5 DEF Listed
  <2> QED
    BY <1>1, <1>5, <2>1 DEF Fails, Ends, TellsFailure, TellsNothing, TellsList
<1> QED
  BY <1>2, <1>3, <1>4, <1>5

Tells == TellsNothing \/ TellsFailure \/ TellsOther \/ TellsList \/ TellsComplete
LEMMA NextTells == RecordingsInv /\ [Next]_vars => Tells
<1> SUFFICES ASSUME RecordingsInv, [Next]_vars PROVE Tells
  OBVIOUS
<1>1. CASE UNCHANGED vars
  BY <1>1 DEF vars, Tells, TellsNothing
<1>2. ASSUME NEW kind, Begin(kind) PROVE Tells
  BY <1>2 DEF Begin, Tells, TellsNothing
<1>3. CASE (\E kind \in Queries : Query(kind)) \/ Thumbnail \/ Download
  BY <1>2, <1>3 DEF Query, Thumbnail, Download
<1>4. CASE (\E c \in results : Result(c)) \/ Connected \/ Closed
  BY <1>4 DEF Result, Connected, Closed, Tells, TellsNothing
<1>5. CASE ConnectFails \/ QueryFails \/ StopExpires \/ \E c \in results : TransferResult(c)
  BY <1>5
     DEF ConnectFails, QueryFails, StopExpires, TransferResult, Fails, Ends, Tells, TellsFailure
<1>6. CASE Answer
  BY <1>6, AnswerTells DEF Tells
<1>7. CASE Chunk \/ AudioAbsent \/ Dropped \/ TransferStops \/ \E kind \in Kinds : Flows(kind)
  BY <1>7 DEF Chunk, AudioAbsent, Dropped, TransferStops, Flows, Tells, TellsNothing
<1>8. CASE Receive \/ SessionGivesUp \/ CancelSent
  BY <1>8, ReceiveTells, StreamsEndTells DEF Tells
<1>9. ASSUME NEW kind \in Kinds, StreamEnds(kind) PROVE Tells
  BY <1>9, StreamEndsTells DEF Tells
<1>10. CASE SessionLost
  BY <1>10 DEF SessionLost, Fails, Tells, TellsNothing, TellsFailure
<1>11. CASE Expires \/ DeviceAnswers \/ DeviceTransfers \/ DeviceChanges
  BY <1>11 DEF Expires, DeviceAnswers, DeviceTransfers, DeviceChanges, Tells, TellsNothing
<1> QED
  BY <1>1, <1>3, <1>4, <1>5, <1>6, <1>7, <1>8, <1>9, <1>10, <1>11 DEF Next

(* A page that is not full, and has more rows than the page before, is all  *)
(* the device holds, unless its cap is not the width of a page.             *)
Widths == {Limits[p] : p \in DOMAIN Limits}
LEMMA PageIsWhole ==
    ASSUME NEW o \in Operations, NEW d \in Devices, NEW rows, Shows(o, rows, d), Before(o, d),
           o.page \in 1..Len(Limits), Cardinality(rows) < Limits[o.page],
           o.previous # {} => Cardinality(rows) # Cardinality(o.previous)
    PROVE rows = d.shown \/ (d.cap \notin Widths /\ Cardinality(rows) = d.cap)
<1>1. /\ o.page \in DOMAIN Limits /\ o.page \in Nat /\ Limits[o.page] \in Nat
      /\ \A p \in DOMAIN Limits : p \in Nat /\ p \in 1..Len(Limits) /\ Limits[p] \in Nat
      /\ DOMAIN Limits = 1..Len(Limits)
  <2>1. DOMAIN Limits = 1..Len(Limits) /\ Len(Limits) \in Nat
    BY RecordingsAssumption
  <2>2. \A p \in DOMAIN Limits : Limits[p] \in Nat
    BY RecordingsAssumption
  <2>3. \A p \in 1..Len(Limits) : p \in Nat
    BY <2>1
  <2> QED
    BY <2>1, <2>2, <2>3
<1>2. d.shown \in SUBSET Rows /\ rows \subseteq d.shown /\ IsFiniteSet(d.shown)
      /\ IsFiniteSet(rows) /\ Cardinality(d.shown) \in Nat /\ Cardinality(rows) \in Nat
  <2>1. d.shown \in SUBSET Rows /\ rows \subseteq d.shown /\ IsFiniteSet(Rows)
    BY RecordingsAssumption DEF Devices, Shows
  <2> QED
    BY <2>1, FS_Subset, FS_CardinalityType
<1>3. \/ Cardinality(rows) = Cardinality(d.shown)
      \/ d.cap # None /\ Cardinality(rows) = d.cap
  BY <1>1, <1>2 DEF Shows
<1>4. CASE Cardinality(rows) = Cardinality(d.shown)
  BY <1>2, <1>4, FS_Subset
<1>5. CASE d.cap # None /\ Cardinality(rows) = d.cap
  <2> SUFFICES ASSUME d.cap \in Widths PROVE FALSE
    BY <1>5
  <2>1. PICK q \in DOMAIN Limits : d.cap = Limits[q]
    BY DEF Widths
  <2>2. q < o.page
    <3>1. o.page < q => Limits[o.page] < Limits[q]
      BY <1>1, PagesWiden
    <3> QED
      BY <1>1, <1>5, <2>1, <3>1
  <2> DEFINE p == o.page - 1
  <2>3. o.page # 1 /\ q <= p /\ p \in DOMAIN Limits /\ p \in Nat /\ q \in Nat
    BY <1>1, <2>2
  <2>4. Cardinality(o.previous) = Limits[p] /\ Limits[p] <= d.cap
    BY <1>5, <2>3 DEF Before
  <2> HIDE DEF p
  <2>5. Limits[q] <= Limits[p] /\ Limits[p] > 0 /\ Limits[p] \in Nat /\ Limits[q] \in Nat
    <3>1. q < p => Limits[q] < Limits[p]
      BY <2>3, PagesWiden
    <3>2. q < p \/ q = p
      BY <2>3
    <3> QED
      BY <1>1, <2>3, <3>1, <3>2, PagesWiden
  <2>6. Cardinality(o.previous) = Cardinality(rows)
    BY <1>5, <2>1, <2>4, <2>5
  <2>7. o.previous # {}
    <3>1. Cardinality({}) = 0
      BY FS_EmptySet
    <3>2. Cardinality(o.previous) # 0
      BY <2>4, <2>5
    <3>3. CASE o.previous = {}
      BY <3>1, <3>2, <3>3, Zenon
    <3> QED
      BY <3>3
  <2> QED
    BY <2>6, <2>7
<1> QED
  BY <1>3, <1>4, <1>5

LEMMA CompleteStep ==
    ASSUME RecordingsInv, [Next]_vars, last' # last, last' # None, last'.code = "complete"
    PROVE Whole
<1>1. Tells
  BY NextTells
<1>2. last'.code = "complete"
  OBVIOUS
<1> QED
  BY <1>1, <1>2
     DEF Tells, TellsNothing, TellsFailure, TellsOther, TellsList, TellsComplete, Outcome

LEMMA ListStep ==
    ASSUME RecordingsInv, [Next]_vars, last' # last, last' # None, last'.kind = "list", last'.code = "ok"
    PROVE \/ last'.rows = device.shown
          \/ device.cap \notin Widths /\ Cardinality(last'.rows) = device.cap
<1>1. Tells
  BY NextTells
<1>2. TellsList
  BY <1>1 DEF Tells, TellsNothing, TellsFailure, TellsOther, TellsComplete, Outcome
<1>3. /\ Querying /\ wire # <<>> /\ op.kind = "list" /\ ~Head(wire).refused
      /\ last'.rows = Head(wire).rows /\ Complete(Head(wire).rows)
  BY <1>2 DEF TellsList, Outcome
<1>4. /\ op \in Operations /\ op.page \in 1..Len(Limits) /\ device \in Devices
      /\ Shows(op, Head(wire).rows, device) /\ Before(op, device)
  BY <1>3, QueryIs, AnswerIs, TypeOf
<1> QED
  BY <1>3, <1>4, PageIsWhole DEF Complete

(* A transfer that is told to be complete has been finished by the device,  *)
(* and the caller has read all that the session had put into its streams,   *)
(* one unbroken run of what came (download.ts maybeComplete, session.ts     *)
(* endStream).                                                             *)
THEOREM CompleteIsWhole == Spec => WholeTransfer
<1>1. RecordingsInv /\ [Next]_vars =>
          (last' # last /\ last' # None /\ last'.code = "complete" =>
             /\ op.id \in device.finished
             /\ streams.counted = streams.put /\ Unbroken(streams.counted))
  BY CompleteStep DEF Whole
<1> QED
  BY <1>1, Invariant, PTL DEF Spec, WholeTransfer

(* And a list that is told to be complete is all that the device held when  *)
(* it gave its last answer, whatever changed, unless the device caps its    *)
(* answers at a number that is not the width of a page (recordings.ts       *)
(* completeHistory).                                                       *)
THEOREM ResultsAreWhole == Spec => WholeResults
<1>1. RecordingsInv /\ [Next]_vars =>
          (last' # last /\ last' # None /\ last'.kind = "list" /\ last'.code = "ok" =>
             \/ last'.rows = device.shown
             \/ /\ device.cap \notin {Limits[p] : p \in DOMAIN Limits}
                /\ Cardinality(last'.rows) = device.cap)
  BY ListStep DEF Widths
<1>2. Spec => WholeList
  BY <1>1, Invariant, PTL DEF Spec, WholeList
<1> QED
  BY <1>2, CompleteIsWhole DEF WholeResults
===============================================================================
