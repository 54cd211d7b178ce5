------------------------------ MODULE EventProofs ------------------------------
(***************************************************************************)
(* Proofs about what reports the cameras' events.                          *)
(*                                                                         *)
(* EventTransport, for every set of messages and every number of starts,   *)
(* connections and crashes: its state is the one of TransportOK, a message *)
(* whose key has reached the store is not reported again, and saves are    *)
(* written in the order they were asked for. Three invariants, each        *)
(* resting on the one before it. Base: types, the chains of saves and      *)
(* their writes, and what the phase of the transport says of its state.    *)
(* Once: a message that was reported or waits is kept from being accepted  *)
(* again, by the transport or, while it is replaced, by what the next one  *)
(* will restore. Order: each save has the keys of those before it.         *)
(*                                                                         *)
(* Detections, for every set of messages and device events and all limits  *)
(* and times: its state is the one of DetectionsOK, and no key is reported *)
(* again before it is forgotten.                                           *)
(***************************************************************************)
EXTENDS EventTransport, Detections, TLAPS, FiniteSetTheorems, WellFoundedInduction

-----------------------------------------------------------------------------
(* Sequences.                                                               *)

LEMMA AppendOf ==
    ASSUME NEW S, NEW s \in Seq(S), NEW x \in S
    PROVE /\ Append(s, x) \in Seq(S) /\ Append(s, x) # <<>>
          /\ Len(s) \in Nat /\ DOMAIN s = 1..Len(s) /\ Len(Append(s, x)) = Len(s) + 1
          /\ DOMAIN Append(s, x) = 1..(Len(s) + 1) /\ Append(s, x)[Len(s) + 1] = x
          /\ \A i \in DOMAIN s : i \in DOMAIN Append(s, x) /\ Append(s, x)[i] = s[i]
          /\ \A i \in DOMAIN Append(s, x) : i \in DOMAIN s \/ i = Len(s) + 1
          /\ s = <<>> => Append(s, x)[1] = x
  OBVIOUS

LEMMA TailOf ==
    ASSUME NEW S, NEW s \in Seq(S), s # <<>>
    PROVE /\ Tail(s) \in Seq(S) /\ Head(s) \in S /\ 1 \in DOMAIN s /\ Head(s) = s[1]
          /\ Len(s) \in Nat \ {0} /\ Len(Tail(s)) = Len(s) - 1
          /\ DOMAIN s = 1..Len(s) /\ DOMAIN Tail(s) = 1..(Len(s) - 1)
          /\ \A i \in DOMAIN Tail(s) :
                /\ i + 1 \in DOMAIN s /\ i \in Nat /\ i + 1 # 1 /\ Tail(s)[i] = s[i + 1]
          /\ \A i \in DOMAIN s : i # 1 => i - 1 \in DOMAIN Tail(s) /\ i \in Nat
          /\ Tail(s) = <<>> <=> Len(s) = 1
<1>1. /\ Tail(s) \in Seq(S) /\ Head(s) \in S /\ 1 \in DOMAIN s /\ Head(s) = s[1]
      /\ Len(s) \in Nat \ {0} /\ Len(Tail(s)) = Len(s) - 1
      /\ DOMAIN s = 1..Len(s) /\ DOMAIN Tail(s) = 1..(Len(s) - 1)
  OBVIOUS
<1>2. \A i \in DOMAIN Tail(s) :
            /\ i + 1 \in DOMAIN s /\ i \in Nat /\ i + 1 # 1 /\ Tail(s)[i] = s[i + 1]
  OBVIOUS
<1>3. Tail(s) = <<>> <=> Len(s) = 1
  BY <1>1
<1> QED
  BY <1>1, <1>2, <1>3

LEMMA FirstOf ==
    ASSUME NEW S, NEW s \in Seq(S)
    PROVE s = <<>> <=> 1 \notin DOMAIN s
  OBVIOUS

-----------------------------------------------------------------------------
(* The chains of saves: c[g] is what waits in the chain of the transport g.  *)
(* A chain that is not over has its first save among the writes, once.       *)

Waiting == {s \in Saves : s.state.registered}
Writes == [state : Snapshot, from : Nat]
Owned(ws, c) ==
    /\ \A i \in DOMAIN ws :
          /\ ws[i].from \in DOMAIN c /\ c[ws[i].from] # <<>>
          /\ ws[i].state = c[ws[i].from][1].state
    /\ \A i, j \in DOMAIN ws : ws[i].from = ws[j].from => i = j
    /\ \A g \in DOMAIN c : c[g] # <<>> => \E i \in DOMAIN ws : ws[i].from = g

(* One more save behind others of its chain changes no write.               *)
LEMMA OwnedBehind ==
    ASSUME NEW ws, NEW c, NEW d, Owned(ws, c), NEW g \in DOMAIN c, DOMAIN d = DOMAIN c,
           \A h \in DOMAIN c : h # g => d[h] = c[h],
           c[g] # <<>>, d[g] # <<>>, d[g][1] = c[g][1]
    PROVE Owned(ws, d)
  BY DEF Owned

(* The first save of a chain is written at once.                            *)
LEMMA OwnedFirst ==
    ASSUME NEW ws \in Seq(Writes), NEW w \in Writes, NEW c, NEW d, Owned(ws, c),
           DOMAIN d = DOMAIN c, w.from \in DOMAIN c,
           \A h \in DOMAIN c : h # w.from => d[h] = c[h],
           c[w.from] = <<>>, d[w.from] # <<>>, w.state = d[w.from][1].state
    PROVE Append(ws, w) \in Seq(Writes) /\ Owned(Append(ws, w), d)
<1> DEFINE a == Append(ws, w)
<1>1. /\ a \in Seq(Writes)
      /\ \A i \in DOMAIN a : \/ i \in DOMAIN ws /\ a[i] = ws[i]
                             \/ i = Len(ws) + 1 /\ a[i] = w
      /\ Len(ws) + 1 \in DOMAIN a /\ a[Len(ws) + 1] = w
      /\ \A i \in DOMAIN ws : i \in DOMAIN a /\ a[i] = ws[i]
  BY AppendOf
<1> HIDE DEF a
<1>2. \A i \in DOMAIN ws : ws[i].from # w.from
  BY DEF Owned
<1>3. ASSUME NEW i \in DOMAIN a
      PROVE a[i].from \in DOMAIN d /\ d[a[i].from] # <<>> /\ a[i].state = d[a[i].from][1].state
  BY <1>1, <1>2, <1>3 DEF Owned
<1>4. ASSUME NEW i \in DOMAIN a, NEW j \in DOMAIN a, a[i].from = a[j].from
      PROVE i = j
  BY <1>1, <1>2, <1>4 DEF Owned
<1>5. ASSUME NEW g \in DOMAIN d, d[g] # <<>>
      PROVE \E i \in DOMAIN a : a[i].from = g
  BY <1>1, <1>5 DEF Owned
<1>6. Owned(a, d)
  BY <1>3, <1>4, <1>5 DEF Owned
<1> QED
  BY <1>1, <1>6 DEF a

(* A write ends: the save of its chain is over.                             *)
LEMMA OwnedLast ==
    ASSUME NEW ws \in Seq(Writes), ws # <<>>, NEW c, NEW d, Owned(ws, c),
           DOMAIN d = DOMAIN c, \A h \in DOMAIN c : h # Head(ws).from => d[h] = c[h],
           d[Head(ws).from] = <<>>
    PROVE Tail(ws) \in Seq(Writes) /\ Owned(Tail(ws), d)
<1> DEFINE a == Tail(ws)
<1>1. /\ a \in Seq(Writes) /\ Head(ws) = ws[1] /\ 1 \in DOMAIN ws
      /\ \A i \in DOMAIN a :
            i + 1 \in DOMAIN ws /\ i \in Nat /\ i + 1 # 1 /\ a[i] = ws[i + 1]
      /\ \A i \in DOMAIN ws : i # 1 => i - 1 \in DOMAIN a /\ i \in Nat
  BY TailOf
<1> HIDE DEF a
<1>2. \A i \in DOMAIN a : a[i].from # Head(ws).from
  BY <1>1, SMTT(30) DEF Owned
<1>3. ASSUME NEW i \in DOMAIN a
      PROVE a[i].from \in DOMAIN d /\ d[a[i].from] # <<>> /\ a[i].state = d[a[i].from][1].state
  BY <1>1, <1>2, <1>3, SMTT(30) DEF Owned
<1>4. ASSUME NEW i \in DOMAIN a, NEW j \in DOMAIN a, a[i].from = a[j].from
      PROVE i = j
  <2>1. /\ ws[i + 1].from = ws[j + 1].from /\ i \in Nat /\ j \in Nat
        /\ i + 1 \in DOMAIN ws /\ j + 1 \in DOMAIN ws
    BY <1>1, <1>4
  <2>2. i + 1 = j + 1
    BY <2>1 DEF Owned
  <2> QED
    BY <2>1, <2>2
<1>5. ASSUME NEW g \in DOMAIN d, d[g] # <<>>
      PROVE \E i \in DOMAIN a : a[i].from = g
  <2>1. g # Head(ws).from /\ g \in DOMAIN c /\ c[g] # <<>>
    BY <1>5
  <2>2. PICK i \in DOMAIN ws : ws[i].from = g
    BY <2>1 DEF Owned
  <2>3. i # 1 /\ i - 1 \in DOMAIN a /\ i \in Nat
    BY <1>1, <2>1, <2>2
  <2>4. a[i - 1] = ws[i]
    BY <1>1, <2>3
  <2> QED
    BY <2>2, <2>3, <2>4
<1>6. Owned(a, d)
  BY <1>3, <1>4, <1>5 DEF Owned
<1> QED
  BY <1>1, <1>6 DEF a

(* A replaced transport is followed by one without saves.                   *)
LEMMA OwnedMore ==
    ASSUME NEW ws, NEW c, NEW d, Owned(ws, c), NEW n, n \notin DOMAIN c,
           DOMAIN d = DOMAIN c \cup {n}, \A g \in DOMAIN c : d[g] = c[g], d[n] = <<>>
    PROVE Owned(ws, d)
  BY DEF Owned

-----------------------------------------------------------------------------
(* The states between two steps.                                            *)

Clients ==
    [closed : BOOLEAN, call : {"none", "loading", "replacing", "opening"},
     shutdown : {"none", "waiting", "flushing", "done"}, left : Nat]
Bounds == [starts : Nat, connects : Nat, crashes : Nat, late : Nat]

Chains == [g \in 1..Number |-> Chain(g)]
ChainOK ==
    /\ saves \in Seq(Waiting) /\ rest \in Seq(Seq(Waiting)) /\ writes \in Seq(Writes)
    /\ done \in Nat /\ session \in Snapshot /\ store \in Snapshot
    /\ Owned(writes, Chains)
    /\ ~session.registered => session = Empty /\ NoneBehind /\ saves = <<>>
    /\ ~store.registered => store = Empty

(* What the transport t has done fits the phase it is in.                   *)
TransportFits ==
    /\ t \in Transports
    /\ t.pending \cap t.seen = {}
    /\ t.closed => ~t.connected
    /\ t.closed /\ t.closes = {} => t.pending = {}
    /\ t.closes # {} => t.closed
    /\ t.phase = "initializing" => ~t.registered
    /\ ~t.registered => t.seen = {} /\ t.ids = {} /\ t.pending = {} /\ saves = <<>>
    /\ ~t.registered /\ t.phase \in {"opening", "open"} => ~session.registered
    /\ \A c \in t.closes : c.until <= Issued
Base ==
    /\ ChainOK
    /\ client \in Clients /\ link \in BOOLEAN /\ held \subseteq Messages
    /\ reported \in Seq(Messages) /\ spent \in Bounds
    /\ Exists => TransportFits
    /\ ~Exists => saves = <<>> /\ rest = <<>>
    /\ link => Running /\ t.registered
    /\ client.call = "replacing" => Exists /\ t.closed
    /\ client.call = "opening" => Exists

-----------------------------------------------------------------------------
(* What the steps of the chains do to them.                                 *)

LEMMA ChainsOf ==
    ASSUME ChainOK
    PROVE /\ Number \in Nat \ {0} /\ Len(rest) \in Nat /\ Number = Len(rest) + 1
          /\ DOMAIN rest = 1..Len(rest) /\ DOMAIN Chains = 1..Number /\ Number \in DOMAIN Chains
          /\ Number \notin DOMAIN rest /\ Chains[Number] = saves
          /\ \A g \in DOMAIN Chains : g # Number => g \in DOMAIN rest
          /\ \A g \in DOMAIN rest : g \in DOMAIN Chains /\ g # Number /\ Chains[g] = rest[g]
          /\ \A g \in DOMAIN Chains : Chains[g] = Chain(g) /\ Chains[g] \in Seq(Waiting)
<1>1. /\ Len(rest) \in Nat /\ Number = Len(rest) + 1 /\ Number \in Nat \ {0}
      /\ DOMAIN rest = 1..Len(rest) /\ saves \in Seq(Waiting)
      /\ \A g \in DOMAIN rest : rest[g] \in Seq(Waiting)
  BY DEF ChainOK, Number
<1>2. /\ DOMAIN Chains = 1..Number
      /\ \A g \in DOMAIN Chains : Chains[g] = IF g = Number THEN saves ELSE rest[g]
      /\ \A g \in DOMAIN Chains : Chains[g] = Chain(g)
  BY DEF Chains, Chain
<1> QED
  BY <1>1, <1>2

LEMMA WaitingOf ==
    ASSUME NEW w \in Waiting
    PROVE w \in Saves /\ w.state \in Snapshot /\ w.state.registered
          /\ w.state.seen \subseteq Messages /\ w.state.ids \subseteq Messages
  BY DEF Waiting, Saves, Snapshot

By == {"credential", "connect", "message", "flush", "close"}
LEMMA PersistFacts ==
    ASSUME ChainOK, NEW tr, NEW by \in By, tr.registered \in BOOLEAN,
           tr.ids \subseteq Messages, tr.seen \subseteq Messages, Persist(tr, by)
    PROVE /\ ChainOK'
          /\ rest' = rest /\ done' = done /\ store' = store /\ Number' = Number
          /\ ~tr.registered => saves' = saves /\ writes' = writes /\ session' = session
          /\ tr.registered =>
                /\ saves' = Append(saves, [state |-> State(tr), by |-> by])
                /\ State(tr) \in Snapshot /\ [state |-> State(tr), by |-> by] \in Waiting
                /\ saves # <<>> => session' = session
                /\ saves = <<>> => session' = State(tr)
<1> DEFINE x == [state |-> State(tr), by |-> by]
           w == [state |-> State(tr), from |-> Number]
<1>1. CASE ~tr.registered
  <2>1. UNCHANGED <<saves, rest, writes, done, session, store>>
    BY <1>1 DEF Persist, chain
  <2>2. ChainOK'
    BY <2>1 DEF ChainOK, Chains, Chain, Number, NoneBehind
  <2> QED
    BY <1>1, <2>1, <2>2 DEF Number
<1>2. CASE tr.registered
  <2>1. /\ saves' = Append(saves, x) /\ rest' = rest /\ done' = done /\ store' = store
        /\ saves # <<>> => session' = session /\ writes' = writes
        /\ saves = <<>> => session' = State(tr) /\ writes' = Append(writes, w)
    BY <1>2 DEF Persist, Handed
  <2>2. State(tr) \in Snapshot /\ State(tr).registered /\ x \in Waiting /\ x.state = State(tr)
    BY DEF State, Snapshot, Waiting, Saves, By
  <2>3. w \in Writes /\ w.state = State(tr) /\ w.from = Number
    BY <2>2, ChainsOf DEF Writes
  <2> HIDE DEF x, w
  <2>4. /\ saves' \in Seq(Waiting) /\ saves' # <<>>
        /\ saves = <<>> => saves'[1] = x
        /\ saves # <<>> => saves'[1] = saves[1]
    <3>1. saves \in Seq(Waiting)
      BY DEF ChainOK
    <3> QED
      BY <2>1, <2>2, <3>1, AppendOf, FirstOf
  <2>5. /\ Number' = Number /\ DOMAIN Chains' = DOMAIN Chains /\ Chains'[Number] = saves'
        /\ \A g \in DOMAIN Chains : g # Number => Chains'[g] = Chains[g]
    BY <2>1, ChainsOf DEF Chains, Chain, Number
  <2>6. writes' \in Seq(Writes) /\ Owned(writes', Chains')
    <3>1. CASE saves # <<>>
      <4>1. /\ writes \in Seq(Writes) /\ Owned(writes, Chains) /\ Number \in DOMAIN Chains
            /\ Chains[Number] # <<>> /\ Chains'[Number] # <<>>
            /\ Chains'[Number][1] = Chains[Number][1]
        BY <2>4, <2>5, <3>1, ChainsOf DEF ChainOK
      <4>2. Owned(writes, Chains')
        BY ONLY <2>5, <4>1, OwnedBehind
      <4> QED
        BY <2>1, <3>1, <4>1, <4>2
    <3>2. CASE saves = <<>>
      <4>1. /\ writes \in Seq(Writes) /\ Owned(writes, Chains) /\ w.from \in DOMAIN Chains
            /\ Chains[w.from] = <<>> /\ Chains'[w.from] # <<>> /\ w.state = Chains'[w.from][1].state
            /\ \A g \in DOMAIN Chains : g # w.from => Chains'[g] = Chains[g]
        BY <2>2, <2>3, <2>4, <2>5, <3>2, ChainsOf DEF ChainOK
      <4> QED
        BY <2>1, <2>3, <2>5, <3>2, <4>1, OwnedFirst
    <3> QED
      BY <3>1, <3>2
  <2>7. session'.registered /\ session' \in Snapshot
    BY <2>1, <2>2 DEF ChainOK
  <2>8. ChainOK'
    BY <2>1, <2>4, <2>6, <2>7 DEF ChainOK
  <2> QED
    BY <1>2, <2>1, <2>2, <2>5, <2>8 DEF x
<1> QED
  BY <1>1, <1>2

LEMMA WriteFacts ==
    ASSUME ChainOK, NEW ok \in BOOLEAN, WriteEnds(ok)
    PROVE /\ ChainOK'
          /\ \E g \in DOMAIN Chains :
                /\ Chains[g] # <<>> /\ Chains[g] \in Seq(Waiting)
                /\ store' = IF ok THEN Chains[g][1].state ELSE store
                /\ \/ Len(Chains[g]) = 1 /\ session' = session
                   \/ Len(Chains[g]) > 1 /\ session' = Chains[g][2].state
                /\ g = Number => /\ saves' = Tail(saves) /\ done' = done + 1 /\ rest' = rest
                                 /\ Ends(ok)
                /\ g # Number => /\ saves' = saves /\ done' = done /\ t' = t
                                 /\ rest' = [rest EXCEPT ![g] = Tail(@)]
<1> DEFINE g == Head(writes).from
           c == Chains[g]
<1>1. /\ writes # <<>> /\ writes \in Seq(Writes) /\ Owned(writes, Chains)
      /\ 1 \in DOMAIN writes /\ Head(writes) = writes[1] /\ Tail(writes) \in Seq(Writes)
  BY TailOf DEF WriteEnds, ChainOK
<1>2. /\ g \in DOMAIN Chains /\ c # <<>> /\ Head(writes).state = c[1].state
      /\ c \in Seq(Waiting) /\ c = Chain(g)
  BY <1>1, ChainsOf DEF Owned
<1>3. /\ Len(c) \in Nat \ {0} /\ 1 \in DOMAIN c /\ DOMAIN c = 1..Len(c)
      /\ Tail(c) \in Seq(Waiting) /\ (Tail(c) = <<>> <=> Len(c) = 1)
      /\ Len(c) > 1 => Tail(c)[1] = c[2] /\ 2 \in DOMAIN c
  <2> HIDE DEF c
  <2>1. Len(c) > 1 => 1 \in DOMAIN Tail(c) /\ 2 \in DOMAIN c
    BY <1>2, TailOf
  <2> QED
    BY <1>2, <2>1, TailOf
<1>4. /\ store' = IF ok THEN c[1].state ELSE store
      /\ NextOf(c, g)
      /\ \/ /\ g = Number /\ saves' = Tail(saves) /\ done' = done + 1 /\ Ends(ok) /\ rest' = rest
         \/ /\ g # Number /\ rest' = [rest EXCEPT ![g] = Tail(@)] /\ saves' = saves /\ done' = done
            /\ t' = t
  BY <1>2 DEF WriteEnds
<1> HIDE DEF g, c
<1>5. /\ \/ Len(c) = 1 /\ session' = session /\ writes' = Tail(writes)
         \/ /\ Len(c) > 1 /\ session' = c[2].state
            /\ writes' = Append(Tail(writes), [state |-> c[2].state, from |-> g])
  BY <1>3, <1>4 DEF NextOf
<1>6. /\ saves' \in Seq(Waiting) /\ rest' \in Seq(Seq(Waiting)) /\ done' \in Nat
      /\ Number' = Number /\ DOMAIN Chains' = DOMAIN Chains /\ Chains'[g] = Tail(c)
      /\ \A h \in DOMAIN Chains : h # g => Chains'[h] = Chains[h]
  <2>1. saves \in Seq(Waiting) /\ rest \in Seq(Seq(Waiting)) /\ done \in Nat
    BY DEF ChainOK
  <2>2. CASE g = Number /\ saves' = Tail(saves) /\ done' = done + 1 /\ rest' = rest
    <3>1. c = saves
      BY <2>2, ChainsOf DEF c
    <3>2. Number' = Number /\ DOMAIN Chains' = 1..Number /\ Chains'[g] = saves'
      BY <1>2, <2>2, ChainsOf DEF Number, Chains, Chain
    <3>3. \A h \in DOMAIN Chains : h # g => Chains'[h] = Chains[h]
      BY <2>2, <3>2, ChainsOf DEF Chains, Chain
    <3> QED
      BY <1>3, <2>1, <2>2, <3>1, <3>2, <3>3, ChainsOf
  <2>3. CASE g # Number /\ rest' = [rest EXCEPT ![g] = Tail(@)] /\ saves' = saves /\ done' = done
    <3>1. c = rest[g] /\ g \in DOMAIN rest
      BY <1>2, <2>3, ChainsOf DEF c
    <3>2. rest' \in Seq(Seq(Waiting)) /\ Len(rest') = Len(rest) /\ rest'[g] = Tail(c)
          /\ \A h \in DOMAIN rest : h # g => rest'[h] = rest[h]
      <4>1. rest' = [rest EXCEPT ![g] = Tail(c)] /\ Tail(c) \in Seq(Waiting)
        BY <1>3, <2>3, <3>1
      <4> QED
        BY ONLY <2>1, <3>1, <4>1
    <3>3. Number' = Number /\ DOMAIN Chains' = 1..Number
      BY <3>2 DEF Number, Chains
    <3>4. \A h \in 1..Number : Chains'[h] = IF h = Number THEN saves ELSE rest'[h]
      BY <2>3, <3>3 DEF Chains, Chain
    <3>5. \A h \in DOMAIN Chains : h # g => Chains'[h] = Chains[h]
      BY <3>2, <3>4, ChainsOf
    <3> QED
      BY <1>2, <2>1, <2>3, <3>1, <3>2, <3>3, <3>4, <3>5, ChainsOf
  <2> QED
    BY <1>4, <2>2, <2>3
<1>7. writes' \in Seq(Writes) /\ Owned(writes', Chains')
  <2>1. CASE Len(c) = 1 /\ writes' = Tail(writes)
    <3>1. Chains'[g] = <<>>
      BY <1>3, <1>6, <2>1
    <3> QED
      BY <1>1, <1>6, <2>1, <3>1, OwnedLast DEF g
  <2>2. ASSUME Len(c) > 1, writes' = Append(Tail(writes), [state |-> c[2].state, from |-> g])
        PROVE writes' \in Seq(Writes) /\ Owned(writes', Chains')
    <3> DEFINE d == [Chains EXCEPT ![g] = <<>>]
               w == [state |-> c[2].state, from |-> g]
    <3>1. /\ DOMAIN d = DOMAIN Chains /\ d[g] = <<>>
          /\ \A h \in DOMAIN Chains : h # g => d[h] = Chains[h]
      BY <1>2
    <3>2. w \in Writes /\ w.from = g /\ w.state = Chains'[g][1].state /\ Chains'[g] # <<>>
      <4>1. c[2] \in Waiting /\ c[2].state \in Snapshot
        BY <1>2, <1>3, <2>2, WaitingOf DEF c
      <4>2. g \in Nat
        BY <1>2, ChainsOf
      <4> QED
        BY <1>3, <1>6, <2>2, <4>1, <4>2 DEF Writes
    <3> HIDE DEF d, w
    <3>3. Tail(writes) \in Seq(Writes) /\ Owned(Tail(writes), d)
      BY <1>1, <3>1, OwnedLast DEF g
    <3>4. \A h \in DOMAIN d : h # w.from => Chains'[h] = d[h]
      BY <1>6, <3>1, <3>2
    <3>5. Append(Tail(writes), w) \in Seq(Writes) /\ Owned(Append(Tail(writes), w), Chains')
      <4>1. /\ DOMAIN Chains' = DOMAIN d /\ w.from \in DOMAIN d /\ d[w.from] = <<>>
            /\ Chains'[w.from] # <<>> /\ w.state = Chains'[w.from][1].state
        BY <1>2, <1>6, <3>1, <3>2
      <4> QED
        BY ONLY <3>2, <3>3, <3>4, <4>1, OwnedFirst
    <3> QED
      BY <2>2, <3>5 DEF w
  <2> QED
    BY <1>5, <2>1, <2>2
<1>8. session'.registered /\ session' \in Snapshot
  <2>1. session.registered
    <3>1. CASE g = Number
      BY <1>2, <3>1, ChainsOf DEF ChainOK, c
    <3>2. CASE g # Number
      BY <1>2, <3>2, ChainsOf DEF ChainOK, c, NoneBehind
    <3> QED
      BY <3>1, <3>2
  <2>2. Len(c) > 1 => c[2] \in Waiting
    BY <1>2, <1>3 DEF c
  <2> QED
    BY <1>5, <2>1, <2>2, WaitingOf DEF ChainOK
<1>9. store' \in Snapshot /\ (~store'.registered => store' = Empty)
  BY <1>2, <1>3, <1>4, WaitingOf DEF ChainOK, c
<1>10. ChainOK'
  BY <1>6, <1>7, <1>8, <1>9 DEF ChainOK
<1> QED
  BY <1>2, <1>4, <1>5, <1>10 DEF c

-----------------------------------------------------------------------------
(* Base is kept by every step.                                              *)

LEMMA SnapshotOf ==
    /\ Empty \in Snapshot /\ ~Empty.registered /\ Empty.seen = {} /\ Empty.ids = {}
    /\ \A s \in Snapshot : s.registered \in BOOLEAN /\ s.ids \subseteq Messages /\ s.seen \subseteq Messages
  BY DEF Snapshot, Empty

LEMMA NewFields ==
    /\ NewTransport \in Transports /\ NewTransport # None
    /\ NewTransport.phase = "initializing" /\ ~NewTransport.closed /\ ~NewTransport.connected
    /\ ~NewTransport.registered /\ NewTransport.ids = {} /\ NewTransport.seen = {}
    /\ NewTransport.pending = {} /\ NewTransport.closes = {}
<1>1. NewTransport \in Transports
  BY DEF NewTransport, Transports, Closers
<1> QED
  BY <1>1, NoneAssumption DEF NewTransport

LEMMA ChainSame ==
    ASSUME ChainOK, UNCHANGED chain
    PROVE ChainOK' /\ Issued' = Issued /\ Number' = Number /\ Chains' = Chains
          /\ UNCHANGED <<saves, rest, writes, done, session, store>>
  BY DEF ChainOK, chain, Chains, Chain, Number, NoneBehind, Issued

LEMMA NoChains ==
    ASSUME saves = <<>>, rest = <<>>, writes = <<>>, done = 0,
           session \in Snapshot, store \in Snapshot, ~session.registered => session = Empty,
           ~store.registered => store = Empty
    PROVE ChainOK
<1>1. Chains = [g \in {1} |-> <<>>]
  BY DEF Chains, Chain, Number
<1>2. Owned(writes, Chains)
  BY <1>1 DEF Owned
<1> QED
  BY <1>2 DEF ChainOK, NoneBehind

LEMMA InitBase == Init => Base
<1> SUFFICES ASSUME Init PROVE Base
  OBVIOUS
<1>1. ChainOK
  BY SnapshotOf, NoChains DEF Init
<1>2. client \in Clients /\ client.call = "none" /\ spent \in Bounds /\ reported \in Seq(Messages)
  BY DEF Init, Clients, NewClient, Bounds
<1> QED
  BY <1>1, <1>2 DEF Init, Base, Exists

LEMMA StartEventsBase == Base /\ StartEvents => Base'
<1> SUFFICES ASSUME Base, StartEvents PROVE Base'
  OBVIOUS
<1>1. client' \in Clients /\ spent' \in Bounds /\ client'.call = "loading"
  BY DEF Base, StartEvents, Clients, Bounds
<1> QED
  BY <1>1, ChainSame DEF Base, StartEvents, TransportFits, Exists, Running

(* A step of the transport that leaves the chains alone.                    *)
LEMMA QuietBase ==
    ASSUME Base, Exists, UNCHANGED <<chain, held, reported>>, spent' \in Bounds, TransportFits',
           Exists', client' \in Clients, client'.call = "replacing" => t'.closed,
           link' \in BOOLEAN, link' => Running' /\ t'.registered
    PROVE Base'
  BY ChainSame DEF Base, Exists

LEMMA InitializedBase == Base /\ Initialized => Base'
<1> SUFFICES ASSUME Base, Initialized PROVE Base'
  OBVIOUS
<1>1. /\ Exists /\ TransportFits /\ t \in Transports /\ session \in Snapshot /\ ~t.registered
      /\ t.seen = {} /\ t.ids = {} /\ t.pending = {} /\ saves = <<>> /\ ~link
      /\ client \in Clients /\ client.call = "opening"
      /\ UNCHANGED <<link, chain, held, reported, spent>>
  BY DEF Base, Initialized, Opening, TransportFits, Running, ChainOK
<1>2. Issued' = Issued /\ saves' = <<>> /\ session' = session
  BY <1>1, ChainSame DEF Base
<1>3. CASE client' = [client EXCEPT !.call = "none"] /\ t' = [t EXCEPT !.phase = "failed"]
  <2>1. t' \in Transports /\ client' \in Clients /\ client'.call = "none"
    BY <1>1, <1>3 DEF Transports, Clients
  <2> QED
    <3>1. TransportFits'
      BY <1>1, <1>2, <1>3, <2>1 DEF TransportFits, Transports
    <3> QED
      BY <1>1, <2>1, <3>1, QuietBase, NoneAssumption DEF Base, Exists
<1>4. CASE t' = Restored /\ client' = client /\ ~t.closed
  <2>1. /\ t' \in Transports /\ t'.phase = "opening" /\ ~t'.closed /\ t'.connected = t.connected
        /\ t'.registered = session.registered /\ t'.pending = {} /\ t'.closes = t.closes
        /\ ~session.registered => t'.ids = {} /\ t'.seen = {}
    BY <1>1, <1>4, SnapshotOf DEF Transports, Restored
  <2>2. TransportFits'
    BY <1>1, <1>2, <1>4, <2>1 DEF TransportFits
  <2> QED
    BY <1>1, <1>4, <2>1, <2>2, QuietBase, NoneAssumption DEF Base, Exists
<1> QED
  BY <1>1, <1>3, <1>4 DEF Initialized

LEMMA FieldsOf ==
    ASSUME NEW tr \in Transports
    PROVE /\ tr.phase \in {"initializing", "opening", "open", "failing", "failed"}
          /\ tr.closed \in BOOLEAN /\ tr.connected \in BOOLEAN /\ tr.registered \in BOOLEAN
          /\ tr.ids \subseteq Messages /\ tr.seen \subseteq Messages /\ tr.pending \subseteq Messages
          /\ tr.registering \in Nat /\ tr.closes \subseteq Closers
          /\ \A c \in tr.closes : c.until \in Nat
          /\ tr # None
  BY NoneAssumption DEF Transports, Closers

(* close(), whoever calls it, and whatever has become of the phase.         *)
LEMMA CloseFits ==
    ASSUME Base, Exists, NEW tr \in Transports, NEW who \in {"replace", "open", "shutdown"},
           tr.registered = t.registered, tr.ids = t.ids, tr.seen = t.seen,
           tr.pending = t.pending, tr.closes = t.closes,
           tr.phase = "initializing" => t.phase = "initializing",
           tr.phase \in {"opening", "open"} => t.phase \in {"opening", "open"},
           Close(tr, who)
    PROVE /\ ChainOK' /\ TransportFits' /\ t'.closed /\ Exists' /\ ~link'
          /\ t'.registered = t.registered /\ t'.ids = t.ids /\ t'.seen = t.seen
          /\ t'.pending = t.pending
          /\ t'.closes = t.closes \cup
                {[who |-> who, step |-> 1, until |-> LastOf(tr), ok |-> TRUE]}
<1> DEFINE c == [who |-> who, step |-> 1, until |-> LastOf(tr), ok |-> TRUE]
<1>1. /\ TransportFits /\ t \in Transports /\ ChainOK /\ saves \in Seq(Waiting) /\ done \in Nat
      /\ session \in Snapshot
  BY DEF Base, TransportFits, ChainOK
<1>2. /\ t' = Closed(tr, who) /\ link' = FALSE /\ Persist(tr, "close")
  BY DEF Close
<1>3. /\ ChainOK' /\ rest' = rest /\ done' = done
      /\ ~tr.registered => saves' = saves /\ session' = session
      /\ tr.registered => \E x \in Waiting : saves' = Append(saves, x)
  BY <1>1, <1>2, FieldsOf, PersistFacts DEF By
<1>4. Issued \in Nat /\ Issued' \in Nat /\ Issued <= Issued' /\ LastOf(tr) \in Nat /\ LastOf(tr) <= Issued'
  <2>1. CASE ~tr.registered
    BY <1>1, <1>3, <2>1 DEF Issued, LastOf
  <2>2. CASE tr.registered
    BY <1>1, <1>3, <2>2, AppendOf DEF Issued, LastOf
  <2> QED
    BY <2>1, <2>2
<1>5. c \in Closers /\ c.until = LastOf(tr)
  BY <1>4 DEF Closers
<1>6. /\ t' \in Transports /\ t'.phase = tr.phase /\ t'.closed /\ ~t'.connected
      /\ t'.registered = t.registered /\ t'.ids = t.ids /\ t'.seen = t.seen
      /\ t'.pending = t.pending /\ t'.closes = t.closes \cup {c}
  BY <1>2, <1>5 DEF Closed, Transports
<1> HIDE DEF c
<1>7. \A x \in t'.closes : x.until <= Issued'
  BY <1>1, <1>4, <1>5, <1>6, FieldsOf DEF TransportFits
<1>8. TransportFits'
  BY <1>1, <1>3, <1>6, <1>7, FieldsOf DEF TransportFits
<1> QED
  BY <1>2, <1>3, <1>6, <1>8, NoneAssumption DEF Exists, c

LEMMA LoadedBase == Base /\ Loaded => Base'
<1> SUFFICES ASSUME Base, Loaded PROVE Base'
  OBVIOUS
<1>1. /\ client \in Clients /\ client.call = "loading" /\ UNCHANGED <<held, reported>>
      /\ spent \in Bounds /\ (Exists => TransportFits)
  BY DEF Base, Loaded
<1>2. CASE client' = [client EXCEPT !.call = "none"] /\ UNCHANGED <<t, link, chain, spent>>
  <2>1. client' \in Clients /\ client'.call = "none"
    BY <1>1, <1>2 DEF Clients
  <2> QED
    BY <1>1, <1>2, <2>1, ChainSame DEF Base, TransportFits, Exists, Running
<1>3. ASSUME Exists, client' = [client EXCEPT !.call = "replacing"], Close(t, "replace"),
             spent' = IF NoneBehind THEN spent ELSE [spent EXCEPT !.late = @ + 1]
      PROVE Base'
  <2>1. client' \in Clients /\ client'.call = "replacing" /\ spent' \in Bounds
    BY <1>1, <1>3 DEF Clients, Bounds
  <2>2. ChainOK' /\ TransportFits' /\ t'.closed /\ Exists' /\ ~link' /\ link' \in BOOLEAN
    BY <1>1, <1>3, CloseFits DEF TransportFits, Close
  <2> QED
    BY <1>1, <2>1, <2>2 DEF Base
<1>4. ASSUME ~Exists, client' = [client EXCEPT !.call = "opening"], t' = NewTransport,
             UNCHANGED <<link, chain, spent>>
      PROVE Base'
  <2>1. client' \in Clients /\ client'.call = "opening"
    BY <1>1, <1>4 DEF Clients
  <2>2. saves' = <<>> /\ ~link /\ ChainOK'
    BY <1>4, ChainSame DEF Base, Running
  <2>3. TransportFits' /\ Exists'
    BY <1>4, <2>2, NewFields DEF Exists, TransportFits
  <2> QED
    BY <1>1, <1>4, <2>1, <2>2, <2>3 DEF Base
<1> QED
  BY <1>2, <1>3, <1>4 DEF Loaded

LEMMA ReplacedBase == Base /\ Replaced => Base'
<1> SUFFICES ASSUME Base, Replaced PROVE Base'
  OBVIOUS
<1>1. /\ client \in Clients /\ client.call = "replacing" /\ Exists /\ t.closed /\ ~link
      /\ ChainOK /\ t' = NewTransport /\ client' = [client EXCEPT !.call = "opening"]
      /\ saves' = <<>> /\ done' = 0 /\ rest' = Append(rest, saves)
      /\ UNCHANGED <<writes, session, store, link, held, reported, spent>>
  BY DEF Base, Replaced, Running
<1>2. client' \in Clients /\ client'.call = "opening"
  BY <1>1 DEF Clients
<1>3. /\ rest \in Seq(Seq(Waiting)) /\ saves \in Seq(Waiting)
      /\ rest' \in Seq(Seq(Waiting)) /\ Len(rest') = Len(rest) + 1 /\ rest'[Len(rest) + 1] = saves
      /\ \A g \in DOMAIN rest : rest'[g] = rest[g]
      /\ \A g \in DOMAIN rest' : g \in DOMAIN rest \/ g = Len(rest) + 1
  BY <1>1, AppendOf DEF ChainOK
<1>4. /\ Number' = Number + 1 /\ DOMAIN Chains' = DOMAIN Chains \cup {Number + 1}
      /\ \A g \in DOMAIN Chains : Chains'[g] = Chains[g]
      /\ Chains'[Number + 1] = <<>> /\ Number + 1 \notin DOMAIN Chains
  <2>1. Number' = Number + 1 /\ Number = Len(rest) + 1 /\ Number \in Nat
    BY <1>1, <1>3, ChainsOf DEF Number
  <2>2. \A g \in 1..(Number + 1) : Chains'[g] = IF g = Number + 1 THEN <<>> ELSE rest'[g]
    BY <1>1, <2>1 DEF Chains, Chain
  <2>3. DOMAIN Chains' = 1..(Number + 1)
    BY <2>1 DEF Chains
  <2>4. DOMAIN Chains' = DOMAIN Chains \cup {Number + 1} /\ Number + 1 \notin DOMAIN Chains
    BY <1>1, <2>1, <2>3, ChainsOf
  <2>5. \A g \in DOMAIN Chains : Chains'[g] = Chains[g]
    <3> SUFFICES ASSUME NEW g \in DOMAIN Chains PROVE Chains'[g] = Chains[g]
      OBVIOUS
    <3>1. g \in 1..(Number + 1) /\ g # Number + 1
      BY <2>3, <2>4
    <3>2. Chains'[g] = rest'[g]
      BY <2>2, <3>1
    <3>3. CASE g = Number
      BY <1>1, <1>3, <2>1, <3>2, <3>3, ChainsOf
    <3>4. CASE g # Number
      BY <1>1, <1>3, <3>2, <3>4, ChainsOf
    <3> QED
      BY <3>3, <3>4
  <2>6. Number + 1 \in 1..(Number + 1)
    BY <2>1
  <2>7. Chains'[Number + 1] = <<>>
    BY <2>2, <2>6
  <2> QED
    BY <2>1, <2>4, <2>5, <2>7
<1>5. Owned(writes, Chains')
  BY <1>1, <1>4, OwnedMore DEF ChainOK
<1>6. ~session.registered => NoneBehind'
  BY <1>1, <1>3 DEF ChainOK, NoneBehind
<1>7. ChainOK'
  BY <1>1, <1>3, <1>5, <1>6 DEF ChainOK
<1>8. TransportFits' /\ Exists'
  BY <1>1, NewFields DEF Exists, TransportFits
<1> QED
  BY <1>1, <1>2, <1>7, <1>8 DEF Base

LEMMA OpenBase == Base /\ Open => Base'
<1> SUFFICES ASSUME Base, Open PROVE Base'
  OBVIOUS
<1>1. /\ Exists /\ TransportFits /\ client \in Clients /\ t.phase = "opening"
      /\ t' = [t EXCEPT !.phase = "open"] /\ client' = [client EXCEPT !.call = "none"]
      /\ UNCHANGED <<link, chain, held, reported, spent>>
  BY DEF Base, Open, Opening
<1>2. client' \in Clients /\ client'.call = "none"
  BY <1>1 DEF Clients
<1>3. t' \in Transports /\ t'.phase = "open" /\ t' = [t EXCEPT !.phase = t'.phase]
  BY <1>1 DEF Transports, TransportFits
<1>4. /\ t'.closed = t.closed /\ t'.connected = t.connected /\ t'.registered = t.registered
      /\ t'.ids = t.ids /\ t'.seen = t.seen /\ t'.pending = t.pending /\ t'.closes = t.closes
  BY <1>1 DEF Transports, TransportFits
<1>5. TransportFits'
  BY <1>1, <1>3, <1>4, ChainSame DEF Base, TransportFits
<1> QED
  BY <1>1, <1>2, <1>3, <1>4, <1>5, QuietBase, FieldsOf DEF Base, Exists, Running

LEMMA FailsBase == Base /\ Fails => Base'
<1> SUFFICES ASSUME Base, Fails PROVE Base'
  OBVIOUS
<1> DEFINE tr == [t EXCEPT !.phase = "failing"]
<1>1. /\ Exists /\ TransportFits /\ client.call = "opening" /\ Close(tr, "open")
      /\ UNCHANGED <<client, held, reported, spent>>
  BY DEF Base, Fails, Opening
<1>2. /\ tr \in Transports /\ tr.phase = "failing"
      /\ tr.ids = t.ids /\ tr.seen = t.seen /\ tr.pending = t.pending /\ tr.closes = t.closes
      /\ tr.registered = t.registered
  BY <1>1 DEF Transports, TransportFits
<1> HIDE DEF tr
<1>3. ChainOK' /\ TransportFits' /\ t'.closed /\ Exists' /\ ~link'
  BY <1>1, <1>2, CloseFits
<1>4. link' \in BOOLEAN
  BY <1>1 DEF Close
<1> QED
  BY <1>1, <1>3, <1>4 DEF Base

LEMMA FailedBase == Base /\ Failed => Base'
<1> SUFFICES ASSUME Base, Failed PROVE Base'
  OBVIOUS
<1>1. /\ Exists /\ TransportFits /\ client \in Clients /\ t.phase = "failing"
      /\ t' = [t EXCEPT !.phase = "failed"] /\ client' = [client EXCEPT !.call = "none"]
      /\ UNCHANGED <<link, chain, held, reported, spent>> /\ ~link
  BY DEF Base, Failed, Opening, Running
<1>2. client' \in Clients /\ client'.call = "none"
  BY <1>1 DEF Clients
<1>3. /\ t' \in Transports /\ t'.phase = "failed"
      /\ t'.closed = t.closed /\ t'.connected = t.connected /\ t'.registered = t.registered
      /\ t'.ids = t.ids /\ t'.seen = t.seen /\ t'.pending = t.pending /\ t'.closes = t.closes
  BY <1>1 DEF Transports, TransportFits
<1>4. TransportFits'
  BY <1>1, <1>3, ChainSame DEF Base, TransportFits
<1> QED
  BY <1>1, <1>2, <1>3, <1>4, QuietBase, FieldsOf DEF Base, Exists

LEMMA CloseWaitsBase == ASSUME Base, NEW c, CloseWaits(c) PROVE Base'
<1> DEFINE d == [c EXCEPT !.step = 2, !.until = Issued]
<1>1. /\ Exists /\ TransportFits /\ c \in t.closes /\ t.closed
      /\ t' = [t EXCEPT !.closes = (@ \ {c}) \cup {d}]
      /\ UNCHANGED <<client, link, chain, held, reported, spent>> /\ ~link
  BY DEF Base, CloseWaits, TransportFits, Running
<1>2. Issued \in Nat
  BY DEF Base, ChainOK, Issued
<1>3. d \in Closers /\ d.until = Issued
  BY <1>1, <1>2, FieldsOf DEF Closers, TransportFits
<1> HIDE DEF d
<1>4. /\ t' \in Transports /\ t'.phase = t.phase
      /\ t'.closed = t.closed /\ t'.connected = t.connected /\ t'.registered = t.registered
      /\ t'.ids = t.ids /\ t'.seen = t.seen /\ t'.pending = t.pending
      /\ t'.closes = (t.closes \ {c}) \cup {d}
  BY <1>1, <1>3 DEF Transports, TransportFits
<1>5. TransportFits'
  BY <1>1, <1>2, <1>3, <1>4, ChainSame DEF Base, TransportFits
<1> QED
  BY <1>1, <1>4, <1>5, QuietBase, FieldsOf DEF Base, Exists

LEMMA CloseEndsBase == ASSUME Base, NEW c, CloseEnds(c) PROVE Base'
<1>1. /\ Exists /\ TransportFits /\ c \in t.closes /\ t.closed /\ client \in Clients
      /\ t' = [t EXCEPT !.closes = @ \ {c}, !.pending = {}]
      /\ UNCHANGED <<link, chain, held, reported, spent>> /\ ~link
      /\ client' = client \/ client' = [client EXCEPT !.call = "none"]
  BY DEF Base, CloseEnds, Over, TransportFits, Running
<1>2. client' \in Clients
  BY <1>1 DEF Clients
<1>3. /\ t' \in Transports /\ t'.phase = t.phase
      /\ t'.closed = t.closed /\ t'.connected = t.connected /\ t'.registered = t.registered
      /\ t'.ids = t.ids /\ t'.seen = t.seen /\ t'.pending = {}
      /\ t'.closes = t.closes \ {c}
  BY <1>1 DEF Transports, TransportFits
<1>4. TransportFits'
  BY <1>1, <1>3, ChainSame DEF Base, TransportFits
<1> QED
  BY <1>1, <1>2, <1>3, <1>4, QuietBase, FieldsOf DEF Base, Exists

LEMMA CredentialBase == Base /\ Credential => Base'
<1> SUFFICES ASSUME Base, Credential PROVE Base'
  OBVIOUS
<1> DEFINE tr == [t EXCEPT !.registered = TRUE]
<1>1. /\ Exists /\ TransportFits /\ ~t.closed /\ t' = tr /\ Persist(tr, "credential")
      /\ t.phase \in {"opening", "open"}
      /\ UNCHANGED <<client, link, held, reported, spent>>
  BY DEF Base, Credential, Running
<1>2. /\ tr \in Transports /\ tr.phase = t.phase /\ tr.registered
      /\ tr.closed = t.closed /\ tr.connected = t.connected
      /\ tr.ids = t.ids /\ tr.seen = t.seen /\ tr.pending = t.pending /\ tr.closes = t.closes
  BY <1>1 DEF Transports, TransportFits
<1> HIDE DEF tr
<1>3. ChainOK' /\ \E x \in Waiting : saves' = Append(saves, x)
  BY <1>1, <1>2, PersistFacts, FieldsOf DEF Base, By
<1>4. TransportFits'
  BY <1>1, <1>2, <1>3 DEF TransportFits
<1> QED
  BY <1>1, <1>2, <1>3, <1>4, FieldsOf DEF Base, Exists, Running

LEMMA ConnectsBase == Base /\ Connects => Base'
<1> SUFFICES ASSUME Base, Connects PROVE Base'
  OBVIOUS
<1> DEFINE tr == [t EXCEPT !.ids = {}]
<1>1. /\ Exists /\ TransportFits /\ ~t.closed /\ t.registered /\ t' = tr /\ Persist(tr, "connect")
      /\ t.phase \in {"opening", "open"} /\ link' = TRUE /\ held' \subseteq Messages
      /\ spent \in Bounds /\ spent' = [spent EXCEPT !.connects = @ + 1]
      /\ UNCHANGED <<client, reported>>
  BY DEF Base, Connects, Running
<1>2. /\ tr \in Transports /\ tr.phase = t.phase /\ tr.registered
      /\ tr.closed = t.closed /\ tr.connected = t.connected
      /\ tr.ids = {} /\ tr.seen = t.seen /\ tr.pending = t.pending /\ tr.closes = t.closes
  BY <1>1 DEF Transports, TransportFits
<1> HIDE DEF tr
<1>3. ChainOK' /\ \E x \in Waiting : saves' = Append(saves, x)
  BY <1>1, <1>2, PersistFacts, FieldsOf DEF Base, By
<1>4. TransportFits'
  BY <1>1, <1>2, <1>3 DEF TransportFits
<1>5. spent' \in Bounds
  BY <1>1 DEF Bounds
<1> QED
  BY <1>1, <1>2, <1>3, <1>4, <1>5, FieldsOf DEF Base, Exists, Running

LEMMA DropsBase == Base /\ Drops => Base'
<1> SUFFICES ASSUME Base, Drops PROVE Base'
  OBVIOUS
<1>1. /\ Exists /\ TransportFits /\ link' = FALSE /\ t' = [t EXCEPT !.connected = FALSE]
      /\ UNCHANGED <<client, chain, held, reported, spent>>
  BY DEF Base, Drops, Running
<1>2. /\ t' \in Transports /\ t'.phase = t.phase /\ ~t'.connected
      /\ t'.closed = t.closed /\ t'.registered = t.registered
      /\ t'.ids = t.ids /\ t'.seen = t.seen /\ t'.pending = t.pending /\ t'.closes = t.closes
  BY <1>1 DEF Transports, TransportFits
<1>3. TransportFits'
  BY <1>1, <1>2, ChainSame DEF Base, TransportFits
<1> QED
  BY <1>1, <1>2, <1>3, QuietBase, FieldsOf DEF Base, Exists

LEMMA MessageBase == ASSUME Base, NEW m \in Messages, Message(m) PROVE Base'
<1> DEFINE tr == [t EXCEPT !.ids = @ \cup {m}, !.pending = @ \cup Accepted(m)]
<1>1. /\ Exists /\ TransportFits /\ ~t.closed /\ t.registered /\ t' = tr /\ Persist(tr, "message")
      /\ t.phase \in {"opening", "open"} /\ link
      /\ UNCHANGED <<client, link, held, reported, spent>>
  BY DEF Base, Message, MessageIn, Running
<1>2. /\ tr \in Transports /\ tr.phase = t.phase /\ tr.registered
      /\ tr.closed = t.closed /\ tr.connected = t.connected
      /\ tr.seen = t.seen /\ tr.pending = t.pending \cup Accepted(m) /\ tr.closes = t.closes
      /\ tr.ids = t.ids \cup {m}
  BY <1>1 DEF Transports, TransportFits, Accepted
<1> HIDE DEF tr
<1>3. ChainOK' /\ \E x \in Waiting : saves' = Append(saves, x)
  BY <1>1, <1>2, PersistFacts, FieldsOf DEF Base, By
<1>4. TransportFits'
  BY <1>1, <1>2, <1>3 DEF TransportFits, Accepted
<1> QED
  BY <1>1, <1>2, <1>3, <1>4, FieldsOf DEF Base, Exists, Running

LEMMA FlushBase == ASSUME Base, NEW m \in Messages, Flush(m) PROVE Base'
<1>1. /\ Exists /\ TransportFits /\ t.registered /\ t' = Settled(m) /\ Persist(Settled(m), "flush")
      /\ reported' = Append(reported, m)
      /\ UNCHANGED <<client, link, held, spent>>
  BY DEF Base, Flush, TransportFits
<1>2. /\ t' \in Transports /\ t'.phase = t.phase /\ t'.registered
      /\ t'.closed = t.closed /\ t'.connected = t.connected
      /\ t'.ids = t.ids /\ t'.seen = t.seen \cup {m} /\ t'.pending = t.pending \ {m}
      /\ t'.closes = t.closes
  BY <1>1 DEF Transports, TransportFits, Settled
<1>3. ChainOK' /\ done' = done /\ (\E x \in Waiting : saves' = Append(saves, x))
  BY <1>1, <1>2, PersistFacts, FieldsOf DEF Base, By
<1>4. Issued \in Nat /\ Issued' = Issued + 1
  BY <1>3, AppendOf DEF Base, ChainOK, Issued
<1>5. \A c \in t'.closes : c.until <= Issued'
  BY <1>1, <1>2, <1>4, FieldsOf DEF TransportFits
<1>6. TransportFits'
  BY <1>1, <1>2, <1>5 DEF TransportFits
<1>7. reported' \in Seq(Messages)
  BY <1>1, AppendOf DEF Base
<1> QED
  BY <1>1, <1>2, <1>3, <1>6, <1>7, FieldsOf DEF Base, Exists, Running

LEMMA RegisteredBase == Base /\ Registered => Base'
<1> SUFFICES ASSUME Base, Registered PROVE Base'
  OBVIOUS
<1>1. /\ Exists /\ TransportFits /\ ~t.closed /\ t.registering > 0
      /\ t' = [t EXCEPT !.registering = @ - 1, !.connected = TRUE,
                        !.ready = IF @ = "no" THEN "yes" ELSE @]
      /\ UNCHANGED <<client, link, chain, held, reported, spent>>
  BY DEF Base, Registered
<1>2. /\ t' \in Transports /\ t'.phase = t.phase
      /\ t'.closed = t.closed /\ t'.registered = t.registered
      /\ t'.ids = t.ids /\ t'.seen = t.seen /\ t'.pending = t.pending /\ t'.closes = t.closes
  <2>1. t.registering - 1 \in Nat
    BY <1>1, FieldsOf DEF TransportFits
  <2> QED
    BY <1>1, <2>1 DEF Transports, TransportFits
<1>3. TransportFits'
  BY <1>1, <1>2, ChainSame DEF Base, TransportFits
<1> QED
  BY <1>1, <1>2, <1>3, QuietBase, FieldsOf DEF Base, Exists, Running

LEMMA RegisterFailsBase == Base /\ RegisterFails => Base'
<1> SUFFICES ASSUME Base, RegisterFails PROVE Base'
  OBVIOUS
<1> DEFINE tr == [t EXCEPT !.registering = @ - 1]
<1>1. /\ Exists /\ TransportFits /\ t.registering > 0 /\ t' = Refused(tr)
      /\ UNCHANGED <<client, link, chain, held, reported, spent>>
  BY DEF Base, RegisterFails
<1>2. tr \in Transports /\ tr = [t EXCEPT !.registering = t.registering - 1]
  <2>1. t.registering - 1 \in Nat
    BY <1>1, FieldsOf DEF TransportFits
  <2> QED
    BY <1>1, <2>1 DEF Transports, TransportFits
<1>3. /\ t' \in Transports /\ t'.phase = t.phase /\ ~t'.connected
      /\ t'.closed = t.closed /\ t'.registered = t.registered
      /\ t'.ids = t.ids /\ t'.seen = t.seen /\ t'.pending = t.pending /\ t'.closes = t.closes
  BY <1>1, <1>2 DEF Transports, TransportFits, Refused
<1>4. TransportFits'
  BY <1>1, <1>3, ChainSame DEF Base, TransportFits
<1> QED
  BY <1>1, <1>3, <1>4, QuietBase, FieldsOf DEF Base, Exists, Running

(* What the end of a write tells those who waited for its save.             *)
LEMMA ToldOf ==
    ASSUME t \in Transports, done \in Nat, NEW ok \in BOOLEAN, Ends(ok)
    PROVE /\ t' \in Transports /\ t'.phase = t.phase
          /\ t'.closed = t.closed /\ t'.registered = t.registered
          /\ t'.ids = t.ids /\ t'.seen = t.seen /\ t'.pending = t.pending
          /\ ~t.connected => ~t'.connected
          /\ \A d \in t'.closes : \E c \in t.closes :
                d.who = c.who /\ d.step = c.step /\ d.until = c.until
          /\ \A c \in t.closes : \E d \in t'.closes :
                d.who = c.who /\ d.step = c.step /\ d.until = c.until
<1> DEFINE f(c) == IF ~ok /\ c.until = done + 1 THEN [c EXCEPT !.ok = FALSE] ELSE c
           s == {f(c) : c \in t.closes}
<1>1. \A c \in t.closes :
         f(c) \in Closers /\ f(c).who = c.who /\ f(c).step = c.step /\ f(c).until = c.until
  BY FieldsOf DEF Closers
<1>2. Told(ok) = [t EXCEPT !.closes = s]
  BY DEF Told
<1>3. /\ s \subseteq Closers
      /\ \A d \in s : \E c \in t.closes : d.who = c.who /\ d.step = c.step /\ d.until = c.until
      /\ \A c \in t.closes : \E d \in s : d.who = c.who /\ d.step = c.step /\ d.until = c.until
  BY <1>1
<1> HIDE DEF f, s
<1>4. /\ Told(ok) \in Transports /\ Told(ok).phase = t.phase /\ Told(ok).closed = t.closed
      /\ Told(ok).registered = t.registered /\ Told(ok).ids = t.ids /\ Told(ok).seen = t.seen
      /\ Told(ok).pending = t.pending /\ Told(ok).connected = t.connected /\ Told(ok).closes = s
  BY <1>2, <1>3 DEF Transports
<1> DEFINE u == Told(ok)
<1> HIDE DEF u
<1>5. u = Told(ok)
  BY DEF u
<1>6. \/ t' = [u EXCEPT !.registering = @ + 1]
      \/ t' = Refused(u)
      \/ t' = u
  BY <1>5 DEF Ends
<1>7. u \in Transports
  BY <1>4, <1>5
<1>8. /\ t' \in Transports /\ t'.phase = u.phase
      /\ t'.closed = u.closed /\ t'.registered = u.registered
      /\ t'.ids = u.ids /\ t'.seen = u.seen /\ t'.pending = u.pending /\ t'.closes = u.closes
      /\ ~u.connected => ~t'.connected
  <2>1. CASE t' = [u EXCEPT !.registering = @ + 1]
    <3>1. u.registering + 1 \in Nat
      BY <1>7, FieldsOf
    <3> QED
      BY <1>7, <2>1, <3>1 DEF Transports
  <2>2. CASE t' = Refused(u)
    BY <1>7, <2>2 DEF Transports, Refused
  <2> QED
    BY <1>6, <1>7, <2>1, <2>2
<1> QED
  BY <1>3, <1>4, <1>5, <1>8

LEMMA WriteEndsBase == ASSUME Base, NEW ok \in BOOLEAN, WriteEnds(ok) PROVE Base'
<1>1. /\ ChainOK /\ client \in Clients /\ (Exists => TransportFits)
      /\ client' = [client EXCEPT !.left = IF @ > 0 THEN @ - 1 ELSE 0]
      /\ UNCHANGED <<link, held, reported, spent>>
  BY DEF Base, WriteEnds
<1>2. ChainOK' /\ done \in Nat /\ done' \in Nat /\ saves \in Seq(Waiting) /\ saves' \in Seq(Waiting)
  BY <1>1, WriteFacts DEF ChainOK
<1>3. PICK g \in DOMAIN Chains :
         /\ Chains[g] # <<>>
         /\ g = Number => /\ saves' = Tail(saves) /\ done' = done + 1 /\ rest' = rest
                          /\ Ends(ok)
         /\ g # Number => /\ saves' = saves /\ done' = done /\ t' = t
                          /\ rest' = [rest EXCEPT ![g] = Tail(@)]
  BY <1>1, WriteFacts
<1>4. Exists /\ TransportFits /\ t \in Transports
  BY <1>1, <1>3, ChainsOf DEF Base, TransportFits
<1>5. session.registered
  BY <1>1, <1>3, ChainsOf DEF ChainOK, NoneBehind
<1>6. client' \in Clients /\ client'.call = client.call
  <2>1. client.left \in Nat
    BY <1>1 DEF Clients
  <2> DEFINE l == IF client.left > 0 THEN client.left - 1 ELSE 0
  <2>2. l \in Nat
    BY <2>1
  <2> QED
    BY <1>1, <2>2 DEF Clients
<1>7. /\ TransportFits' /\ t' \in Transports /\ t'.phase = t.phase
      /\ t'.closed = t.closed /\ t'.registered = t.registered
  <2>1. CASE g # Number
    <3>1. Issued' = Issued /\ t' = t /\ saves' = saves
      BY <1>3, <2>1 DEF Issued
    <3> QED
      BY <1>4, <1>5, <3>1 DEF TransportFits
  <2>2. CASE g = Number
    <3>1. saves # <<>> /\ saves' = Tail(saves) /\ done' = done + 1 /\ Ends(ok)
      BY <1>1, <1>3, <2>2, ChainsOf
    <3>2. Issued' = Issued
      BY <1>2, <3>1, TailOf DEF Issued
    <3>3. t.registered
      BY <1>4, <3>1 DEF TransportFits
    <3>4. /\ t' \in Transports /\ t'.phase = t.phase
          /\ t'.closed = t.closed /\ t'.registered = t.registered
          /\ t'.ids = t.ids /\ t'.seen = t.seen /\ t'.pending = t.pending
          /\ ~t.connected => ~t'.connected
          /\ \A d \in t'.closes : \E c \in t.closes : d.until = c.until
          /\ \A c \in t.closes : \E d \in t'.closes : d.until = c.until
      BY <1>2, <1>4, <3>1, ToldOf
    <3> QED
      BY <1>4, <3>2, <3>3, <3>4, FieldsOf DEF TransportFits
  <2> QED
    BY <2>1, <2>2
<1>8. Exists'
  BY <1>7, FieldsOf DEF Exists
<1> QED
  BY <1>1, <1>2, <1>4, <1>6, <1>7, <1>8 DEF Base, Running, Exists

LEMMA ShutdownBase == Base /\ Shutdown => Base'
<1> SUFFICES ASSUME Base, Shutdown PROVE Base'
  OBVIOUS
<1>1. /\ client \in Clients
      /\ client' = [client EXCEPT !.closed = TRUE, !.shutdown = "waiting"]
      /\ UNCHANGED <<held, reported, spent>> /\ (Exists => TransportFits)
  BY DEF Base, Shutdown
<1>2. client' \in Clients /\ client'.call = client.call
  BY <1>1 DEF Clients
<1>3. CASE Exists /\ Close(t, "shutdown")
  <2>1. ChainOK' /\ TransportFits' /\ t'.closed /\ Exists' /\ ~link'
    BY <1>1, <1>3, CloseFits DEF TransportFits
  <2>2. link' \in BOOLEAN
    BY <1>3 DEF Close
  <2> QED
    BY <1>1, <1>2, <2>1, <2>2 DEF Base
<1>4. CASE ~Exists /\ UNCHANGED <<t, link, chain>>
  BY <1>1, <1>2, <1>4, ChainSame DEF Base, Exists, Running
<1> QED
  BY <1>3, <1>4 DEF Shutdown

LEMMA FlushesBase == Base /\ Flushes => Base'
<1> SUFFICES ASSUME Base, Flushes PROVE Base'
  OBVIOUS
<1>1. /\ client \in Clients
      /\ client' = [client EXCEPT !.shutdown = "flushing", !.left = Len(writes)]
      /\ UNCHANGED <<t, link, chain, held, reported, spent>> /\ Len(writes) \in Nat
  BY DEF Base, Flushes, ChainOK
<1>2. client' \in Clients /\ client'.call = client.call
  BY <1>1 DEF Clients
<1> QED
  BY <1>1, <1>2, ChainSame DEF Base, Exists, Running, TransportFits

LEMMA ShutdownEndsBase == Base /\ ShutdownEnds => Base'
<1> SUFFICES ASSUME Base, ShutdownEnds PROVE Base'
  OBVIOUS
<1>1. /\ client \in Clients /\ client' = [client EXCEPT !.shutdown = "done"]
      /\ UNCHANGED <<t, link, chain, held, reported, spent>>
  BY DEF Base, ShutdownEnds
<1>2. client' \in Clients /\ client'.call = client.call
  BY <1>1 DEF Clients
<1> QED
  BY <1>1, <1>2, ChainSame DEF Base, Exists, Running, TransportFits

LEMMA CrashBase == Base /\ Crash => Base'
<1> SUFFICES ASSUME Base, Crash PROVE Base'
  OBVIOUS
<1>1. /\ saves' = <<>> /\ rest' = <<>> /\ writes' = <<>> /\ done' = 0
      /\ session' = store /\ store' = store /\ t' = None /\ link' = FALSE
      /\ client' = NewClient /\ UNCHANGED <<held, reported>>
      /\ spent \in Bounds /\ spent' = [spent EXCEPT !.crashes = @ + 1]
      /\ store \in Snapshot /\ (~store.registered => store = Empty)
  BY DEF Base, ChainOK, Crash
<1>2. Owned(writes', Chains')
  <2>1. Chains' = [g \in {1} |-> <<>>]
    BY <1>1 DEF Chains, Chain, Number
  <2> QED
    BY <1>1, <2>1 DEF Owned
<1>3. ChainOK'
  BY <1>1, <1>2 DEF ChainOK, NoneBehind
<1>4. client' \in Clients /\ client'.call = "none" /\ spent' \in Bounds
  BY <1>1 DEF Clients, NewClient, Bounds
<1> QED
  BY <1>1, <1>3, <1>4 DEF Base, Exists

LEMMA StutterBase == Base /\ UNCHANGED vars => Base'
  BY ChainSame DEF Base, vars, Exists, Running, TransportFits

LEMMA NextBase == Base /\ [Next]_vars => Base'
<1> SUFFICES ASSUME Base, [Next]_vars PROVE Base'
  OBVIOUS
<1>2. ASSUME NEW c \in t.closes, CloseWaits(c) PROVE Base'
  BY <1>2, CloseWaitsBase
<1>3. ASSUME NEW c \in t.closes, CloseEnds(c) PROVE Base'
  BY <1>3, CloseEndsBase
<1>4. ASSUME NEW m \in Messages, Message(m) \/ Flush(m) PROVE Base'
  BY <1>4, MessageBase, FlushBase
<1>5. ASSUME NEW ok \in BOOLEAN, WriteEnds(ok) PROVE Base'
  BY <1>5, WriteEndsBase
<1> QED
  BY <1>2, <1>3, <1>4, <1>5, StartEventsBase, LoadedBase, ReplacedBase, InitializedBase, OpenBase,
     FailsBase, FailedBase, CredentialBase, ConnectsBase, DropsBase, RegisteredBase,
     RegisterFailsBase, ShutdownBase, FlushesBase, ShutdownEndsBase, CrashBase, StutterBase DEF Next

LEMMA BaseHolds == Spec => []Base
<1>1. Init => Base
  BY InitBase
<1>2. Base /\ [Next]_vars => Base'
  BY NextBase
<1> QED
  BY <1>1, <1>2, PTL DEF Spec

-----------------------------------------------------------------------------
(* A message is reported once. Load counts the reports of m and the one that *)
(* waits. m is safe in a state that keeps it from being accepted again: its  *)
(* key or its delivery id is there, or the server does not hold it any more. *)

Charge == spent.crashes + spent.late
Load(m) == Count(m) + (IF Exists /\ m \in t.pending THEN 1 ELSE 0)
Safe(m, s) == m \in s.seen \/ m \in s.ids \/ m \notin held

(* m is safe in every save from number n on, and in the session once the     *)
(* save before it is over.                                                   *)
Since(m, n) ==
    /\ \A i \in DOMAIN saves : done + i >= n => Safe(m, saves[i].state)
    /\ done + 1 >= n => Safe(m, session)
(* While a transport is closed to be replaced, the session that the next one *)
(* will restore is safe, or will be when close() has waited for its own save.*)
Handing(m) ==
    /\ NoneBehind
    /\ \/ Since(m, done)
       \/ \E c \in t.closes : c.who = "replace" /\ c.step = 1 /\ Since(m, c.until)
RestSafe(m) == \A g \in DOMAIN rest : \A i \in DOMAIN rest[g] : Safe(m, rest[g][i].state)
Kept(m) ==
    /\ ~Exists => Safe(m, session)
    /\ Exists /\ t.registered => Safe(m, t) /\ (client.call = "replacing" => Handing(m))
    /\ Exists /\ ~t.registered => Safe(m, session) /\ RestSafe(m)

(* The key of m is known to the store, or on its way there.                  *)
Noted(m) ==
    \/ m \in session.seen \/ m \in store.seen \/ (Exists /\ m \in t.seen)
    \/ \E i \in DOMAIN saves : m \in saves[i].state.seen
    \/ \E g \in DOMAIN rest : \E i \in DOMAIN rest[g] : m \in rest[g][i].state.seen
Wanted(m) ==
    \/ Load(m) > Charge
    \/ spent.late = 0 /\ (Noted(m) \/ (Exists /\ m \in t.pending))
OnceOf(m) ==
    /\ Load(m) <= 1 + Charge
    /\ ~Exists => Load(m) <= Charge
    /\ Wanted(m) => Kept(m)
    /\ spent.late = 0 /\ Noted(m) /\ Exists => m \notin t.pending
Once == \A m \in Messages : OnceOf(m)

LEMMA IndicesOf ==
    ASSUME NEW m, NEW r \in Seq(Messages)
    PROVE /\ IsFiniteSet({i \in DOMAIN r : r[i] = m})
          /\ Cardinality({i \in DOMAIN r : r[i] = m}) \in Nat
<1>1. DOMAIN r = 1..Len(r) /\ Len(r) \in Nat
  OBVIOUS
<1>2. IsFiniteSet(DOMAIN r)
  BY <1>1, FS_Interval
<1>3. IsFiniteSet({i \in DOMAIN r : r[i] = m})
  BY <1>2, FS_Subset
<1> QED
  BY <1>3, FS_CardinalityType

LEMMA CountMore ==
    ASSUME NEW m, NEW r \in Messages, reported \in Seq(Messages), reported' = Append(reported, r)
    PROVE Count(m)' = IF m = r THEN Count(m) + 1 ELSE Count(m)
<1> DEFINE S == {i \in DOMAIN reported : reported[i] = m}
           T == {i \in DOMAIN reported' : reported'[i] = m}
<1>1. /\ DOMAIN reported' = 1..(Len(reported) + 1) /\ reported'[Len(reported) + 1] = r
      /\ DOMAIN reported = 1..Len(reported) /\ Len(reported) \in Nat
      /\ \A i \in DOMAIN reported : reported'[i] = reported[i]
  OBVIOUS
<1>2. IsFiniteSet(S) /\ Len(reported) + 1 \notin S
  <2>1. IsFiniteSet(S)
    BY IndicesOf
  <2>2. Len(reported) + 1 \notin S
    BY <1>1
  <2> QED
    BY <2>1, <2>2
<1>3. CASE m = r
  <2>1. T = S \cup {Len(reported) + 1}
    BY <1>1, <1>3
  <2>2. Cardinality(T) = Cardinality(S) + 1
    BY <1>2, <2>1, FS_AddElement
  <2> QED
    BY <1>3, <2>2 DEF Count
<1>4. CASE m # r
  <2>1. T = S
    BY <1>1, <1>4
  <2> QED
    BY <1>4, <2>1 DEF Count
<1> QED
  BY <1>3, <1>4

LEMMA NumbersOf ==
    ASSUME Base, NEW m
    PROVE Count(m) \in Nat /\ Load(m) \in Nat /\ Charge \in Nat /\ spent.late \in Nat
          /\ Count(m) <= Load(m) /\ spent.crashes \in Nat
<1>1. Count(m) \in Nat /\ spent.late \in Nat /\ spent.crashes \in Nat
  BY IndicesOf DEF Base, Bounds, Count
<1> QED
  BY <1>1 DEF Load, Charge

(* What follows once the load has not grown, no key was noted anew and m is  *)
(* kept.                                                                     *)
LEMMA OnceStep ==
    ASSUME Base, Base', NEW m, OnceOf(m), Exists',
           Load(m)' <= Load(m), Charge' = Charge, spent'.late = spent.late,
           Exists' /\ m \in t'.pending => Exists /\ m \in t.pending,
           Noted(m)' => Noted(m), Wanted(m) /\ Kept(m) => Kept(m)',
           ~Exists /\ Exists' => Load(m)' <= 1 + Charge
    PROVE OnceOf(m)'
<1>1. Load(m) \in Nat /\ Load(m)' \in Nat /\ Charge \in Nat
  <2>1. Count(m)' \in Nat
    BY IndicesOf DEF Base, Count
  <2>2. Load(m)' \in Nat
    BY <2>1 DEF Load
  <2> QED
    BY <2>2, NumbersOf
<1>2. Wanted(m)' => Wanted(m)
  BY <1>1 DEF Wanted
<1> QED
  BY <1>1, <1>2 DEF OnceOf

LEMMA SinceLess ==
    ASSUME ChainOK, NEW m, NEW n \in Nat, n <= done, Since(m, n)
    PROVE Since(m, done)
<1>1. done \in Nat /\ DOMAIN saves = 1..Len(saves) /\ Len(saves) \in Nat
  BY DEF ChainOK
<1> QED
  BY <1>1 DEF Since

(* Steps that leave the chains, the server and the reports alone.            *)
LEMMA QuietOnce ==
    ASSUME Base, Base', Once, UNCHANGED <<chain, held, reported>>,
           Charge' = Charge, spent'.late = spent.late, Exists' = Exists,
           Exists => /\ t'.pending \subseteq t.pending /\ t'.seen = t.seen /\ t'.ids = t.ids
                     /\ t'.registered = t.registered
                     /\ client'.call = "replacing" => client.call = "replacing"
                     /\ \A c \in t.closes : c \in t'.closes \/ c.until <= done
    PROVE Once'
<1> SUFFICES ASSUME NEW m \in Messages PROVE OnceOf(m)'
  BY DEF Once
<1>1. /\ OnceOf(m) /\ Load(m) \in Nat /\ Charge \in Nat /\ Count(m) \in Nat /\ ChainOK
      /\ Exists => TransportFits
  BY NumbersOf DEF Once, Base
<1>2. UNCHANGED <<saves, rest, writes, done, session, store>> /\ Chains' = Chains
  BY <1>1, ChainSame
<1>3. /\ Count(m)' = Count(m) /\ Load(m)' <= Load(m)
      /\ Exists' /\ m \in t'.pending => Exists /\ m \in t.pending
  BY <1>1 DEF Count, Load
<1>4. Noted(m)' <=> Noted(m)
  <2>1. Exists' /\ m \in t'.seen <=> Exists /\ m \in t.seen
    OBVIOUS
  <2> QED
    BY <1>2, <2>1 DEF Noted
<1>5. Kept(m) => Kept(m)'
  <2>1. ASSUME Exists, Handing(m) PROVE Handing(m)'
    <3>1. NoneBehind' /\ Since(m, done)' = Since(m, done)
      BY <1>2, <2>1 DEF NoneBehind, Handing, Since, Safe
    <3>2. CASE Since(m, done)
      BY <3>1, <3>2 DEF Handing
    <3>3. ASSUME NEW c \in t.closes, c.who = "replace" /\ c.step = 1 /\ Since(m, c.until)
          PROVE Handing(m)'
      <4>1. c.until \in Nat
        BY <1>1, <2>1, FieldsOf DEF TransportFits
      <4>2. CASE c.until <= done
        BY <1>1, <3>1, <3>3, <4>1, <4>2, SinceLess DEF Handing
      <4>3. CASE c \in t'.closes
        <5>1. Since(m, c.until)'
          BY <1>2, <3>3 DEF Since, Safe
        <5> QED
          BY <3>1, <3>3, <4>3, <5>1 DEF Handing
      <4> QED
        BY <2>1, <4>2, <4>3
    <3> QED
      BY <2>1, <3>2, <3>3 DEF Handing
  <2> QED
    BY <1>2, <2>1 DEF Kept, Safe, RestSafe
<1> QED
  <2>1. CASE Exists
    BY <1>1, <1>3, <1>4, <1>5, <2>1, OnceStep
  <2>2. CASE ~Exists
    <3>1. ~Exists' /\ Load(m)' = Load(m)
      BY <1>3, <2>2 DEF Load
    <3>2. Wanted(m)' => Wanted(m)
      BY <1>4, <2>2, <3>1 DEF Wanted
    <3> QED
      BY <1>1, <1>5, <2>2, <3>1, <3>2 DEF OnceOf
  <2> QED
    BY <2>1, <2>2

(* A save of a state in which m is safe, or the save that close() waits for. *)
LEMMA SinceAppend ==
    ASSUME ChainOK, NEW m, NEW n \in Nat, NEW tr, NEW by \in By, tr.registered,
           tr.registered \in BOOLEAN, tr.ids \subseteq Messages, tr.seen \subseteq Messages,
           Persist(tr, by), held' \subseteq held,
           m \in tr.seen \/ m \in tr.ids \/ m \notin held', Since(m, n) \/ n = Issued + 1
    PROVE Since(m, n)'
<1> DEFINE x == [state |-> State(tr), by |-> by]
<1>1. /\ saves \in Seq(Waiting) /\ done \in Nat /\ x \in Waiting /\ done' = done
      /\ saves' = Append(saves, x) /\ x.state = State(tr)
      /\ saves # <<>> => session' = session
      /\ saves = <<>> => session' = State(tr)
  BY PersistFacts DEF ChainOK
<1>2. \A s : Safe(m, s) => Safe(m, s)'
  BY DEF Safe
<1>3. Safe(m, State(tr))'
  BY DEF Safe, State
<1> HIDE DEF x
<1>4. /\ Len(saves) \in Nat /\ DOMAIN saves = 1..Len(saves) /\ saves'[Len(saves) + 1] = x
      /\ \A i \in DOMAIN saves : saves'[i] = saves[i]
      /\ \A i \in DOMAIN saves' : i \in DOMAIN saves \/ i = Len(saves) + 1
      /\ saves = <<>> <=> Len(saves) = 0
  BY <1>1, AppendOf
<1>5. ASSUME NEW i \in DOMAIN saves', done' + i >= n PROVE Safe(m, saves[i].state)'
  <2>1. CASE i = Len(saves) + 1
    BY <1>1, <1>3, <1>4, <2>1
  <2>2. CASE i \in DOMAIN saves
    <3>1. Since(m, n)
      BY <1>1, <1>4, <1>5, <2>2 DEF Issued
    <3>2. Safe(m, saves[i].state)
      BY <1>1, <1>5, <2>2, <3>1 DEF Since
    <3> QED
      BY <1>4, <2>2, <3>2 DEF Safe
  <2> QED
    BY <1>4, <2>1, <2>2
<1>6. ASSUME done' + 1 >= n PROVE Safe(m, session)'
  <2>1. CASE saves = <<>>
    BY <1>1, <1>3, <2>1 DEF Safe
  <2>2. CASE saves # <<>>
    <3>1. Since(m, n)
      BY <1>1, <1>4, <1>6, <2>2 DEF Issued
    <3> QED
      BY <1>1, <1>6, <2>2, <3>1 DEF Since, Safe
  <2> QED
    BY <2>1, <2>2
<1> QED
  BY <1>5, <1>6 DEF Since, Safe

LEMMA NotedPersist ==
    ASSUME Base, Exists, NEW m, NEW tr, NEW by \in By,
           tr.registered \in BOOLEAN, tr.ids \subseteq Messages, tr.seen \subseteq Messages,
           Persist(tr, by), m \in tr.seen => m \in t.seen, m \in t'.seen => m \in t.seen,
           Noted(m)'
    PROVE Noted(m)
<1> DEFINE x == [state |-> State(tr), by |-> by]
<1>1. /\ saves \in Seq(Waiting) /\ rest' = rest /\ store' = store
      /\ ~tr.registered => saves' = saves /\ session' = session
      /\ tr.registered =>
            /\ saves' = Append(saves, x) /\ x \in Waiting
            /\ session' = session \/ session' = State(tr)
  BY PersistFacts DEF Base, ChainOK
<1>2. State(tr).seen = tr.seen /\ x.state = State(tr)
  BY DEF State
<1> HIDE DEF x
<1>3. CASE ~tr.registered
  BY <1>1, <1>3 DEF Noted
<1>4. CASE tr.registered
  <2>1. /\ \A i \in DOMAIN saves : saves'[i] = saves[i]
        /\ \A i \in DOMAIN saves' : i \in DOMAIN saves \/ saves'[i] = x
    BY <1>1, <1>4, AppendOf
  <2>2. CASE m \in t.seen
    BY <2>2 DEF Noted
  <2>3. CASE m \notin t.seen
    BY <1>1, <1>2, <1>4, <2>1, <2>3 DEF Noted
  <2> QED
    BY <2>2, <2>3
<1> QED
  BY <1>3, <1>4

(* What waits for a save may be handed over still when another one is asked. *)
LEMMA HandingPersist ==
    ASSUME Base, Exists, NEW m, NEW tr, NEW by \in By, tr.registered,
           tr.registered \in BOOLEAN, tr.ids \subseteq Messages, tr.seen \subseteq Messages,
           Persist(tr, by), held' \subseteq held,
           m \in tr.seen \/ m \in tr.ids \/ m \notin held', t.closes \subseteq t'.closes, Handing(m)
    PROVE Handing(m)'
<1>1. /\ ChainOK /\ done \in Nat /\ t \in Transports /\ done' = done /\ rest' = rest
  BY PersistFacts DEF Base, ChainOK, TransportFits
<1>2. NoneBehind'
  BY <1>1 DEF Handing, NoneBehind
<1>3. CASE Since(m, done)
  <2>1. \A n \in Nat : Since(m, n) => Since(m, n)'
    BY <1>1, SinceAppend
  <2>2. Since(m, done)'
    <3>1. PICK n \in Nat : n = done
      BY <1>1
    <3>2. Since(m, n)'
      BY <1>3, <2>1, <3>1
    <3> QED
      BY <1>1, <3>1, <3>2
  <2> QED
    BY <1>2, <2>2 DEF Handing
<1>4. ASSUME NEW c \in t.closes, c.who = "replace" /\ c.step = 1 /\ Since(m, c.until)
      PROVE Handing(m)'
  <2>1. c.until \in Nat
    BY <1>1, FieldsOf
  <2>2. Since(m, c.until)'
    BY <1>1, <1>4, <2>1, SinceAppend
  <2> QED
    BY <1>2, <1>4, <2>2 DEF Handing
<1> QED
  BY <1>3, <1>4 DEF Handing

LEMMA ByOf == \A by \in {"credential", "connect", "message", "flush", "close"} : by \in By
  BY DEF By

(* close(): its save holds what the transport knows.                         *)
LEMMA CloseOnce ==
    ASSUME Base, Base', Once, Exists, NEW tr \in Transports,
           NEW who \in {"replace", "open", "shutdown"},
           tr.registered = t.registered, tr.ids = t.ids, tr.seen = t.seen,
           tr.pending = t.pending, tr.closes = t.closes,
           tr.phase = "initializing" => t.phase = "initializing",
           tr.phase \in {"opening", "open"} => t.phase \in {"opening", "open"},
           Close(tr, who), UNCHANGED <<held, reported>>, Charge' = Charge, spent'.late = spent.late,
           client'.call = "replacing" =>
              client.call = "replacing" \/ (who = "replace" /\ NoneBehind)
    PROVE Once'
<1> SUFFICES ASSUME NEW m \in Messages PROVE OnceOf(m)'
  BY DEF Once
<1> DEFINE c == [who |-> who, step |-> 1, until |-> LastOf(tr), ok |-> TRUE]
<1>1. /\ OnceOf(m) /\ ChainOK /\ TransportFits /\ t \in Transports /\ Persist(tr, "close")
      /\ saves \in Seq(Waiting) /\ done \in Nat /\ "close" \in By
  BY ByOf DEF Once, Base, TransportFits, Close, ChainOK
<1>2. /\ Exists' /\ t'.registered = t.registered /\ t'.ids = t.ids /\ t'.seen = t.seen
      /\ t'.pending = t.pending /\ t'.closes = t.closes \cup {c}
  BY <1>1, CloseFits
<1>3. /\ c.who = who /\ c.step = 1 /\ c.until = LastOf(tr)
  OBVIOUS
<1> HIDE DEF c
<1>4. tr.registered \in BOOLEAN /\ tr.ids \subseteq Messages /\ tr.seen \subseteq Messages
  BY FieldsOf
<1>5. Load(m)' = Load(m)
  BY <1>2 DEF Load, Count
<1>6. Noted(m)' => Noted(m)
  BY <1>1, <1>2, <1>4, NotedPersist
<1>7. Kept(m) => Kept(m)'
  <2>1. CASE ~t.registered
    <3>1. session' = session /\ rest' = rest
      BY <1>1, <1>4, <2>1, PersistFacts
    <3> QED
      BY <1>2, <2>1, <3>1 DEF Kept, Safe, RestSafe
  <2>2. ASSUME t.registered, Kept(m) PROVE Kept(m)'
    <3>1. Safe(m, t) /\ Safe(m, t)'
      BY <1>2, <2>2 DEF Kept, Safe
    <3>2. m \in tr.seen \/ m \in tr.ids \/ m \notin held'
      BY <3>1 DEF Safe
    <3>3. CASE client'.call = "replacing" /\ client.call = "replacing"
      <4>1. Handing(m) /\ t.closes \subseteq t'.closes /\ held' \subseteq held
        BY <1>2, <2>2, <3>3 DEF Kept
      <4>2. Handing(m)'
        BY <1>1, <1>4, <2>2, <3>2, <4>1, HandingPersist
      <4> QED
        BY <1>2, <2>2, <3>1, <4>2 DEF Kept
    <3>4. CASE client'.call = "replacing" /\ who = "replace" /\ NoneBehind
      <4>1. LastOf(tr) = Issued + 1 /\ LastOf(tr) \in Nat
        BY <1>1, <2>2 DEF LastOf, Issued
      <4>2. PICK n \in Nat : n = LastOf(tr)
        BY <4>1
      <4> DEFINE d == [who |-> who, step |-> 1, until |-> n, ok |-> TRUE]
      <4>3. NoneBehind'
        <5>1. rest' = rest
          BY <1>1, <1>4, PersistFacts
        <5> QED
          BY <3>4, <5>1 DEF NoneBehind
      <4>4. Since(m, n)'
        BY <1>1, <1>4, <2>2, <3>2, <4>1, <4>2, SinceAppend
      <4>5. d \in t'.closes /\ d.who = "replace" /\ d.step = 1 /\ d.until = n
        BY <1>2, <3>4, <4>2 DEF c
      <4> HIDE DEF d
      <4>6. Since(m, d.until)'
        BY <4>4, <4>5
      <4>7. Handing(m)'
        BY <4>3, <4>5, <4>6 DEF Handing
      <4> QED
        BY <1>2, <2>2, <3>1, <4>7 DEF Kept
    <3>5. CASE client'.call # "replacing"
      BY <1>2, <2>2, <3>1, <3>5 DEF Kept
    <3> QED
      BY <3>3, <3>4, <3>5
  <2> QED
    BY <1>1, <2>1, <2>2, FieldsOf
<1> QED
  <2>1. Load(m)' <= Load(m) /\ Load(m) \in Nat
    BY <1>5, NumbersOf
  <2> QED
    BY <1>1, <1>2, <1>6, <1>7, <2>1, OnceStep

LEMMA InitOnce == Init => Once
<1> SUFFICES ASSUME Init, NEW m \in Messages PROVE OnceOf(m)
  BY DEF Once
<1>1. ~Exists /\ spent.late = 0 /\ spent.crashes = 0 /\ saves = <<>> /\ rest = <<>>
  BY DEF Init, Exists
<1>2. Count(m) = 0
  <2>1. {i \in DOMAIN reported : reported[i] = m} = {}
    BY DEF Init
  <2> QED
    BY <2>1, FS_EmptySet DEF Count
<1>3. Load(m) = 0 /\ Charge = 0
  BY <1>1, <1>2 DEF Load, Charge
<1>4. ~Noted(m)
  BY <1>1, SnapshotOf DEF Init, Noted
<1> QED
  BY <1>1, <1>3, <1>4 DEF OnceOf, Wanted

LEMMA StartEventsOnce == Base /\ Base' /\ Once /\ StartEvents => Once'
<1> SUFFICES ASSUME Base, Base', Once, StartEvents PROVE Once'
  OBVIOUS
<1>1. spent' = [spent EXCEPT !.starts = @ + 1] /\ client'.call = "loading"
  BY DEF Base, StartEvents, Clients
<1>2. spent'.late = spent.late /\ Charge' = Charge
  BY <1>1 DEF Base, Bounds, Charge
<1> QED
  BY <1>1, <1>2, QuietOnce DEF StartEvents, Exists

LEMMA LoadedOnce == Base /\ Base' /\ Once /\ Loaded => Once'
<1> SUFFICES ASSUME Base, Base', Once, Loaded PROVE Once'
  OBVIOUS
<1>1. UNCHANGED <<held, reported>> /\ client \in Clients /\ spent \in Bounds
      /\ (Exists => TransportFits) /\ client.call = "loading"
  BY DEF Base, Loaded
<1>2. CASE client' = [client EXCEPT !.call = "none"] /\ UNCHANGED <<t, link, chain, spent>>
  <2>1. client'.call = "none" /\ Charge' = Charge /\ spent'.late = spent.late /\ Exists' = Exists
    BY <1>1, <1>2 DEF Clients, Charge, Exists
  <2> QED
    BY <1>1, <1>2, <2>1, QuietOnce
<1>3. ASSUME Exists, client' = [client EXCEPT !.call = "replacing"], Close(t, "replace"),
             spent' = IF NoneBehind THEN spent ELSE [spent EXCEPT !.late = @ + 1]
      PROVE Once'
  <2>1. CASE NoneBehind
    <3>1. Charge' = Charge /\ spent'.late = spent.late
      BY <1>3, <2>1 DEF Charge
    <3> QED
      BY <1>1, <1>3, <2>1, <3>1, CloseOnce DEF TransportFits
  <2>2. CASE ~NoneBehind
    <3>1. spent'.late = spent.late + 1 /\ spent'.crashes = spent.crashes
      BY <1>1, <1>3, <2>2 DEF Bounds
    <3>2. t'.pending = t.pending /\ Exists'
      BY <1>1, <1>3, CloseFits DEF TransportFits
    <3> SUFFICES ASSUME NEW m \in Messages PROVE OnceOf(m)'
      BY DEF Once
    <3>3. OnceOf(m) /\ Load(m) \in Nat /\ spent.late \in Nat /\ spent.crashes \in Nat
      BY NumbersOf DEF Once
    <3>4. Load(m)' = Load(m)
      BY <1>1, <1>3, <3>2 DEF Load, Count
    <3>5. Charge' = Charge + 1 /\ spent'.late # 0 /\ Charge \in Nat
      BY <3>1, <3>3 DEF Charge
    <3>6. Load(m)' <= Charge'
      BY <3>3, <3>4, <3>5 DEF OnceOf
    <3>7. ~Wanted(m)'
      BY <3>3, <3>4, <3>5, <3>6 DEF Wanted
    <3> QED
      BY <3>2, <3>3, <3>4, <3>5, <3>6, <3>7 DEF OnceOf
  <2> QED
    BY <2>1, <2>2
<1>4. ASSUME ~Exists, t' = NewTransport, UNCHANGED <<link, chain, spent>>,
             client' = [client EXCEPT !.call = "opening"]
      PROVE Once'
  <2> SUFFICES ASSUME NEW m \in Messages PROVE OnceOf(m)'
    BY DEF Once
  <2>1. OnceOf(m) /\ rest = <<>> /\ Load(m) \in Nat /\ Charge \in Nat
    BY <1>4, NumbersOf DEF Once, Base
  <2>2. Exists' /\ Charge' = Charge /\ UNCHANGED <<saves, rest, session, store>>
    BY <1>4, NewFields DEF Exists, Charge, chain
  <2>3. Load(m)' = Load(m)
    BY <1>1, <1>4, NewFields DEF Load, Count
  <2>4. Noted(m)' => Noted(m)
    BY <1>4, <2>2, NewFields DEF Noted
  <2>5. Kept(m) => Kept(m)'
    BY <1>1, <1>4, <2>1, <2>2, NewFields DEF Kept, Safe, RestSafe
  <2>6. Load(m)' <= Load(m) /\ Load(m)' <= 1 + Charge /\ m \notin t'.pending
    BY <1>4, <2>1, <2>3, NewFields DEF OnceOf
  <2>7. spent'.late = spent.late
    BY <1>4
  <2> QED
    BY <2>1, <2>2, <2>4, <2>5, <2>6, <2>7, OnceStep
<1> QED
  BY <1>2, <1>3, <1>4 DEF Loaded

LEMMA ReplacedOnce == Base /\ Base' /\ Once /\ Replaced => Once'
<1> SUFFICES ASSUME Base, Base', Once, Replaced, NEW m \in Messages PROVE OnceOf(m)'
  BY DEF Once
<1>1. /\ client.call = "replacing" /\ Exists /\ t.closed /\ ChainOK /\ TransportFits
      /\ t' = NewTransport /\ saves' = <<>> /\ rest' = Append(rest, saves)
      /\ UNCHANGED <<session, store, held, reported, spent>>
      /\ \A c \in t.closes : c.who # "replace"
  BY DEF Base, Replaced, ClosingBy
<1>2. OnceOf(m) /\ Load(m) \in Nat /\ Charge \in Nat /\ Count(m) \in Nat /\ Count(m) <= Load(m)
  BY NumbersOf DEF Once
<1>3. Exists' /\ ~t'.registered /\ m \notin t'.pending /\ m \notin t'.seen
  BY <1>1, NewFields DEF Exists
<1>4. Load(m)' <= Load(m) /\ Charge' = Charge /\ spent'.late = spent.late
  BY <1>1, <1>2, <1>3 DEF Load, Count, Charge
<1>5. /\ rest \in Seq(Seq(Waiting)) /\ saves \in Seq(Waiting) /\ done \in Nat
      /\ DOMAIN saves = 1..Len(saves) /\ Len(saves) \in Nat
      /\ rest'[Len(rest) + 1] = saves
      /\ \A g \in DOMAIN rest : rest'[g] = rest[g]
      /\ \A g \in DOMAIN rest' : g \in DOMAIN rest \/ g = Len(rest) + 1
  BY <1>1, AppendOf DEF ChainOK
<1>6. Noted(m)' => Noted(m)
  BY <1>1, <1>3, <1>5 DEF Noted
<1>7. ASSUME Safe(m, session), RestSafe(m), \A i \in DOMAIN saves : Safe(m, saves[i].state)
      PROVE Kept(m)'
  BY <1>1, <1>3, <1>5, <1>7 DEF Kept, Safe, RestSafe
<1>8. Kept(m) => Kept(m)'
  <2>1. ASSUME Kept(m), t.registered PROVE Kept(m)'
    <3>1. NoneBehind /\ Since(m, done)
      BY <1>1, <2>1 DEF Kept, Handing
    <3>2. Safe(m, session) /\ \A i \in DOMAIN saves : Safe(m, saves[i].state)
      BY <1>5, <3>1 DEF Since
    <3>3. RestSafe(m)
      BY <3>1 DEF RestSafe, NoneBehind
    <3> QED
      BY <1>7, <3>2, <3>3
  <2>2. ASSUME Kept(m), ~t.registered PROVE Kept(m)'
    <3>1. saves = <<>> /\ Safe(m, session) /\ RestSafe(m)
      BY <1>1, <2>2 DEF Kept, TransportFits
    <3> QED
      BY <1>7, <3>1
  <2> QED
    BY <2>1, <2>2
<1> QED
  BY <1>1, <1>2, <1>3, <1>4, <1>6, <1>8, OnceStep

LEMMA InitializedOnce == Base /\ Base' /\ Once /\ Initialized => Once'
<1> SUFFICES ASSUME Base, Base', Once, Initialized PROVE Once'
  OBVIOUS
<1>1. /\ Exists /\ TransportFits /\ ~t.registered /\ t.seen = {} /\ t.ids = {} /\ t.pending = {}
      /\ client \in Clients /\ client.call = "opening" /\ session \in Snapshot
      /\ UNCHANGED <<link, chain, held, reported, spent>>
      /\ UNCHANGED <<saves, rest, session, store>>
  BY DEF Base, Initialized, Opening, TransportFits, ChainOK, chain
<1>2. Charge' = Charge /\ spent'.late = spent.late
  BY <1>1 DEF Charge
<1>3. CASE client' = [client EXCEPT !.call = "none"] /\ t' = [t EXCEPT !.phase = "failed"]
  <2>1. /\ t'.registered = t.registered /\ t'.ids = t.ids /\ t'.seen = t.seen
        /\ t'.pending = t.pending /\ t'.closes = t.closes /\ t' \in Transports
    BY <1>1, <1>3 DEF TransportFits, Transports
  <2>2. Exists' = Exists
    BY <1>1, <2>1, FieldsOf DEF Exists
  <2>3. client'.call = "none"
    BY <1>1, <1>3 DEF Clients
  <2> QED
    BY <1>1, <1>2, <2>1, <2>2, <2>3, QuietOnce
<1>4. CASE t' = Restored /\ client' = client
  <2> SUFFICES ASSUME NEW m \in Messages PROVE OnceOf(m)'
    BY DEF Once
  <2>1. OnceOf(m) /\ Load(m) \in Nat
    BY NumbersOf DEF Once
  <2>2. /\ t' \in Transports /\ t'.registered = session.registered /\ t'.pending = {}
        /\ session.registered => t'.ids = session.ids /\ t'.seen = session.seen
        /\ ~session.registered => t'.seen = {}
    BY <1>1, <1>4, SnapshotOf, ZenonT(30) DEF Transports, Restored, TransportFits
  <2>3. Exists' /\ client'.call # "replacing"
    BY <1>1, <1>4, <2>2, FieldsOf DEF Exists
  <2>4. Load(m)' <= Load(m)
    BY <1>1, <2>1, <2>2, <2>3 DEF Load, Count
  <2>5. Noted(m)' => Noted(m)
    BY <1>1, <2>2 DEF Noted
  <2>6. Kept(m) => Kept(m)'
    BY <1>1, <2>2, <2>3 DEF Kept, Safe, RestSafe
  <2> QED
    BY <1>1, <1>2, <2>1, <2>2, <2>3, <2>4, <2>5, <2>6, OnceStep
<1> QED
  BY <1>3, <1>4 DEF Initialized

(* A quiet step of the transport that touches neither its keys nor closers.  *)
LEMMA TransportOnce ==
    ASSUME Base, Base', Once, Exists, UNCHANGED <<chain, held, reported, spent>>,
           t' # None, t'.pending = t.pending, t'.seen = t.seen, t'.ids = t.ids,
           t'.registered = t.registered, t'.closes = t.closes,
           client'.call = "replacing" => client.call = "replacing"
    PROVE Once'
<1>1. Charge' = Charge /\ spent'.late = spent.late /\ Exists' = Exists
  BY DEF Charge, Exists
<1> QED
  BY <1>1, QuietOnce

LEMMA OpenOnce == Base /\ Base' /\ Once /\ Open => Once'
<1> SUFFICES ASSUME Base, Base', Once, Open PROVE Once'
  OBVIOUS
<1>1. /\ Exists /\ t \in Transports /\ client \in Clients
      /\ t' = [t EXCEPT !.phase = "open"] /\ client' = [client EXCEPT !.call = "none"]
      /\ UNCHANGED <<link, chain, held, reported, spent>>
  BY DEF Base, Open, Opening, TransportFits
<1>2. /\ t' \in Transports /\ t'.registered = t.registered /\ client'.call = "none"
      /\ t'.ids = t.ids /\ t'.seen = t.seen /\ t'.pending = t.pending /\ t'.closes = t.closes
  BY <1>1 DEF Transports, Clients
<1> QED
  BY <1>1, <1>2, FieldsOf, TransportOnce

LEMMA FailsOnce == Base /\ Base' /\ Once /\ Fails => Once'
<1> SUFFICES ASSUME Base, Base', Once, Fails PROVE Once'
  OBVIOUS
<1> DEFINE tr == [t EXCEPT !.phase = "failing"]
<1>1. /\ Exists /\ t \in Transports /\ Close(tr, "open")
      /\ UNCHANGED <<client, held, reported, spent>>
  BY DEF Base, Fails, Opening, TransportFits
<1>2. /\ tr \in Transports /\ tr.phase = "failing"
      /\ tr.ids = t.ids /\ tr.seen = t.seen /\ tr.pending = t.pending /\ tr.closes = t.closes
      /\ tr.registered = t.registered
  BY <1>1 DEF Transports
<1> HIDE DEF tr
<1>3. Charge' = Charge
  BY <1>1 DEF Charge
<1> QED
  BY <1>1, <1>2, <1>3, CloseOnce

LEMMA FailedOnce == Base /\ Base' /\ Once /\ Failed => Once'
<1> SUFFICES ASSUME Base, Base', Once, Failed PROVE Once'
  OBVIOUS
<1>1. /\ Exists /\ t \in Transports /\ client \in Clients
      /\ t' = [t EXCEPT !.phase = "failed"] /\ client' = [client EXCEPT !.call = "none"]
      /\ UNCHANGED <<link, chain, held, reported, spent>>
  BY DEF Base, Failed, Opening, TransportFits
<1>2. /\ t' \in Transports /\ t'.registered = t.registered /\ client'.call = "none"
      /\ t'.ids = t.ids /\ t'.seen = t.seen /\ t'.pending = t.pending /\ t'.closes = t.closes
  BY <1>1 DEF Transports, Clients
<1> QED
  BY <1>1, <1>2, FieldsOf, TransportOnce

LEMMA CloseWaitsExists == ASSUME Base, NEW c, CloseWaits(c) PROVE Exists'
<1>1. /\ Exists /\ t \in Transports /\ c \in t.closes /\ c \in Closers
      /\ t' = [t EXCEPT !.closes = (@ \ {c}) \cup {[c EXCEPT !.step = 2, !.until = Issued]}]
  BY FieldsOf DEF Base, CloseWaits, TransportFits
<1>2. Issued \in Nat
  BY DEF Base, ChainOK, Issued
<1>3. [c EXCEPT !.step = 2, !.until = Issued] \in Closers
  BY <1>1, <1>2 DEF Closers
<1>4. t' \in Transports
  BY <1>1, <1>3 DEF Transports
<1> QED
  BY <1>4, FieldsOf DEF Exists

(* A closer that goes on or returns has seen its save end.                   *)
LEMMA CloseWaitsOnce == ASSUME Base, Base', Once, NEW c, CloseWaits(c) PROVE Once'
<1> DEFINE d == [c EXCEPT !.step = 2, !.until = Issued]
<1>1. /\ Exists /\ t \in Transports /\ c \in t.closes /\ c.until <= done
      /\ t' = [t EXCEPT !.closes = (@ \ {c}) \cup {d}]
      /\ UNCHANGED <<client, link, chain, held, reported, spent>>
  BY DEF Base, CloseWaits, TransportFits
<1> HIDE DEF d
<1>2. /\ t'.registered = t.registered /\ t'.ids = t.ids /\ t'.seen = t.seen
      /\ t'.pending = t.pending /\ t'.closes = (t.closes \ {c}) \cup {d}
  BY <1>1 DEF Transports
<1>3. Exists' /\ Charge' = Charge
  <2>1. Charge' = Charge
    BY <1>1 DEF Charge
  <2> QED
    BY <2>1, CloseWaitsExists
<1>4. \A x \in t.closes : x \in t'.closes \/ x.until <= done
  BY <1>1, <1>2
<1>5. Exists' = Exists
  <2>1. Exists' <=> Exists
    BY <1>1, <1>3
  <2> QED
    BY <2>1 DEF Exists
<1> QED
  BY <1>1, <1>2, <1>3, <1>4, <1>5, QuietOnce

LEMMA CloseEndsOnce == ASSUME Base, Base', Once, NEW c, CloseEnds(c) PROVE Once'
<1>1. /\ Exists /\ t \in Transports /\ c \in t.closes /\ c.until <= done /\ client \in Clients
      /\ t' = [t EXCEPT !.closes = @ \ {c}, !.pending = {}]
      /\ UNCHANGED <<link, chain, held, reported, spent>>
      /\ client' = client \/ client' = [client EXCEPT !.call = "none"]
  BY DEF Base, CloseEnds, Over, TransportFits
<1>2. /\ t' \in Transports /\ t'.registered = t.registered /\ t'.ids = t.ids /\ t'.seen = t.seen
      /\ t'.pending = {} /\ t'.closes = t.closes \ {c}
  BY <1>1 DEF Transports
<1>3. Exists' = Exists /\ Charge' = Charge
  BY <1>1, <1>2, FieldsOf DEF Exists, Charge
<1>4. \A x \in t.closes : x \in t'.closes \/ x.until <= done
  BY <1>1, <1>2
<1>5. client'.call = "replacing" => client.call = "replacing"
  BY <1>1 DEF Clients
<1> QED
  BY <1>1, <1>2, <1>3, <1>4, <1>5, QuietOnce

(* A first login finds no session: what is safe then is safe everywhere.     *)
LEMMA CredentialOnce == Base /\ Base' /\ Once /\ Credential => Once'
<1> SUFFICES ASSUME Base, Base', Once, Credential, NEW m \in Messages PROVE OnceOf(m)'
  BY DEF Once
<1> DEFINE tr == [t EXCEPT !.registered = TRUE]
<1>1. /\ Exists /\ TransportFits /\ ~t.closed /\ t' = tr /\ Persist(tr, "credential")
      /\ ~t.registered /\ ~session.registered /\ session = Empty
      /\ client.call # "replacing" /\ "credential" \in By
      /\ UNCHANGED <<client, link, held, reported, spent>>
  BY ByOf DEF Base, Credential, Running, TransportFits, ChainOK
<1>2. /\ tr \in Transports /\ tr.registered
      /\ tr.ids = t.ids /\ tr.seen = t.seen /\ tr.pending = t.pending
  BY <1>1 DEF Transports, TransportFits
<1> HIDE DEF tr
<1>3. OnceOf(m) /\ Load(m) \in Nat
  BY NumbersOf DEF Once
<1>4. Exists' /\ Charge' = Charge /\ spent'.late = spent.late
  BY <1>1, <1>2, FieldsOf DEF Exists, Charge
<1>5. Load(m)' <= Load(m)
  BY <1>1, <1>2, <1>3, <1>4 DEF Load, Count
<1>6. Noted(m)' => Noted(m)
  BY <1>1, <1>2, FieldsOf, NotedPersist
<1>7. Kept(m) => Kept(m)'
  BY <1>1, <1>2, SnapshotOf DEF Kept, Safe
<1> QED
  BY <1>1, <1>2, <1>3, <1>4, <1>5, <1>6, <1>7, OnceStep

(* What a login hands over the server does not hold any more.                *)
LEMMA ConnectsOnce == Base /\ Base' /\ Once /\ Connects => Once'
<1> SUFFICES ASSUME Base, Base', Once, Connects, NEW m \in Messages PROVE OnceOf(m)'
  BY DEF Once
<1> DEFINE tr == [t EXCEPT !.ids = {}]
<1>1. /\ Exists /\ TransportFits /\ ~t.closed /\ t.registered /\ t' = tr /\ Persist(tr, "connect")
      /\ client.call # "replacing" /\ "connect" \in By /\ held' = held \ t.ids
      /\ spent \in Bounds /\ spent' = [spent EXCEPT !.connects = @ + 1]
      /\ UNCHANGED <<client, reported>>
  BY ByOf DEF Base, Connects, Running
<1>2. /\ tr \in Transports /\ tr.registered
      /\ tr.ids = {} /\ tr.seen = t.seen /\ tr.pending = t.pending
  BY <1>1 DEF Transports, TransportFits
<1> HIDE DEF tr
<1>3. OnceOf(m) /\ Load(m) \in Nat
  BY NumbersOf DEF Once
<1>4. spent'.late = spent.late /\ spent'.crashes = spent.crashes
  BY <1>1 DEF Bounds
<1>5. Exists' /\ Charge' = Charge
  BY <1>1, <1>2, <1>4, FieldsOf DEF Exists, Charge
<1>6. Load(m)' <= Load(m)
  BY <1>1, <1>2, <1>3, <1>5 DEF Load, Count
<1>7. Noted(m)' => Noted(m)
  BY <1>1, <1>2, FieldsOf, NotedPersist
<1>8. Kept(m) => Kept(m)'
  BY <1>1, <1>2, <1>5 DEF Kept, Safe
<1> QED
  BY <1>1, <1>2, <1>3, <1>4, <1>5, <1>6, <1>7, <1>8, OnceStep

LEMMA DropsOnce == Base /\ Base' /\ Once /\ Drops => Once'
<1> SUFFICES ASSUME Base, Base', Once, Drops PROVE Once'
  OBVIOUS
<1>1. /\ Exists /\ t \in Transports /\ t' = [t EXCEPT !.connected = FALSE]
      /\ UNCHANGED <<client, chain, held, reported, spent>>
  BY DEF Base, Drops, Running, TransportFits
<1>2. /\ t' \in Transports /\ t'.registered = t.registered
      /\ t'.ids = t.ids /\ t'.seen = t.seen /\ t'.pending = t.pending /\ t'.closes = t.closes
  BY <1>1 DEF Transports
<1> QED
  BY <1>1, <1>2, FieldsOf, TransportOnce

(* What is delivered was not safe in the transport, unless its key is there. *)
LEMMA MessageOnce ==
    ASSUME Base, Base', Once, NEW r \in Messages, Message(r) PROVE Once'
<1> SUFFICES ASSUME NEW m \in Messages PROVE OnceOf(m)'
  BY DEF Once
<1> DEFINE tr == [t EXCEPT !.ids = @ \cup {r}, !.pending = @ \cup Accepted(r)]
<1>1. /\ Exists /\ TransportFits /\ ~t.closed /\ t.registered /\ t' = tr /\ Persist(tr, "message")
      /\ client.call # "replacing" /\ "message" \in By /\ r \in held /\ r \notin t.ids
      /\ UNCHANGED <<client, link, held, reported, spent>>
  BY ByOf DEF Base, Message, MessageIn, Running
<1>2. /\ tr \in Transports /\ tr.registered /\ tr.ids = t.ids \cup {r} /\ tr.seen = t.seen
      /\ tr.pending = IF r \in t.seen THEN t.pending ELSE t.pending \cup {r}
  BY <1>1 DEF Transports, TransportFits, Accepted
<1> HIDE DEF tr
<1>3. OnceOf(m) /\ Load(m) \in Nat /\ Count(m) \in Nat /\ Charge \in Nat
  BY NumbersOf DEF Once
<1>4. Exists' /\ Charge' = Charge /\ spent'.late = spent.late
  BY <1>1, <1>2, FieldsOf DEF Exists, Charge
<1>5. Noted(m)' => Noted(m)
  BY <1>1, <1>2, FieldsOf, NotedPersist
<1>6. Kept(m) => Kept(m)'
  BY <1>1, <1>2, <1>4 DEF Kept, Safe
<1>7. CASE m \in t.pending \/ m # r \/ r \in t.seen
  <2>1. m \in t'.pending => m \in t.pending
    BY <1>1, <1>2, <1>7
  <2>2. Load(m)' <= Load(m)
    BY <1>1, <1>3, <1>4, <2>1 DEF Load, Count
  <2> QED
    BY <1>1, <1>3, <1>4, <1>5, <1>6, <2>1, <2>2, OnceStep
<1>8. CASE m = r /\ r \notin t.seen /\ m \notin t.pending
  <2>1. Kept(m)'
    BY <1>1, <1>2, <1>4, <1>8 DEF Kept, Safe
  <2>2. ~Kept(m)
    BY <1>1, <1>8 DEF Kept, Safe
  <2>3. ~Wanted(m)
    BY <1>3, <2>2 DEF OnceOf
  <2>4. Load(m) <= Charge /\ ~(spent.late = 0 /\ Noted(m))
    BY <1>3, <2>3 DEF Wanted
  <2>5. Load(m)' <= 1 + Charge'
    BY <1>1, <1>3, <1>4, <2>4 DEF Load, Count
  <2> QED
    BY <1>4, <1>5, <2>1, <2>4, <2>5 DEF OnceOf
<1> QED
  BY <1>7, <1>8

(* A report turns what waits into what is known.                             *)
LEMMA FlushOnce ==
    ASSUME Base, Base', Once, NEW r \in Messages, Flush(r) PROVE Once'
<1> SUFFICES ASSUME NEW m \in Messages PROVE OnceOf(m)'
  BY DEF Once
<1> DEFINE tr == Settled(r)
<1>1. /\ Exists /\ TransportFits /\ t.registered /\ t' = tr /\ Persist(tr, "flush") /\ r \in t.pending
      /\ "flush" \in By /\ reported \in Seq(Messages) /\ reported' = Append(reported, r)
      /\ UNCHANGED <<client, link, held, spent>>
  BY ByOf DEF Base, Flush, TransportFits
<1>2. /\ tr \in Transports /\ tr.registered /\ tr.ids = t.ids /\ tr.seen = t.seen \cup {r}
      /\ tr.pending = t.pending \ {r} /\ tr.closes = t.closes
  BY <1>1 DEF Transports, TransportFits, Settled
<1> HIDE DEF tr
<1>3. OnceOf(m) /\ Load(m) \in Nat /\ Count(m) \in Nat /\ Charge \in Nat
  BY NumbersOf DEF Once
<1>4. Exists' /\ Charge' = Charge /\ spent'.late = spent.late
  BY <1>1, <1>2, FieldsOf DEF Exists, Charge
<1>5. Load(m)' = Load(m)
  <2>1. Count(m)' = IF m = r THEN Count(m) + 1 ELSE Count(m)
    BY <1>1, CountMore
  <2>2. CASE m = r
    BY <1>1, <1>2, <1>3, <1>4, <2>1, <2>2 DEF Load
  <2>3. CASE m # r
    BY <1>1, <1>2, <1>3, <1>4, <2>1, <2>3 DEF Load
  <2> QED
    BY <2>2, <2>3
<1>6. m # r /\ Noted(m)' => Noted(m)
  BY <1>1, <1>2, FieldsOf, NotedPersist
<1>7. Kept(m) => Kept(m)'
  <2>1. ASSUME Kept(m) PROVE Kept(m)'
    <3>1. Safe(m, t) /\ Safe(m, t)'
      BY <1>1, <1>2, <2>1 DEF Kept, Safe
    <3>2. ASSUME Handing(m) PROVE Handing(m)'
      <4>1. m \in tr.seen \/ m \in tr.ids \/ m \notin held'
        BY <1>1, <1>2, <3>1 DEF Safe
      <4>2. tr.ids \subseteq Messages /\ tr.seen \subseteq Messages /\ tr.registered \in BOOLEAN
        BY <1>2, FieldsOf
      <4>3. t.closes \subseteq t'.closes /\ held' \subseteq held
        BY <1>1, <1>2
      <4> QED
        BY <1>1, <1>2, <3>2, <4>1, <4>2, <4>3, HandingPersist
    <3> QED
      BY <1>1, <1>2, <1>4, <2>1, <3>1, <3>2 DEF Kept
  <2> QED
    BY <2>1
<1>8. CASE m = r
  <2>1. m \in t.pending /\ m \notin t'.pending
    BY <1>1, <1>2, <1>8
  <2>2. Wanted(m)' => Wanted(m)
    BY <1>1, <1>3, <1>4, <1>5, <2>1 DEF Wanted
  <2> QED
    BY <1>3, <1>4, <1>5, <1>7, <2>1, <2>2 DEF OnceOf
<1>9. CASE m # r
  <2>1. Load(m)' <= Load(m) /\ (m \in t'.pending => m \in t.pending)
    BY <1>1, <1>2, <1>3, <1>5
  <2> QED
    BY <1>1, <1>3, <1>4, <1>6, <1>7, <1>9, <2>1, OnceStep
<1> QED
  BY <1>8, <1>9

LEMMA NoneIsNot ==
    ASSUME Base, Registered \/ RegisterFails PROVE t' # None
<1>1. t \in Transports /\ t.registering - 1 \in Nat
  BY FieldsOf DEF Base, Registered, RegisterFails, TransportFits
<1>2. t' \in Transports
  <2>1. CASE Registered
    BY <1>1, <2>1 DEF Registered, Transports
  <2>2. CASE RegisterFails
    BY <1>1, <2>2 DEF RegisterFails, Refused, Transports
  <2> QED
    BY <2>1, <2>2
<1> QED
  BY <1>2, FieldsOf

LEMMA RegisteredOnce == Base /\ Base' /\ Once /\ Registered => Once'
<1> SUFFICES ASSUME Base, Base', Once, Registered PROVE Once'
  OBVIOUS
<1>1. /\ Exists /\ t \in Transports
      /\ t' = [t EXCEPT !.registering = @ - 1, !.connected = TRUE,
                        !.ready = IF @ = "no" THEN "yes" ELSE @]
      /\ UNCHANGED <<client, link, chain, held, reported, spent>>
  BY DEF Base, Registered, TransportFits
<1>2. /\ t'.registered = t.registered
      /\ t'.ids = t.ids /\ t'.seen = t.seen /\ t'.pending = t.pending /\ t'.closes = t.closes
  BY <1>1 DEF Transports
<1>3. t' # None
  BY <1>1, NoneIsNot DEF Registered
<1> QED
  BY <1>1, <1>2, <1>3, TransportOnce

LEMMA RegisterFailsOnce == Base /\ Base' /\ Once /\ RegisterFails => Once'
<1> SUFFICES ASSUME Base, Base', Once, RegisterFails PROVE Once'
  OBVIOUS
<1>1. /\ Exists /\ t \in Transports /\ t.registering > 0
      /\ t' = Refused([t EXCEPT !.registering = @ - 1])
      /\ UNCHANGED <<client, link, chain, held, reported, spent>>
  BY DEF Base, RegisterFails, TransportFits
<1>2. /\ t'.registered = t.registered
      /\ t'.ids = t.ids /\ t'.seen = t.seen /\ t'.pending = t.pending /\ t'.closes = t.closes
  BY <1>1 DEF Transports, Refused
<1>3. t' # None
  BY <1>1, NoneIsNot DEF RegisterFails
<1> QED
  BY <1>1, <1>2, <1>3, TransportOnce

(* A save that ends leaves those behind it; what was handed over is next.    *)
LEMMA WriteEndsOnce ==
    ASSUME Base, Base', Once, NEW ok \in BOOLEAN, WriteEnds(ok) PROVE Once'
<1> SUFFICES ASSUME NEW m \in Messages PROVE OnceOf(m)'
  BY DEF Once
<1>1. /\ ChainOK /\ client \in Clients /\ saves \in Seq(Waiting) /\ rest \in Seq(Seq(Waiting))
      /\ client' = [client EXCEPT !.left = IF @ > 0 THEN @ - 1 ELSE 0]
      /\ UNCHANGED <<link, held, reported, spent>> /\ done \in Nat
  BY DEF Base, WriteEnds, ChainOK
<1>2. PICK g \in DOMAIN Chains :
         /\ Chains[g] # <<>> /\ Chains[g] \in Seq(Waiting)
         /\ store' = IF ok THEN Chains[g][1].state ELSE store
         /\ \/ Len(Chains[g]) = 1 /\ session' = session
            \/ Len(Chains[g]) > 1 /\ session' = Chains[g][2].state
         /\ g = Number => /\ saves' = Tail(saves) /\ done' = done + 1 /\ rest' = rest
                          /\ Ends(ok)
         /\ g # Number => /\ saves' = saves /\ done' = done /\ t' = t
                          /\ rest' = [rest EXCEPT ![g] = Tail(@)]
  BY <1>1, WriteFacts
<1>3. Exists /\ TransportFits /\ t \in Transports
  <2>1. ~(saves = <<>> /\ rest = <<>>)
    BY <1>1, <1>2, ChainsOf
  <2> QED
    BY <2>1 DEF Base, TransportFits
<1>4. OnceOf(m) /\ Load(m) \in Nat
  BY NumbersOf DEF Once
<1>5. Charge' = Charge /\ spent'.late = spent.late /\ client'.call = client.call
  BY <1>1 DEF Charge, Clients
<1>6. ASSUME g = Number PROVE OnceOf(m)'
  <2>1. /\ saves # <<>> /\ saves' = Tail(saves) /\ done' = done + 1 /\ rest' = rest /\ Ends(ok)
        /\ store' = store \/ store' = saves[1].state
        /\ \/ Len(saves) = 1 /\ session' = session
           \/ Len(saves) > 1 /\ session' = saves[2].state
    BY <1>1, <1>2, <1>6, ChainsOf
  <2>2. /\ t' \in Transports /\ t'.registered = t.registered
        /\ t'.ids = t.ids /\ t'.seen = t.seen /\ t'.pending = t.pending
        /\ \A c \in t.closes : \E d \in t'.closes :
              d.who = c.who /\ d.step = c.step /\ d.until = c.until
    BY <1>1, <1>3, <2>1, ToldOf
  <2>3. Exists' /\ t.registered
    BY <1>3, <2>1, <2>2, FieldsOf DEF Exists, TransportFits
  <2>4. Load(m)' <= Load(m)
    BY <1>1, <1>3, <1>4, <2>2, <2>3 DEF Load, Count
  <2>5. /\ 1 \in DOMAIN saves /\ Len(saves) \in Nat /\ DOMAIN saves = 1..Len(saves)
        /\ Len(saves) > 1 => 2 \in DOMAIN saves
        /\ DOMAIN saves' = 1..(Len(saves) - 1)
        /\ \A i \in DOMAIN saves' : i \in Nat /\ i + 1 \in DOMAIN saves /\ saves'[i] = saves[i + 1]
    BY <1>1, <2>1, TailOf
  <2>6. Noted(m)' => Noted(m)
    BY <1>3, <2>1, <2>2, <2>3, <2>5 DEF Noted
  <2>7. ASSUME NEW n \in Nat, n <= Issued, Since(m, n) PROVE Since(m, n)'
    <3>1. Issued = done + Len(saves)
      BY DEF Issued
    <3>2. ASSUME NEW i \in DOMAIN saves', done' + i >= n PROVE Safe(m, saves[i].state)'
      <4>1. i + 1 \in DOMAIN saves /\ saves'[i] = saves[i + 1] /\ done + (i + 1) >= n
        BY <1>1, <2>1, <2>5, <3>2
      <4> QED
        BY <1>1, <2>7, <4>1 DEF Since, Safe
    <3>3. ASSUME done' + 1 >= n PROVE Safe(m, session)'
      <4>1. CASE Len(saves) = 1 /\ session' = session
        BY <1>1, <2>7, <3>1, <4>1 DEF Since, Safe
      <4>2. CASE Len(saves) > 1 /\ session' = saves[2].state
        BY <1>1, <2>1, <2>5, <2>7, <3>3, <4>2 DEF Since, Safe
      <4> QED
        BY <2>1, <4>1, <4>2
    <3> QED
      BY <3>2, <3>3 DEF Since
  <2>8. Since(m, done) => Since(m, done)'
    <3>1. ASSUME Since(m, done) PROVE Since(m, done)'
      <4>1. /\ \A i \in DOMAIN saves : Safe(m, saves[i].state)
            /\ Safe(m, session)
        BY <1>1, <2>5, <3>1 DEF Since
      <4> QED
        BY <1>1, <2>1, <2>5, <4>1 DEF Since, Safe
    <3> QED
      BY <3>1
  <2>9. ASSUME Handing(m) PROVE Handing(m)'
    <3>1. NoneBehind'
      BY <2>1, <2>9 DEF Handing, NoneBehind
    <3>2. CASE Since(m, done)
      BY <2>8, <3>1, <3>2 DEF Handing
    <3>3. ASSUME NEW c \in t.closes, c.who = "replace" /\ c.step = 1 /\ Since(m, c.until)
          PROVE Handing(m)'
      <4>1. c.until \in Nat /\ c.until <= Issued
        BY <1>3, FieldsOf DEF TransportFits
      <4>2. PICK d \in t'.closes : d.who = c.who /\ d.step = c.step /\ d.until = c.until
        BY <2>2
      <4>3. Since(m, c.until)'
        BY <2>7, <3>3, <4>1
      <4>4. Since(m, d.until)'
        BY <4>2, <4>3
      <4> QED
        BY <3>1, <3>3, <4>2, <4>4 DEF Handing
    <3> QED
      BY <2>9, <3>2, <3>3 DEF Handing
  <2>10. Kept(m) => Kept(m)'
    BY <1>1, <1>3, <1>5, <2>2, <2>3, <2>9 DEF Kept, Safe
  <2> QED
    BY <1>4, <1>5, <2>2, <2>3, <2>4, <2>6, <2>10, <1>3, OnceStep
<1>7. ASSUME g # Number PROVE OnceOf(m)'
  <2>1. /\ g \in DOMAIN rest /\ Chains[g] = rest[g] /\ rest[g] # <<>> /\ rest[g] \in Seq(Waiting)
        /\ saves' = saves /\ done' = done /\ t' = t
        /\ rest' = [rest EXCEPT ![g] = Tail(@)]
        /\ store' = store \/ store' = rest[g][1].state
        /\ \/ Len(rest[g]) = 1 /\ session' = session
           \/ Len(rest[g]) > 1 /\ session' = rest[g][2].state
    BY <1>1, <1>2, <1>7, ChainsOf
  <2>2. Exists' /\ Load(m)' = Load(m)
    BY <1>1, <1>3, <2>1 DEF Exists, Load, Count
  <2>3. /\ 1 \in DOMAIN rest[g]
        /\ Len(rest[g]) > 1 => 2 \in DOMAIN rest[g]
        /\ \A i \in DOMAIN Tail(rest[g]) : i + 1 \in DOMAIN rest[g] /\ Tail(rest[g])[i] = rest[g][i + 1]
    BY <2>1, TailOf
  <2>4. /\ DOMAIN rest' = DOMAIN rest /\ rest'[g] = Tail(rest[g])
        /\ \A h \in DOMAIN rest : h # g => rest'[h] = rest[h]
    BY <1>1, <2>1
  <2>5. \A h \in DOMAIN rest' : \A i \in DOMAIN rest'[h] : \E j \in DOMAIN rest[h] : rest'[h][i] = rest[h][j]
    BY <2>1, <2>3, <2>4
  <2>6. /\ store' = store \/ \E i \in DOMAIN rest[g] : store' = rest[g][i].state
        /\ session' = session \/ \E i \in DOMAIN rest[g] : session' = rest[g][i].state
    BY <2>1, <2>3
  <2>7. Noted(m)' => Noted(m)
    BY <2>1, <2>4, <2>5, <2>6, <1>3, <2>2 DEF Noted
  <2>8. Kept(m) => Kept(m)'
    <3>1. CASE t.registered
      BY <1>1, <1>3, <1>5, <2>1, <2>2, <3>1 DEF Kept, Safe, Handing, NoneBehind
    <3>2. CASE ~t.registered
      BY <1>1, <1>3, <2>1, <2>2, <2>4, <2>5, <2>6, <3>2, SMTT(30) DEF Kept, Safe, RestSafe
    <3> QED
      BY <3>1, <3>2
  <2>9. Load(m)' <= Load(m)
    BY <1>4, <2>2
  <2> QED
    BY <1>3, <1>4, <1>5, <2>1, <2>2, <2>7, <2>8, <2>9, OnceStep
<1> QED
  BY <1>6, <1>7

LEMMA ShutdownOnce == Base /\ Base' /\ Once /\ Shutdown => Once'
<1> SUFFICES ASSUME Base, Base', Once, Shutdown PROVE Once'
  OBVIOUS
<1>1. /\ client \in Clients /\ UNCHANGED <<held, reported, spent>>
      /\ client' = [client EXCEPT !.closed = TRUE, !.shutdown = "waiting"]
      /\ (Exists => TransportFits)
  BY DEF Base, Shutdown
<1>2. client'.call = client.call /\ Charge' = Charge /\ spent'.late = spent.late
  BY <1>1 DEF Clients, Charge
<1>3. CASE Exists /\ Close(t, "shutdown")
  BY <1>1, <1>2, <1>3, CloseOnce DEF TransportFits
<1>4. CASE ~Exists /\ UNCHANGED <<t, link, chain>>
  BY <1>1, <1>2, <1>4, QuietOnce DEF Exists
<1> QED
  BY <1>3, <1>4 DEF Shutdown

LEMMA FlushesOnce == Base /\ Base' /\ Once /\ (Flushes \/ ShutdownEnds) => Once'
<1> SUFFICES ASSUME Base, Base', Once, Flushes \/ ShutdownEnds PROVE Once'
  OBVIOUS
<1>1. /\ client \in Clients
      /\ \/ client' = [client EXCEPT !.shutdown = "flushing", !.left = Len(writes)]
         \/ client' = [client EXCEPT !.shutdown = "done"]
      /\ UNCHANGED <<t, link, chain, held, reported, spent>>
  BY DEF Base, Flushes, ShutdownEnds
<1>2. client'.call = client.call /\ Charge' = Charge /\ Exists' = Exists
  BY <1>1 DEF Clients, Charge, Exists
<1> QED
  BY <1>1, <1>2, QuietOnce

(* A crash is one more report of what was reported and is not in the store.  *)
LEMMA CrashOnce == Base /\ Base' /\ Once /\ Crash => Once'
<1> SUFFICES ASSUME Base, Base', Once, Crash, NEW m \in Messages PROVE OnceOf(m)'
  BY DEF Once
<1>1. /\ saves' = <<>> /\ rest' = <<>> /\ session' = store /\ store' = store /\ t' = None
      /\ UNCHANGED <<held, reported>>
      /\ spent \in Bounds /\ spent' = [spent EXCEPT !.crashes = @ + 1]
  BY DEF Base, Crash
<1>2. OnceOf(m) /\ Load(m) \in Nat /\ Count(m) \in Nat /\ Charge \in Nat /\ Count(m) <= Load(m)
  BY NumbersOf DEF Once
<1>3. spent'.late = spent.late /\ Charge' = Charge + 1 /\ ~Exists'
  <2>1. spent'.late = spent.late /\ spent'.crashes = spent.crashes + 1
    BY <1>1 DEF Bounds
  <2>2. spent.late \in Nat /\ spent.crashes \in Nat
    BY NumbersOf
  <2> QED
    BY <1>1, <2>1, <2>2 DEF Charge, Exists
<1>4. Load(m)' = Count(m)
  BY <1>1, <1>2, <1>3 DEF Load, Count
<1>5. Noted(m)' => Kept(m)'
  BY <1>1, <1>3 DEF Noted, Kept, Safe
<1> QED
  BY <1>2, <1>3, <1>4, <1>5 DEF OnceOf, Wanted

LEMMA StutterOnce == Base /\ Base' /\ Once /\ UNCHANGED vars => Once'
<1> SUFFICES ASSUME Base, Base', Once, UNCHANGED vars PROVE Once'
  OBVIOUS
<1>1. UNCHANGED <<client, t, link, chain, held, reported, spent>>
  BY DEF vars
<1> QED
  BY <1>1, QuietOnce DEF Exists, Charge

LEMMA NextOnce == Base /\ Base' /\ Once /\ [Next]_vars => Once'
<1> SUFFICES ASSUME Base, Base', Once, [Next]_vars PROVE Once'
  OBVIOUS
<1>1. ASSUME NEW c \in t.closes, CloseWaits(c) \/ CloseEnds(c) PROVE Once'
  BY <1>1, CloseWaitsOnce, CloseEndsOnce
<1>2. ASSUME NEW m \in Messages, Message(m) \/ Flush(m) PROVE Once'
  BY <1>2, MessageOnce, FlushOnce
<1>3. ASSUME NEW ok \in BOOLEAN, WriteEnds(ok) PROVE Once'
  BY <1>3, WriteEndsOnce
<1> QED
  BY <1>1, <1>2, <1>3, StartEventsOnce, LoadedOnce, ReplacedOnce, InitializedOnce, OpenOnce,
     FailsOnce, FailedOnce, CredentialOnce, ConnectsOnce, DropsOnce, RegisteredOnce,
     RegisterFailsOnce, ShutdownOnce, FlushesOnce, CrashOnce, StutterOnce DEF Next

LEMMA OnceHolds == Spec => []Once
<1>1. Init => Once
  BY InitOnce
<1>2. Base /\ Base' /\ Once /\ [Next]_vars => Once'
  BY NextOnce
<1> QED
  BY <1>1, <1>2, BaseHolds, PTL DEF Spec

-----------------------------------------------------------------------------
(* Saves are in order: a save has the keys of the saves before it, and those *)
(* that the store, or a replaced transport, already has.                     *)

Behind(m) ==
    \/ m \in store.seen
    \/ \E g \in DOMAIN rest : \E i \in DOMAIN rest[g] : m \in rest[g][i].state.seen
Ordered ==
    /\ \A i, j \in DOMAIN saves : i < j => saves[i].state.seen \subseteq saves[j].state.seen
    /\ \A i \in DOMAIN saves : saves[i].state.seen \subseteq t.seen
    /\ \A m \in t.seen : Behind(m) => \A i \in DOMAIN saves : m \in saves[i].state.seen
Order == Exists /\ spent.late = 0 => Ordered

LEMMA OrderEmpty == ASSUME Base', saves' = <<>> PROVE Order'
  BY DEF Order, Ordered

LEMMA OrderSame ==
    ASSUME Base, Base', Order, UNCHANGED chain, Exists' => Exists /\ t'.seen = t.seen,
           spent'.late = spent.late
    PROVE Order'
<1>1. UNCHANGED <<saves, rest, writes, done, session, store>>
  BY ChainSame DEF Base
<1> QED
  BY <1>1 DEF Order, Ordered, Behind

LEMMA OrderPersist ==
    ASSUME Base, Order, Exists, NEW tr, NEW by \in By,
           tr.registered \in BOOLEAN, tr.ids \subseteq Messages, tr.seen \subseteq Messages,
           Persist(tr, by), t'.seen = tr.seen, t.seen \subseteq tr.seen,
           spent'.late = 0 => spent.late = 0,
           spent.late = 0 => \A m \in tr.seen \ t.seen : ~Behind(m),
           ~tr.registered => saves = <<>>
    PROVE Order'
<1> DEFINE x == [state |-> State(tr), by |-> by]
<1>1. /\ saves \in Seq(Waiting) /\ rest' = rest /\ store' = store
      /\ ~tr.registered => saves' = saves
      /\ tr.registered => saves' = Append(saves, x) /\ x \in Waiting
  BY PersistFacts DEF Base, ChainOK
<1>2. State(tr).seen = tr.seen /\ x.state = State(tr)
  BY DEF State
<1> HIDE DEF x
<1>3. CASE ~tr.registered
  BY <1>1, <1>3 DEF Order, Ordered
<1>4. ASSUME tr.registered, spent.late = 0 PROVE Ordered'
  <2>1. /\ Len(saves) \in Nat /\ DOMAIN saves = 1..Len(saves) /\ DOMAIN saves' = 1..(Len(saves) + 1)
        /\ \A i \in DOMAIN saves : saves'[i] = saves[i]
        /\ saves'[Len(saves) + 1] = x
    BY <1>1, <1>4, AppendOf
  <2>2. Ordered
    BY <1>4 DEF Order
  <2>3. \A i \in DOMAIN saves' : i \in DOMAIN saves \/ saves'[i].state.seen = t'.seen
    BY <1>2, <2>1
  <2>4. \A i \in DOMAIN saves' : saves'[i].state.seen \subseteq t'.seen
    BY <2>1, <2>2, <2>3 DEF Ordered
  <2>5. ASSUME NEW i \in DOMAIN saves', NEW j \in DOMAIN saves', i < j
        PROVE saves'[i].state.seen \subseteq saves'[j].state.seen
    <3>1. i \in DOMAIN saves
      BY <2>1, <2>5
    <3>2. CASE j \in DOMAIN saves
      BY <2>1, <2>2, <2>5, <3>1, <3>2 DEF Ordered
    <3>3. CASE j \notin DOMAIN saves
      BY <2>3, <2>4, <3>3
    <3> QED
      BY <3>2, <3>3
  <2>6. \A m : Behind(m)' <=> Behind(m)
    BY <1>1 DEF Behind
  <2>7. ASSUME NEW m \in t'.seen, Behind(m)', NEW i \in DOMAIN saves'
        PROVE m \in saves'[i].state.seen
    <3>1. m \in t.seen
      BY <1>4, <2>6, <2>7
    <3>2. CASE i \in DOMAIN saves
      BY <2>1, <2>2, <2>6, <2>7, <3>1, <3>2 DEF Ordered
    <3>3. CASE i \notin DOMAIN saves
      BY <2>3, <2>7, <3>3
    <3> QED
      BY <3>2, <3>3
  <2> QED
    BY <2>4, <2>5, <2>7 DEF Ordered
<1> QED
  BY <1>3, <1>4, FieldsOf DEF Order

LEMMA OrderWriteEnds ==
    ASSUME Base, Order, NEW ok \in BOOLEAN, WriteEnds(ok) PROVE Order'
<1>1. /\ ChainOK /\ saves \in Seq(Waiting) /\ rest \in Seq(Seq(Waiting)) /\ done \in Nat
      /\ UNCHANGED spent
  BY DEF Base, WriteEnds, ChainOK
<1>2. PICK g \in DOMAIN Chains :
         /\ Chains[g] # <<>> /\ Chains[g] \in Seq(Waiting)
         /\ store' = IF ok THEN Chains[g][1].state ELSE store
         /\ g = Number => /\ saves' = Tail(saves) /\ done' = done + 1 /\ rest' = rest
                          /\ Ends(ok)
         /\ g # Number => /\ saves' = saves /\ done' = done /\ t' = t
                          /\ rest' = [rest EXCEPT ![g] = Tail(@)]
  BY <1>1, WriteFacts
<1>3. Exists /\ t \in Transports
  <2>1. ~(saves = <<>> /\ rest = <<>>)
    BY <1>1, <1>2, ChainsOf
  <2> QED
    BY <2>1 DEF Base, TransportFits
<1> SUFFICES ASSUME spent.late = 0 PROVE Ordered'
  BY <1>1 DEF Order
<1>4. Ordered
  BY <1>3 DEF Order
<1>5. CASE g = Number
  <2>1. /\ saves # <<>> /\ saves' = Tail(saves) /\ rest' = rest /\ Ends(ok)
        /\ store' = store \/ store' = saves[1].state
    BY <1>1, <1>2, <1>5, ChainsOf
  <2>2. t'.seen = t.seen
    BY <1>1, <1>3, <2>1, ToldOf
  <2>3. /\ 1 \in DOMAIN saves /\ DOMAIN saves = 1..Len(saves) /\ Len(saves) \in Nat
        /\ \A i \in DOMAIN saves' : i \in Nat /\ i + 1 \in DOMAIN saves /\ saves'[i] = saves[i + 1]
        /\ DOMAIN saves' = 1..(Len(saves) - 1)
    BY <1>1, <2>1, TailOf
  <2>4. ASSUME NEW i \in DOMAIN saves', NEW j \in DOMAIN saves', i < j
        PROVE saves'[i].state.seen \subseteq saves'[j].state.seen
    <3>1. /\ i + 1 \in DOMAIN saves /\ j + 1 \in DOMAIN saves /\ i + 1 < j + 1
          /\ saves'[i] = saves[i + 1] /\ saves'[j] = saves[j + 1]
      BY <2>3, <2>4
    <3> QED
      BY <1>4, <3>1 DEF Ordered
  <2>5. \A i \in DOMAIN saves' : saves'[i].state.seen \subseteq t'.seen
    BY <1>4, <2>2, <2>3 DEF Ordered
  <2>6. ASSUME NEW m \in t'.seen, Behind(m)', NEW i \in DOMAIN saves'
        PROVE m \in saves'[i].state.seen
    <3>1. i + 1 \in DOMAIN saves /\ 1 < i + 1 /\ saves'[i] = saves[i + 1]
      BY <2>3
    <3>2. Behind(m) \/ m \in saves[1].state.seen
      BY <2>1, <2>6 DEF Behind
    <3>3. CASE Behind(m)
      BY <1>4, <2>2, <3>1, <3>3 DEF Ordered
    <3>4. CASE m \in saves[1].state.seen
      BY <1>4, <2>3, <3>1, <3>4 DEF Ordered
    <3> QED
      BY <3>2, <3>3, <3>4
  <2> QED
    BY <2>4, <2>5, <2>6 DEF Ordered
<1>6. CASE g # Number
  <2>1. /\ g \in DOMAIN rest /\ rest[g] # <<>> /\ rest[g] \in Seq(Waiting)
        /\ saves' = saves /\ t' = t /\ rest' = [rest EXCEPT ![g] = Tail(@)]
        /\ store' = store \/ store' = rest[g][1].state
    BY <1>1, <1>2, <1>6, ChainsOf
  <2>2. /\ 1 \in DOMAIN rest[g]
        /\ \A i \in DOMAIN Tail(rest[g]) : i + 1 \in DOMAIN rest[g] /\ Tail(rest[g])[i] = rest[g][i + 1]
    BY <2>1, TailOf
  <2>3. /\ DOMAIN rest' = DOMAIN rest /\ rest'[g] = Tail(rest[g])
        /\ \A h \in DOMAIN rest : h # g => rest'[h] = rest[h]
    BY <1>1, <2>1
  <2>4. \A h \in DOMAIN rest' : \A i \in DOMAIN rest'[h] : \E j \in DOMAIN rest[h] : rest'[h][i] = rest[h][j]
    BY <2>1, <2>2, <2>3
  <2>5. \A m : Behind(m)' => Behind(m)
    BY <2>1, <2>2, <2>3, <2>4 DEF Behind
  <2> QED
    BY <1>4, <2>1, <2>5 DEF Ordered
<1> QED
  BY <1>5, <1>6

LEMMA OrderClose ==
    ASSUME Base, Order, Exists, NEW tr \in Transports,
           NEW who \in {"replace", "open", "shutdown"},
           tr.registered = t.registered, tr.ids = t.ids, tr.seen = t.seen,
           tr.pending = t.pending, tr.closes = t.closes,
           tr.phase = "initializing" => t.phase = "initializing",
           tr.phase \in {"opening", "open"} => t.phase \in {"opening", "open"},
           Close(tr, who), spent'.late = 0 => spent.late = 0
    PROVE Order'
<1>1. t'.seen = t.seen /\ Persist(tr, "close") /\ "close" \in By
  BY CloseFits, ByOf DEF Close
<1>2. tr.registered \in BOOLEAN /\ tr.ids \subseteq Messages /\ tr.seen \subseteq Messages
  BY FieldsOf
<1>3. ~tr.registered => saves = <<>>
  BY DEF Base, TransportFits
<1> QED
  BY <1>1, <1>2, <1>3, OrderPersist

LEMMA LoadedOrder == Base /\ Base' /\ Order /\ Loaded => Order'
<1> SUFFICES ASSUME Base, Base', Order, Loaded PROVE Order'
  OBVIOUS
<1>1. spent \in Bounds /\ (Exists => TransportFits) /\ spent.late \in Nat
  BY DEF Base, Bounds
<1>2. CASE UNCHANGED <<t, link, chain, spent>>
  BY <1>2, OrderSame DEF Exists
<1>3. ASSUME Exists, Close(t, "replace"),
             spent' = IF NoneBehind THEN spent ELSE [spent EXCEPT !.late = @ + 1]
      PROVE Order'
  <2>1. spent'.late = 0 => spent.late = 0
    BY <1>1, <1>3 DEF Bounds
  <2> QED
    BY <1>1, <1>3, <2>1, OrderClose DEF TransportFits
<1>4. ASSUME ~Exists, UNCHANGED chain PROVE Order'
  BY <1>4, OrderEmpty, ChainSame DEF Base
<1> QED
  BY <1>2, <1>3, <1>4 DEF Loaded

LEMMA CredentialOrder == Base /\ Base' /\ Order /\ Credential => Order'
<1> SUFFICES ASSUME Base, Base', Order, Credential PROVE Order'
  OBVIOUS
<1> DEFINE tr == [t EXCEPT !.registered = TRUE]
<1>1. /\ Exists /\ t \in Transports /\ t' = tr /\ Persist(tr, "credential") /\ "credential" \in By
      /\ UNCHANGED spent
  BY ByOf DEF Base, Credential, Running, TransportFits
<1>2. tr \in Transports /\ tr.registered /\ tr.seen = t.seen
  BY <1>1 DEF Transports
<1> HIDE DEF tr
<1> QED
  BY <1>1, <1>2, FieldsOf, OrderPersist

LEMMA ConnectsOrder == Base /\ Base' /\ Order /\ Connects => Order'
<1> SUFFICES ASSUME Base, Base', Order, Connects PROVE Order'
  OBVIOUS
<1> DEFINE tr == [t EXCEPT !.ids = {}]
<1>1. /\ Exists /\ t \in Transports /\ t' = tr /\ Persist(tr, "connect") /\ "connect" \in By
      /\ t.registered /\ spent \in Bounds /\ spent' = [spent EXCEPT !.connects = @ + 1]
  BY ByOf DEF Base, Connects, Running, TransportFits
<1>2. tr \in Transports /\ tr.registered /\ tr.seen = t.seen
  BY <1>1 DEF Transports
<1>3. spent'.late = spent.late
  BY <1>1 DEF Bounds
<1> HIDE DEF tr
<1> QED
  BY <1>1, <1>2, <1>3, FieldsOf, OrderPersist

LEMMA MessageOrder ==
    ASSUME Base, Base', Order, NEW r \in Messages, Message(r) PROVE Order'
<1> DEFINE tr == [t EXCEPT !.ids = @ \cup {r}, !.pending = @ \cup Accepted(r)]
<1>1. /\ Exists /\ t \in Transports /\ t' = tr /\ Persist(tr, "message") /\ "message" \in By
      /\ t.registered /\ UNCHANGED spent
  BY ByOf DEF Base, Message, MessageIn, Running, TransportFits
<1>2. tr \in Transports /\ tr.registered /\ tr.seen = t.seen
  BY <1>1 DEF Transports, Accepted
<1> HIDE DEF tr
<1> QED
  BY <1>1, <1>2, FieldsOf, OrderPersist

(* What is reported was not known to the store.                              *)
LEMMA FlushOrder ==
    ASSUME Base, Base', Once, Order, NEW r \in Messages, Flush(r) PROVE Order'
<1> DEFINE tr == Settled(r)
<1>1. /\ Exists /\ t \in Transports /\ t' = tr /\ Persist(tr, "flush") /\ "flush" \in By
      /\ t.registered /\ UNCHANGED spent /\ r \in t.pending
  BY ByOf DEF Base, Flush, TransportFits
<1>2. tr \in Transports /\ tr.registered /\ tr.seen = t.seen \cup {r}
  BY <1>1 DEF Transports, Settled
<1> HIDE DEF tr
<1>3. spent.late = 0 => ~Behind(r)
  BY <1>1 DEF Once, OnceOf, Noted, Behind
<1> QED
  BY <1>1, <1>2, <1>3, FieldsOf, OrderPersist

LEMMA NextOrder == Base /\ Base' /\ Once /\ Order /\ [Next]_vars => Order'
<1> SUFFICES ASSUME Base, Base', Once, Order, [Next]_vars PROVE Order'
  OBVIOUS
<1>1. CASE StartEvents
  <2>1. spent'.late = spent.late
    BY <1>1 DEF Base, StartEvents, Bounds
  <2> QED
    BY <1>1, <2>1, OrderSame DEF StartEvents, Exists
<1>2. CASE Replaced \/ Crash
  BY <1>2, OrderEmpty DEF Replaced, Crash
<1>3. CASE Initialized
  <2>1. Exists /\ ~t.registered /\ saves = <<>> /\ UNCHANGED chain
    BY <1>3 DEF Base, Initialized, Opening, TransportFits
  <2> QED
    BY <2>1, OrderEmpty, ChainSame DEF Base
<1>4. ASSUME t \in Transports, UNCHANGED <<chain, spent>>, Exists, t'.seen = t.seen PROVE Order'
  BY <1>4, OrderSame
<1>5. Exists => t \in Transports
  BY DEF Base, TransportFits
<1>6. CASE Open \/ Failed
  BY <1>4, <1>5, <1>6 DEF Open, Failed, Opening, Transports
<1>7. CASE Drops
  <2>1. Exists
    BY <1>7 DEF Drops, Base, Running
  <2> QED
    BY <1>4, <1>5, <1>7, <2>1 DEF Drops, Transports
<1>8. CASE Fails
  <2> DEFINE tr == [t EXCEPT !.phase = "failing"]
  <2>1. Exists /\ t \in Transports /\ Close(tr, "open") /\ UNCHANGED spent
    BY <1>5, <1>8 DEF Fails, Opening
  <2>2. /\ tr \in Transports /\ tr.phase = "failing"
        /\ tr.ids = t.ids /\ tr.seen = t.seen /\ tr.pending = t.pending /\ tr.closes = t.closes
        /\ tr.registered = t.registered
    BY <2>1 DEF Transports
  <2> HIDE DEF tr
  <2> QED
    BY <2>1, <2>2, OrderClose
<1>9. ASSUME NEW c \in t.closes, CloseWaits(c) PROVE Order'
  BY <1>4, <1>5, <1>9 DEF CloseWaits, Transports
<1>10. ASSUME NEW c \in t.closes, CloseEnds(c) PROVE Order'
  BY <1>4, <1>5, <1>10 DEF CloseEnds, Over, Transports
<1>11. ASSUME NEW m \in Messages, Message(m) \/ Flush(m) PROVE Order'
  BY <1>11, MessageOrder, FlushOrder
<1>12. CASE Registered
  BY <1>4, <1>5, <1>12 DEF Registered, Transports
<1>13. CASE RegisterFails
  BY <1>4, <1>5, <1>13 DEF RegisterFails, Refused, Transports
<1>14. ASSUME NEW ok \in BOOLEAN, WriteEnds(ok) PROVE Order'
  BY <1>14, OrderWriteEnds
<1>15. CASE Shutdown
  <2>1. CASE Exists
    BY <1>5, <1>15, <2>1, OrderClose DEF Shutdown
  <2>2. CASE ~Exists
    BY <1>15, <2>2, OrderSame DEF Shutdown, Exists
  <2> QED
    BY <2>1, <2>2
<1>16. CASE Flushes \/ ShutdownEnds \/ UNCHANGED vars
  <2>1. UNCHANGED <<t, chain, spent>>
    BY <1>16 DEF Flushes, ShutdownEnds, vars
  <2> QED
    BY <2>1, OrderSame DEF Exists
<1> QED
  BY <1>1, <1>2, <1>3, <1>6, <1>7, <1>8, <1>9, <1>10, <1>11, <1>12, <1>13, <1>14, <1>15, <1>16,
     LoadedOrder, CredentialOrder, ConnectsOrder DEF Next

LEMMA OrderHolds == Spec => []Order
<1>1. Init => Order
  BY DEF Init, Order, Exists
<1>2. Base /\ Base' /\ Once /\ Order /\ [Next]_vars => Order'
  BY NextOrder
<1> QED
  BY <1>1, <1>2, BaseHolds, OnceHolds, PTL DEF Spec

-----------------------------------------------------------------------------
(* The properties.                                                          *)

LEMMA ChainsTyped == Base => TypeOK
<1> SUFFICES ASSUME Base PROVE TypeOK
  OBVIOUS
<1>1. /\ ChainOK /\ Owned(writes, Chains) /\ DOMAIN Chains = 1..Number
      /\ session \in Snapshot /\ store \in Snapshot
      /\ \A g \in 1..Number : Chains[g] = Chain(g) /\ Chains[g] \in Seq(Waiting)
  BY ChainsOf DEF Base, ChainOK
<1>2. \A g \in 1..Number : \A i \in DOMAIN Chain(g) : Chain(g)[i] \in Saves
  <2> SUFFICES ASSUME NEW g \in 1..Number, NEW i \in DOMAIN Chain(g) PROVE Chain(g)[i] \in Saves
    OBVIOUS
  <2>1. Chain(g) \in Seq(Waiting)
    BY <1>1
  <2>2. Chain(g)[i] \in Waiting
    BY <2>1
  <2> QED
    BY <2>2, WaitingOf
<1>3. \A i \in DOMAIN writes :
         /\ writes[i].from \in 1..Number /\ Chain(writes[i].from) # <<>>
         /\ writes[i].state = Chain(writes[i].from)[1].state
  BY <1>1 DEF Owned
<1>4. ASSUME NEW g \in 1..Number
      PROVE Cardinality({i \in DOMAIN writes : writes[i].from = g}) = IF Chain(g) = <<>> THEN 0 ELSE 1
  <2> DEFINE W == {i \in DOMAIN writes : writes[i].from = g}
  <2>1. CASE Chain(g) = <<>>
    <3>1. W = {}
      BY <1>3, <2>1
    <3> QED
      BY <2>1, <3>1, FS_EmptySet
  <2>2. CASE Chain(g) # <<>>
    <3>1. PICK i \in DOMAIN writes : writes[i].from = g
      BY <1>1, <2>2 DEF Owned
    <3>2. W = {i}
      BY <1>1, <3>1 DEF Owned
    <3> QED
      BY <2>2, <3>2, FS_Singleton
  <2> QED
    BY <2>1, <2>2
<1>5. /\ {session, store} \subseteq Snapshot
      /\ Exists => t \in Transports /\ t.pending \cap t.seen = {} /\ (t.closed => ~t.connected)
      /\ link => Running
  BY <1>1 DEF Base, TransportFits
<1> QED
  BY <1>2, <1>3, <1>4, <1>5 DEF TypeOK

LEMMA StateOK == Base /\ Once => TransportOK
<1> SUFFICES ASSUME Base, Once PROVE TransportOK
  OBVIOUS
<1>1. ClosedIsQuiet
  BY DEF Base, TransportFits, ClosedIsQuiet, Running
<1>2. ASSUME NEW m \in Messages PROVE Count(m) <= 1 + spent.crashes + spent.late
  <2>1. /\ Count(m) <= Load(m) /\ Load(m) <= 1 + Charge
        /\ Count(m) \in Nat /\ Load(m) \in Nat /\ spent.crashes \in Nat /\ spent.late \in Nat
    BY NumbersOf DEF Once, OnceOf
  <2> QED
    BY <2>1 DEF Charge
<1> QED
  BY <1>1, <1>2, ChainsTyped DEF TransportOK, ReportedOnce

(* TransportOK (EventTransport.tla): whatever the order of receiver,         *)
(* detections, saves, failed writes, closes, restarts and crashes, a write   *)
(* belongs to the first save of one chain of saves, a closed EventTransport  *)
(* is quiet (event-transport.ts:172-184), and a message is reported once in  *)
(* the life of the process.                                                 *)
THEOREM TransportSafe == Spec => []TransportOK
<1>1. Base /\ Once => TransportOK
  BY StateOK
<1> QED
  BY <1>1, BaseHolds, OnceHolds, PTL

LEMMA ReportsKnown ==
    Base /\ Once /\ [Next]_vars =>
       [spent.late = 0 => \A m \in Messages : m \in store.seen => Count(m)' = Count(m)]_vars
<1> SUFFICES ASSUME Base, Once, [Next]_vars, spent.late = 0, NEW m \in Messages, m \in store.seen
             PROVE Count(m)' = Count(m)
  OBVIOUS
<1>1. CASE UNCHANGED reported
  BY <1>1 DEF Count
<1>2. ASSUME NEW r \in Messages, Flush(r) PROVE Count(m)' = Count(m)
  <2>1. Exists /\ r \in t.pending /\ reported' = Append(reported, r) /\ reported \in Seq(Messages)
    BY <1>2 DEF Flush, Base
  <2>2. r # m
    BY <2>1 DEF Once, OnceOf, Noted
  <2> QED
    BY <2>1, <2>2, CountMore
<1>3. CASE UNCHANGED vars
  BY <1>1, <1>3 DEF vars
<1>4. ASSUME NEW r \in Messages, Message(r) PROVE UNCHANGED reported
  BY <1>4 DEF Message, MessageIn
<1>5. ASSUME NEW c, CloseWaits(c) \/ CloseEnds(c) PROVE UNCHANGED reported
  BY <1>5 DEF CloseWaits, CloseEnds
<1>6. ASSUME NEW ok \in BOOLEAN, WriteEnds(ok) PROVE UNCHANGED reported
  BY <1>6 DEF WriteEnds
<1>7. CASE StartEvents \/ Loaded \/ Replaced \/ Initialized \/ Open \/ Fails \/ Failed
  BY <1>1, <1>7 DEF StartEvents, Loaded, Replaced, Initialized, Open, Fails, Failed
<1>8. CASE Credential \/ Connects \/ Drops \/ Registered \/ RegisterFails
  BY <1>1, <1>8 DEF Credential, Connects, Drops, Registered, RegisterFails
<1>9. CASE Shutdown \/ Flushes \/ ShutdownEnds \/ Crash
  BY <1>1, <1>9 DEF Shutdown, Flushes, ShutdownEnds, Crash
<1> QED
  BY <1>1, <1>2, <1>3, <1>4, <1>5, <1>6, <1>7, <1>8, <1>9 DEF Next

(* NoReplay: a message whose key has reached the store is not reported       *)
(* again, before or after a crash (client.ts:171, event-transport.ts:26-34). *)
THEOREM StoredNotReplayed == Spec => NoReplay
<1>1. Base /\ Once /\ [Next]_vars =>
         [spent.late = 0 => \A m \in Messages : m \in store.seen => Count(m)' = Count(m)]_vars
  BY ReportsKnown
<1> QED
  BY <1>1, BaseHolds, OnceHolds, PTL DEF Spec, NoReplay

LEMMA StoreKeeps ==
    Base /\ Order /\ [Next]_vars =>
       [Exists /\ NoneBehind /\ spent.late = 0 => t.seen \cap store.seen \subseteq store'.seen]_vars
<1> SUFFICES ASSUME Base, Order, [Next]_vars, Exists, NoneBehind, spent.late = 0,
                    NEW m \in t.seen, m \in store.seen
             PROVE m \in store'.seen
  OBVIOUS
<1>1. ASSUME NEW ok \in BOOLEAN, WriteEnds(ok) PROVE m \in store'.seen
  <2>1. ChainOK /\ Ordered /\ saves \in Seq(Waiting)
    BY DEF Base, Order, ChainOK
  <2>2. PICK g \in DOMAIN Chains :
           /\ Chains[g] # <<>> /\ store' = IF ok THEN Chains[g][1].state ELSE store
    BY <1>1, <2>1, WriteFacts
  <2>3. g = Number
    BY <2>1, <2>2, ChainsOf DEF NoneBehind
  <2>4. saves # <<>> /\ store' = (IF ok THEN saves[1].state ELSE store) /\ 1 \in DOMAIN saves
    BY <2>1, <2>2, <2>3, ChainsOf, FirstOf
  <2> QED
    BY <2>1, <2>4 DEF Ordered, Behind
<1>2. CASE UNCHANGED store
  BY <1>2
<1>3. CASE UNCHANGED chain
  BY <1>2, <1>3 DEF chain
<1>4. ASSUME NEW tr, NEW by, Persist(tr, by) PROVE UNCHANGED store
  BY <1>4 DEF Persist, chain
<1>5. CASE UNCHANGED vars
  BY <1>3, <1>5 DEF vars
<1>6. ASSUME NEW r \in Messages, Message(r) \/ Flush(r) PROVE UNCHANGED store
  BY <1>4, <1>6 DEF Message, MessageIn, Flush
<1>7. ASSUME NEW c, CloseWaits(c) \/ CloseEnds(c) PROVE UNCHANGED chain
  BY <1>7 DEF CloseWaits, CloseEnds
<1>8. CASE StartEvents \/ Replaced \/ Initialized \/ Open \/ Failed \/ Drops
  BY <1>2, <1>3, <1>8 DEF StartEvents, Replaced, Initialized, Open, Failed, Drops
<1>9. CASE Loaded \/ Fails \/ Shutdown
  BY <1>2, <1>3, <1>4, <1>9 DEF Loaded, Fails, Shutdown, Close
<1>10. CASE Credential \/ Connects
  BY <1>2, <1>4, <1>10 DEF Credential, Connects
<1>11. CASE Registered \/ RegisterFails \/ Flushes \/ ShutdownEnds
  BY <1>3, <1>11 DEF Registered, RegisterFails, Flushes, ShutdownEnds
<1>12. CASE Crash
  BY <1>2, <1>12 DEF Crash
<1> QED
  BY <1>1, <1>2, <1>3, <1>5, <1>6, <1>7, <1>8, <1>9, <1>10, <1>11, <1>12 DEF Next

(* SavedInOrder: the writes of a session never take back a key that the      *)
(* store has and the transport knows, also when writes fail                  *)
(* (event-transport.ts:73-84).                                              *)
THEOREM SavesInOrder == Spec => SavedInOrder
<1>1. Base /\ Order /\ [Next]_vars =>
         [Exists /\ NoneBehind /\ spent.late = 0 => t.seen \cap store.seen \subseteq store'.seen]_vars
  BY StoreKeeps
<1> QED
  BY <1>1, BaseHolds, OrderHolds, PTL DEF Spec, SavedInOrder

-----------------------------------------------------------------------------
(* Detections: a key that was reported is not reported again until it is    *)
(* forgotten. What was reported is either forgotten or has a place in the   *)
(* memory (Recalled). Behind that place stand only keys that were reported  *)
(* since (Placed), so that a key is only dropped from a full memory after   *)
(* more than SeenLimit others. And what waits has no key that was reported  *)
(* before it began to wait, unless it is forgotten (Waits).                 *)
(*                                                                          *)
(* A filter of the code is the sequence of the picked places in their       *)
(* order; the lemmas on Picked are for any sequence.                        *)

(* What a filter keeps.                                                     *)

LEMMA LeastOf ==
    ASSUME NEW T \in SUBSET Nat, T # {}
    PROVE  \E x \in T : \A y \in T : x <= y
<1>1. PICK x \in T : \A y \in T : ~(<<y, x>> \in OpToRel(<, Nat))
  BY NatLessThanWellFounded, WFMin
<1>2. ASSUME NEW y \in T PROVE x <= y
  <2>1. ~(<<y, x>> \in OpToRel(<, Nat))
    BY <1>1, <1>2
  <2>0. x \in Nat /\ y \in Nat
    BY <1>1, <1>2
  <2>2. <<y, x>> \in Nat \X Nat
    BY <2>0
  <2>3. ~(y < x)
    <3>1. <<y, x>>[1] = y /\ <<y, x>>[2] = x
      OBVIOUS
    <3>2. SUFFICES ASSUME y < x PROVE FALSE
      OBVIOUS
    <3>3. <<y, x>>[1] < <<y, x>>[2]
      BY <3>1, <3>2
    <3> QED BY <2>1, <2>2, <3>3 DEF OpToRel
  <2> QED BY <2>0, <2>3
<1> QED BY <1>2

(* The rank of a place among the places.                                    *)
Rank(places, i) == Cardinality({j \in places : j <= i})

LEMMA RankIs ==
    ASSUME NEW n \in Nat, NEW T \in SUBSET (1..n)
    PROVE  /\ IsFiniteSet(T) /\ Cardinality(T) \in 0..n
           /\ \A i \in T : Rank(T, i) \in 1..Cardinality(T)
           /\ \A i \in T : \A j \in T : i < j => Rank(T, i) < Rank(T, j)
<1>0. IsFiniteSet(1..n) /\ Cardinality(1..n) = n
  BY FS_Interval
<1>1. IsFiniteSet(T) /\ Cardinality(T) \in Nat /\ Cardinality(T) <= n
  BY <1>0, FS_Subset, FS_CardinalityType
<1>2. ASSUME NEW i \in T
      PROVE  /\ IsFiniteSet({j \in T : j <= i}) /\ Rank(T, i) \in Nat
             /\ Rank(T, i) <= Cardinality(T) /\ Rank(T, i) # 0
  <2>1. {j \in T : j <= i} \in SUBSET T /\ i \in {j \in T : j <= i}
    BY <1>2
  <2>2. IsFiniteSet({j \in T : j <= i}) /\ Rank(T, i) <= Cardinality(T)
    BY <1>1, <2>1, FS_Subset DEF Rank
  <2>3. Rank(T, i) \in Nat /\ Rank(T, i) # 0
    BY <2>1, <2>2, FS_CardinalityType, FS_EmptySet DEF Rank
  <2> QED BY <2>2, <2>3
<1>3. ASSUME NEW i \in T, NEW j \in T, i < j PROVE Rank(T, i) < Rank(T, j)
  <2>1. {k \in T : k <= i} \in SUBSET {k \in T : k <= j}
    <3>1. \A k \in T : k <= i => k <= j
      BY <1>3
    <3> QED BY <3>1
  <2>2. j \in {k \in T : k <= j} /\ j \notin {k \in T : k <= i}
    BY <1>3
  <2>3. IsFiniteSet({k \in T : k <= j}) /\ Rank(T, i) \in Nat /\ Rank(T, j) \in Nat
    BY <1>2
  <2>4. Rank(T, i) <= Rank(T, j) /\ Rank(T, i) # Rank(T, j)
    BY <2>1, <2>2, <2>3, FS_Subset DEF Rank
  <2> QED BY <2>3, <2>4
<1>4. ASSUME NEW i \in T PROVE Rank(T, i) \in 1..Cardinality(T)
  <2>1. Rank(T, i) \in Nat /\ Rank(T, i) <= Cardinality(T) /\ Rank(T, i) # 0
    BY <1>2, <1>4
  <2> QED BY <1>1, <2>1
<1> QED BY <1>1, <1>3, <1>4

(* Every rank is the rank of one place.                                     *)
LEMMA RankedIs ==
    ASSUME NEW n \in Nat, NEW T \in SUBSET (1..n), NEW k \in 1..Cardinality(T)
    PROVE  \E i \in T : Rank(T, i) = k
<1>0. IsFiniteSet(T) /\ Cardinality(T) \in Nat /\ \A i \in T : Rank(T, i) \in 1..Cardinality(T)
  BY RankIs
<1> DEFINE Missing == {m \in 1..Cardinality(T) : \A i \in T : Rank(T, i) # m}
<1>1. SUFFICES ASSUME Missing # {} PROVE FALSE
  OBVIOUS
<1>2. Missing \in SUBSET Nat
  BY <1>0
<1>3. PICK m \in Missing : \A y \in Missing : m <= y
  <2> HIDE DEF Missing
  <2> QED BY <1>1, <1>2, LeastOf
<1>4. m \in 1..Cardinality(T) /\ \A i \in T : Rank(T, i) # m
  BY <1>3
(* The places of smaller rank are one less than m.                          *)
<1>5. \E S \in SUBSET T : /\ Cardinality(S) = m - 1
                          /\ \A i \in S : \A j \in T : j <= i => j \in S
  <2>1. CASE m = 1
    BY <2>1, FS_EmptySet
  <2>2. CASE m # 1
    <3>1. m - 1 \in 1..Cardinality(T) /\ m - 1 < m
      BY <1>0, <1>4, <2>2
    <3>2. m - 1 \notin Missing
      <4> HIDE DEF Missing
      <4> QED BY <1>0, <1>3, <1>4, <3>1
    <3>3. PICK p \in T : Rank(T, p) = m - 1
      BY <3>1, <3>2
    <3>4. \A i \in {j \in T : j <= p} : \A j \in T : j <= i => j \in {x \in T : x <= p}
      OBVIOUS
    <3> QED BY <3>3, <3>4 DEF Rank
  <2> QED BY <2>1, <2>2
<1>6. PICK S \in SUBSET T : /\ Cardinality(S) = m - 1
                            /\ \A i \in S : \A j \in T : j <= i => j \in S
  BY <1>5
<1>7. T \ S # {} /\ T \ S \in SUBSET Nat
  <2>1. S # T
    BY <1>0, <1>4, <1>6
  <2>2. S \in SUBSET T /\ T \in SUBSET Nat
    BY <1>6
  <2>3. (\A x \in T : x \in S) => S = T
    BY <2>2
  <2> QED BY <2>1, <2>2, <2>3
<1>8. PICK i \in T \ S : \A j \in T \ S : i <= j
  BY <1>7, LeastOf
<1>9. {j \in T : j <= i} = S \cup {i}
  <2>1. ASSUME NEW j \in T, j <= i PROVE j \in S \cup {i}
    BY <1>8, <2>1
  <2>2. ASSUME NEW j \in S PROVE j <= i
    <3>1. j \in T /\ i \in T /\ i \notin S /\ j \in Nat /\ i \in Nat
      BY <1>8
    <3> QED BY <1>6, <3>1
  <2> QED BY <1>8, <2>1, <2>2
<1>10. IsFiniteSet(S) /\ Cardinality(S \cup {i}) = Cardinality(S) + 1
  <2>1. IsFiniteSet(S)
    BY <1>0, FS_Subset
  <2> QED BY <1>8, <2>1, FS_AddElement
<1> QED BY <1>4, <1>6, <1>8, <1>9, <1>10 DEF Rank

(* Where the elements of a filtered sequence were: in order, and all that   *)
(* were picked.                                                             *)
LEMMA PickedIs ==
    ASSUME NEW S, NEW s \in Seq(S), NEW T \in SUBSET DOMAIN s
    PROVE  /\ Picked(s, T) \in Seq(S) /\ Len(Picked(s, T)) <= Len(s)
           /\ \E at \in [DOMAIN Picked(s, T) -> T] :
                 /\ \A k \in DOMAIN Picked(s, T) : Picked(s, T)[k] = s[at[k]]
                 /\ \A k \in DOMAIN Picked(s, T) : \A l \in DOMAIN Picked(s, T) : k < l => at[k] < at[l]
                 /\ \A i \in T : \E k \in DOMAIN Picked(s, T) : at[k] = i
<1>0. Len(s) \in Nat /\ DOMAIN s = 1..Len(s) /\ T \in SUBSET (1..Len(s))
  OBVIOUS
<1>1. /\ Cardinality(T) \in 0..Len(s)
      /\ \A i \in T : Rank(T, i) \in 1..Cardinality(T)
      /\ \A i \in T : \A j \in T : i < j => Rank(T, i) < Rank(T, j)
  BY <1>0, RankIs
<1> DEFINE at == [k \in 1..Cardinality(T) |-> CHOOSE i \in T : Rank(T, i) = k]
           p == Picked(s, T)
<1>2. ASSUME NEW k \in 1..Cardinality(T) PROVE at[k] \in T /\ Rank(T, at[k]) = k
  <2>1. \E i \in T : Rank(T, i) = k
    BY <1>0, RankedIs
  <2> QED BY <2>1
<1>3. p = [k \in 1..Cardinality(T) |-> s[at[k]]]
  BY DEF Picked, Rank
<1> HIDE DEF at
<1>4. p \in Seq(S) /\ Len(p) = Cardinality(T) /\ DOMAIN p = 1..Cardinality(T)
  <2>1. \A k \in 1..Cardinality(T) : s[at[k]] \in S
    BY <1>0, <1>2
  <2> HIDE DEF p
  <2> QED BY <1>1, <1>3, <2>1
<1>5. at \in [DOMAIN p -> T]
  <2>1. at = [k \in 1..Cardinality(T) |-> at[k]]
    BY DEF at
  <2> HIDE DEF p
  <2> QED BY <1>2, <1>4, <2>1
<1>6. \A k \in DOMAIN p : p[k] = s[at[k]]
  <2> HIDE DEF p
  <2> QED BY <1>3, <1>4
<1>7. ASSUME NEW k \in DOMAIN p, NEW l \in DOMAIN p, k < l PROVE at[k] < at[l]
  <2> HIDE DEF p
  <2>1. at[k] \in T /\ at[l] \in T /\ Rank(T, at[k]) = k /\ Rank(T, at[l]) = l
    BY <1>2, <1>4, <1>7
  <2>2. at[k] \in Nat /\ at[l] \in Nat /\ k \in Nat /\ l \in Nat
    BY <1>0, <1>1, <1>4, <1>7, <2>1
  <2>3. at[l] < at[k] => l < k
    BY <1>1, <2>1
  <2> QED BY <1>7, <2>1, <2>2, <2>3
<1>8. ASSUME NEW i \in T PROVE \E k \in DOMAIN p : at[k] = i
  <2> HIDE DEF p
  <2> DEFINE k == Rank(T, i)
  <2>1. k \in 1..Cardinality(T) /\ at[k] \in T /\ Rank(T, at[k]) = k
    BY <1>1, <1>2, <1>8
  <2>2. i < at[k] => k < k
    BY <1>1, <1>8, <2>1
  <2>3. at[k] < i => k < k
    BY <1>1, <1>8, <2>1
  <2>4. i \in Nat /\ at[k] \in Nat /\ k \in Nat
    BY <1>0, <1>1, <1>8, <2>1
  <2> HIDE DEF k
  <2>5. at[k] = i
    BY <2>2, <2>3, <2>4
  <2> QED BY <1>4, <2>1, <2>5
<1> HIDE DEF p
<1>9. \E a \in [DOMAIN p -> T] :
         /\ \A k \in DOMAIN p : p[k] = s[a[k]]
         /\ \A k \in DOMAIN p : \A l \in DOMAIN p : k < l => a[k] < a[l]
         /\ \A i \in T : \E k \in DOMAIN p : a[k] = i
  BY <1>5, <1>6, <1>7, <1>8
<1>10. p \in Seq(S) /\ Len(p) <= Len(s)
  BY <1>1, <1>4
<1> QED BY <1>9, <1>10 DEF p

-----------------------------------------------------------------------------
(* The keys, the pending detections and the memory.                         *)

Keyed == {Key(m) : m \in Pushes}
Formats == {m.transport : m \in Pushes}
Memories == [key : Keyed, until : Int]
Unique(s) == \A a \in DOMAIN s : \A b \in DOMAIN s : s[a] = s[b] => a = b
Distinct(s) == \A a \in DOMAIN s : \A b \in DOMAIN s : s[a].key = s[b].key => a = b

LEMMA JoinedIs ==
    ASSUME NEW S, NEW a \in Seq(S), NEW b \in Seq(S)
    PROVE  /\ a \o b \in Seq(S) /\ Len(a \o b) = Len(a) + Len(b)
           /\ DOMAIN (a \o b) = 1..(Len(a) + Len(b))
           /\ \A q \in DOMAIN (a \o b) :
                 (a \o b)[q] = IF q <= Len(a) THEN a[q] ELSE b[q - Len(a)]
<1>1. a \o b \in Seq(S) /\ Len(a \o b) = Len(a) + Len(b) /\ DOMAIN (a \o b) = 1..(Len(a) + Len(b))
  OBVIOUS
<1>2. \A q \in 1..(Len(a) + Len(b)) :
         (a \o b)[q] = IF q <= Len(a) THEN a[q] ELSE b[q - Len(a)]
  OBVIOUS
<1> QED BY <1>1, <1>2

(* The memory in the order its keys were first set, with the new ones last. *)
LEMMA RememberedIs ==
    ASSUME NEW kept \in Seq(Memories), Distinct(kept),
           NEW ids \in Seq(Keyed), Unique(ids), now \in Nat, Keep \in Nat
    PROVE  /\ Remembered(kept, ids) \in Seq(Memories) /\ Distinct(Remembered(kept, ids))
           /\ Len(kept) <= Len(Remembered(kept, ids))
           /\ \A q \in DOMAIN kept :
                 /\ Remembered(kept, ids)[q].key = kept[q].key
                 /\ Remembered(kept, ids)[q].until \in {kept[q].until, now + Keep}
                 /\ kept[q].key \in ToSet(ids) => Remembered(kept, ids)[q].until = now + Keep
           /\ \A q \in DOMAIN Remembered(kept, ids) : q \notin DOMAIN kept =>
                 /\ Remembered(kept, ids)[q].key \in ToSet(ids)
                 /\ Remembered(kept, ids)[q].until = now + Keep
           /\ \A key \in ToSet(ids) : \E q \in DOMAIN Remembered(kept, ids) :
                 /\ Remembered(kept, ids)[q].key = key
                 /\ Remembered(kept, ids)[q].until = now + Keep
<1> DEFINE T == {i \in DOMAIN ids : \A e \in ToSet(kept) : e.key # ids[i]}
           again == [i \in DOMAIN kept |->
                        IF kept[i].key \in ToSet(ids) THEN [kept[i] EXCEPT !.until = now + Keep]
                        ELSE kept[i]]
           new == Picked(ids, T)
           app == [i \in DOMAIN new |-> [key |-> new[i], until |-> now + Keep]]
           r == again \o app
           n == Len(kept)
<1>0. Remembered(kept, ids) = r
  BY DEF Remembered
<1>1. n \in Nat /\ DOMAIN kept = 1..n /\ \A i \in 1..n : kept[i] \in Memories
  OBVIOUS
<1>2. now + Keep \in Int
  OBVIOUS
<1>3. /\ again \in Seq(Memories) /\ Len(again) = n
      /\ \A i \in 1..n : /\ again[i].key = kept[i].key
                         /\ again[i].until = IF kept[i].key \in ToSet(ids) THEN now + Keep
                                             ELSE kept[i].until
  <2>1. ASSUME NEW i \in 1..n
        PROVE  /\ again[i] \in Memories /\ again[i].key = kept[i].key
               /\ again[i].until = IF kept[i].key \in ToSet(ids) THEN now + Keep
                                             ELSE kept[i].until
    <3>1. kept[i] \in Memories
      BY <1>1, <2>1
    <3>2. again[i] = IF kept[i].key \in ToSet(ids) THEN [kept[i] EXCEPT !.until = now + Keep]
                     ELSE kept[i]
      BY <1>1, <2>1
    <3> HIDE DEF again
    <3>3. CASE kept[i].key \in ToSet(ids)
      BY <1>2, <3>1, <3>2, <3>3 DEF Memories
    <3>4. CASE kept[i].key \notin ToSet(ids)
      BY <3>1, <3>2, <3>4
    <3> QED BY <3>3, <3>4
  <2>2. again = [i \in 1..n |-> again[i]]
    BY <1>1
  <2> HIDE DEF again
  <2> QED BY <1>1, <2>1, <2>2
<1>4. /\ new \in Seq(Keyed)
      /\ \E at \in [DOMAIN new -> T] :
            /\ \A k \in DOMAIN new : new[k] = ids[at[k]]
            /\ \A k \in DOMAIN new : \A l \in DOMAIN new : k < l => at[k] < at[l]
            /\ \A i \in T : \E k \in DOMAIN new : at[k] = i
  <2>1. T \in SUBSET DOMAIN ids
    OBVIOUS
  <2> HIDE DEF T
  <2>2. /\ Picked(ids, T) \in Seq(Keyed) /\ Len(Picked(ids, T)) <= Len(ids)
        /\ \E at \in [DOMAIN Picked(ids, T) -> T] :
              /\ \A k \in DOMAIN Picked(ids, T) : Picked(ids, T)[k] = ids[at[k]]
              /\ \A k \in DOMAIN Picked(ids, T) : \A l \in DOMAIN Picked(ids, T) :
                    k < l => at[k] < at[l]
              /\ \A i \in T : \E k \in DOMAIN Picked(ids, T) : at[k] = i
    BY <2>1, PickedIs
  <2> QED BY <2>2
<1>5. PICK at \in [DOMAIN new -> T] :
            /\ \A k \in DOMAIN new : new[k] = ids[at[k]]
            /\ \A k \in DOMAIN new : \A l \in DOMAIN new : k < l => at[k] < at[l]
            /\ \A i \in T : \E k \in DOMAIN new : at[k] = i
  BY <1>4
<1>6. /\ app \in Seq(Memories) /\ Len(app) = Len(new) /\ DOMAIN app = DOMAIN new
      /\ \A k \in DOMAIN new : app[k].key = new[k] /\ app[k].until = now + Keep
  <2>1. Len(new) \in Nat /\ DOMAIN new = 1..Len(new)
    BY <1>4
  <2>2. \A k \in 1..Len(new) : new[k] \in Keyed
    BY <1>4
  <2> HIDE DEF new
  <2>3. \A k \in 1..Len(new) : [key |-> new[k], until |-> now + Keep] \in Memories
    BY <1>2, <2>2 DEF Memories
  <2> QED BY <2>1, <2>3
<1>7. /\ r \in Seq(Memories) /\ Len(r) = n + Len(new) /\ DOMAIN r = 1..(n + Len(new))
      /\ \A q \in DOMAIN r : r[q] = IF q <= n THEN again[q] ELSE app[q - n]
  <2> HIDE DEF again, app, new
  <2>1. again \in Seq(Memories) /\ app \in Seq(Memories)
    BY <1>3, <1>6
  <2>2. /\ r \in Seq(Memories) /\ Len(r) = Len(again) + Len(app)
        /\ DOMAIN r = 1..(Len(again) + Len(app))
        /\ \A q \in DOMAIN r : r[q] = IF q <= Len(again) THEN again[q] ELSE app[q - Len(again)]
    BY <2>1, JoinedIs
  <2>3. Len(again) = n /\ Len(app) = Len(new)
    BY <1>3, <1>6
  <2> HIDE DEF r, n
  <2> QED BY <2>2, <2>3
<1>8. Len(new) \in Nat /\ DOMAIN new = 1..Len(new)
  BY <1>4
<1>9. \A k \in DOMAIN new : /\ new[k] \in ToSet(ids)
                           /\ \A i \in 1..n : kept[i].key # new[k]
  <2>1. ASSUME NEW k \in DOMAIN new
        PROVE  new[k] \in ToSet(ids) /\ \A i \in 1..n : kept[i].key # new[k]
    <3>1. at[k] \in T /\ new[k] = ids[at[k]]
      BY <1>5, <2>1
    <3> HIDE DEF new
    <3>2. at[k] \in DOMAIN ids /\ \A e \in ToSet(kept) : e.key # new[k]
      BY <3>1
    <3> QED BY <1>1, <3>1, <3>2 DEF ToSet
  <2> QED BY <2>1
<1>10. \A k \in DOMAIN new : \A l \in DOMAIN new : new[k] = new[l] => k = l
  <2>1. ASSUME NEW k \in DOMAIN new, NEW l \in DOMAIN new, new[k] = new[l] PROVE k = l
    <3>1. at[k] = at[l]
      <4>1. at[k] \in T /\ at[l] \in T /\ new[k] = ids[at[k]] /\ new[l] = ids[at[l]]
        BY <1>5, <2>1
      <4> HIDE DEF new
      <4> QED BY <2>1, <4>1 DEF Unique
    <3>2. k \in Nat /\ l \in Nat /\ at[k] \in Nat
      <4>1. at[k] \in DOMAIN ids
        BY <1>5, <2>1
      <4> QED BY <1>8, <2>1, <4>1
    <3>3. k < l => at[k] < at[l]
      BY <1>5, <2>1
    <3>4. l < k => at[l] < at[k]
      BY <1>5, <2>1
    <3> HIDE DEF new
    <3> QED BY <3>1, <3>2, <3>3, <3>4
  <2> QED BY <2>1
<1> HIDE DEF again, app, new, r, T
<1>11. \A q \in DOMAIN kept :
          /\ q \in DOMAIN r /\ r[q].key = kept[q].key
          /\ r[q].until \in {kept[q].until, now + Keep}
          /\ kept[q].key \in ToSet(ids) => r[q].until = now + Keep
  BY <1>1, <1>3, <1>7, <1>8, SMTT(30)
<1>12. ASSUME NEW q \in DOMAIN r, q \notin DOMAIN kept
       PROVE  /\ q - n \in DOMAIN new /\ r[q] = app[q - n] /\ r[q].key = new[q - n]
              /\ r[q].key \in ToSet(ids) /\ r[q].until = now + Keep
  <2>1. q - n \in DOMAIN new /\ r[q] = app[q - n]
    BY <1>1, <1>7, <1>8, <1>12
  <2> QED BY <1>6, <1>9, <2>1
<1>13. ASSUME NEW key \in ToSet(ids)
       PROVE  \E q \in DOMAIN r : r[q].key = key /\ r[q].until = now + Keep
  <2>1. CASE \E i \in 1..n : kept[i].key = key
    <3>1. PICK i \in 1..n : kept[i].key = key
      BY <2>1
    <3> QED BY <1>1, <1>11, <1>13, <3>1
  <2>2. CASE \A i \in 1..n : kept[i].key # key
    <3>1. PICK x \in DOMAIN ids : key = ids[x]
      BY <1>13 DEF ToSet
    <3>2. x \in T
      BY <1>1, <2>2, <3>1 DEF T, ToSet
    <3>3. PICK k \in DOMAIN new : at[k] = x
      BY <1>5, <3>2
    <3>4. new[k] = key
      BY <1>5, <3>1, <3>3
    <3>5. n + k \in DOMAIN r /\ ~(n + k <= n) /\ (n + k) - n = k
      BY <1>1, <1>7, <1>8, <3>3
    <3>6. r[n + k] = app[k]
      BY <1>7, <3>5
    <3> QED BY <1>6, <3>3, <3>4, <3>5, <3>6
  <2> QED BY <2>1, <2>2
<1>14. Distinct(r)
  <2>1. SUFFICES ASSUME NEW a \in DOMAIN r, NEW b \in DOMAIN r, r[a].key = r[b].key
                 PROVE  a = b
    BY DEF Distinct
  <2>2. CASE a \in DOMAIN kept /\ b \in DOMAIN kept
    BY <1>11, <2>1, <2>2 DEF Distinct
  <2>3. CASE a \in DOMAIN kept /\ b \notin DOMAIN kept
    <3>1. b - n \in DOMAIN new /\ r[b].key = new[b - n]
      BY <1>12, <2>1, <2>3
    <3> QED BY <1>1, <1>9, <1>11, <2>1, <2>3, <3>1
  <2>4. CASE a \notin DOMAIN kept /\ b \in DOMAIN kept
    <3>1. a - n \in DOMAIN new /\ r[a].key = new[a - n]
      BY <1>12, <2>1, <2>4
    <3> QED BY <1>1, <1>9, <1>11, <2>1, <2>4, <3>1
  <2>5. CASE a \notin DOMAIN kept /\ b \notin DOMAIN kept
    <3>1. a - n \in DOMAIN new /\ r[a].key = new[a - n]
      BY <1>12, <2>1, <2>5
    <3>2. b - n \in DOMAIN new /\ r[b].key = new[b - n]
      BY <1>12, <2>1, <2>5
    <3>3. a - n = b - n
      BY <1>10, <2>1, <3>1, <3>2
    <3> QED BY <1>1, <1>7, <1>8, <2>1, <3>3
  <2> QED BY <2>2, <2>3, <2>4, <2>5
<1>15. n <= Len(r)
  BY <1>1, <1>7, <1>8
<1> QED BY <1>0, <1>7, <1>11, <1>12, <1>13, <1>14, <1>15

(* A sequence of some elements of another one, at these places of it.       *)
Taking(new, old, at) ==
    /\ at \in [DOMAIN new -> DOMAIN old]
    /\ \A k \in DOMAIN new : new[k] = old[at[k]]
    /\ \A k \in DOMAIN new : \A l \in DOMAIN new : k < l => at[k] < at[l]

LEMMA LiveIs ==
    ASSUME NEW kept \in Seq(Memories), now \in Nat
    PROVE  /\ Live(kept) \in Seq(Memories) /\ Len(Live(kept)) <= Len(kept)
           /\ \E at : /\ Taking(Live(kept), kept, at)
                     /\ \A i \in DOMAIN kept : kept[i].until > now =>
                           \E k \in DOMAIN Live(kept) : at[k] = i
<1> DEFINE T == {i \in DOMAIN kept : kept[i].until > now}
<1>1. T \in SUBSET DOMAIN kept /\ Live(kept) = Picked(kept, T)
  BY DEF Live
<1>2. \A i \in DOMAIN kept : kept[i].until > now => i \in T
  OBVIOUS
<1> HIDE DEF T
<1>3. /\ Picked(kept, T) \in Seq(Memories) /\ Len(Picked(kept, T)) <= Len(kept)
      /\ \E at \in [DOMAIN Picked(kept, T) -> T] :
            /\ \A k \in DOMAIN Picked(kept, T) : Picked(kept, T)[k] = kept[at[k]]
            /\ \A k \in DOMAIN Picked(kept, T) : \A l \in DOMAIN Picked(kept, T) :
                  k < l => at[k] < at[l]
            /\ \A i \in T : \E k \in DOMAIN Picked(kept, T) : at[k] = i
  BY <1>1, PickedIs
<1>4. PICK at \in [DOMAIN Live(kept) -> T] :
            /\ \A k \in DOMAIN Live(kept) : Live(kept)[k] = kept[at[k]]
            /\ \A k \in DOMAIN Live(kept) : \A l \in DOMAIN Live(kept) :
                  k < l => at[k] < at[l]
            /\ \A i \in T : \E k \in DOMAIN Live(kept) : at[k] = i
  BY <1>1, <1>3
<1>5. at \in [DOMAIN Live(kept) -> DOMAIN kept]
  BY <1>1, <1>4
<1>6. Taking(Live(kept), kept, at)
  BY <1>4, <1>5 DEF Taking
<1>7. \A i \in DOMAIN kept : kept[i].until > now => \E k \in DOMAIN Live(kept) : at[k] = i
  BY <1>2, <1>4
<1> QED BY <1>1, <1>3, <1>6, <1>7

(* The newest elements; what is dropped is behind SeenLimit others.         *)
LEMMA NewestIs ==
    ASSUME NEW kept \in Seq(Memories), SeenLimit \in Nat \ {0}
    PROVE  /\ Newest(kept) \in Seq(Memories) /\ Len(Newest(kept)) <= SeenLimit
           /\ Len(kept) <= SeenLimit => Newest(kept) = kept
           /\ \E at : /\ Taking(Newest(kept), kept, at)
                     /\ \A i \in DOMAIN kept :
                           \/ \E k \in DOMAIN Newest(kept) : at[k] = i
                           \/ i + SeenLimit <= Len(kept)
<1>0. Len(kept) \in Nat /\ DOMAIN kept = 1..Len(kept)
  OBVIOUS
<1>1. CASE ~(Len(kept) > SeenLimit)
  <2>1. Newest(kept) = kept
    BY <1>1 DEF Newest
  <2> DEFINE at == [k \in DOMAIN kept |-> k]
  <2>2. Taking(kept, kept, at)
    BY DEF Taking
  <2>3. \A i \in DOMAIN kept : at[i] = i
    OBVIOUS
  <2> HIDE DEF at
  <2> QED BY <1>0, <1>1, <2>1, <2>2, <2>3
<1>2. CASE Len(kept) > SeenLimit
  <2> DEFINE d == Len(kept) - SeenLimit
             n == SubSeq(kept, d + 1, Len(kept))
             at == [k \in 1..SeenLimit |-> d + k]
  <2>1. Newest(kept) = n
    BY <1>2 DEF Newest
  <2>2. d \in Nat /\ Len(kept) = d + SeenLimit
    BY <1>0, <1>2
  <2> HIDE DEF d
  <2>3. n \in Seq(Memories) /\ Len(n) = SeenLimit /\ DOMAIN n = 1..SeenLimit
    BY <1>0, <2>2
  <2>4. \A k \in 1..SeenLimit : n[k] = kept[d + k] /\ d + k \in 1..Len(kept)
    BY <1>0, <2>2
  <2> HIDE DEF n
  <2>5. Taking(n, kept, at)
    <3>1. at \in [1..SeenLimit -> 1..Len(kept)] /\ \A k \in 1..SeenLimit : at[k] = d + k
      BY <2>4
    <3>2. \A k \in 1..SeenLimit : \A l \in 1..SeenLimit : k < l => d + k < d + l
      BY <2>2
    <3> HIDE DEF at
    <3> QED BY <1>0, <2>3, <2>4, <3>1, <3>2 DEF Taking
  <2>6. ASSUME NEW i \in 1..Len(kept), ~(i + SeenLimit <= Len(kept))
        PROVE  \E k \in 1..SeenLimit : at[k] = i
    <3>1. i - d \in 1..SeenLimit /\ d + (i - d) = i
      BY <1>0, <2>2, <2>6
    <3>2. at[i - d] = d + (i - d)
      BY <3>1
    <3> QED BY <3>1, <3>2
  <2> HIDE DEF at
  <2>7. \E a : /\ Taking(n, kept, a)
               /\ \A i \in DOMAIN kept :
                     (\E k \in DOMAIN n : a[k] = i) \/ i + SeenLimit <= Len(kept)
    BY <1>0, <2>3, <2>5, <2>6
  <2>8. ~(Len(kept) <= SeenLimit)
    BY <1>0, <1>2
  <2>9. Len(n) <= SeenLimit
    BY <2>3
  <2> QED BY <2>1, <2>3, <2>7, <2>8, <2>9
<1> QED BY <1>1, <1>2

LEMMA TakingDistinct ==
    ASSUME NEW old \in Seq(Memories), NEW new \in Seq(Memories), NEW at, Taking(new, old, at),
           Distinct(old)
    PROVE  Distinct(new)
<1>1. SUFFICES ASSUME NEW a \in DOMAIN new, NEW b \in DOMAIN new, new[a].key = new[b].key
               PROVE  a = b
  BY DEF Distinct
<1>2. at[a] = at[b]
  BY <1>1 DEF Taking, Distinct
<1>3. a \in Nat /\ b \in Nat /\ at[a] \in Nat
  BY <1>1 DEF Taking
<1>4. (a < b => at[a] < at[b]) /\ (b < a => at[b] < at[a])
  BY <1>1 DEF Taking
<1> QED BY <1>2, <1>3, <1>4

(* What a detection that waits or was reported is.                          *)
FormatsFit(p) ==
    \E format \in [Ids(p) -> p.transports] :
        \A key \in Ids(p) :
            /\ \E m \in Pushes : Keys(m) = <<key>> /\ m.transport = format[key]
            /\ \A k \in Ids(p) : format[k] = format[key] => k = key
EventOK(event) ==
    /\ event \in Events
    /\ event.name # Nothing => event.type = "person" /\ event.recognition = "known"
Entries ==
    {p \in [after : Nat, event : Events, ids : Seq(Keyed), transports : SUBSET Formats, due : Int] :
        /\ EventOK(p.event) /\ Unique(p.ids) /\ FormatsFit(p)
        /\ p.event.source = "device" => p.ids = <<>> /\ p.transports = {}}
Deliveries == [entry : Entries, when : Nat]

(* The keys reported from one report on.                                    *)
KeysFrom(rep, h) == UNION {Ids(rep[x].entry) : x \in h..Len(rep)}

(* A remembered key, and all that were set after it, were reported in or    *)
(* after a report that is younger than n.                                   *)
Placed(s, q, rep, n) ==
    \E h \in (n + 1)..Len(rep) :
        /\ s[q].key \in Ids(rep[h].entry)
        /\ \A x \in DOMAIN s : x >= q => s[x].key \in KeysFrom(rep, h)
(* A key that report i had may be reported again at this time.                 *)
Forgotten(rep, time, i, key) ==
    \/ time - rep[i].when >= Keep
    \/ \E h \in (rep[i].entry.after + 1)..i :
          key \in Ids(rep[h].entry) /\ Cardinality(KeysFrom(rep, h)) > SeenLimit

LEMMA EntryIs ==
    ASSUME NEW p \in Entries
    PROVE  /\ p.after \in Nat /\ p.ids \in Seq(Keyed) /\ Unique(p.ids) /\ Ids(p) \in SUBSET Keyed
           /\ EventOK(p.event) /\ FormatsFit(p) /\ p.transports \in SUBSET Formats /\ p.due \in Int
           /\ p.event \in Events
           /\ p.event.source = "device" => p.ids = <<>> /\ p.transports = {}
<1>1. p.ids \in Seq(Keyed)
  BY DEF Entries
<1>2. Ids(p) \in SUBSET Keyed
  BY <1>1 DEF Ids, ToSet
<1> QED BY <1>1, <1>2 DEF Entries

LEMMA IdsFinite ==
    ASSUME NEW p \in Entries
    PROVE  IsFiniteSet(Ids(p))
<1>1. p.ids \in Seq(Keyed)
  BY EntryIs
<1> DEFINE f == [i \in DOMAIN p.ids |-> p.ids[i]]
<1>2. f \in Surjection(DOMAIN p.ids, Ids(p))
  BY DEF Surjection, Ids, ToSet
<1>3. IsFiniteSet(DOMAIN p.ids)
  <2>1. DOMAIN p.ids = 1..Len(p.ids) /\ Len(p.ids) \in Nat
    BY <1>1
  <2> QED BY <2>1, FS_Interval
<1> QED BY <1>2, <1>3, FS_Surjection

LEMMA DeliveryIs ==
    ASSUME NEW rep \in Seq(Deliveries), NEW x \in DOMAIN rep
    PROVE  /\ rep[x] \in Deliveries /\ rep[x].entry \in Entries /\ rep[x].when \in Nat
           /\ rep[x].entry.after \in Nat /\ IsFiniteSet(Ids(rep[x].entry)) /\ x \in Nat \ {0}
<1>1. rep[x] \in Deliveries /\ x \in Nat \ {0}
  OBVIOUS
<1>2. rep[x].entry \in Entries /\ rep[x].when \in Nat
  BY <1>1 DEF Deliveries
<1> QED BY <1>1, <1>2, EntryIs, IdsFinite

LEMMA KeysFromIs ==
    ASSUME NEW rep \in Seq(Deliveries), NEW h \in DOMAIN rep
    PROVE  /\ IsFiniteSet(KeysFrom(rep, h)) /\ Cardinality(KeysFrom(rep, h)) \in Nat
           /\ \A x \in h..Len(rep) : Ids(rep[x].entry) \subseteq KeysFrom(rep, h)
           /\ \A g \in h..Len(rep) : KeysFrom(rep, g) \subseteq KeysFrom(rep, h)
<1> DEFINE D == h..Len(rep)
           f == [x \in D |-> Ids(rep[x].entry)]
           R == {Ids(rep[x].entry) : x \in D}
<1>0. h \in Nat \ {0} /\ Len(rep) \in Nat /\ h <= Len(rep) /\ DOMAIN rep = 1..Len(rep)
  OBVIOUS
<1>1. D \subseteq DOMAIN rep
  BY <1>0
<1>2. IsFiniteSet(D)
  BY <1>0, FS_Interval
<1>3. f \in Surjection(D, R)
  BY DEF Surjection
<1>4. IsFiniteSet(R)
  <2> HIDE DEF D, f, R
  <2> QED BY <1>2, <1>3, FS_Surjection
<1>5. \A T \in R : IsFiniteSet(T)
  <2> HIDE DEF D
  <2> QED BY <1>1, DeliveryIs
<1>6. KeysFrom(rep, h) = UNION R
  BY DEF KeysFrom
<1>7. IsFiniteSet(KeysFrom(rep, h))
  <2> HIDE DEF R
  <2> QED BY <1>4, <1>5, <1>6, FS_UNION
<1>8. \A x \in D : Ids(rep[x].entry) \subseteq KeysFrom(rep, h)
  BY <1>6
<1>9. ASSUME NEW g \in D PROVE KeysFrom(rep, g) \subseteq KeysFrom(rep, h)
  <2>1. \A x \in g..Len(rep) : x \in D
    BY <1>0, <1>9
  <2> QED BY <1>6, <2>1 DEF KeysFrom
<1> QED BY <1>7, <1>8, <1>9, FS_CardinalityType

(* A report more.                                                           *)
LEMMA KeysFromGrows ==
    ASSUME NEW rep \in Seq(Deliveries), NEW r \in Deliveries
    PROVE  /\ Append(rep, r) \in Seq(Deliveries) /\ Len(Append(rep, r)) = Len(rep) + 1
           /\ DOMAIN Append(rep, r) = 1..(Len(rep) + 1)
           /\ \A x \in DOMAIN rep : Append(rep, r)[x] = rep[x]
           /\ Append(rep, r)[Len(rep) + 1] = r
           /\ \A h \in DOMAIN rep : /\ KeysFrom(rep, h) \subseteq KeysFrom(Append(rep, r), h)
                                  /\ Cardinality(KeysFrom(rep, h)) <= Cardinality(KeysFrom(Append(rep, r), h))
           /\ \A h \in 1..(Len(rep) + 1) : Ids(r.entry) \subseteq KeysFrom(Append(rep, r), h)
<1> DEFINE new == Append(rep, r)
           n == Len(rep)
<1>1. /\ new \in Seq(Deliveries) /\ Len(new) = n + 1 /\ n \in Nat /\ DOMAIN rep = 1..n
      /\ DOMAIN new = 1..(n + 1) /\ \A x \in 1..n : new[x] = rep[x]
      /\ new[n + 1] = r
  OBVIOUS
<1> HIDE DEF new, n
<1>2. ASSUME NEW h \in 1..n PROVE KeysFrom(rep, h) \subseteq KeysFrom(new, h)
  <2>1. \A x \in h..n : x \in h..(n + 1) /\ new[x] = rep[x]
    BY <1>1, <1>2
  <2>2. KeysFrom(rep, h) = UNION {Ids(rep[x].entry) : x \in h..n}
    BY DEF KeysFrom, n
  <2>3. KeysFrom(new, h) = UNION {Ids(new[x].entry) : x \in h..(n + 1)}
    BY <1>1 DEF KeysFrom
  <2> QED BY <2>1, <2>2, <2>3
<1>3. \A h \in 1..n : Cardinality(KeysFrom(rep, h)) <= Cardinality(KeysFrom(new, h))
  <2>1. ASSUME NEW h \in 1..n PROVE Cardinality(KeysFrom(rep, h)) <= Cardinality(KeysFrom(new, h))
    <3>1. h \in DOMAIN new
      BY <1>1, <2>1
    <3>2. IsFiniteSet(KeysFrom(new, h))
      BY <1>1, <3>1, KeysFromIs
    <3>3. KeysFrom(rep, h) \in SUBSET KeysFrom(new, h)
      BY <1>2, <2>1
    <3> QED BY <3>2, <3>3, FS_Subset
  <2> QED BY <2>1
<1>4. ASSUME NEW h \in 1..(n + 1) PROVE Ids(r.entry) \subseteq KeysFrom(new, h)
  <2>1. n + 1 \in h..Len(new) /\ h \in DOMAIN new
    BY <1>1, <1>4
  <2>2. Ids(new[n + 1].entry) \subseteq KeysFrom(new, h)
    BY <1>1, <2>1, KeysFromIs
  <2> QED BY <1>1, <2>2
<1> QED BY <1>1, <1>2, <1>3, <1>4 DEF new, n

LEMMA ForgottenGrows ==
    ASSUME NEW rep \in Seq(Deliveries), NEW r \in Deliveries, NEW time \in Nat, Keep \in Nat,
           SeenLimit \in Nat, NEW i \in DOMAIN rep, NEW key, Forgotten(rep, time, i, key)
    PROVE  /\ Forgotten(Append(rep, r), time, i, key)
           /\ Forgotten(rep, time + 1, i, key)
<1>1. rep[i].when \in Nat /\ rep[i].entry.after \in Nat /\ i \in Nat
  BY DeliveryIs
<1>2. time - rep[i].when >= Keep => (time + 1) - rep[i].when >= Keep
  BY <1>1
<1>3. Forgotten(rep, time + 1, i, key)
  BY <1>2 DEF Forgotten
<1> DEFINE new == Append(rep, r)
<1>4. /\ new \in Seq(Deliveries) /\ new[i] = rep[i]
      /\ \A x \in DOMAIN rep : new[x] = rep[x]
      /\ \A h \in DOMAIN rep : Cardinality(KeysFrom(rep, h)) <= Cardinality(KeysFrom(new, h))
      /\ DOMAIN rep \subseteq DOMAIN new
  <2> HIDE DEF new
  <2>1. DOMAIN rep = 1..Len(rep) /\ DOMAIN new = 1..(Len(rep) + 1) /\ Len(rep) \in Nat
    BY KeysFromGrows DEF new
  <2>2. DOMAIN rep \subseteq DOMAIN new
    BY <2>1
  <2> QED BY <2>2, KeysFromGrows DEF new
<1> HIDE DEF new
<1>5. ASSUME NEW h \in (rep[i].entry.after + 1)..i, key \in Ids(rep[h].entry),
             Cardinality(KeysFrom(rep, h)) > SeenLimit
      PROVE  key \in Ids(new[h].entry) /\ Cardinality(KeysFrom(new, h)) > SeenLimit
  <2>1. h \in DOMAIN rep
    <3>1. h \in Nat /\ h >= 1 /\ h <= i
      BY <1>1, <1>5
    <3>2. i <= Len(rep) /\ DOMAIN rep = 1..Len(rep) /\ Len(rep) \in Nat
      OBVIOUS
    <3> QED BY <1>1, <3>1, <3>2
  <2>2. h \in DOMAIN new
    BY <1>4, <2>1
  <2>3. Cardinality(KeysFrom(rep, h)) \in Nat /\ Cardinality(KeysFrom(new, h)) \in Nat
    BY <1>4, <2>1, <2>2, KeysFromIs
  <2>4. Cardinality(KeysFrom(rep, h)) <= Cardinality(KeysFrom(new, h)) /\ new[h] = rep[h]
    BY <1>4, <2>1
  <2> QED BY <1>5, <2>3, <2>4
<1>6. Forgotten(new, time, i, key)
  BY <1>4, <1>5 DEF Forgotten
<1> QED BY <1>3, <1>6 DEF new

(* What was reported is remembered or may be reported again; what waits has *)
(* no key that is still remembered from before it began to wait.            *)
Recalls(s, rep, time, i, key) ==
    \/ Forgotten(rep, time, i, key)
    \/ \E q \in DOMAIN s : /\ s[q].key = key /\ s[q].until >= rep[i].when + Keep
                           /\ Placed(s, q, rep, rep[i].entry.after)
Recalled(s, rep, time) ==
    \A i \in DOMAIN rep :
        /\ rep[i].entry.after < i /\ rep[i].when <= time
        /\ \A key \in Ids(rep[i].entry) : Recalls(s, rep, time, i, key)
Waits(p, s, rep, time) ==
    /\ p.after <= Len(rep)
    /\ \A key \in Ids(p) :
          /\ \A i \in 1..p.after : key \in Ids(rep[i].entry) => Forgotten(rep, time, i, key)
          /\ \A q \in DOMAIN s : s[q].key = key => Placed(s, q, rep, p.after)

LEMMA PlacedTaken ==
    ASSUME NEW old \in Seq(Memories), NEW new \in Seq(Memories), NEW at, Taking(new, old, at),
           NEW rep, NEW n, NEW q \in DOMAIN new, Placed(old, at[q], rep, n)
    PROVE  Placed(new, q, rep, n)
<1>1. PICK h \in (n + 1)..Len(rep) :
        /\ old[at[q]].key \in Ids(rep[h].entry)
        /\ \A x \in DOMAIN old : x >= at[q] => old[x].key \in KeysFrom(rep, h)
  BY DEF Placed
<1>2. new[q].key \in Ids(rep[h].entry)
  BY <1>1 DEF Taking
<1>3. ASSUME NEW x \in DOMAIN new, x >= q PROVE new[x].key \in KeysFrom(rep, h)
  <2>1. at[x] \in DOMAIN old /\ at[q] \in DOMAIN old /\ new[x] = old[at[x]]
    BY <1>3 DEF Taking
  <2>2. q < x => at[q] < at[x]
    BY <1>3 DEF Taking
  <2>3. q \in Nat /\ x \in Nat /\ at[x] \in Nat /\ at[q] \in Nat
    BY <1>3, <2>1
  <2>4. at[x] >= at[q]
    BY <1>3, <2>2, <2>3
  <2> QED BY <1>1, <2>1, <2>4
<1> QED BY <1>1, <1>2, <1>3 DEF Placed

(* The keys of a memory taken from another are no more.                     *)
LEMMA WaitsTaken ==
    ASSUME NEW old \in Seq(Memories), NEW new \in Seq(Memories), NEW at, Taking(new, old, at),
           NEW rep, NEW time, NEW p, Waits(p, old, rep, time)
    PROVE  Waits(p, new, rep, time)
<1>1. ASSUME NEW key \in Ids(p), NEW q \in DOMAIN new, new[q].key = key
      PROVE  Placed(new, q, rep, p.after)
  <2>1. at[q] \in DOMAIN old /\ old[at[q]].key = key
    BY <1>1 DEF Taking
  <2>2. Placed(old, at[q], rep, p.after)
    BY <1>1, <2>1 DEF Waits
  <2> QED BY <2>2, PlacedTaken
<1> QED BY <1>1 DEF Waits

(* What has expired may be dropped.                                         *)
LEMMA RecalledLive ==
    ASSUME NEW s \in Seq(Memories), NEW rep \in Seq(Deliveries), Recalled(s, rep, now),
           now \in Nat, Keep \in Nat
    PROVE  Recalled(Live(s), rep, now)
<1>1. PICK at : /\ Taking(Live(s), s, at)
                /\ \A i \in DOMAIN s : s[i].until > now => \E k \in DOMAIN Live(s) : at[k] = i
  BY LiveIs
<1>2. Live(s) \in Seq(Memories)
  BY LiveIs
<1>3. ASSUME NEW i \in DOMAIN rep, NEW key \in Ids(rep[i].entry) PROVE Recalls(Live(s), rep, now, i, key)
  <2>1. CASE Forgotten(rep, now, i, key)
    BY <2>1 DEF Recalls
  <2>2. CASE ~Forgotten(rep, now, i, key)
    <3>1. PICK q \in DOMAIN s : /\ s[q].key = key /\ s[q].until >= rep[i].when + Keep
                               /\ Placed(s, q, rep, rep[i].entry.after)
      BY <1>3, <2>2 DEF Recalled, Recalls
    <3>2. s[q].until > now
      <4>0. s[q] \in Memories
        BY <3>1
      <4>1. s[q].until \in Int
        BY <4>0 DEF Memories
      <4>2. rep[i].when \in Nat
        BY <1>3, DeliveryIs
      <4>3. ~(now - rep[i].when >= Keep)
        BY <2>2 DEF Forgotten
      <4> QED BY <3>1, <4>1, <4>2, <4>3
    <3>3. PICK k \in DOMAIN Live(s) : at[k] = q
      BY <1>1, <3>1, <3>2
    <3>4. Live(s)[k] = s[q]
      BY <1>1, <3>3 DEF Taking
    <3>5. Placed(Live(s), k, rep, rep[i].entry.after)
      BY <1>1, <1>2, <3>1, <3>3, PlacedTaken
    <3> QED BY <3>1, <3>3, <3>4, <3>5 DEF Recalls
  <2> QED BY <2>1, <2>2
<1> QED BY <1>3 DEF Recalled

(* Distinct keys behind a place are as many as the places.                  *)
LEMMA KeysBehind ==
    ASSUME NEW s \in Seq(Memories), Distinct(s), NEW q \in DOMAIN s,
           NEW T, IsFiniteSet(T), \A x \in DOMAIN s : x >= q => s[x].key \in T
    PROVE  Len(s) - q + 1 <= Cardinality(T)
<1> DEFINE D == q..Len(s)
           f == [x \in D |-> s[x].key]
<1>0. q \in Nat \ {0} /\ Len(s) \in Nat /\ q <= Len(s) /\ DOMAIN s = 1..Len(s)
  OBVIOUS
<1>1. D \subseteq DOMAIN s /\ \A x \in D : x >= q
  BY <1>0
<1>2. f \in [D -> T]
  <2> HIDE DEF D
  <2> QED BY <1>1
<1>3. \A x \in D : \A y \in D : f[x] = f[y] => x = y
  <2> HIDE DEF D
  <2> QED BY <1>1 DEF Distinct
<1>4. f \in Injection(D, T)
  <2> HIDE DEF D, f
  <2>1. DOMAIN f = D
    BY <1>2
  <2> QED BY <1>2, <1>3, <2>1 DEF Injection, IsInjective
<1>5. Cardinality(D) <= Cardinality(T)
  <2> HIDE DEF D, f
  <2> QED BY <1>4, FS_Injection
<1>6. Cardinality(D) = Len(s) - q + 1
  BY <1>0, FS_Interval
<1> QED BY <1>5, <1>6

(* What is dropped because the memory is full may be reported again.        *)
LEMMA RecalledNewest ==
    ASSUME NEW s \in Seq(Memories), Distinct(s), NEW rep \in Seq(Deliveries), NEW time,
           Recalled(s, rep, time), SeenLimit \in Nat \ {0}
    PROVE  Recalled(Newest(s), rep, time)
<1>1. PICK at : /\ Taking(Newest(s), s, at)
                /\ \A i \in DOMAIN s : \/ \E k \in DOMAIN Newest(s) : at[k] = i
                                      \/ i + SeenLimit <= Len(s)
  BY NewestIs
<1>2. Newest(s) \in Seq(Memories)
  BY NewestIs
<1>3. ASSUME NEW i \in DOMAIN rep, NEW key \in Ids(rep[i].entry) PROVE Recalls(Newest(s), rep, time, i, key)
  <2>1. CASE Forgotten(rep, time, i, key)
    BY <2>1 DEF Recalls
  <2>2. CASE ~Forgotten(rep, time, i, key)
    <3>1. PICK q \in DOMAIN s : /\ s[q].key = key /\ s[q].until >= rep[i].when + Keep
                               /\ Placed(s, q, rep, rep[i].entry.after)
      BY <1>3, <2>2 DEF Recalled, Recalls
    <3>2. CASE \E k \in DOMAIN Newest(s) : at[k] = q
      <4>1. PICK k \in DOMAIN Newest(s) : at[k] = q
        BY <3>2
      <4>2. Newest(s)[k] = s[q]
        BY <1>1, <4>1 DEF Taking
      <4>3. Placed(Newest(s), k, rep, rep[i].entry.after)
        BY <1>1, <1>2, <3>1, <4>1, PlacedTaken
      <4> QED BY <3>1, <4>1, <4>2, <4>3 DEF Recalls
    <3>3. CASE q + SeenLimit <= Len(s)
      <4>1. PICK h \in (rep[i].entry.after + 1)..Len(rep) :
              /\ s[q].key \in Ids(rep[h].entry)
              /\ \A x \in DOMAIN s : x >= q => s[x].key \in KeysFrom(rep, h)
        BY <3>1 DEF Placed
      <4>2. rep[i].entry.after \in Nat /\ i \in Nat /\ Len(rep) \in Nat /\ DOMAIN rep = 1..Len(rep)
        BY <1>3, DeliveryIs
      <4>3. h \in Nat /\ h >= 1 /\ h <= Len(rep) /\ h >= rep[i].entry.after + 1
        BY <4>1, <4>2
      <4>4. h \in DOMAIN rep
        BY <4>2, <4>3
      <4>5. Len(s) - q + 1 <= Cardinality(KeysFrom(rep, h))
        BY <4>1, <4>4, KeysBehind, KeysFromIs
      <4>6. Cardinality(KeysFrom(rep, h)) > SeenLimit
        <5>1. Cardinality(KeysFrom(rep, h)) \in Nat /\ Len(s) \in Nat /\ q \in Nat
          BY <4>4, KeysFromIs
        <5> QED BY <3>3, <4>5, <5>1
      <4>7. CASE h <= i
        <5>1. h \in (rep[i].entry.after + 1)..i
          BY <4>2, <4>3, <4>7
        <5> QED BY <3>1, <4>1, <4>6, <5>1, <2>2 DEF Forgotten
      <4>8. CASE ~(h <= i)
        <5>1. h \in i..Len(rep)
          BY <4>2, <4>3, <4>8
        <5>2. KeysFrom(rep, h) \in SUBSET KeysFrom(rep, i) /\ IsFiniteSet(KeysFrom(rep, i))
          BY <5>1, <1>3, KeysFromIs
        <5>3. Cardinality(KeysFrom(rep, h)) <= Cardinality(KeysFrom(rep, i))
          BY <5>2, FS_Subset
        <5>4. Cardinality(KeysFrom(rep, h)) \in Nat /\ Cardinality(KeysFrom(rep, i)) \in Nat
          BY <4>4, <1>3, KeysFromIs
        <5>5. Cardinality(KeysFrom(rep, i)) > SeenLimit
          BY <4>6, <5>3, <5>4
        <5>6. rep[i].entry.after < i
          BY <1>3 DEF Recalled
        <5>7. i \in (rep[i].entry.after + 1)..i
          BY <4>2, <5>6
        <5> QED BY <1>3, <2>2, <5>5, <5>7 DEF Forgotten
      <4> QED BY <4>7, <4>8
    <3> QED BY <1>1, <3>1, <3>2, <3>3
  <2> QED BY <2>1, <2>2
<1> QED BY <1>3 DEF Recalled

(* A report more.                                                           *)
LEMMA PlacedGrows ==
    ASSUME NEW kept \in Seq(Memories), Distinct(kept), now \in Nat, Keep \in Nat,
           NEW rep \in Seq(Deliveries), NEW r \in Deliveries, NEW n \in Nat
    PROVE  /\ \A q \in DOMAIN kept :
                 Placed(kept, q, rep, n) => Placed(Remembered(kept, r.entry.ids), q, Append(rep, r), n)
           /\ n <= Len(rep) =>
                 \A q \in DOMAIN Remembered(kept, r.entry.ids) : q \notin DOMAIN kept =>
                     Placed(Remembered(kept, r.entry.ids), q, Append(rep, r), n)
<1> DEFINE m == Remembered(kept, r.entry.ids)
           new == Append(rep, r)
<1>1. r.entry \in Entries
  BY DEF Deliveries
<1>2. r.entry.ids \in Seq(Keyed) /\ Unique(r.entry.ids) /\ Ids(r.entry) = ToSet(r.entry.ids)
  BY <1>1, EntryIs DEF Ids
<1>3. /\ m \in Seq(Memories) /\ Len(kept) <= Len(m)
      /\ \A q \in DOMAIN kept : m[q].key = kept[q].key
      /\ \A q \in DOMAIN m : q \notin DOMAIN kept => m[q].key \in Ids(r.entry)
  BY <1>2, RememberedIs
<1>4. /\ Len(new) = Len(rep) + 1 /\ Len(rep) \in Nat /\ DOMAIN rep = 1..Len(rep)
      /\ \A x \in DOMAIN rep : new[x] = rep[x]
      /\ new[Len(rep) + 1] = r
      /\ \A h \in DOMAIN rep : KeysFrom(rep, h) \subseteq KeysFrom(new, h)
      /\ \A h \in 1..(Len(rep) + 1) : Ids(r.entry) \subseteq KeysFrom(new, h)
  BY KeysFromGrows
<1> HIDE DEF m, new
<1>5. ASSUME NEW q \in DOMAIN kept, Placed(kept, q, rep, n) PROVE Placed(m, q, new, n)
  <2>1. PICK h \in (n + 1)..Len(rep) :
          /\ kept[q].key \in Ids(rep[h].entry)
          /\ \A x \in DOMAIN kept : x >= q => kept[x].key \in KeysFrom(rep, h)
    BY <1>5 DEF Placed
  <2>2. h \in DOMAIN rep /\ h \in 1..(Len(rep) + 1) /\ h \in (n + 1)..Len(new)
    BY <1>4, <2>1
  <2>3. m[q].key \in Ids(new[h].entry)
    BY <1>3, <1>4, <1>5, <2>1, <2>2
  <2>4. ASSUME NEW x \in DOMAIN m, x >= q PROVE m[x].key \in KeysFrom(new, h)
    <3>1. CASE x \in DOMAIN kept
      BY <1>3, <1>4, <2>1, <2>2, <2>4, <3>1
    <3>2. CASE x \notin DOMAIN kept
      BY <1>3, <1>4, <2>2, <2>4, <3>2
    <3> QED BY <3>1, <3>2
  <2> QED BY <2>2, <2>3, <2>4 DEF Placed
<1>6. ASSUME n <= Len(rep), NEW q \in DOMAIN m, q \notin DOMAIN kept PROVE Placed(m, q, new, n)
  <2> DEFINE h == Len(rep) + 1
  <2>1. h \in (n + 1)..Len(new) /\ h \in 1..(Len(rep) + 1)
    BY <1>4, <1>6
  <2>2. m[q].key \in Ids(new[h].entry)
    BY <1>3, <1>4, <1>6
  <2>3. ASSUME NEW x \in DOMAIN m, x >= q PROVE m[x].key \in KeysFrom(new, h)
    <3>1. x \notin DOMAIN kept
      <4>1. DOMAIN kept = 1..Len(kept) /\ DOMAIN m = 1..Len(m) /\ Len(kept) \in Nat /\ Len(m) \in Nat
        BY <1>3
      <4> QED BY <1>6, <2>3, <4>1
    <3> QED BY <1>3, <1>4, <2>1, <2>3, <3>1
  <2> HIDE DEF h
  <2> QED BY <2>1, <2>2, <2>3 DEF Placed
<1> QED BY <1>5, <1>6 DEF m, new

(* One report more: what was remembered is remembered behind it, and its    *)
(* own keys are.                                                            *)
LEMMA ReportRecalled ==
    ASSUME NEW kept \in Seq(Memories), Distinct(kept), now \in Nat, Keep \in Nat,
           SeenLimit \in Nat, NEW rep \in Seq(Deliveries), NEW r \in Deliveries,
           r.when = now, Recalled(kept, rep, now), Waits(r.entry, kept, rep, now)
    PROVE  Recalled(Remembered(kept, r.entry.ids), Append(rep, r), now)
<1> DEFINE m == Remembered(kept, r.entry.ids)
           new == Append(rep, r)
<1>1. r.entry \in Entries /\ r.entry.after \in Nat /\ r.entry.after <= Len(rep)
  <2>1. r.entry \in Entries
    BY DEF Deliveries
  <2> QED BY <2>1, EntryIs DEF Waits
<1>2. r.entry.ids \in Seq(Keyed) /\ Unique(r.entry.ids) /\ Ids(r.entry) = ToSet(r.entry.ids)
  BY <1>1, EntryIs DEF Ids
<1>3. /\ m \in Seq(Memories) /\ Len(kept) <= Len(m)
      /\ \A q \in DOMAIN kept : m[q].key = kept[q].key /\ m[q].until \in {kept[q].until, now + Keep}
      /\ \A key \in Ids(r.entry) : \E q \in DOMAIN m : m[q].key = key /\ m[q].until = now + Keep
  BY <1>2, RememberedIs
<1>4. DOMAIN kept = 1..Len(kept) /\ DOMAIN m = 1..Len(m) /\ Len(kept) \in Nat /\ Len(m) \in Nat
  BY <1>3
<1>5. /\ Len(new) = Len(rep) + 1 /\ Len(rep) \in Nat /\ DOMAIN rep = 1..Len(rep)
      /\ DOMAIN new = 1..(Len(rep) + 1)
      /\ \A x \in DOMAIN rep : new[x] = rep[x]
      /\ new[Len(rep) + 1] = r
  BY KeysFromGrows
<1>6. \A k \in Nat : /\ \A q \in DOMAIN kept : Placed(kept, q, rep, k) => Placed(m, q, new, k)
                     /\ k <= Len(rep) => \A q \in DOMAIN m : q \notin DOMAIN kept => Placed(m, q, new, k)
  BY PlacedGrows
<1>7. \A i \in DOMAIN rep : \A key :
         Forgotten(rep, now, i, key) => Forgotten(new, now, i, key)
  BY ForgottenGrows
<1> HIDE DEF m, new
<1>8. ASSUME NEW i \in DOMAIN rep
      PROVE  /\ new[i].entry.after < i /\ new[i].when <= now
             /\ \A key \in Ids(new[i].entry) : Recalls(m, new, now, i, key)
  <2>1. new[i] = rep[i] /\ rep[i].entry.after < i /\ rep[i].when <= now
    BY <1>5, <1>8 DEF Recalled
  <2>2. ASSUME NEW key \in Ids(rep[i].entry) PROVE Recalls(m, new, now, i, key)
    <3>1. CASE Forgotten(rep, now, i, key)
      BY <1>7, <1>8, <3>1 DEF Recalls
    <3>2. CASE ~Forgotten(rep, now, i, key)
      <4>1. PICK q \in DOMAIN kept : /\ kept[q].key = key /\ kept[q].until >= rep[i].when + Keep
                                    /\ Placed(kept, q, rep, rep[i].entry.after)
        BY <1>8, <2>2, <3>2 DEF Recalled, Recalls
      <4>2. rep[i].entry.after \in Nat /\ rep[i].when \in Nat
        BY <1>8, DeliveryIs
      <4>3. Placed(m, q, new, new[i].entry.after)
        BY <1>6, <2>1, <4>1, <4>2
      <4>4. m[q].key = key /\ q \in DOMAIN m
        BY <1>3, <1>4, <4>1
      <4>5. m[q].until >= new[i].when + Keep
        <5>1. m[q].until \in {kept[q].until, now + Keep}
          BY <1>3, <4>1
        <5> QED BY <2>1, <4>1, <4>2, <5>1
      <4> QED BY <4>3, <4>4, <4>5 DEF Recalls
    <3> QED BY <3>1, <3>2
  <2> QED BY <2>1, <2>2
<1>9. ASSUME NEW i, i = Len(rep) + 1
      PROVE  /\ new[i].entry.after < i /\ new[i].when <= now
             /\ \A key \in Ids(new[i].entry) : Recalls(m, new, now, i, key)
  <2>1. new[i] = r /\ r.entry.after < i /\ r.when <= now
    BY <1>1, <1>5, <1>9
  <2>2. ASSUME NEW key \in Ids(r.entry) PROVE Recalls(m, new, now, i, key)
    <3>1. PICK q \in DOMAIN m : m[q].key = key /\ m[q].until = now + Keep
      BY <1>3, <2>2
    <3>2. Placed(m, q, new, r.entry.after)
      <4>1. CASE q \in DOMAIN kept
        <5>1. kept[q].key = key
          BY <1>3, <3>1, <4>1
        <5>2. Placed(kept, q, rep, r.entry.after)
          BY <2>2, <4>1, <5>1 DEF Waits
        <5> QED BY <1>1, <1>6, <4>1, <5>2
      <4>2. CASE q \notin DOMAIN kept
        BY <1>1, <1>6, <3>1, <4>2
      <4> QED BY <4>1, <4>2
    <3>3. m[q].until >= new[i].when + Keep
      BY <2>1, <3>1
    <3> QED BY <2>1, <3>1, <3>2, <3>3 DEF Recalls
  <2> QED BY <2>1, <2>2
<1>10. ASSUME NEW i \in DOMAIN new PROVE i \in DOMAIN rep \/ i = Len(rep) + 1
  BY <1>5, <1>10
<1>11. Recalled(m, new, now)
  BY <1>8, <1>9, <1>10 DEF Recalled
<1> QED BY <1>11 DEF m, new

LEMMA ReportWaits ==
    ASSUME NEW kept \in Seq(Memories), Distinct(kept), now \in Nat, Keep \in Nat,
           SeenLimit \in Nat, NEW rep \in Seq(Deliveries), NEW r \in Deliveries,
           NEW p \in Entries, Waits(p, kept, rep, now)
    PROVE  Waits(p, Remembered(kept, r.entry.ids), Append(rep, r), now)
<1> DEFINE m == Remembered(kept, r.entry.ids)
           new == Append(rep, r)
<1>0. r.entry \in Entries
  BY DEF Deliveries
<1>1. p.after \in Nat /\ p.after <= Len(rep)
  BY EntryIs DEF Waits
<1>2. r.entry.ids \in Seq(Keyed) /\ Unique(r.entry.ids)
  BY <1>0, EntryIs
<1>3. \A q \in DOMAIN kept : m[q].key = kept[q].key
  BY <1>2, RememberedIs
<1>4. /\ Len(new) = Len(rep) + 1 /\ Len(rep) \in Nat /\ DOMAIN rep = 1..Len(rep)
      /\ \A x \in DOMAIN rep : new[x] = rep[x]
  BY KeysFromGrows
<1>5. /\ \A q \in DOMAIN kept : Placed(kept, q, rep, p.after) => Placed(m, q, new, p.after)
      /\ \A q \in DOMAIN m : q \notin DOMAIN kept => Placed(m, q, new, p.after)
  BY <1>1, PlacedGrows
<1>6. \A i \in DOMAIN rep : \A key :
         Forgotten(rep, now, i, key) => Forgotten(new, now, i, key)
  BY ForgottenGrows
<1> HIDE DEF m, new
<1>7. ASSUME NEW key \in Ids(p), NEW i \in 1..p.after, key \in Ids(new[i].entry)
      PROVE  Forgotten(new, now, i, key)
  <2>1. i \in DOMAIN rep /\ new[i] = rep[i]
    BY <1>1, <1>4, <1>7
  <2> QED BY <1>6, <1>7, <2>1 DEF Waits
<1>8. ASSUME NEW key \in Ids(p), NEW q \in DOMAIN m, m[q].key = key
      PROVE  Placed(m, q, new, p.after)
  BY <1>3, <1>5, <1>8 DEF Waits
<1>9. Waits(p, m, new, now)
  BY <1>1, <1>4, <1>7, <1>8 DEF Waits
<1> QED BY <1>9 DEF m, new

(* NoRepeat of what was reported so far.                                    *)
Between(rep, h, j) == UNION {Ids(rep[x].entry) : x \in h..j}
Repeats(rep, i, j, key) ==
    \/ rep[j].when - rep[i].when >= Keep
    \/ \E h \in (rep[i].entry.after + 1)..i :
          /\ key \in Ids(rep[h].entry)
          /\ Cardinality(Between(rep, h, j - 1)) > SeenLimit
NoneRepeated(rep) ==
    \A i, j \in DOMAIN rep : \A key \in Ids(rep[i].entry) :
        key \in Ids(rep[j].entry) /\ i <= rep[j].entry.after => Repeats(rep, i, j, key)

LEMMA NoneRepeatedIs == NoneRepeated(delivered) <=> NoRepeat
BY DEF NoneRepeated, NoRepeat, Repeats, Between, KeysOf

LEMMA ReportRepeats ==
    ASSUME NEW kept, now \in Nat, NEW rep \in Seq(Deliveries), NEW r \in Deliveries,
           r.when = now, Recalled(kept, rep, now), Waits(r.entry, kept, rep, now),
           NoneRepeated(rep)
    PROVE  NoneRepeated(Append(rep, r))
<1> DEFINE new == Append(rep, r)
           n == Len(rep)
<1>1. /\ n \in Nat /\ DOMAIN rep = 1..n /\ DOMAIN new = 1..(n + 1)
      /\ \A x \in DOMAIN rep : new[x] = rep[x]
      /\ new[n + 1] = r
  BY KeysFromGrows
<1>2. r.entry \in Entries /\ r.entry.after \in Nat /\ r.entry.after <= n
  <2>1. r.entry \in Entries
    BY DEF Deliveries
  <2> QED BY <2>1, EntryIs DEF Waits
<1> HIDE DEF new, n
<1>3. \A h : \A j \in 1..n : Between(new, h, j) = Between(rep, h, j)
             \/ ~(h \in Nat \ {0})
  <2>1. ASSUME NEW h \in Nat \ {0}, NEW j \in 1..n PROVE Between(new, h, j) = Between(rep, h, j)
    <3>1. \A x \in h..j : new[x] = rep[x]
      BY <1>1, <2>1
    <3> QED BY <3>1 DEF Between
  <2> QED BY <2>1
<1>4. SUFFICES ASSUME NEW i \in DOMAIN new, NEW j \in DOMAIN new, NEW key \in Ids(new[i].entry),
                      key \in Ids(new[j].entry), i <= new[j].entry.after
               PROVE  Repeats(new, i, j, key)
  BY DEF NoneRepeated, new
<1>5. CASE j \in DOMAIN rep
  <2>1. new[j] = rep[j] /\ rep[j].entry.after < j
    BY <1>1, <1>5 DEF Recalled
  <2>2. rep[j].entry.after \in Nat
    BY <1>5, DeliveryIs
  <2>3. i \in DOMAIN rep /\ new[i] = rep[i] /\ i < j
    BY <1>1, <1>4, <1>5, <2>1, <2>2
  <2>4. Repeats(rep, i, j, key)
    BY <1>4, <1>5, <2>1, <2>3 DEF NoneRepeated
  <2>5. rep[i].entry.after \in Nat
    BY <2>3, DeliveryIs
  <2>6. j - 1 \in 1..n
    BY <1>1, <1>5, <2>3
  <2>7. ASSUME NEW h \in (rep[i].entry.after + 1)..i, key \in Ids(rep[h].entry),
               Cardinality(Between(rep, h, j - 1)) > SeenLimit
        PROVE  key \in Ids(new[h].entry) /\ Cardinality(Between(new, h, j - 1)) > SeenLimit
    <3>1. h \in DOMAIN rep /\ h \in Nat \ {0}
      BY <1>1, <2>3, <2>5, <2>7
    <3> QED BY <1>1, <1>3, <2>6, <2>7, <3>1
  <2> QED BY <2>1, <2>3, <2>4, <2>7 DEF Repeats
<1>6. CASE j \notin DOMAIN rep
  <2>1. j = n + 1 /\ new[j] = r
    BY <1>1, <1>4, <1>6
  <2>2. i \in 1..r.entry.after /\ i \in DOMAIN rep /\ new[i] = rep[i]
    BY <1>1, <1>2, <1>4, <2>1
  <2>3. Forgotten(rep, now, i, key)
    BY <1>4, <2>1, <2>2 DEF Waits
  <2>4. rep[i].entry.after \in Nat /\ n \in 1..n /\ j - 1 = n
    BY <1>1, <2>1, <2>2, DeliveryIs
  <2>5. ASSUME NEW h \in (rep[i].entry.after + 1)..i, key \in Ids(rep[h].entry),
               Cardinality(KeysFrom(rep, h)) > SeenLimit
        PROVE  key \in Ids(new[h].entry) /\ Cardinality(Between(new, h, j - 1)) > SeenLimit
    <3>1. h \in DOMAIN rep /\ h \in Nat \ {0}
      BY <1>1, <2>2, <2>4, <2>5
    <3>2. Between(new, h, j - 1) = KeysFrom(rep, h)
      BY <1>3, <2>4, <3>1 DEF Between, KeysFrom, n
    <3> QED BY <1>1, <2>5, <3>1, <3>2
  <2> QED BY <2>1, <2>2, <2>3, <2>5 DEF Repeats, Forgotten
<1> QED BY <1>5, <1>6

(* What a message or a device event makes of a detection.                   *)
LEMMA KeysIs ==
    ASSUME NEW m \in Pushes
    PROVE  /\ Keys(m) \in Seq(Keyed) /\ Unique(Keys(m))
           /\ Keys(m) = <<>> \/ Keys(m) = <<Key(m)>>
           /\ Keys(m) = <<>> => ToSet(Keys(m)) = {}
           /\ Keys(m) = <<Key(m)>> => ToSet(Keys(m)) = {Key(m)}
<1>1. Keys(m) = <<>> \/ Keys(m) = <<Key(m)>>
  BY DEF Keys
<1>2. Key(m) \in Keyed
  BY DEF Keyed
<1>3. CASE Keys(m) = <<>>
  BY <1>3 DEF ToSet, Unique
<1>4. CASE Keys(m) = <<Key(m)>>
  <2> DEFINE k == Key(m)
             s == <<k>>
  <2> HIDE DEF k
  <2>1. s \in Seq({k}) /\ DOMAIN s = {1} /\ s[1] = k /\ Len(s) = 1
    OBVIOUS
  <2>2. ToSet(s) = {k}
    BY <2>1 DEF ToSet
  <2>3. Unique(s)
    BY <2>1 DEF Unique
  <2>4. s \in Seq(Keyed)
    BY <1>2, <2>1 DEF k
  <2>5. s # <<>>
    BY <2>1
  <2> QED BY <1>4, <2>2, <2>3, <2>4, <2>5 DEF k
<1> QED BY <1>1, <1>3, <1>4

LEMMA PushEventIs ==
    ASSUME NEW m \in Pushes, DetectionsAssumption
    PROVE  EventOK(PushEvent(m)) /\ PushEvent(m).source = "push"
<1> DEFINE e == PushEvent(m)
<1>1. /\ e.serial = m.serial /\ e.type = m.type /\ e.source = "push" /\ e.code = m.code
      /\ e.at = m.at /\ e.name = NameOf(m) /\ e.recognition = RecognitionOf(m)
  BY DEF PushEvent
<1>2. /\ m.serial \in Serials /\ m.type \in {x.type : x \in Pushes \cup Reports}
      /\ NameOf(m) \in {x.name : x \in Pushes \cup Reports} \cup {Nothing}
      /\ m.code \in {x.code : x \in Pushes} \cup {Nothing}
      /\ m.at \in {x.at : x \in Pushes} \cup {Nothing}
  BY DEF DetectionsAssumption, NameOf
<1>3. /\ RecognitionOf(m) \in {"known", "unknown", "unidentified", "not_applicable"}
      /\ NameOf(m) # Nothing => m.type = "person" /\ RecognitionOf(m) = "known"
  BY DEF RecognitionOf, NameOf
<1>4. e \in Events
  BY <1>2, <1>3 DEF PushEvent, Events
<1> HIDE DEF e
<1>5. EventOK(e)
  BY <1>1, <1>3, <1>4 DEF EventOK
<1> QED BY <1>1, <1>5 DEF e

LEMMA DeviceEventIs ==
    ASSUME NEW r \in Reports, DetectionsAssumption
    PROVE  /\ EventOK(DeviceEvent(r)) /\ DeviceEvent(r).source = "device"
           /\ DeviceEvent(r).type = r.type
           /\ DeviceEvent(r).name # Nothing => r.type = "person"
<1> DEFINE e == DeviceEvent(r)
           rec == CASE r.type # "person" -> "not_applicable"
                    [] r.type = "person" /\ r.name # Nothing -> "known"
                    [] r.type = "person" /\ r.name = Nothing /\ r.stranger -> "unknown"
                    [] OTHER -> "unidentified"
<1>1. /\ e.serial = r.serial /\ e.type = r.type /\ e.source = "device" /\ e.code = Nothing
      /\ e.at = Nothing /\ e.name = NameOf(r) /\ e.recognition = rec
  BY DEF DeviceEvent
<1>2. /\ r.serial \in Serials /\ r.type \in {x.type : x \in Pushes \cup Reports}
      /\ NameOf(r) \in {x.name : x \in Pushes \cup Reports} \cup {Nothing}
  BY DEF DetectionsAssumption, NameOf
<1>3. /\ rec \in {"known", "unknown", "unidentified", "not_applicable"}
      /\ NameOf(r) # Nothing => r.type = "person" /\ rec = "known"
  BY DEF NameOf
<1> HIDE DEF rec
<1>4. e \in Events
  BY <1>2, <1>3 DEF DeviceEvent, Events, rec
<1> HIDE DEF e
<1>5. EventOK(e)
  BY <1>1, <1>3, <1>4 DEF EventOK
<1> QED BY <1>1, <1>3, <1>5 DEF e

(* An event whose type, name and recognition are known better.              *)
LEMMA EventBetter ==
    ASSUME NEW e, EventOK(e), NEW old, EventOK(old), NEW at \in {m.at : m \in Pushes} \cup {Nothing}
    PROVE  /\ EventOK([e EXCEPT !.at = at])
           /\ EventOK([[e EXCEPT !.at = at] EXCEPT !.type = old.type, !.name = old.name,
                                                   !.recognition = old.recognition])
           /\ e.type = "person" /\ old.type = "person" =>
                 EventOK([[e EXCEPT !.at = at] EXCEPT !.name = old.name, !.recognition = "known"])
           /\ e.type = "person" /\ old.type = "person" =>
                 EventOK([e EXCEPT !.name = old.name, !.recognition = "known"])
           /\ EventOK([e EXCEPT !.type = old.type, !.name = old.name,
                               !.recognition = old.recognition])
<1>1. e \in Events /\ old \in Events
  BY DEF EventOK
<1>2. /\ e.name # Nothing => e.type = "person" /\ e.recognition = "known"
      /\ old.name # Nothing => old.type = "person" /\ old.recognition = "known"
  BY DEF EventOK
<1> DEFINE f == [e EXCEPT !.at = at]
           g == [f EXCEPT !.type = old.type, !.name = old.name, !.recognition = old.recognition]
           h == [f EXCEPT !.name = old.name, !.recognition = "known"]
           k == [e EXCEPT !.name = old.name, !.recognition = "known"]
           l == [e EXCEPT !.type = old.type, !.name = old.name, !.recognition = old.recognition]
<1>3. f \in Events /\ f.name = e.name /\ f.type = e.type /\ f.recognition = e.recognition
  BY <1>1 DEF Events
<1> HIDE DEF f
<1>4. g \in Events /\ g.name = old.name /\ g.type = old.type /\ g.recognition = old.recognition
  BY <1>1, <1>3 DEF Events
<1>5. h \in Events /\ h.name = old.name /\ h.type = e.type /\ h.recognition = "known"
  BY <1>1, <1>3 DEF Events
<1>6. k \in Events /\ k.name = old.name /\ k.type = e.type /\ k.recognition = "known"
  BY <1>1 DEF Events
<1>7. l \in Events /\ l.name = old.name /\ l.type = old.type /\ l.recognition = old.recognition
  BY <1>1 DEF Events
<1> HIDE DEF g, h, k, l
<1>8. EventOK(f) /\ EventOK(g) /\ EventOK(l)
  BY <1>2, <1>3, <1>4, <1>7 DEF EventOK
<1>9. e.type = "person" => EventOK(h) /\ EventOK(k)
  BY <1>2, <1>5, <1>6 DEF EventOK
<1> QED BY <1>8, <1>9 DEF f, g, h, k, l

LEMMA MergedIs ==
    ASSUME NEW m \in Pushes, DetectionsAssumption, NEW old, EventOK(old)
    PROVE  EventOK(Merged(m, old)) /\ Merged(m, old).source = "push"
<1> DEFINE e == PushEvent(m)
           at == IF m.at # Nothing THEN m.at ELSE old.at
           new == [e EXCEPT !.at = at]
<1>1. EventOK(e) /\ e.source = "push" /\ e.type = m.type
  BY PushEventIs DEF PushEvent
<1>2. at \in {x.at : x \in Pushes} \cup {Nothing}
  BY DEF EventOK, Events
<1>0. Merged(m, old) =
        CASE m.type = "notification" /\ old.type # "notification" ->
               [new EXCEPT !.type = old.type, !.name = old.name,
                           !.recognition = old.recognition]
          [] m.type = "person" /\ NameOf(m) = Nothing /\ old.type = "person" /\ old.name # Nothing ->
               [new EXCEPT !.name = old.name, !.recognition = "known"]
          [] OTHER -> new
  BY DEF Merged
<1> HIDE DEF e, at
<1>3. /\ EventOK(new)
      /\ EventOK([new EXCEPT !.type = old.type, !.name = old.name, !.recognition = old.recognition])
      /\ e.type = "person" /\ old.type = "person" =>
            EventOK([new EXCEPT !.name = old.name, !.recognition = "known"])
  BY <1>1, <1>2, EventBetter
<1>4. e \in Events
  BY <1>1 DEF EventOK
<1>5. new.source = "push" /\ new \in Events
  BY <1>1, <1>2, <1>4 DEF Events
<1> HIDE DEF new
<1>6. /\ [new EXCEPT !.type = old.type, !.name = old.name, !.recognition = old.recognition].source = "push"
      /\ [new EXCEPT !.name = old.name, !.recognition = "known"].source = "push"
  BY <1>5 DEF Events
<1>7. CASE m.type = "notification" /\ old.type # "notification"
  <2>1. Merged(m, old) = [new EXCEPT !.type = old.type, !.name = old.name, !.recognition = old.recognition]
    BY <1>0, <1>7
  <2> QED BY <1>3, <1>6, <2>1
<1>8. CASE m.type = "person" /\ NameOf(m) = Nothing /\ old.type = "person" /\ old.name # Nothing
  <2>1. Merged(m, old) = [new EXCEPT !.name = old.name, !.recognition = "known"]
    BY <1>0, <1>8
  <2> QED BY <1>1, <1>3, <1>6, <1>8, <2>1
<1>9. CASE /\ ~(m.type = "notification" /\ old.type # "notification")
           /\ ~(m.type = "person" /\ NameOf(m) = Nothing /\ old.type = "person" /\ old.name # Nothing)
  <2>1. Merged(m, old) = new
    BY <1>0, <1>9
  <2> QED BY <1>3, <1>5, <2>1
<1> QED BY <1>7, <1>8, <1>9

LEMMA EntryWith ==
    ASSUME NEW after \in Nat, NEW event, EventOK(event), NEW ids \in Seq(Keyed), Unique(ids),
           NEW transports \in SUBSET Formats, NEW due \in Int,
           event.source = "device" => ids = <<>> /\ transports = {},
           \E format \in [ToSet(ids) -> transports] :
               \A key \in ToSet(ids) :
                   /\ \E m \in Pushes : Keys(m) = <<key>> /\ m.transport = format[key]
                   /\ \A k \in ToSet(ids) : format[k] = format[key] => k = key
    PROVE  [after |-> after, event |-> event, ids |-> ids, transports |-> transports,
            due |-> due] \in Entries
<1> DEFINE p == [after |-> after, event |-> event, ids |-> ids, transports |-> transports,
                 due |-> due]
<1>1. /\ p.after = after /\ p.event = event /\ p.ids = ids /\ p.transports = transports
      /\ p.due = due
  OBVIOUS
<1>2. p \in [after : Nat, event : Events, ids : Seq(Keyed), transports : SUBSET Formats, due : Int]
  BY DEF EventOK
<1> HIDE DEF p
<1>3. Ids(p) = ToSet(ids)
  BY <1>1 DEF Ids
<1>4. FormatsFit(p)
  BY <1>1, <1>3 DEF FormatsFit
<1>5. p \in Entries
  BY <1>1, <1>2, <1>4 DEF Entries
<1> QED BY <1>5 DEF p

(* A new detection.                                                         *)
LEMMA EntryOfPush ==
    ASSUME NEW m \in Pushes, DetectionsAssumption, now \in Nat, delivered \in Seq(Deliveries)
    PROVE  Entry(PushEvent(m), Keys(m), {m.transport}) \in Entries
<1> DEFINE e == PushEvent(m)
           ids == Keys(m)
           formats == {m.transport}
<1>1. EventOK(e) /\ e.source = "push"
  BY PushEventIs
<1>2. /\ ids \in Seq(Keyed) /\ Unique(ids)
      /\ ids = <<>> => ToSet(ids) = {}
      /\ ids = <<>> \/ (ids = <<Key(m)>> /\ ToSet(ids) = {Key(m)})
  BY KeysIs
<1>3. formats \in SUBSET Formats
  BY DEF Formats
<1>4. Len(delivered) \in Nat /\ now + Settle \in Int
  BY DEF DetectionsAssumption
<1>5. \E format \in [ToSet(ids) -> formats] :
         \A key \in ToSet(ids) :
             /\ \E x \in Pushes : Keys(x) = <<key>> /\ x.transport = format[key]
             /\ \A k \in ToSet(ids) : format[k] = format[key] => k = key
  <2> DEFINE format == [key \in ToSet(ids) |-> m.transport]
  <2>1. format \in [ToSet(ids) -> formats]
    OBVIOUS
  <2>2. ASSUME NEW key \in ToSet(ids)
        PROVE  /\ Keys(m) = <<key>> /\ m.transport = format[key]
               /\ \A k \in ToSet(ids) : k = key
    BY <1>2, <2>2
  <2> HIDE DEF format
  <2> QED BY <2>1, <2>2
<1> HIDE DEF e, ids, formats
<1>6. [after |-> Len(delivered), event |-> e, ids |-> ids, transports |-> formats,
       due |-> now + Settle] \in Entries
  BY <1>1, <1>2, <1>3, <1>4, <1>5, EntryWith
<1> QED BY <1>6 DEF Entry, e, ids, formats

LEMMA EntryOfReport ==
    ASSUME NEW r \in Reports, DetectionsAssumption, now \in Nat, delivered \in Seq(Deliveries)
    PROVE  Entry(DeviceEvent(r), <<>>, {}) \in Entries
<1> DEFINE e == DeviceEvent(r)
           ids == <<>>
           formats == {}
<1>1. EventOK(e)
  BY DeviceEventIs
<1>2. ids \in Seq(Keyed) /\ Unique(ids) /\ ToSet(ids) = {}
  BY DEF Unique, ToSet
<1>3. formats \in SUBSET Formats
  OBVIOUS
<1>4. Len(delivered) \in Nat /\ now + Settle \in Int
  BY DEF DetectionsAssumption
<1>5. \E format \in [ToSet(ids) -> formats] :
         \A key \in ToSet(ids) :
             /\ \E x \in Pushes : Keys(x) = <<key>> /\ x.transport = format[key]
             /\ \A k \in ToSet(ids) : format[k] = format[key] => k = key
  <2> DEFINE format == [key \in ToSet(ids) |-> 0]
  <2>1. format \in [ToSet(ids) -> formats]
    BY <1>2
  <2> HIDE DEF format, ids, formats
  <2> QED BY <1>2, <2>1
<1>6. e.source = "device" => ids = <<>> /\ formats = {}
  OBVIOUS
<1> HIDE DEF e, ids, formats
<1>7. [after |-> Len(delivered), event |-> e, ids |-> ids, transports |-> formats,
       due |-> now + Settle] \in Entries
  BY <1>1, <1>2, <1>3, <1>4, <1>5, <1>6, EntryWith
<1> QED BY <1>7 DEF Entry, e, ids, formats

(* A detection of which more is known, from the same source.                *)
LEMMA EntryBetter ==
    ASSUME NEW p \in Entries, NEW e, EventOK(e), e.source = p.event.source
    PROVE  /\ [p EXCEPT !.event = e] \in Entries
           /\ [p EXCEPT !.event = e].after = p.after /\ [p EXCEPT !.event = e].ids = p.ids
           /\ [p EXCEPT !.event = e].due = p.due
<1> DEFINE q == [p EXCEPT !.event = e]
<1>1. /\ p \in [after : Nat, event : Events, ids : Seq(Keyed), transports : SUBSET Formats, due : Int]
      /\ Unique(p.ids) /\ FormatsFit(p)
      /\ p.event.source = "device" => p.ids = <<>> /\ p.transports = {}
  BY DEF Entries
<1>2. /\ q \in [after : Nat, event : Events, ids : Seq(Keyed), transports : SUBSET Formats, due : Int]
      /\ q.after = p.after /\ q.ids = p.ids /\ q.transports = p.transports /\ q.due = p.due
      /\ q.event = e
  BY <1>1 DEF EventOK
<1> HIDE DEF q
<1>3. Ids(q) = Ids(p)
  BY <1>2 DEF Ids
<1>4. FormatsFit(q)
  BY <1>1, <1>2, <1>3 DEF FormatsFit
<1>5. q \in Entries
  BY <1>1, <1>2, <1>4 DEF Entries
<1> QED BY <1>2, <1>5 DEF q

(* A detection into which a message of it was merged.                       *)
MergedEntry(m, p) ==
    [after |-> p.after, event |-> Merged(m, p.event),
     ids |-> IF ToSet(Keys(m)) \subseteq Ids(p) THEN p.ids ELSE p.ids \o Keys(m),
     transports |-> p.transports \cup {m.transport}, due |-> p.due]

LEMMA MergedEntryIs ==
    ASSUME NEW m \in Pushes, DetectionsAssumption, NEW p \in Entries, Companion(m, p)
    PROVE  /\ MergedEntry(m, p) \in Entries
           /\ MergedEntry(m, p).after = p.after /\ MergedEntry(m, p).due = p.due
           /\ Ids(MergedEntry(m, p)) = Ids(p) \cup ToSet(Keys(m))
<1>1. /\ p.after \in Nat /\ p.ids \in Seq(Keyed) /\ Unique(p.ids) /\ EventOK(p.event)
      /\ FormatsFit(p) /\ p.transports \in SUBSET Formats /\ p.due \in Int
      /\ p.event.source = "device" => p.ids = <<>> /\ p.transports = {}
  BY EntryIs
<1> DEFINE e == Merged(m, p.event)
           formats == p.transports \cup {m.transport}
           ids == IF ToSet(Keys(m)) \subseteq Ids(p) THEN p.ids ELSE p.ids \o Keys(m)
<1>2. EventOK(e) /\ e.source = "push"
  BY <1>1, MergedIs
<1>3. formats \in SUBSET Formats
  BY <1>1 DEF Formats
<1>4. PICK old \in [Ids(p) -> p.transports] :
        \A key \in Ids(p) :
            /\ \E x \in Pushes : Keys(x) = <<key>> /\ x.transport = old[key]
            /\ \A k \in Ids(p) : old[k] = old[key] => k = key
  BY <1>1 DEF FormatsFit
<1>5. /\ ids \in Seq(Keyed) /\ Unique(ids) /\ ToSet(ids) = Ids(p) \cup ToSet(Keys(m))
      /\ \E format \in [ToSet(ids) -> formats] :
            \A key \in ToSet(ids) :
                /\ \E x \in Pushes : Keys(x) = <<key>> /\ x.transport = format[key]
                /\ \A k \in ToSet(ids) : format[k] = format[key] => k = key
  <2>1. CASE ToSet(Keys(m)) \subseteq Ids(p)
    <3>1. ids = p.ids /\ ToSet(ids) = Ids(p)
      BY <2>1 DEF Ids
    <3>2. old \in [ToSet(ids) -> formats]
      <4>1. \A key \in Ids(p) : old[key] \in formats
        BY <1>4
      <4>2. old = [key \in Ids(p) |-> old[key]]
        BY <1>4
      <4> HIDE DEF formats, ids
      <4> QED BY <3>1, <4>1, <4>2
    <3> HIDE DEF formats, ids
    <3> QED BY <1>1, <1>4, <2>1, <3>1, <3>2
  <2>2. CASE ~(ToSet(Keys(m)) \subseteq Ids(p))
    <3> DEFINE k0 == Key(m)
    <3>1. Keys(m) = <<k0>> /\ ToSet(Keys(m)) = {k0} /\ Keys(m) # <<>> /\ Keys(m) \in Seq(Keyed)
      <4>1. Keys(m) # <<>>
        BY <2>2, KeysIs
      <4> QED BY <4>1, KeysIs
    <3>2. k0 \notin Ids(p)
      BY <2>2, <3>1
    <3>3. ids = p.ids \o Keys(m)
      BY <2>2
    <3>4. m.transport \notin p.transports
      <4>1. CASE p.event.source = "device"
        BY <1>1, <4>1
      <4>2. CASE p.event.source # "device"
        BY <3>1, <3>2, <4>2 DEF Companion
      <4> QED BY <4>1, <4>2
    <3> HIDE DEF ids, formats, k0
    <3>5. /\ ids \in Seq(Keyed) /\ DOMAIN ids = 1..(Len(p.ids) + 1)
          /\ \A q \in DOMAIN ids : ids[q] = IF q <= Len(p.ids) THEN p.ids[q] ELSE k0
      <4>1. /\ p.ids \o Keys(m) \in Seq(Keyed)
            /\ DOMAIN (p.ids \o Keys(m)) = 1..(Len(p.ids) + Len(Keys(m)))
            /\ \A q \in DOMAIN (p.ids \o Keys(m)) :
                  (p.ids \o Keys(m))[q] = IF q <= Len(p.ids) THEN p.ids[q] ELSE Keys(m)[q - Len(p.ids)]
        BY <1>1, <3>1, JoinedIs
      <4>2. Len(Keys(m)) = 1 /\ Keys(m)[1] = k0
        BY <3>1
      <4>3. DOMAIN ids = 1..(Len(p.ids) + 1) /\ ids \in Seq(Keyed)
        BY <3>3, <4>1, <4>2
      <4>4. Len(p.ids) \in Nat
        BY <1>1
      <4>5. ASSUME NEW q \in DOMAIN ids PROVE ids[q] = IF q <= Len(p.ids) THEN p.ids[q] ELSE k0
        <5>1. CASE q <= Len(p.ids)
          BY <3>3, <4>1, <4>5, <5>1
        <5>2. CASE ~(q <= Len(p.ids))
          <6>1. q - Len(p.ids) = 1
            BY <4>3, <4>4, <4>5, <5>2
          <6> QED BY <3>3, <4>1, <4>2, <4>5, <5>2, <6>1
        <5> QED BY <5>1, <5>2
      <4> QED BY <4>3, <4>5
    <3>6. Len(p.ids) \in Nat /\ DOMAIN p.ids = 1..Len(p.ids) /\ \A q \in DOMAIN p.ids : p.ids[q] \in Ids(p)
      BY <1>1 DEF Ids, ToSet
    <3>7. Unique(ids)
      <4>1. SUFFICES ASSUME NEW a \in DOMAIN ids, NEW b \in DOMAIN ids, ids[a] = ids[b] PROVE a = b
        BY DEF Unique
      <4>3. ASSUME NEW c \in DOMAIN ids
            PROVE  /\ c \in DOMAIN p.ids => ids[c] = p.ids[c] /\ ids[c] # k0
                   /\ c \notin DOMAIN p.ids => c = Len(p.ids) + 1 /\ ids[c] = k0
        <5>1. CASE c \in DOMAIN p.ids
          <6>1. c <= Len(p.ids)
            BY <3>6, <5>1
          <6> QED BY <3>2, <3>5, <3>6, <4>3, <5>1, <6>1
        <5>2. CASE c \notin DOMAIN p.ids
          <6> DEFINE n == Len(p.ids)
          <6>1. n \in Nat /\ c \in 1..(n + 1) /\ c \notin 1..n
            BY <3>5, <3>6, <4>3, <5>2
          <6> HIDE DEF n
          <6>2. c = n + 1 /\ ~(c <= n)
            BY <6>1
          <6> QED BY <3>5, <4>3, <5>2, <6>2 DEF n
        <5> QED BY <5>1, <5>2
      <4>2. CASE a \in DOMAIN p.ids /\ b \in DOMAIN p.ids
        BY <1>1, <4>1, <4>2, <4>3 DEF Unique
      <4>4. CASE a \notin DOMAIN p.ids \/ b \notin DOMAIN p.ids
        BY <4>1, <4>3, <4>4
      <4> QED BY <4>2, <4>4
    <3>8. ToSet(ids) = Ids(p) \cup {k0}
      <4>1. ASSUME NEW x \in DOMAIN ids PROVE ids[x] \in Ids(p) \cup {k0}
        BY <3>5, <3>6, <4>1
      <4>2. ASSUME NEW key \in Ids(p) PROVE \E x \in DOMAIN ids : ids[x] = key
        <5>1. PICK x \in DOMAIN p.ids : p.ids[x] = key
          BY <4>2 DEF Ids, ToSet
        <5>2. x \in DOMAIN ids /\ x <= Len(p.ids)
          BY <3>5, <3>6, <5>1
        <5> QED BY <3>5, <5>1, <5>2
      <4>3. Len(p.ids) + 1 \in DOMAIN ids /\ ids[Len(p.ids) + 1] = k0
        <5> DEFINE n == Len(p.ids)
        <5>1. n \in Nat /\ DOMAIN ids = 1..(n + 1)
          BY <3>5, <3>6
        <5>2. \A q \in DOMAIN ids : ids[q] = IF q <= n THEN p.ids[q] ELSE k0
          BY <3>5
        <5> HIDE DEF n
        <5>3. n + 1 \in DOMAIN ids /\ ~(n + 1 <= n)
          BY <5>1
        <5>4. ids[n + 1] = k0
          BY <5>2, <5>3
        <5> QED BY <5>3, <5>4 DEF n
      <4> QED BY <4>1, <4>2, <4>3 DEF ToSet
    <3> DEFINE format == [key \in Ids(p) \cup {k0} |-> IF key = k0 THEN m.transport ELSE old[key]]
    <3>9. \A key \in Ids(p) : format[key] = old[key] /\ old[key] \in p.transports
      BY <1>4, <3>2
    <3>10. format[k0] = m.transport
      OBVIOUS
    <3>11. format \in [ToSet(ids) -> formats]
      <4>1. \A key \in Ids(p) \cup {k0} : format[key] \in formats
        BY <3>9, <3>10 DEF formats
      <4>2. format = [key \in Ids(p) \cup {k0} |-> format[key]]
        OBVIOUS
      <4> HIDE DEF format
      <4> QED BY <3>8, <4>1, <4>2
    <3> HIDE DEF format
    <3>12. ASSUME NEW key \in ToSet(ids)
           PROVE  /\ \E x \in Pushes : Keys(x) = <<key>> /\ x.transport = format[key]
                  /\ \A k \in ToSet(ids) : format[k] = format[key] => k = key
      <4>1. CASE key = k0
        BY <3>1, <3>4, <3>8, <3>9, <3>10, <4>1
      <4>2. CASE key \in Ids(p)
        BY <1>4, <3>4, <3>8, <3>9, <3>10, <4>2
      <4> QED BY <3>8, <3>12, <4>1, <4>2
    <3> QED BY <3>1, <3>5, <3>7, <3>8, <3>11, <3>12
  <2> QED BY <2>1, <2>2
<1> HIDE DEF e, formats, ids
<1>6. e.source = "device" => ids = <<>> /\ formats = {}
  BY <1>2
<1> DEFINE q == [after |-> p.after, event |-> e, ids |-> ids, transports |-> formats, due |-> p.due]
<1>7. q \in Entries
  <2> HIDE DEF q
  <2> QED BY <1>1, <1>2, <1>3, <1>5, <1>6, EntryWith DEF q
<1>8. MergedEntry(m, p) = q
  BY DEF MergedEntry, e, formats, ids
<1>9. q.after = p.after /\ q.due = p.due /\ q.ids = ids
  OBVIOUS
<1> HIDE DEF q
<1> QED BY <1>5, <1>7, <1>8, <1>9 DEF Ids

(* The memory with what was reported, and the pending detections with it.   *)
MemoryFit(s, rep, time) ==
    /\ s \in Seq(Memories) /\ Distinct(s) /\ Len(s) <= SeenLimit
    /\ \A q \in DOMAIN s : s[q].until <= time + Keep
    /\ rep \in Seq(Deliveries) /\ Recalled(s, rep, time) /\ NoneRepeated(rep)
PendingFit(waiting, s, rep, time) ==
    /\ waiting \in Seq(Entries) /\ Len(waiting) <= PendingLimit
    /\ \A i \in DOMAIN waiting : waiting[i].due <= time + Settle /\ Waits(waiting[i], s, rep, time)
DetectionsInv ==
    /\ now \in Nat
    /\ MemoryFit(seen, delivered, now)
    /\ PendingFit(pending, seen, delivered, now)

LEMMA LiveFit ==
    ASSUME DetectionsAssumption, now \in Nat, NEW s, NEW rep, MemoryFit(s, rep, now)
    PROVE  /\ MemoryFit(Live(s), rep, now)
           /\ \A p : Waits(p, s, rep, now) => Waits(p, Live(s), rep, now)
           /\ \A waiting : PendingFit(waiting, s, rep, now) => PendingFit(waiting, Live(s), rep, now)
<1>1. s \in Seq(Memories) /\ rep \in Seq(Deliveries) /\ Distinct(s) /\ Recalled(s, rep, now)
  BY DEF MemoryFit
<1>2. Live(s) \in Seq(Memories) /\ Len(Live(s)) <= Len(s)
  BY <1>1, LiveIs
<1>3. PICK at : Taking(Live(s), s, at)
  BY <1>1, LiveIs
<1>4. Distinct(Live(s))
  BY <1>1, <1>2, <1>3, TakingDistinct
<1>5. \A p : Waits(p, s, rep, now) => Waits(p, Live(s), rep, now)
  BY <1>1, <1>2, <1>3, WaitsTaken
<1>6. Recalled(Live(s), rep, now)
  BY <1>1, RecalledLive DEF DetectionsAssumption
<1>7. \A q \in DOMAIN Live(s) : Live(s)[q].until <= now + Keep
  BY <1>3 DEF Taking, MemoryFit
<1>8. Len(Live(s)) <= SeenLimit
  <2>1. Len(s) \in Nat /\ Len(Live(s)) \in Nat /\ Len(s) <= SeenLimit /\ SeenLimit \in Nat
    BY <1>1, <1>2 DEF MemoryFit, DetectionsAssumption
  <2> QED BY <1>2, <2>1
<1>9. MemoryFit(Live(s), rep, now)
  BY <1>1, <1>2, <1>4, <1>6, <1>7, <1>8 DEF MemoryFit
<1> QED BY <1>5, <1>9 DEF PendingFit

(* A detection is reported.                                                 *)
LEMMA FlushFit ==
    ASSUME DetectionsAssumption, now \in Nat, NEW kept, MemoryFit(kept, delivered, now),
           NEW p \in Entries, Waits(p, kept, delivered, now), FlushPending(kept, p)
    PROVE  /\ MemoryFit(seen', delivered', now)
           /\ \A w \in Entries : Waits(w, kept, delivered, now) => Waits(w, seen', delivered', now)
<1>1. CASE p.event.serial \notin known
  BY <1>1 DEF FlushPending
<1>2. CASE p.event.serial \in known
  <2> DEFINE r == [entry |-> p, when |-> now]
             m == Remembered(kept, p.ids)
             rep == Append(delivered, r)
  <2>1. seen' = Newest(m) /\ delivered' = rep
    BY <1>2 DEF FlushPending
  <2>2. r \in Deliveries /\ r.entry = p /\ r.when = now
    BY DEF Deliveries
  <2>3. /\ kept \in Seq(Memories) /\ Distinct(kept) /\ delivered \in Seq(Deliveries)
        /\ Recalled(kept, delivered, now) /\ NoneRepeated(delivered)
        /\ \A q \in DOMAIN kept : kept[q].until <= now + Keep
    BY DEF MemoryFit
  <2>4. Keep \in Nat /\ SeenLimit \in Nat \ {0} /\ SeenLimit \in Nat
    BY DEF DetectionsAssumption
  <2>5. p.ids \in Seq(Keyed) /\ Unique(p.ids)
    BY EntryIs
  <2> HIDE DEF r
  <2>6. Recalled(Remembered(kept, r.entry.ids), Append(delivered, r), now)
    BY <2>2, <2>3, <2>4, ReportRecalled
  <2>7. \A w \in Entries : Waits(w, kept, delivered, now) =>
            Waits(w, Remembered(kept, r.entry.ids), Append(delivered, r), now)
    BY <2>2, <2>3, <2>4, ReportWaits
  <2>8. NoneRepeated(rep)
    BY <2>2, <2>3, ReportRepeats
  <2>9. rep \in Seq(Deliveries)
    BY <2>2, <2>3
  <2>10. /\ m \in Seq(Memories) /\ Distinct(m)
         /\ \A q \in DOMAIN m : m[q].until <= now + Keep
    <3>1. /\ m \in Seq(Memories) /\ Distinct(m)
          /\ \A q \in DOMAIN kept : m[q].until \in {kept[q].until, now + Keep}
          /\ \A q \in DOMAIN m : q \notin DOMAIN kept => m[q].until = now + Keep
      BY <2>3, <2>4, <2>5, RememberedIs, SMTT(30)
    <3>2. now + Keep <= now + Keep
      BY <2>4
    <3> HIDE DEF m
    <3>3. ASSUME NEW q \in DOMAIN m PROVE m[q].until <= now + Keep
      <4>1. CASE q \in DOMAIN kept
        BY <2>3, <3>1, <3>2, <4>1
      <4>2. CASE q \notin DOMAIN kept
        BY <3>1, <3>2, <3>3, <4>2
      <4> QED BY <4>1, <4>2
    <3> QED BY <3>1, <3>3
  <2>11. Recalled(m, rep, now) /\ \A w \in Entries : Waits(w, kept, delivered, now) => Waits(w, m, rep, now)
    BY <2>2, <2>6, <2>7
  <2> HIDE DEF m, rep
  <2>12. /\ Newest(m) \in Seq(Memories) /\ Len(Newest(m)) <= SeenLimit
         /\ \E at : Taking(Newest(m), m, at)
    BY <2>4, <2>10, NewestIs
  <2>13. PICK at : Taking(Newest(m), m, at)
    BY <2>12
  <2>14. Distinct(Newest(m))
    BY <2>10, <2>12, <2>13, TakingDistinct
  <2>15. Recalled(Newest(m), rep, now)
    BY <2>4, <2>9, <2>10, <2>11, RecalledNewest
  <2>16. \A q \in DOMAIN Newest(m) : Newest(m)[q].until <= now + Keep
    BY <2>10, <2>13 DEF Taking
  <2>17. \A w : Waits(w, m, rep, now) => Waits(w, Newest(m), rep, now)
    BY <2>10, <2>12, <2>13, WaitsTaken
  <2>18. MemoryFit(Newest(m), rep, now)
    BY <2>8, <2>9, <2>12, <2>14, <2>15, <2>16 DEF MemoryFit
  <2> QED BY <2>1, <2>11, <2>17, <2>18
<1> QED BY <1>1, <1>2

(* A key that is not remembered does not wait behind a report that is not   *)
(* forgotten.                                                               *)
LEMMA Unrecalled ==
    ASSUME NEW s, NEW rep, NEW time, Recalled(s, rep, time), NEW key,
           \A q \in DOMAIN s : s[q].key # key, NEW i \in DOMAIN rep, key \in Ids(rep[i].entry)
    PROVE  Forgotten(rep, time, i, key)
BY DEF Recalled, Recalls

LEMMA NewWaits ==
    ASSUME NEW s, NEW rep \in Seq(Deliveries), NEW time, Recalled(s, rep, time), NEW p,
           p.after = Len(rep), \A key \in Ids(p) : \A q \in DOMAIN s : s[q].key # key
    PROVE  Waits(p, s, rep, time)
<1>1. Len(rep) <= Len(rep) /\ DOMAIN rep = 1..Len(rep)
  <2>1. Len(rep) \in Nat
    OBVIOUS
  <2> QED BY <2>1
<1> QED BY <1>1, Unrecalled DEF Waits

LEMMA MergedWaits ==
    ASSUME NEW s, NEW rep \in Seq(Deliveries), NEW time, Recalled(s, rep, time), NEW p \in Entries,
           Waits(p, s, rep, time), NEW w, NEW more, w.after = p.after, Ids(w) = Ids(p) \cup more,
           \A key \in more : \A q \in DOMAIN s : s[q].key # key
    PROVE  Waits(w, s, rep, time)
<1>1. \A i \in 1..p.after : i \in DOMAIN rep
  <2>1. Len(rep) \in Nat /\ DOMAIN rep = 1..Len(rep) /\ p.after \in Nat /\ p.after <= Len(rep)
    BY EntryIs DEF Waits
  <2> QED BY <2>1
<1>2. ASSUME NEW key \in more, NEW i \in 1..p.after, key \in Ids(rep[i].entry)
      PROVE  Forgotten(rep, time, i, key)
  BY <1>1, <1>2, Unrecalled
<1> QED BY <1>2 DEF Waits

(* A detection begins to wait.                                              *)
LEMMA QueueFit ==
    ASSUME DetectionsAssumption, now \in Nat, NEW kept, MemoryFit(kept, delivered, now),
           PendingFit(pending, kept, delivered, now),
           NEW p \in Entries, p.due <= now + Settle, Waits(p, kept, delivered, now), Queue(kept, p)
    PROVE  MemoryFit(seen', delivered', now) /\ PendingFit(pending', seen', delivered', now)
<1>1. /\ pending \in Seq(Entries) /\ Len(pending) <= PendingLimit /\ Len(pending) \in Nat
      /\ DOMAIN pending = 1..Len(pending) /\ PendingLimit \in Nat \ {0}
      /\ \A i \in DOMAIN pending : pending[i].due <= now + Settle /\ Waits(pending[i], kept, delivered, now)
  BY DEF PendingFit, DetectionsAssumption
<1>2. CASE Len(pending) >= PendingLimit
  <2>1. FlushPending(kept, Head(pending)) /\ pending' = Append(Tail(pending), p)
    BY <1>2 DEF Queue
  <2>2. pending # <<>> /\ Head(pending) = pending[1] /\ 1 \in DOMAIN pending
    BY <1>1, <1>2
  <2>3. Head(pending) \in Entries /\ Waits(Head(pending), kept, delivered, now)
    BY <1>1, <2>2
  <2>4. /\ MemoryFit(seen', delivered', now)
        /\ \A w \in Entries : Waits(w, kept, delivered, now) => Waits(w, seen', delivered', now)
    BY <2>1, <2>3, FlushFit
  <2>5. /\ Tail(pending) \in Seq(Entries) /\ Len(Tail(pending)) = Len(pending) - 1
        /\ \A i \in 1..(Len(pending) - 1) : Tail(pending)[i] = pending[i + 1]
    BY <1>1, <2>2
  <2> DEFINE n == Len(pending)
             tail == Tail(pending)
             new == Append(tail, p)
  <2>6. n \in Nat /\ n >= 1 /\ n <= PendingLimit
    BY <1>1, <1>2
  <2> HIDE DEF n, tail
  <2>7. /\ new \in Seq(Entries) /\ Len(new) = n /\ DOMAIN new = 1..n
        /\ \A i \in 1..(n - 1) : new[i] = tail[i]
        /\ new[n] = p
    <3>1. tail \in Seq(Entries) /\ Len(tail) = n - 1 /\ n - 1 \in Nat
      BY <2>5, <2>6 DEF n, tail
    <3> QED BY <2>6, <3>1
  <2> HIDE DEF new
  <2>8. ASSUME NEW i \in DOMAIN new
        PROVE  new[i].due <= now + Settle /\ Waits(new[i], kept, delivered, now)
    <3>1. CASE i \in 1..(n - 1)
      <4>1. new[i] = pending[i + 1]
        BY <2>5, <2>7, <3>1 DEF n, tail
      <4>2. i + 1 \in DOMAIN pending
        BY <1>1, <2>6, <3>1 DEF n
      <4> QED BY <1>1, <4>1, <4>2
    <3>2. CASE i \notin 1..(n - 1)
      <4>1. i = n
        BY <2>6, <2>7, <2>8, <3>2
      <4> QED BY <2>7, <4>1
    <3> QED BY <3>1, <3>2
  <2>9. \A i \in DOMAIN new : new[i] \in Entries
    BY <2>7
  <2>10. PendingFit(new, seen', delivered', now)
    BY <2>4, <2>6, <2>7, <2>8, <2>9 DEF PendingFit
  <2> QED BY <2>1, <2>4, <2>10 DEF new, tail
<1>3. CASE ~(Len(pending) >= PendingLimit)
  <2>1. seen' = kept /\ delivered' = delivered /\ pending' = Append(pending, p)
    BY <1>3 DEF Queue
  <2> DEFINE n == Len(pending)
             new == Append(pending, p)
  <2>2. n \in Nat /\ n + 1 <= PendingLimit
    BY <1>1, <1>3
  <2>3. /\ new \in Seq(Entries) /\ Len(new) = n + 1 /\ DOMAIN new = 1..(n + 1)
        /\ \A i \in 1..n : new[i] = pending[i]
        /\ new[n + 1] = p
    BY <1>1
  <2> HIDE DEF n, new
  <2>4. ASSUME NEW i \in DOMAIN new
        PROVE  new[i].due <= now + Settle /\ Waits(new[i], kept, delivered, now)
    <3>1. CASE i \in 1..n
      BY <1>1, <2>3, <3>1 DEF n
    <3>2. CASE i \notin 1..n
      <4>1. i = n + 1
        BY <2>2, <2>3, <2>4, <3>2
      <4> QED BY <2>3, <4>1
    <3> QED BY <3>1, <3>2
  <2>5. PendingFit(new, kept, delivered, now)
    BY <2>2, <2>3, <2>4 DEF PendingFit
  <2> QED BY <2>1, <2>5 DEF new
<1> QED BY <1>2, <1>3

(* The pending detections are known better, and wait for the same keys.     *)
LEMMA BetterFit ==
    ASSUME NEW s, NEW rep, NEW time, PendingFit(pending, s, rep, time),
           NEW waiting \in Seq(Entries), Len(waiting) = Len(pending),
           \A i \in DOMAIN pending :
               /\ waiting[i].due = pending[i].due
               /\ Waits(pending[i], s, rep, time) => Waits(waiting[i], s, rep, time)
    PROVE  PendingFit(waiting, s, rep, time)
<1>1. DOMAIN waiting = DOMAIN pending
  BY DEF PendingFit
<1> QED BY <1>1 DEF PendingFit

LEMMA SameWaits ==
    ASSUME NEW p, NEW w, NEW s, NEW rep, NEW time, w.after = p.after, w.ids = p.ids,
           Waits(p, s, rep, time)
    PROVE  Waits(w, s, rep, time)
<1>1. Ids(w) = Ids(p)
  BY DEF Ids
<1> QED BY <1>1 DEF Waits

LEMMA FirstIs ==
    ASSUME NEW S, NEW s \in Seq(S), NEW I \in SUBSET DOMAIN s, I # {}
    PROVE  Min(I) \in I
<1>1. I \in SUBSET Nat
  <2>1. DOMAIN s = 1..Len(s) /\ Len(s) \in Nat
    OBVIOUS
  <2> QED BY <2>1
<1>2. \E x \in I : \A y \in I : x <= y
  BY <1>1, LeastOf
<1> QED BY <1>2 DEF Min

-----------------------------------------------------------------------------
(* A push message.                                                          *)

CompanionAt(m) == SelectInSeq(pending, LAMBDA p : Companion(m, p))
LEMMA CompanionIs ==
    ASSUME NEW m, pending \in Seq(Entries), CompanionAt(m) # 0
    PROVE  CompanionAt(m) \in DOMAIN pending /\ Companion(m, pending[CompanionAt(m)])
<1> DEFINE I == {i \in 1..Len(pending) : Companion(m, pending[i])}
<1>1. CompanionAt(m) = IF I # {} THEN Min(I) ELSE 0
  BY DEF CompanionAt, SelectInSeq
<1>2. I \in SUBSET DOMAIN pending
  OBVIOUS
<1> HIDE DEF I
<1>3. I # {} /\ CompanionAt(m) = Min(I)
  BY <1>1
<1>4. CompanionAt(m) \in I
  BY <1>2, <1>3, FirstIs
<1> QED BY <1>4 DEF I

LEMMA MergePushFit ==
    ASSUME DetectionsAssumption, NEW m \in Pushes, NEW s, NEW i \in DOMAIN pending,
           MemoryFit(s, delivered, now), PendingFit(pending, s, delivered, now),
           Companion(m, pending[i]), MergePush(m, i),
           \A key \in ToSet(Keys(m)) : \A q \in DOMAIN s : s[q].key # key
    PROVE  PendingFit(pending', s, delivered, now)
<1>1. pending \in Seq(Entries) /\ pending[i] \in Entries
  BY DEF PendingFit
<1> DEFINE p == pending[i]
           w == MergedEntry(m, p)
<1>2. w \in Entries /\ w.after = p.after /\ w.due = p.due /\ Ids(w) = Ids(p) \cup ToSet(Keys(m))
  BY <1>1, MergedEntryIs
<1>3. Waits(p, s, delivered, now) => Waits(w, s, delivered, now)
  <2>1. Recalled(s, delivered, now) /\ delivered \in Seq(Deliveries)
    BY DEF MemoryFit
  <2> HIDE DEF w, p
  <2>2. p \in Entries
    BY <1>1 DEF p
  <2> QED BY <1>2, <2>1, <2>2, MergedWaits
<1>4. pending' = [pending EXCEPT ![i] = w]
  <2> DEFINE e == Merged(m, p.event)
             ids == IF ToSet(Keys(m)) \subseteq Ids(p) THEN p.ids ELSE p.ids \o Keys(m)
             formats == p.transports \cup {m.transport}
             q == [p EXCEPT !.event = e, !.ids = ids, !.transports = formats]
  <2>1. pending' = [pending EXCEPT ![i] = q]
    BY DEF MergePush
  <2>3. q = w
    <3>1. w = [after |-> p.after, event |-> e, ids |-> ids, transports |-> formats, due |-> p.due]
      BY DEF MergedEntry
    <3>2. p \in [after : Nat, event : Events, ids : Seq(Keyed), transports : SUBSET Formats, due : Int]
      BY <1>1 DEF Entries
    <3> HIDE DEF p, w, e, ids, formats
    <3>3. /\ q \in [after : Nat, event : {e}, ids : {ids}, transports : {formats}, due : Int]
          /\ q.after = p.after /\ q.due = p.due
      BY <3>2
    <3> HIDE DEF q
    <3>4. q = [after |-> q.after, event |-> q.event, ids |-> q.ids, transports |-> q.transports,
               due |-> q.due] /\ q.event = e /\ q.ids = ids /\ q.transports = formats
      BY <3>3
    <3> QED BY <3>1, <3>3, <3>4
  <2> QED BY <2>1, <2>3
<1> HIDE DEF w
<1>5. pending' \in Seq(Entries) /\ Len(pending') = Len(pending)
  BY <1>1, <1>2, <1>4
<1>6. \A j \in DOMAIN pending : pending'[j] = IF j = i THEN w ELSE pending[j]
  BY <1>4
<1>7. \A j \in DOMAIN pending :
         /\ pending'[j].due = pending[j].due
         /\ Waits(pending[j], s, delivered, now) => Waits(pending'[j], s, delivered, now)
  BY <1>2, <1>3, <1>6
<1> QED BY <1>5, <1>7, BetterFit

LEMMA PushFit ==
    ASSUME DetectionsAssumption, DetectionsInv, NEW m \in Pushes, Push(m)
    PROVE  MemoryFit(seen', delivered', now) /\ PendingFit(pending', seen', delivered', now)
<1> DEFINE live == Live(seen)
           at == CompanionAt(m)
<1>1. MemoryFit(live, delivered, now) /\ PendingFit(pending, live, delivered, now) /\ now \in Nat
  BY LiveFit DEF DetectionsInv
<1>2. CASE m.serial \notin known
  <2>1. UNCHANGED <<pending, seen, delivered>>
    BY <1>2 DEF Push
  <2> QED BY <2>1 DEF DetectionsInv
<1>3. CASE m.serial \in known /\ Taken(live, m)
  <2>1. seen' = live /\ UNCHANGED <<pending, delivered>>
    BY <1>3 DEF Push
  <2> HIDE DEF live
  <2> QED BY <1>1, <2>1
<1>4. CASE m.serial \in known /\ ~Taken(live, m)
  <2>1. IF at # 0 THEN MergePush(m, at) /\ seen' = live /\ UNCHANGED delivered
        ELSE Queue(live, Entry(PushEvent(m), Keys(m), {m.transport}))
    BY <1>4 DEF Push, CompanionAt
  <2>2. \A key \in ToSet(Keys(m)) : \A q \in DOMAIN live : live[q].key # key
    <3>1. ASSUME NEW key \in ToSet(Keys(m)), NEW q \in DOMAIN live, live[q].key = key PROVE FALSE
      <4>1. Keys(m) = <<key>>
        <5>1. Keys(m) = <<Key(m)>> /\ ToSet(Keys(m)) = {Key(m)}
          BY <3>1, KeysIs
        <5> QED BY <3>1, <5>1
      <4>2. live[q] \in ToSet(live)
        BY <3>1 DEF ToSet
      <4> HIDE DEF live
      <4> QED BY <1>4, <3>1, <4>1, <4>2 DEF Taken
    <3> QED BY <3>1
  <2> HIDE DEF live
  <2>3. CASE at # 0
    <3>1. MergePush(m, at) /\ seen' = live /\ delivered' = delivered
      BY <2>1, <2>3
    <3>2. at \in DOMAIN pending /\ Companion(m, pending[at])
      BY <1>1, <2>3, CompanionIs DEF PendingFit
    <3> HIDE DEF at
    <3>3. PendingFit(pending', live, delivered, now)
      BY <1>1, <2>2, <3>1, <3>2, MergePushFit
    <3> QED BY <1>1, <3>1, <3>3
  <2>4. CASE at = 0
    <3> DEFINE p == Entry(PushEvent(m), Keys(m), {m.transport})
    <3>1. Queue(live, p)
      BY <2>1, <2>4
    <3>2. delivered \in Seq(Deliveries) /\ Recalled(live, delivered, now)
      BY <1>1 DEF MemoryFit
    <3>3. p \in Entries
      BY <1>1, <3>2, EntryOfPush
    <3>4. p.after = Len(delivered) /\ p.due <= now + Settle /\ p.ids = Keys(m)
      <4>1. p.after = Len(delivered) /\ p.due = now + Settle /\ p.ids = Keys(m)
        BY DEF Entry
      <4>2. now + Settle <= now + Settle
        BY <1>1 DEF DetectionsAssumption
      <4> HIDE DEF p
      <4> QED BY <4>1, <4>2
    <3> HIDE DEF p
    <3>5. Ids(p) = ToSet(Keys(m))
      BY <3>4 DEF Ids
    <3>6. Waits(p, live, delivered, now)
      BY <2>2, <3>2, <3>4, <3>5, NewWaits
    <3> QED BY <1>1, <3>1, <3>3, <3>4, <3>6, QueueFit
  <2> QED BY <2>3, <2>4
<1> QED
  <2>1. \/ m.serial \notin known
        \/ m.serial \in known /\ Taken(live, m)
        \/ m.serial \in known /\ ~Taken(live, m)
    OBVIOUS
  <2> QED BY <1>2, <1>3, <1>4, <2>1

-----------------------------------------------------------------------------
(* A device event.                                                          *)

LEMMA FirstPushIs ==
    ASSUME NEW r, NEW type, pending \in Seq(Entries), NEW i \in DOMAIN pending,
           i = FirstPush(r, type)
    PROVE  pending[i].event.type = type
<1> DEFINE I == {x \in 1..Len(pending) : /\ pending[x].event.serial = r.serial
                                         /\ pending[x].event.source = "push"
                                         /\ pending[x].event.type = type}
<1>1. FirstPush(r, type) = IF I # {} THEN Min(I) ELSE 0
  BY DEF FirstPush, SelectInSeq
<1>2. I \in SUBSET DOMAIN pending /\ i # 0
  OBVIOUS
<1> HIDE DEF I
<1>3. I # {} /\ i = Min(I)
  BY <1>1, <1>2
<1>4. i \in I
  BY <1>2, <1>3, FirstIs
<1> QED BY <1>4 DEF I

LEMMA InformedIs ==
    ASSUME DetectionsAssumption, NEW r \in Reports, pending \in Seq(Entries),
           NEW i \in DOMAIN pending
    PROVE  EventOK(Informed(r, i)) /\ Informed(r, i).source = pending[i].event.source
<1> DEFINE e == pending[i].event
           new == DeviceEvent(r)
           a == [e EXCEPT !.type = r.type, !.name = new.name, !.recognition = new.recognition]
           b == [e EXCEPT !.name = new.name, !.recognition = "known"]
<1>1. EventOK(e) /\ e \in Events
  <2>1. pending[i] \in Entries
    OBVIOUS
  <2> QED BY <2>1, EntryIs
<1>2. EventOK(new) /\ new.type = r.type /\ (new.name # Nothing => r.type = "person")
  BY DeviceEventIs
<1>3. \E m \in {m.at : m \in Pushes} \cup {Nothing} : TRUE
  OBVIOUS
<1>4. Informed(r, i) = CASE i = FirstPush(r, "notification") -> a
                         [] i = FirstPush(r, r.type) /\ new.name # Nothing -> b
                         [] OTHER -> e
  BY DEF Informed
<1>5. i = FirstPush(r, r.type) => e.type = r.type
  BY FirstPushIs
<1> HIDE DEF e, new
<1>6. EventOK(a) /\ (e.type = "person" /\ new.type = "person" => EventOK(b))
  BY <1>1, <1>2, <1>3, EventBetter
<1>7. a.source = e.source /\ b.source = e.source
  BY <1>1 DEF Events
<1> HIDE DEF a, b
<1>8. CASE i = FirstPush(r, "notification")
  <2>0. e.type = "notification"
    BY <1>8, FirstPushIs DEF e
  <2>1. Informed(r, i) = a
    BY <1>2, <1>4, <1>5, <1>8, <2>0
  <2> QED BY <1>6, <1>7, <2>1 DEF e
<1>9. CASE i # FirstPush(r, "notification") /\ i = FirstPush(r, r.type) /\ new.name # Nothing
  <2>1. Informed(r, i) = b
    BY <1>4, <1>9
  <2> QED BY <1>2, <1>5, <1>6, <1>7, <1>9, <2>1 DEF e
<1>10. CASE i # FirstPush(r, "notification") /\ ~(i = FirstPush(r, r.type) /\ new.name # Nothing)
  <2>1. Informed(r, i) = e
    BY <1>4, <1>10
  <2> QED BY <1>1, <2>1 DEF e
<1> QED BY <1>8, <1>9, <1>10

LEMMA InformFit ==
    ASSUME DetectionsAssumption, DetectionsInv, NEW r \in Reports,
           pending' = [i \in DOMAIN pending |-> [pending[i] EXCEPT !.event = Informed(r, i)]]
    PROVE  PendingFit(pending', seen, delivered, now)
<1>1. pending \in Seq(Entries) /\ PendingFit(pending, seen, delivered, now)
  BY DEF DetectionsInv, PendingFit
<1>2. ASSUME NEW i \in DOMAIN pending
      PROVE  /\ pending'[i] \in Entries /\ pending'[i].due = pending[i].due
             /\ pending'[i].after = pending[i].after /\ pending'[i].ids = pending[i].ids
  <2>1. pending[i] \in Entries /\ pending'[i] = [pending[i] EXCEPT !.event = Informed(r, i)]
    BY <1>1, <1>2
  <2>2. EventOK(Informed(r, i)) /\ Informed(r, i).source = pending[i].event.source
    BY <1>1, <1>2, InformedIs
  <2> QED BY <2>1, <2>2, EntryBetter
<1>3. pending' \in Seq(Entries) /\ Len(pending') = Len(pending)
  <2>1. DOMAIN pending = 1..Len(pending) /\ Len(pending) \in Nat
    BY <1>1
  <2>2. pending' = [i \in 1..Len(pending) |-> pending'[i]]
    BY <2>1
  <2> QED BY <1>2, <2>1, <2>2
<1>4. \A i \in DOMAIN pending :
         Waits(pending[i], seen, delivered, now) => Waits(pending'[i], seen, delivered, now)
  BY <1>2, SameWaits
<1> QED BY <1>1, <1>2, <1>3, <1>4, BetterFit

ReportAt(r) ==
    SelectInSeq(pending, LAMBDA p :
        /\ p.event.serial = r.serial /\ p.event.source = "device"
        /\ p.event.type \in {r.type, "motion"} \/ r.type = "motion")
LEMMA ReportAtIs ==
    ASSUME NEW r, pending \in Seq(Entries), ReportAt(r) # 0
    PROVE  /\ ReportAt(r) \in DOMAIN pending
           /\ pending[ReportAt(r)].event.source = "device"
           /\ pending[ReportAt(r)].event.type \in {r.type, "motion"} \/ r.type = "motion"
<1> DEFINE I == {x \in 1..Len(pending) :
                    /\ pending[x].event.serial = r.serial /\ pending[x].event.source = "device"
                    /\ pending[x].event.type \in {r.type, "motion"} \/ r.type = "motion"}
<1>1. ReportAt(r) = IF I # {} THEN Min(I) ELSE 0
  BY DEF ReportAt, SelectInSeq
<1>2. I \in SUBSET DOMAIN pending
  OBVIOUS
<1> HIDE DEF I
<1>3. I # {} /\ ReportAt(r) = Min(I)
  BY <1>1
<1>4. ReportAt(r) \in I
  BY <1>2, <1>3, FirstIs
<1> QED BY <1>4 DEF I

LEMMA MergeReportFit ==
    ASSUME DetectionsAssumption, DetectionsInv, NEW r \in Reports, NEW i \in DOMAIN pending,
           pending[i].event.source = "device",
           pending[i].event.type \in {r.type, "motion"} \/ r.type = "motion",
           MergeReport(r, i)
    PROVE  PendingFit(pending', seen, delivered, now)
<1> DEFINE old == pending[i].event
           new == DeviceEvent(r)
           name == IF new.name # Nothing THEN new.name ELSE old.name
           e == [new EXCEPT !.name = name, !.recognition = IF name # Nothing THEN "known" ELSE @]
<1>1. pending \in Seq(Entries) /\ PendingFit(pending, seen, delivered, now) /\ pending[i] \in Entries
  BY DEF DetectionsInv, PendingFit
<1>2. CASE r.type = "motion" /\ old.type # "motion"
  <2>1. pending' = pending
    BY <1>2 DEF MergeReport
  <2> QED BY <1>1, <2>1
<1>3. CASE ~(r.type = "motion" /\ old.type # "motion")
  <2>1. pending' = [pending EXCEPT ![i].event = e]
    BY <1>3 DEF MergeReport
  <2>2. /\ EventOK(old) /\ old \in Events
        /\ old.name # Nothing => old.type = "person"
    BY <1>1, EntryIs DEF EventOK
  <2>3. /\ EventOK(new) /\ new.source = "device" /\ new.type = r.type /\ new \in Events
        /\ new.name # Nothing => r.type = "person" /\ new.recognition = "known"
    BY DeviceEventIs DEF EventOK
  <2>4. name # Nothing => r.type = "person"
    BY <1>3, <2>2, <2>3
  <2>5. name \in {x.name : x \in Pushes \cup Reports} \cup {Nothing}
    BY <2>2, <2>3 DEF Events
  <2> DEFINE rec == IF name # Nothing THEN "known" ELSE new.recognition
  <2>6. rec \in {"known", "unknown", "unidentified", "not_applicable"}
    BY <2>3 DEF Events
  <2>7. e = [new EXCEPT !.name = name, !.recognition = rec]
    BY <2>3 DEF Events
  <2>8. name # Nothing => rec = "known"
    OBVIOUS
  <2> HIDE DEF new, name, e, rec
  <2>9. /\ e \in Events /\ e.name = name /\ e.type = r.type /\ e.recognition = rec
        /\ e.source = "device"
    BY <2>3, <2>5, <2>6, <2>7 DEF Events
  <2>10. EventOK(e)
    BY <2>4, <2>8, <2>9 DEF EventOK
  <2> DEFINE w == [pending[i] EXCEPT !.event = e]
  <2>11. /\ w \in Entries /\ w.due = pending[i].due
         /\ w.after = pending[i].after /\ w.ids = pending[i].ids
    BY <1>1, <2>9, <2>10, EntryBetter
  <2>12. pending' = [pending EXCEPT ![i] = w]
    BY <2>1
  <2> HIDE DEF w
  <2>13. pending' \in Seq(Entries) /\ Len(pending') = Len(pending)
    BY <1>1, <2>11, <2>12
  <2>14. \A j \in DOMAIN pending : pending'[j] = IF j = i THEN w ELSE pending[j]
    BY <2>12
  <2>15. Waits(pending[i], seen, delivered, now) => Waits(w, seen, delivered, now)
    BY <2>11, SameWaits
  <2>16. \A j \in DOMAIN pending :
           /\ pending'[j].due = pending[j].due
           /\ Waits(pending[j], seen, delivered, now) => Waits(pending'[j], seen, delivered, now)
    BY <2>11, <2>14, <2>15
  <2> QED BY <1>1, <2>13, <2>16, BetterFit
<1> QED BY <1>2, <1>3

LEMMA DeviceFit ==
    ASSUME DetectionsAssumption, DetectionsInv, NEW r \in Reports, Device(r)
    PROVE  MemoryFit(seen', delivered', now) /\ PendingFit(pending', seen', delivered', now)
<1> DEFINE at == ReportAt(r)
<1>1. /\ MemoryFit(seen, delivered, now) /\ PendingFit(pending, seen, delivered, now) /\ now \in Nat
      /\ pending \in Seq(Entries) /\ delivered \in Seq(Deliveries) /\ Recalled(seen, delivered, now)
  BY DEF DetectionsInv, MemoryFit, PendingFit
<1>2. \/ /\ pending' = [i \in DOMAIN pending |-> [pending[i] EXCEPT !.event = Informed(r, i)]]
         /\ UNCHANGED <<seen, delivered>>
      \/ /\ at # 0 /\ MergeReport(r, at) /\ UNCHANGED <<seen, delivered>>
      \/ Queue(seen, Entry(DeviceEvent(r), <<>>, {}))
  BY DEF Device, ReportAt
<1>3. CASE /\ pending' = [i \in DOMAIN pending |-> [pending[i] EXCEPT !.event = Informed(r, i)]]
           /\ UNCHANGED <<seen, delivered>>
  BY <1>1, <1>3, InformFit
<1>4. CASE at # 0 /\ MergeReport(r, at) /\ UNCHANGED <<seen, delivered>>
  <2>1. /\ at \in DOMAIN pending /\ pending[at].event.source = "device"
        /\ pending[at].event.type \in {r.type, "motion"} \/ r.type = "motion"
    BY <1>1, <1>4, ReportAtIs
  <2> HIDE DEF at
  <2>2. PendingFit(pending', seen, delivered, now)
    BY <1>4, <2>1, MergeReportFit
  <2> QED BY <1>1, <1>4, <2>2
<1>5. CASE Queue(seen, Entry(DeviceEvent(r), <<>>, {}))
  <2> DEFINE p == Entry(DeviceEvent(r), <<>>, {})
  <2>1. p \in Entries
    BY <1>1, EntryOfReport
  <2>2. p.after = Len(delivered) /\ p.due = now + Settle /\ p.ids = <<>>
    BY DEF Entry
  <2>3. now + Settle <= now + Settle
    BY <1>1 DEF DetectionsAssumption
  <2> HIDE DEF p
  <2>4. Ids(p) = {}
    BY <2>2 DEF Ids, ToSet
  <2>5. Waits(p, seen, delivered, now)
    BY <1>1, <2>2, <2>4, NewWaits
  <2> QED BY <1>1, <1>5, <2>1, <2>2, <2>3, <2>5, QueueFit DEF p
<1> QED BY <1>2, <1>3, <1>4, <1>5

LEMMA RemovedIs ==
    ASSUME NEW S, NEW s \in Seq(S), NEW i \in DOMAIN s
    PROVE  /\ RemoveAt(s, i) \in Seq(S) /\ Len(RemoveAt(s, i)) = Len(s) - 1
           /\ \A k \in DOMAIN RemoveAt(s, i) : \E x \in DOMAIN s : RemoveAt(s, i)[k] = s[x]
<1> DEFINE a == SubSeq(s, 1, i - 1)
           b == SubSeq(s, i + 1, Len(s))
           n == Len(s)
<1>1. n \in Nat /\ i \in 1..n /\ DOMAIN s = 1..n
  OBVIOUS
<1>2. /\ a \in Seq(S) /\ Len(a) = i - 1 /\ \A k \in 1..(i - 1) : a[k] = s[k]
      /\ b \in Seq(S) /\ Len(b) = n - i /\ \A k \in 1..(n - i) : b[k] = s[i + k]
  OBVIOUS
<1>3. RemoveAt(s, i) = a \o b
  BY DEF RemoveAt
<1> HIDE DEF a, b, n
<1>4. /\ a \o b \in Seq(S) /\ Len(a \o b) = n - 1 /\ DOMAIN (a \o b) = 1..(n - 1)
      /\ \A q \in 1..(n - 1) : (a \o b)[q] = IF q <= i - 1 THEN a[q] ELSE b[q - (i - 1)]
  <2>1. (i - 1) + (n - i) = n - 1
    BY <1>1
  <2>2. /\ a \o b \in Seq(S) /\ Len(a \o b) = Len(a) + Len(b)
        /\ DOMAIN (a \o b) = 1..(Len(a) + Len(b))
        /\ \A q \in DOMAIN (a \o b) : (a \o b)[q] = IF q <= Len(a) THEN a[q] ELSE b[q - Len(a)]
    BY <1>2, JoinedIs
  <2>3. Len(a) = i - 1 /\ Len(b) = n - i
    BY <1>2
  <2>4. Len(a) + Len(b) = n - 1
    BY <2>1, <2>3
  <2>5. DOMAIN (a \o b) = 1..(n - 1)
    BY <2>2, <2>4
  <2>6. ASSUME NEW q \in 1..(n - 1)
        PROVE  (a \o b)[q] = IF q <= i - 1 THEN a[q] ELSE b[q - (i - 1)]
    BY <2>2, <2>3, <2>5, <2>6
  <2> QED BY <2>2, <2>4, <2>5, <2>6
<1>5. ASSUME NEW k \in 1..(n - 1) PROVE \E x \in 1..n : (a \o b)[k] = s[x]
  <2>1. CASE k <= i - 1
    <3>1. k \in 1..(i - 1) /\ k \in 1..n
      BY <1>1, <1>5, <2>1
    <3> QED BY <1>2, <1>4, <1>5, <2>1, <3>1
  <2>2. CASE ~(k <= i - 1)
    <3>1. k - (i - 1) \in 1..(n - i) /\ i + (k - (i - 1)) \in 1..n
      BY <1>1, <1>5, <2>2
    <3> QED BY <1>2, <1>4, <1>5, <2>2, <3>1
  <2> QED BY <2>1, <2>2
<1> QED BY <1>1, <1>3, <1>4, <1>5 DEF n

(* The timer of a pending detection.                                        *)
LEMMA ElapsedFit ==
    ASSUME DetectionsAssumption, DetectionsInv, NEW i \in DOMAIN pending, Elapsed(i)
    PROVE  MemoryFit(seen', delivered', now) /\ PendingFit(pending', seen', delivered', now)
<1>1. /\ MemoryFit(seen, delivered, now) /\ now \in Nat
      /\ pending \in Seq(Entries) /\ Len(pending) <= PendingLimit
      /\ \A x \in DOMAIN pending : pending[x].due <= now + Settle /\ Waits(pending[x], seen, delivered, now)
  BY DEF DetectionsInv, PendingFit
<1>2. FlushPending(seen, pending[i]) /\ pending' = RemoveAt(pending, i)
  BY DEF Elapsed
<1>3. /\ MemoryFit(seen', delivered', now)
      /\ \A w \in Entries : Waits(w, seen, delivered, now) => Waits(w, seen', delivered', now)
  BY <1>1, <1>2, FlushFit
<1>4. /\ pending' \in Seq(Entries) /\ Len(pending') = Len(pending) - 1
      /\ \A k \in DOMAIN pending' : \E x \in DOMAIN pending : pending'[k] = pending[x]
  BY <1>1, <1>2, RemovedIs, SMTT(30)
<1>5. Len(pending') <= PendingLimit
  BY <1>1, <1>4 DEF DetectionsAssumption
<1>6. ASSUME NEW k \in DOMAIN pending'
      PROVE  pending'[k].due <= now + Settle /\ Waits(pending'[k], seen', delivered', now)
  <2>1. PICK x \in DOMAIN pending : pending'[k] = pending[x]
    BY <1>4, <1>6
  <2> QED BY <1>1, <1>3, <2>1
<1> QED BY <1>3, <1>4, <1>5, <1>6 DEF PendingFit

(* A restart keeps the memory but for what expired.                         *)
LEMMA RestartFit ==
    ASSUME DetectionsAssumption, DetectionsInv, Restart
    PROVE  MemoryFit(seen', delivered', now) /\ PendingFit(pending', seen', delivered', now)
<1>1. MemoryFit(seen, delivered, now) /\ now \in Nat
  BY DEF DetectionsInv
<1>2. pending' = <<>> /\ seen' = Newest(Live(seen)) /\ delivered' = delivered
  BY DEF Restart
<1>3. MemoryFit(Live(seen), delivered, now)
  BY <1>1, LiveFit
<1>4. Newest(Live(seen)) = Live(seen)
  BY <1>3, NewestIs DEF MemoryFit, DetectionsAssumption
<1>5. PendingFit(<<>>, Live(seen), delivered, now)
  BY DEF PendingFit, DetectionsAssumption
<1> QED BY <1>2, <1>3, <1>4, <1>5

(* Time passes.                                                             *)
LEMMA LaterFit ==
    ASSUME DetectionsAssumption, NEW time \in Nat, NEW s, NEW rep, MemoryFit(s, rep, time)
    PROVE  /\ MemoryFit(s, rep, time + 1)
           /\ \A waiting : PendingFit(waiting, s, rep, time) => PendingFit(waiting, s, rep, time + 1)
<1>1. s \in Seq(Memories) /\ rep \in Seq(Deliveries) /\ Recalled(s, rep, time)
  BY DEF MemoryFit
<1>2. \A i \in DOMAIN rep : \A key : Forgotten(rep, time, i, key) => Forgotten(rep, time + 1, i, key)
  <2>1. ASSUME NEW i \in DOMAIN rep, NEW key, Forgotten(rep, time, i, key)
        PROVE  Forgotten(rep, time + 1, i, key)
    <3>1. rep[i].when \in Nat
      BY <1>1, <2>1, DeliveryIs
    <3>2. time - rep[i].when >= Keep => (time + 1) - rep[i].when >= Keep
      BY <3>1 DEF DetectionsAssumption
    <3> QED BY <2>1, <3>2 DEF Forgotten
  <2> QED BY <2>1
<1>3. Recalled(s, rep, time + 1)
  <2>1. ASSUME NEW i \in DOMAIN rep PROVE rep[i].when <= time + 1
    <3>1. rep[i].when \in Nat /\ rep[i].when <= time
      BY <1>1, <2>1, DeliveryIs DEF Recalled
    <3> QED BY <3>1
  <2> QED BY <1>1, <1>2, <2>1 DEF Recalled, Recalls
<1>4. ASSUME NEW q \in DOMAIN s PROVE s[q].until <= (time + 1) + Keep
  <2>1. s[q] \in Memories /\ s[q].until <= time + Keep
    BY <1>1, <1>4 DEF MemoryFit
  <2>2. s[q].until \in Int
    BY <2>1 DEF Memories
  <2> QED BY <2>1, <2>2 DEF DetectionsAssumption
<1>5. MemoryFit(s, rep, time + 1)
  BY <1>3, <1>4 DEF MemoryFit
<1>6. ASSUME NEW p \in Entries, Waits(p, s, rep, time) PROVE Waits(p, s, rep, time + 1)
  <2>1. \A i \in 1..p.after : i \in DOMAIN rep
    <3>1. Len(rep) \in Nat /\ DOMAIN rep = 1..Len(rep) /\ p.after \in Nat /\ p.after <= Len(rep)
      BY <1>1, <1>6, EntryIs DEF Waits
    <3> QED BY <3>1
  <2> QED BY <1>2, <1>6, <2>1 DEF Waits
<1>7. ASSUME NEW waiting, PendingFit(waiting, s, rep, time) PROVE PendingFit(waiting, s, rep, time + 1)
  <2>1. ASSUME NEW i \in DOMAIN waiting
        PROVE  waiting[i].due <= (time + 1) + Settle /\ Waits(waiting[i], s, rep, time + 1)
    <3>1. waiting[i] \in Entries /\ waiting[i].due <= time + Settle /\ Waits(waiting[i], s, rep, time)
      BY <1>7, <2>1 DEF PendingFit
    <3>2. waiting[i].due \in Int
      BY <3>1, EntryIs
    <3>3. waiting[i].due <= (time + 1) + Settle
      BY <3>1, <3>2 DEF DetectionsAssumption
    <3> QED BY <1>6, <3>1, <3>3
  <2> QED BY <1>7, <2>1 DEF PendingFit
<1> QED BY <1>5, <1>7

-----------------------------------------------------------------------------

LEMMA DetectionsStart == DetectionsAssumption /\ DetectionsInit => DetectionsInv
<1> SUFFICES ASSUME DetectionsAssumption, DetectionsInit PROVE DetectionsInv
  OBVIOUS
<1>1. now = 0 /\ pending = <<>> /\ seen = <<>> /\ delivered = <<>>
  BY DEF DetectionsInit
<1>2. MemoryFit(<<>>, <<>>, 0)
  BY DEF MemoryFit, Distinct, Recalled, NoneRepeated, DetectionsAssumption
<1>3. PendingFit(<<>>, <<>>, <<>>, 0)
  BY DEF PendingFit, DetectionsAssumption
<1> QED BY <1>1, <1>2, <1>3 DEF DetectionsInv

LEMMA DetectionsStep ==
    ASSUME DetectionsAssumption, DetectionsInv, [DetectionsNext]_detectionsVars
    PROVE  DetectionsInv'
<1>1. now \in Nat /\ MemoryFit(seen, delivered, now) /\ PendingFit(pending, seen, delivered, now)
  BY DEF DetectionsInv
<1>2. SUFFICES now' \in Nat /\ MemoryFit(seen', delivered', now') /\ PendingFit(pending', seen', delivered', now')
  BY DEF DetectionsInv
<1>3. CASE \E m \in Pushes : Push(m)
  <2>1. PICK m \in Pushes : Push(m)
    BY <1>3
  <2>2. now' = now
    BY <2>1 DEF Push
  <2> QED BY <1>1, <2>1, <2>2, PushFit
<1>4. CASE \E r \in Reports : Device(r)
  <2>1. PICK r \in Reports : Device(r)
    BY <1>4
  <2>2. now' = now
    BY <2>1 DEF Device
  <2> QED BY <1>1, <2>1, <2>2, DeviceFit
<1>5. CASE \E i \in DOMAIN pending : Elapsed(i)
  <2>1. PICK i \in DOMAIN pending : Elapsed(i)
    BY <1>5
  <2>2. now' = now
    BY <2>1 DEF Elapsed
  <2> QED BY <1>1, <2>1, <2>2, ElapsedFit
<1>6. CASE Restart
  <2>1. now' = now
    BY <1>6 DEF Restart
  <2> QED BY <1>1, <1>6, <2>1, RestartFit
<1>7. CASE \E s \in Serials : Inventory(s)
  <2>1. UNCHANGED <<now, pending, seen, delivered>>
    BY <1>7 DEF Inventory
  <2> QED BY <1>1, <2>1
<1>8. CASE Tick
  <2>1. now' = now + 1 /\ UNCHANGED <<pending, seen, delivered>>
    BY <1>8 DEF Tick
  <2>2. MemoryFit(seen, delivered, now + 1) /\ PendingFit(pending, seen, delivered, now + 1)
    BY <1>1, LaterFit
  <2> QED BY <1>1, <2>1, <2>2
<1>9. CASE UNCHANGED detectionsVars
  <2>1. UNCHANGED <<now, pending, seen, delivered>>
    BY <1>9 DEF detectionsVars
  <2> QED BY <1>1, <2>1
<1> QED BY <1>3, <1>4, <1>5, <1>6, <1>7, <1>8, <1>9 DEF DetectionsNext

LEMMA DetectionsInvHolds == DetectionsSpec => []DetectionsInv
<1>1. DetectionsInit => DetectionsInv
  BY DetectionsStart, DetectionsAssumption
<1>2. DetectionsInv /\ [DetectionsNext]_detectionsVars => DetectionsInv'
  BY DetectionsStep, DetectionsAssumption
<1> QED BY <1>1, <1>2, PTL DEF DetectionsSpec

LEMMA EntriesFit == DetectionsInv => DetectionsOK
<1> SUFFICES ASSUME DetectionsInv PROVE DetectionsOK
  OBVIOUS
<1>1. /\ pending \in Seq(Entries) /\ delivered \in Seq(Deliveries)
      /\ Len(pending) <= PendingLimit /\ Len(seen) <= SeenLimit
      /\ \A i \in DOMAIN seen : seen[i].until <= now + Keep
      /\ \A i \in DOMAIN pending : pending[i].due <= now + Settle
  BY DEF DetectionsInv, MemoryFit, PendingFit
<1> DEFINE entries == [i \in DOMAIN delivered |-> delivered[i].entry]
<1>2. entries \in Seq(Entries)
  <2>1. \A i \in DOMAIN delivered : delivered[i].entry \in Entries
    BY <1>1, DeliveryIs
  <2>2. DOMAIN delivered = 1..Len(delivered) /\ Len(delivered) \in Nat
    BY <1>1
  <2> QED BY <2>1, <2>2
<1>3. All = pending \o entries
  BY DEF All
<1> HIDE DEF entries
<1>4. All \in Seq(Entries)
  BY <1>1, <1>2, <1>3, JoinedIs
<1>5. ASSUME NEW i \in DOMAIN All
      PROVE  EventOK(All[i].event) /\ FormatsFit(All[i])
  <2>1. All[i] \in Entries
    BY <1>4, <1>5
  <2> QED BY <2>1, EntryIs
<1>6. DetectionsType
  BY <1>1, <1>5 DEF DetectionsType, EventOK
<1>7. DistinctKept
  BY <1>5 DEF DistinctKept, FormatsFit
<1> QED BY <1>6, <1>7 DEF DetectionsOK

THEOREM DetectionsHold == DetectionsSpec => []DetectionsOK
BY DetectionsInvHolds, EntriesFit, PTL

THEOREM NothingRepeats == DetectionsSpec => []NoRepeat
<1>1. DetectionsInv => NoRepeat
  BY NoneRepeatedIs DEF DetectionsInv, MemoryFit
<1> QED BY <1>1, DetectionsInvHolds, PTL

===============================================================================
