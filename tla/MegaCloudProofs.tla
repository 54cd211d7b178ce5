--------------------------- MODULE MegaCloudProofs ----------------------------
(***************************************************************************)
(* Proofs about MegaCloud, for any calls and any bounds.                    *)
(*                                                                         *)
(* That a request is sent only while somebody waits for it rests on each   *)
(* operation having at most one request that is not gone and at most one   *)
(* write: every step of an operation starts where it has neither (Free),   *)
(* and leaves it at most one (Moved).                                       *)
(*                                                                         *)
(* That the store holds what connect() told, and that one code is mailed,  *)
(* rest on what the session in memory, the writes and the store have in    *)
(* common (StoryInv): a write with none of connect() behind it has the      *)
(* phase of the session, so has the store while connect() saves nothing and *)
(* no write has failed, and once a code is mailed they all say              *)
(* "verification". Every step of an operation is one of three: it ends      *)
(* (Ends), asks for a request (Asks) or saves (Saves).                      *)
(***************************************************************************)
EXTENDS MegaCloud, TLAPS, FiniteSetTheorems

Words == {"none", "answer", "exchange", "request", "raw", "again", "failed", "captcha", "code",
          "login", "domain", "call", "locked", "connected", "verification_required"}
(* Only connect() asks for the domain.                                      *)
Fits(o, goal) == goal \in Words /\ (goal = "domain" => o = Auth)
Requests ==
    {r \in [op : Ops, goal : Words, then : Words, key : Nat, gone : BOOLEAN] : Fits(r.op, r.goal)}
Writes == [state : SessionType, op : Ops]
Steps == [at : {"idle", "loading", "waiting", "saving"}, answer : BOOLEAN, goal : Words,
          key : Nat, then : Words]
Counts == [logins : Nat, calls : Nat, keys : Nat, forgets : Nat, failures : Nat, crashes : Nat]

CloudType ==
    /\ closed \in BOOLEAN /\ session \in SessionType \cup {None}
    /\ store \in SessionType \cup {None}
    /\ ops \in [Ops -> Steps] /\ spent \in Counts
    /\ queue \in Seq(Requests) /\ writes \in Seq(Writes)
    /\ sent => queue # <<>>

(* A request that is not gone has a caller that waits for it, an operation  *)
(* has one such request at most, and one write.                             *)
Waits(q) == \A i \in DOMAIN q : ~q[i].gone => ops[q[i].op].at = "waiting" /\ ~closed
OneLive(q) ==
    \A i, j \in DOMAIN q : ~q[i].gone /\ ~q[j].gone /\ q[i].op = q[j].op => i = j
Saving(ws) == \A i \in DOMAIN ws : ops[ws[i].op].at = "saving"
OneWrite(ws) == \A i, j \in DOMAIN ws : ws[i].op = ws[j].op => i = j

CloudInv ==
    /\ CloudType
    /\ \A o \in Ops : /\ ops[o].at \in {"waiting", "saving"} => session \in SessionType
                      /\ Fits(o, ops[o].goal)
    /\ Waits(queue) /\ OneLive(queue) /\ Saving(writes) /\ OneWrite(writes)

(* The operation o has no request in q and no write in ws; and what it does *)
(* then: it goes on, with one request or one write more, or none.           *)
Free(o, q, ws) ==
    /\ q \in Seq(Requests) /\ ws \in Seq(Writes)
    /\ Waits(q) /\ OneLive(q) /\ Saving(ws) /\ OneWrite(ws)
    /\ \A i \in DOMAIN q : ~q[i].gone => q[i].op # o
    /\ \A i \in DOMAIN ws : ws[i].op # o
Moved(o, q, ws) ==
    \E step \in Steps :
        /\ ops' = [ops EXCEPT ![o] = step] /\ spent' \in Counts /\ Fits(o, step.goal)
        /\ session' \in SessionType \cup {None}
        /\ session \in SessionType => session' \in SessionType
        /\ step.at \in {"waiting", "saving"} => session' \in SessionType
        /\ \/ queue' = q
           \/ \E r \in Requests : /\ queue' = Append(q, r) /\ r.op = o
                                  /\ r.gone \/ (step.at = "waiting" /\ ~closed)
        /\ \/ writes' = ws
           \/ \E w \in Writes : writes' = Append(ws, w) /\ w.op = o /\ step.at = "saving"

-----------------------------------------------------------------------------
(* Sequences.                                                               *)

LEMMA AppendOf ==
    ASSUME NEW S, NEW s \in Seq(S), NEW x \in S
    PROVE /\ Append(s, x) \in Seq(S) /\ Append(s, x) # <<>>
          /\ Len(s) \in Nat /\ DOMAIN s = 1..Len(s)
          /\ DOMAIN Append(s, x) = 1..(Len(s) + 1) /\ Append(s, x)[Len(s) + 1] = x
          /\ \A i \in DOMAIN s : Append(s, x)[i] = s[i]
          /\ \A i \in DOMAIN Append(s, x) : i \in DOMAIN s \/ i = Len(s) + 1
  OBVIOUS

LEMMA MemberOf == ASSUME NEW S, NEW s \in Seq(S), NEW i \in DOMAIN s PROVE s[i] \in S
  OBVIOUS

LEMMA TailOf ==
    ASSUME NEW S, NEW s \in Seq(S), s # <<>>
    PROVE /\ Tail(s) \in Seq(S) /\ Head(s) \in S /\ 1 \in DOMAIN s /\ Head(s) = s[1]
          /\ Len(s) \in Nat \ {0} /\ Len(Tail(s)) = Len(s) - 1
          /\ DOMAIN s = 1..Len(s) /\ DOMAIN Tail(s) = 1..(Len(s) - 1)
          /\ \A i \in DOMAIN Tail(s) :
                /\ i + 1 \in DOMAIN s /\ i \in Nat /\ i + 1 # 1 /\ Tail(s)[i] = s[i + 1]
  OBVIOUS

-----------------------------------------------------------------------------
(* An operation that has nothing pending may go on.                         *)

LEMMA QueuedOne ==
    ASSUME NEW o, NEW q, NEW r \in Requests, q \in Seq(Requests), r.op = o, OneLive(q),
           \A i \in DOMAIN q : ~q[i].gone => q[i].op # o
    PROVE OneLive(Append(q, r))
<1> DEFINE a == Append(q, r)
<1>1. \A i \in DOMAIN a : \/ i \in DOMAIN q /\ a[i] = q[i]
                          \/ i = Len(q) + 1 /\ a[i] = r
  BY AppendOf
<1> HIDE DEF a
<1> SUFFICES ASSUME NEW i \in DOMAIN a, NEW j \in DOMAIN a, ~a[i].gone, ~a[j].gone,
                    a[i].op = a[j].op
             PROVE i = j
  BY DEF OneLive, a
<1>2. CASE i \in DOMAIN q /\ a[i] = q[i] /\ j \in DOMAIN q /\ a[j] = q[j]
  BY <1>2 DEF OneLive
<1>3. CASE i \in DOMAIN q /\ a[i] = q[i] /\ a[j] = r
  BY <1>3
<1>4. CASE j \in DOMAIN q /\ a[j] = q[j] /\ a[i] = r
  BY <1>4
<1> QED
  BY <1>1, <1>2, <1>3, <1>4

LEMMA WrittenOne ==
    ASSUME NEW o, NEW ws, NEW w \in Writes, ws \in Seq(Writes), w.op = o, OneWrite(ws),
           \A i \in DOMAIN ws : ws[i].op # o
    PROVE OneWrite(Append(ws, w))
<1> DEFINE a == Append(ws, w)
<1>1. \A i \in DOMAIN a : \/ i \in DOMAIN ws /\ a[i] = ws[i]
                          \/ i = Len(ws) + 1 /\ a[i] = w
  BY AppendOf
<1> HIDE DEF a
<1> SUFFICES ASSUME NEW i \in DOMAIN a, NEW j \in DOMAIN a, a[i].op = a[j].op
             PROVE i = j
  BY DEF OneWrite, a
<1>2. CASE i \in DOMAIN ws /\ a[i] = ws[i] /\ j \in DOMAIN ws /\ a[j] = ws[j]
  BY <1>2 DEF OneWrite
<1>3. CASE i \in DOMAIN ws /\ a[i] = ws[i] /\ a[j] = w
  BY <1>3
<1>4. CASE j \in DOMAIN ws /\ a[j] = ws[j] /\ a[i] = w
  BY <1>4
<1> QED
  BY <1>1, <1>2, <1>3, <1>4

LEMMA MovedInv ==
    ASSUME CloudInv, NEW o \in Ops, NEW q, NEW ws, Free(o, q, ws), Moved(o, q, ws),
           closed' = closed, store' \in SessionType \cup {None}, sent' => queue' # <<>>
    PROVE CloudInv'
<1>1. PICK step \in Steps :
        /\ ops' = [ops EXCEPT ![o] = step] /\ spent' \in Counts /\ Fits(o, step.goal)
        /\ session' \in SessionType \cup {None}
        /\ session \in SessionType => session' \in SessionType
        /\ step.at \in {"waiting", "saving"} => session' \in SessionType
        /\ \/ queue' = q
           \/ \E r \in Requests : /\ queue' = Append(q, r) /\ r.op = o
                                  /\ r.gone \/ (step.at = "waiting" /\ ~closed)
        /\ \/ writes' = ws
           \/ \E w \in Writes : writes' = Append(ws, w) /\ w.op = o /\ step.at = "saving"
  BY DEF Moved
<1>2. /\ ops \in [Ops -> Steps] /\ closed \in BOOLEAN
      /\ q \in Seq(Requests) /\ ws \in Seq(Writes)
      /\ \A x \in Ops : ops'[x] = IF x = o THEN step ELSE ops[x]
      /\ ops' \in [Ops -> Steps]
  BY <1>1 DEF CloudInv, CloudType, Free
<1>3. queue' \in Seq(Requests) /\ Waits(queue)' /\ OneLive(queue)'
  <2>1. /\ \A i \in DOMAIN q : q[i] \in Requests /\ q[i].op \in Ops
        /\ \A i \in DOMAIN q : ~q[i].gone =>
              /\ q[i].op # o /\ ops[q[i].op].at = "waiting" /\ ~closed
              /\ ops'[q[i].op].at = "waiting" /\ ~closed'
        /\ OneLive(q)
    <3>1. ASSUME NEW i \in DOMAIN q PROVE q[i] \in Requests /\ q[i].op \in Ops
      <4>1. q[i] \in Requests
        BY <1>2, <3>1, MemberOf
      <4> QED
        BY <4>1 DEF Requests
    <3>2. ASSUME NEW i \in DOMAIN q, ~q[i].gone
          PROVE q[i].op # o /\ ops[q[i].op].at = "waiting" /\ ~closed
      BY <3>2 DEF Free, Waits
    <3> QED
      BY <1>2, <3>1, <3>2 DEF Free
  <2>2. CASE queue' = q
    BY <1>2, <2>1, <2>2 DEF Waits, OneLive
  <2>3. ASSUME NEW r \in Requests, queue' = Append(q, r), r.op = o,
               r.gone \/ (step.at = "waiting" /\ ~closed)
        PROVE queue' \in Seq(Requests) /\ Waits(queue)' /\ OneLive(queue)'
    <3>1. /\ queue' \in Seq(Requests)
          /\ \A i \in DOMAIN queue' : \/ i \in DOMAIN q /\ queue'[i] = q[i]
                                      \/ queue'[i] = r
      BY <1>2, <2>3, AppendOf
    <3>2. Waits(queue)'
      BY <1>2, <2>1, <2>3, <3>1 DEF Waits
    <3>3. OneLive(queue)'
      <4>1. OneLive(Append(q, r))
        BY <1>2, <2>1, <2>3, QueuedOne
      <4> QED
        BY <2>3, <4>1 DEF OneLive
    <3> QED
      BY <3>1, <3>2, <3>3
  <2> QED
    BY <1>1, <2>2, <2>3
<1>4. writes' \in Seq(Writes) /\ Saving(writes)' /\ OneWrite(writes)'
  <2>1. /\ \A i \in DOMAIN ws : ws[i] \in Writes /\ ws[i].op \in Ops
        /\ \A i \in DOMAIN ws : ws[i].op # o /\ ops'[ws[i].op].at = "saving"
        /\ OneWrite(ws)
    <3>1. ASSUME NEW i \in DOMAIN ws PROVE ws[i] \in Writes /\ ws[i].op \in Ops
      <4>1. ws[i] \in Writes
        BY <1>2, <3>1, MemberOf
      <4> QED
        BY <4>1 DEF Writes
    <3>2. ASSUME NEW i \in DOMAIN ws PROVE ws[i].op # o /\ ops[ws[i].op].at = "saving"
      BY <3>2 DEF Free, Saving
    <3> QED
      BY <1>2, <3>1, <3>2 DEF Free
  <2>2. CASE writes' = ws
    BY <1>2, <2>1, <2>2 DEF Saving, OneWrite
  <2>3. ASSUME NEW w \in Writes, writes' = Append(ws, w), w.op = o, step.at = "saving"
        PROVE writes' \in Seq(Writes) /\ Saving(writes)' /\ OneWrite(writes)'
    <3>1. /\ writes' \in Seq(Writes)
          /\ \A i \in DOMAIN writes' : \/ i \in DOMAIN ws /\ writes'[i] = ws[i]
                                       \/ writes'[i] = w
      BY <1>2, <2>3, AppendOf
    <3>2. Saving(writes)'
      BY <1>2, <2>1, <2>3, <3>1 DEF Saving
    <3>3. OneWrite(writes)'
      <4>1. OneWrite(Append(ws, w))
        BY <1>2, <2>1, <2>3, WrittenOne
      <4> QED
        BY <2>3, <4>1 DEF OneWrite
    <3> QED
      BY <3>1, <3>2, <3>3
  <2> QED
    BY <1>1, <2>2, <2>3
<1>5. CloudType'
  BY <1>1, <1>2, <1>3, <1>4 DEF CloudInv, CloudType
<1>6. \A x \in Ops : /\ ops'[x].at \in {"waiting", "saving"} => session' \in SessionType
                     /\ Fits(x, ops'[x].goal)
  BY <1>1, <1>2 DEF CloudInv
<1> QED
  BY <1>3, <1>4, <1>5, <1>6 DEF CloudInv

-----------------------------------------------------------------------------
(* What an operation does next is a move of it.                             *)


LEMMA OpsType == CloudInv => /\ ops \in [Ops -> Steps] /\ \A o \in Ops : ops[o] \in Steps
                             /\ Idle \in Steps /\ Idle.at = "idle" /\ \A o : Fits(o, Idle.goal)
<1>1. Idle \in Steps /\ Idle.at = "idle" /\ \A o : Fits(o, Idle.goal)
  BY DEF Idle, Steps, NoKey, Words, Fits
<1> QED
  BY <1>1 DEF CloudInv, CloudType

LEMMA ReturnMoves ==
    ASSUME CloudInv, NEW o \in Ops, NEW state, NEW q, NEW ws, Return(o, state),
           queue' = q, writes' = ws, spent' \in Counts, session' \in SessionType \cup {None},
           session \in SessionType => session' \in SessionType
    PROVE Moved(o, q, ws)
  BY OpsType DEF Return, Moved

LEMMA PersistMoves ==
    ASSUME CloudInv, NEW o \in Ops, NEW s \in SessionType, NEW goal, Fits(o, goal),
           NEW then \in Words, NEW q, NEW ws, Persist(s, o, goal, then, ws),
           queue' = q, spent' \in Counts
    PROVE Moved(o, q, ws)
<1> DEFINE step == [ops[o] EXCEPT !.at = "saving", !.goal = goal, !.then = then]
           w == [state |-> s, op |-> o]
<1>1. step \in Steps /\ step.at = "saving" /\ Fits(o, step.goal)
  BY OpsType DEF Steps, Fits
<1>2. w \in Writes /\ w.op = o
  BY DEF Writes
<1>3. ops' = [ops EXCEPT ![o] = step] /\ writes' = Append(ws, w) /\ session' = s
  BY DEF Persist
<1> HIDE DEF step, w
<1> QED
  BY <1>1, <1>2, <1>3 DEF Moved

LEMMA PostMoves ==
    ASSUME CloudInv, NEW o \in Ops, NEW goal, Fits(o, goal), NEW then \in Words, NEW key \in Nat,
           NEW q, NEW ws, Post(o, goal, then, key, q), writes' = ws, spent' \in Counts,
           session' \in SessionType
    PROVE Moved(o, q, ws)
<1> DEFINE step == [ops[o] EXCEPT !.at = "waiting", !.goal = goal, !.then = then, !.key = key]
           r == [op |-> o, goal |-> goal, then |-> then, key |-> key, gone |-> closed]
<1>1. step \in Steps /\ step.at = "waiting" /\ Fits(o, step.goal)
  BY OpsType DEF Steps, Fits
<1>2. r \in Requests /\ r.op = o /\ r.gone = closed
  BY DEF Requests, Fits, CloudInv, CloudType
<1>3. queue' = Append(q, r)
  BY DEF Post
<1>4. CASE closed
  <2>1. ops' = [ops EXCEPT ![o] = Idle]
    BY <1>4 DEF Post, Fail, Return
  <2> HIDE DEF r
  <2> QED
    BY <1>2, <1>3, <1>4, <2>1, OpsType DEF Moved
<1>5. CASE ~closed
  <2>1. ops' = [ops EXCEPT ![o] = step]
    BY <1>5 DEF Post
  <2> HIDE DEF r, step
  <2> QED
    BY <1>1, <1>2, <1>3, <1>5, <2>1 DEF Moved
<1> QED
  BY <1>4, <1>5

LEMMA RawMoves ==
    ASSUME CloudInv, NEW s \in SessionType, NEW o \in Ops, NEW goal, Fits(o, goal), NEW q, NEW ws,
           Raw(s, o, goal, q), writes' = ws, session' \in SessionType
    PROVE Moved(o, q, ws)
<1>1. s.identity \in Nat /\ spent \in Counts /\ spent.keys \in Nat
  BY DEF SessionType, CloudInv, CloudType, Counts
<1>2. CASE s.identity # NoKey
  <2>1. Post(o, goal, "answer", s.identity, q) /\ spent' = spent
    BY <1>2 DEF Raw
  <2> QED
    BY <1>1, <2>1, PostMoves DEF Words
<1>3. CASE s.identity = NoKey
  <2>1. /\ Post(o, goal, "exchange", spent.keys + 1, q)
        /\ spent' = [spent EXCEPT !.keys = @ + 1]
    BY <1>3 DEF Raw
  <2>2. spent' \in Counts /\ spent.keys + 1 \in Nat
    BY <1>1, <2>1 DEF Counts
  <2> QED
    BY <2>1, <2>2, PostMoves DEF Words
<1> QED
  BY <1>2, <1>3

(* Where a step of an operation starts.                                     *)
LEMMA FreeNow ==
    ASSUME CloudInv, NEW o \in Ops, ops[o].at \in {"idle", "loading"}
    PROVE Free(o, queue, writes)
  BY DEF CloudInv, CloudType, Free, Waits, Saving

LEMMA FreeAfterWrite ==
    ASSUME CloudInv, writes # <<>>
    PROVE /\ Head(writes) \in Writes /\ Head(writes).op \in Ops
          /\ ops[Head(writes).op].at = "saving"
          /\ Free(Head(writes).op, queue, Tail(writes))
<1>1. /\ queue \in Seq(Requests) /\ writes \in Seq(Writes)
      /\ Waits(queue) /\ OneLive(queue) /\ Saving(writes) /\ OneWrite(writes)
  BY DEF CloudInv, CloudType
<1>2. /\ Tail(writes) \in Seq(Writes) /\ Head(writes) \in Writes /\ 1 \in DOMAIN writes
      /\ Head(writes) = writes[1]
      /\ \A i \in DOMAIN Tail(writes) :
            i + 1 \in DOMAIN writes /\ i \in Nat /\ i + 1 # 1 /\ Tail(writes)[i] = writes[i + 1]
  BY <1>1, TailOf
<1>3. Head(writes).op \in Ops /\ ops[Head(writes).op].at = "saving"
  BY <1>1, <1>2 DEF Writes, Saving
<1>4. Saving(Tail(writes))
  BY <1>1, <1>2 DEF Saving
<1>5. OneWrite(Tail(writes))
  <2> SUFFICES ASSUME NEW i \in DOMAIN Tail(writes), NEW j \in DOMAIN Tail(writes),
                      Tail(writes)[i].op = Tail(writes)[j].op
               PROVE i = j
    BY DEF OneWrite
  <2>1. i + 1 = j + 1 /\ i \in Nat /\ j \in Nat
    BY <1>1, <1>2 DEF OneWrite
  <2> QED
    BY <2>1
<1>6. \A i \in DOMAIN Tail(writes) : Tail(writes)[i].op # Head(writes).op
  BY <1>1, <1>2 DEF OneWrite
<1>7. \A i \in DOMAIN queue : ~queue[i].gone => queue[i].op # Head(writes).op
  BY <1>1, <1>3 DEF Waits
<1> QED
  BY <1>1, <1>2, <1>3, <1>4, <1>5, <1>6, <1>7 DEF Free

LEMMA RestOfQueue ==
    ASSUME CloudInv, queue # <<>>
    PROVE /\ Head(queue) \in Requests /\ Head(queue).op \in Ops
          /\ Tail(queue) \in Seq(Requests) /\ Waits(Tail(queue)) /\ OneLive(Tail(queue))
          /\ ~Head(queue).gone => /\ ops[Head(queue).op].at = "waiting" /\ ~closed
                                  /\ Free(Head(queue).op, Tail(queue), writes)
<1>1. /\ queue \in Seq(Requests) /\ writes \in Seq(Writes)
      /\ Waits(queue) /\ OneLive(queue) /\ Saving(writes) /\ OneWrite(writes)
  BY DEF CloudInv, CloudType
<1>2. /\ Tail(queue) \in Seq(Requests) /\ Head(queue) \in Requests /\ 1 \in DOMAIN queue
      /\ Head(queue) = queue[1]
      /\ \A i \in DOMAIN Tail(queue) :
            i + 1 \in DOMAIN queue /\ i \in Nat /\ i + 1 # 1 /\ Tail(queue)[i] = queue[i + 1]
  BY <1>1, TailOf
<1>3. Head(queue).op \in Ops
  BY <1>2 DEF Requests
<1>4. Waits(Tail(queue))
  BY <1>1, <1>2 DEF Waits
<1>5. OneLive(Tail(queue))
  <2> SUFFICES ASSUME NEW i \in DOMAIN Tail(queue), NEW j \in DOMAIN Tail(queue),
                      ~Tail(queue)[i].gone, ~Tail(queue)[j].gone,
                      Tail(queue)[i].op = Tail(queue)[j].op
               PROVE i = j
    BY DEF OneLive
  <2>1. i + 1 = j + 1 /\ i \in Nat /\ j \in Nat
    BY <1>1, <1>2 DEF OneLive
  <2> QED
    BY <2>1
<1>6. ASSUME ~Head(queue).gone
      PROVE /\ ops[Head(queue).op].at = "waiting" /\ ~closed
            /\ \A i \in DOMAIN Tail(queue) :
                  ~Tail(queue)[i].gone => Tail(queue)[i].op # Head(queue).op
            /\ \A i \in DOMAIN writes : writes[i].op # Head(queue).op
  <2>1. ops[Head(queue).op].at = "waiting" /\ ~closed
    BY <1>1, <1>2, <1>6 DEF Waits
  <2>2. \A i \in DOMAIN Tail(queue) : ~Tail(queue)[i].gone => Tail(queue)[i].op # Head(queue).op
    BY <1>1, <1>2, <1>6 DEF OneLive
  <2>3. \A i \in DOMAIN writes : writes[i].op # Head(queue).op
    BY <1>1, <2>1 DEF Saving
  <2> QED
    BY <2>1, <2>2, <2>3
<1> QED
  BY <1>1, <1>2, <1>3, <1>4, <1>5, <1>6 DEF Free

-----------------------------------------------------------------------------
(* The actions.                                                             *)

LEMMA InitInv == Init => CloudInv
<1> SUFFICES ASSUME Init PROVE CloudInv
  OBVIOUS
<1>1. Idle \in Steps /\ Idle.at = "idle" /\ \A o : Fits(o, Idle.goal)
  BY DEF Idle, Steps, NoKey, Words, Fits
<1>2. ops \in [Ops -> Steps] /\ \A o \in Ops : ops[o].at = "idle" /\ Fits(o, ops[o].goal)
  BY <1>1 DEF Init
<1>3. queue = <<>> /\ writes = <<>> /\ queue \in Seq(Requests) /\ writes \in Seq(Writes)
  BY DEF Init
<1>4. spent \in Counts
  BY DEF Init, Counts
<1>5. CloudType
  BY <1>2, <1>3, <1>4 DEF Init, CloudType
<1>6. Waits(queue) /\ OneLive(queue) /\ Saving(writes) /\ OneWrite(writes)
  BY <1>3 DEF Waits, OneLive, Saving, OneWrite
<1> QED
  BY <1>2, <1>5, <1>6 DEF CloudInv

(* Nobody's request or write changes.                                       *)
LEMMA SameInv ==
    ASSUME CloudInv, UNCHANGED <<closed, ops, queue, writes, store>>, spent' \in Counts,
           session' = session \/ session' \in SessionType, sent' => queue # <<>>
    PROVE CloudInv'
<1>1. CloudType'
  BY DEF CloudInv, CloudType
<1>2. Waits(queue)' /\ OneLive(queue)' /\ Saving(writes)' /\ OneWrite(writes)'
  BY DEF CloudInv, Waits, OneLive, Saving, OneWrite
<1> QED
  BY <1>1, <1>2 DEF CloudInv

LEMMA LeaveInv ==
    ASSUME CloudInv, NEW gone \in SUBSET InRequest, Leave(gone), closed' \in BOOLEAN,
           closed' # closed => gone = InRequest
    PROVE CloudInv'
<1>1. /\ queue \in Seq(Requests) /\ Waits(queue) /\ OneLive(queue)
      /\ Saving(writes) /\ OneWrite(writes) /\ writes \in Seq(Writes)
      /\ ops \in [Ops -> Steps] /\ Idle \in Steps /\ Idle.at = "idle" /\ \A o : Fits(o, Idle.goal)
  BY OpsType DEF CloudInv, CloudType
<1>2. /\ \A o \in Ops : ops'[o] = IF o \in gone THEN Idle ELSE ops[o]
      /\ ops' \in [Ops -> Steps] /\ UNCHANGED <<session, sent, writes, store, spent>>
      /\ \A o \in gone : o \in Ops /\ ops[o].at = "waiting"
  BY <1>1 DEF Leave, InRequest, saving
<1>3. DOMAIN queue = 1..Len(queue) /\ Len(queue) \in Nat
  BY <1>1
<1>4. ASSUME NEW i \in DOMAIN queue
      PROVE /\ queue'[i] \in Requests /\ queue'[i].op = queue[i].op /\ queue[i].op \in Ops
            /\ ~queue'[i].gone => ~queue[i].gone /\ queue[i].op \notin gone
  <2>1. queue[i] \in Requests
    BY <1>1, MemberOf
  <2>2. queue'[i] = IF queue[i].op \in gone THEN [queue[i] EXCEPT !.gone = TRUE] ELSE queue[i]
    BY DEF Leave
  <2> QED
    BY <2>1, <2>2 DEF Requests
<1>5. DOMAIN queue' = DOMAIN queue /\ queue' \in Seq(Requests)
  <2>1. queue' = [i \in 1..Len(queue) |-> queue'[i]]
    BY <1>3 DEF Leave
  <2>2. queue' \in [1..Len(queue) -> Requests]
    BY <1>3, <1>4, <2>1
  <2> QED
    BY <1>3, <2>2
<1>6. Waits(queue)'
  <2> SUFFICES ASSUME NEW i \in DOMAIN queue, ~queue'[i].gone
               PROVE ops'[queue'[i].op].at = "waiting" /\ ~closed'
    BY <1>5 DEF Waits
  <2>1. ~queue[i].gone /\ queue[i].op \notin gone /\ queue'[i].op = queue[i].op /\ queue[i].op \in Ops
    BY <1>4
  <2>2. ops[queue[i].op].at = "waiting" /\ ~closed
    BY <1>1, <2>1 DEF Waits
  <2>3. queue[i].op \in InRequest
    BY <2>1, <2>2 DEF InRequest
  <2> QED
    BY <1>2, <2>1, <2>2, <2>3 DEF CloudInv, CloudType
<1>7. OneLive(queue)'
  BY <1>1, <1>4, <1>5 DEF OneLive
<1>8. Saving(writes)' /\ OneWrite(writes)'
  <2>1. ASSUME NEW i \in DOMAIN writes PROVE ops'[writes[i].op].at = "saving"
    <3>1. writes[i] \in Writes
      BY <1>1, MemberOf
    <3>2. writes[i].op \in Ops /\ ops[writes[i].op].at = "saving"
      BY <1>1, <3>1 DEF Saving, Writes
    <3> QED
      BY <1>2, <3>2
  <2> QED
    BY <1>1, <1>2, <2>1 DEF Saving, OneWrite
<1>9. sent' => queue' # <<>>
  BY <1>2, <1>3, <1>5 DEF CloudInv, CloudType
<1>10. CloudType'
  BY <1>2, <1>5, <1>9 DEF CloudInv, CloudType
<1>11. \A o \in Ops : /\ ops'[o].at \in {"waiting", "saving"} => session' \in SessionType
                      /\ Fits(o, ops'[o].goal)
  BY <1>1, <1>2 DEF CloudInv
<1> QED
  BY <1>6, <1>7, <1>8, <1>10, <1>11 DEF CloudInv

LEMMA AbandonedInv == CloudInv /\ Abandoned => CloudInv'
<1> SUFFICES ASSUME CloudInv, Abandoned PROVE CloudInv'
  OBVIOUS
<1>1. /\ queue # <<>> /\ queue' = Tail(queue) /\ ~sent'
      /\ UNCHANGED <<closed, session, ops, writes, store, spent>>
  BY DEF Abandoned, saving
<1>2. Tail(queue) \in Seq(Requests) /\ Waits(Tail(queue)) /\ OneLive(Tail(queue))
  BY <1>1, RestOfQueue
<1>3. Waits(queue)' /\ OneLive(queue)' /\ Saving(writes)' /\ OneWrite(writes)'
  BY <1>1, <1>2 DEF CloudInv, Waits, OneLive, Saving, OneWrite
<1>4. CloudType'
  BY <1>1, <1>2 DEF CloudInv, CloudType
<1> QED
  BY <1>1, <1>3, <1>4 DEF CloudInv

LEMMA CrashInv == CloudInv /\ Crash => CloudInv'
<1> SUFFICES ASSUME CloudInv, Crash PROVE CloudInv'
  OBVIOUS
<1>1. Idle \in Steps /\ Idle.at = "idle" /\ \A o : Fits(o, Idle.goal)
  BY OpsType
<1>2. ops' \in [Ops -> Steps] /\ \A o \in Ops : ops'[o].at = "idle" /\ Fits(o, ops'[o].goal)
  BY <1>1 DEF Crash
<1>3. /\ queue' = <<>> /\ writes' = <<>> /\ ~closed' /\ closed' \in BOOLEAN /\ ~sent'
      /\ session' = None /\ store' = store
  BY DEF Crash
<1>4. spent' \in Counts
  BY SMTT(60) DEF Crash, CloudInv, CloudType, Counts
<1>5. CloudType'
  BY <1>2, <1>3, <1>4 DEF CloudInv, CloudType
<1>6. Waits(queue)' /\ OneLive(queue)' /\ Saving(writes)' /\ OneWrite(writes)'
  BY <1>3 DEF Waits, OneLive, Saving, OneWrite
<1> QED
  BY <1>2, <1>5, <1>6 DEF CloudInv

LEMMA ConnectInv == ASSUME CloudInv, NEW answer \in BOOLEAN, Connect(answer) PROVE CloudInv'
<1> DEFINE step == [Idle EXCEPT !.at = "loading", !.answer = answer]
<1>1. step \in Steps /\ step.at = "loading" /\ Auth \in Ops /\ Fits(Auth, step.goal)
  BY OpsType DEF Steps, Ops, Fits
<1>2. /\ ops' = [ops EXCEPT ![Auth] = step] /\ ops[Auth].at = "idle"
      /\ UNCHANGED <<closed, session, queue, sent, writes, store>>
  BY DEF Connect, saving
<1>3. spent' \in Counts
  BY SMTT(60) DEF Connect, CloudInv, CloudType, Counts
<1>4. Free(Auth, queue, writes)
  BY <1>1, <1>2, FreeNow
<1> HIDE DEF step
<1>5. Moved(Auth, queue, writes)
  BY <1>1, <1>2, <1>3 DEF Moved, CloudInv, CloudType
<1> QED
  BY <1>1, <1>2, <1>4, <1>5, MovedInv DEF CloudInv, CloudType

LEMMA MovedQueue ==
    ASSUME NEW o, NEW q \in Seq(Requests), NEW ws, Moved(o, q, ws), q # <<>> PROVE queue' # <<>>
  BY AppendOf DEF Moved

LEMMA LoginMoves ==
    ASSUME CloudInv, NEW s \in SessionType, NEW q, NEW ws, Login(s, q), writes' = ws
    PROVE Moved(Auth, q, ws)
<1>1. session' \in SessionType /\ Raw(s, Auth, "login", q)
  BY DEF Login, SessionType, Phases
<1> QED
  BY <1>1, RawMoves DEF Words, Ops, Fits

LEMMA BeginMoves ==
    ASSUME CloudInv, NEW s \in SessionType, NEW answer, Begin(s, answer), UNCHANGED writes
    PROVE Moved(Auth, queue, writes)
<1>1. Auth \in Ops /\ spent \in Counts /\ "answer" \in Words /\ NoKey \in Nat
      /\ Fits(Auth, "captcha") /\ Fits(Auth, "domain")
  BY DEF Ops, CloudInv, CloudType, Words, NoKey, Fits
<1>2. CASE Return(Auth, Settled(s, answer)) /\ session' = s /\ UNCHANGED <<queue, spent>>
  BY <1>1, <1>2, ReturnMoves
<1>3. CASE session' = s /\ Raw(s, Auth, "captcha", queue)
  BY <1>1, <1>3, RawMoves
<1>4. CASE Login(s, queue)
  BY <1>4, LoginMoves
<1>5. CASE session' = s /\ Post(Auth, "domain", "answer", NoKey, queue) /\ UNCHANGED spent
  BY <1>1, <1>5, PostMoves
<1> QED
  BY <1>2, <1>3, <1>4, <1>5 DEF Begin

LEMMA LoadedInv == CloudInv /\ Loaded => CloudInv'
<1> SUFFICES ASSUME CloudInv, Loaded PROVE CloudInv'
  OBVIOUS
<1>1. /\ Auth \in Ops /\ ops[Auth].at = "loading"
      /\ UNCHANGED <<closed, sent, writes, store>>
      /\ spent \in Counts /\ session \in SessionType \cup {None} /\ store \in SessionType \cup {None}
      /\ queue \in Seq(Requests) /\ (sent => queue # <<>>)
  BY DEF Loaded, Ops, CloudInv, CloudType, saving
<1>2. NewSession \in SessionType
  BY DEF NewSession, SessionType, Phases, NoKey
<1> DEFINE s == IF session # None THEN session ELSE IF store # None THEN store ELSE NewSession
<1>3. ASSUME Begin(s, ops[Auth].answer) PROVE Moved(Auth, queue, writes)
  <2>1. s \in SessionType /\ UNCHANGED writes
    BY <1>1, <1>2
  <2> HIDE DEF s
  <2> QED
    BY <1>3, <2>1, BeginMoves
<1>4. ASSUME Fail(Auth) /\ UNCHANGED <<session, queue, spent>>
      PROVE Moved(Auth, queue, writes)
  <2>1. Return(Auth, "failed") /\ queue' = queue /\ writes' = writes
    BY <1>1, <1>4 DEF Fail
  <2>2. spent' \in Counts /\ session' = session /\ session' \in SessionType \cup {None}
    BY <1>1, <1>4
  <2> QED
    BY <1>1, <2>1, <2>2, ReturnMoves
<1>5. Moved(Auth, queue, writes)
  BY <1>3, <1>4 DEF Loaded
<1>6. Free(Auth, queue, writes)
  BY <1>1, FreeNow
<1> QED
  BY <1>1, <1>5, <1>6, MovedInv, MovedQueue

LEMMA CallInv == ASSUME CloudInv, NEW o \in Calls, Call(o) PROVE CloudInv'
<1>1. /\ o \in Ops /\ ops[o].at = "idle" /\ UNCHANGED <<closed, session, sent, writes, store>>
      /\ spent \in Counts /\ session \in SessionType /\ session.identity \in Nat
      /\ queue \in Seq(Requests) /\ (sent => queue # <<>>) /\ store \in SessionType \cup {None}
      /\ {"answer", "exchange"} \subseteq Words /\ Fits(o, "call")
  BY DEF Call, Ops, CloudInv, CloudType, saving, SessionType, Words, Fits
<1>2. ASSUME Post(o, "call", "answer", session.identity, queue),
             spent' = [spent EXCEPT !.calls = @ + 1]
      PROVE Moved(o, queue, writes)
  <2>1. spent' \in Counts
    BY <1>1, <1>2 DEF Counts
  <2>2. "answer" \in Words /\ session' \in SessionType /\ writes' = writes
    BY <1>1
  <2> QED
    BY <1>1, <1>2, <2>1, <2>2, PostMoves
<1>3. ASSUME Post(o, "call", "exchange", spent.keys + 1, queue),
             spent' = [[spent EXCEPT !.calls = @ + 1] EXCEPT !.keys = @ + 1]
      PROVE Moved(o, queue, writes)
  <2>1. spent' \in Counts /\ spent.keys + 1 \in Nat
    <3> DEFINE c == [spent EXCEPT !.calls = @ + 1]
    <3>1. c \in Counts
      BY <1>1 DEF Counts
    <3>2. spent' = [c EXCEPT !.keys = c.keys + 1]
      BY <1>3
    <3> HIDE DEF c
    <3>3. spent' \in Counts
      BY <3>1, <3>2 DEF Counts
    <3>4. spent.keys \in Nat
      BY <1>1 DEF Counts
    <3> QED
      BY <3>3, <3>4
  <2>2. "exchange" \in Words /\ session' \in SessionType /\ writes' = writes
    BY <1>1
  <2> QED
    BY <1>1, <1>3, <2>1, <2>2, PostMoves
<1>4. Moved(o, queue, writes)
  BY <1>2, <1>3 DEF Call
<1> QED
  BY <1>1, <1>4, FreeNow, MovedInv, MovedQueue

LEMMA LeftOf == ASSUME NEW S, NEW s \in Seq(S), s # <<>>
                PROVE SubSeq(s, 1, 1 - 1) \o SubSeq(s, 1 + 1, Len(s)) = Tail(s)
<1>1. SubSeq(s, 1, 1 - 1) = <<>>
  OBVIOUS
<1>2. SubSeq(s, 1 + 1, Len(s)) = Tail(s) /\ Tail(s) \in Seq(S)
  OBVIOUS
<1>3. <<>> \o Tail(s) = Tail(s)
  BY <1>2
<1> QED
  BY <1>1, <1>2, <1>3

LEMMA ResumeMoves ==
    ASSUME CloudInv, NEW o \in Ops, NEW left, ops[o].at = "saving", Resume(o, left)
    PROVE Moved(o, queue, left)
<1>1. /\ session \in SessionType /\ spent \in Counts /\ ops[o] \in Steps
      /\ Fits(o, ops[o].goal) /\ ops[o].key \in Nat
      /\ {"answer", "failed"} \subseteq Words /\ Fits(o, "login")
  BY OpsType DEF CloudInv, CloudType, Steps, Words, Fits
<1>2. CASE Post(o, ops[o].goal, "answer", ops[o].key, queue) /\ writes' = left
           /\ UNCHANGED <<session, spent>>
  BY <1>1, <1>2, PostMoves
<1>3. CASE Raw(session, o, ops[o].goal, queue) /\ writes' = left /\ UNCHANGED session
  BY <1>1, <1>3, RawMoves
<1>4. CASE Persist(session, o, "login", "failed", left) /\ UNCHANGED <<queue, answered, spent>>
  BY <1>1, <1>4, PersistMoves
<1>5. CASE Return(o, ops[o].then) /\ writes' = left /\ UNCHANGED <<session, queue, spent>>
  BY <1>1, <1>5, ReturnMoves
<1> QED
  BY <1>2, <1>3, <1>4, <1>5 DEF Resume

LEMMA WriteEndsInv == ASSUME CloudInv, NEW ok \in BOOLEAN, WriteEnds(ok) PROVE CloudInv'
<1> DEFINE o == Head(writes).op
<1>1. /\ writes # <<>> /\ writes \in Seq(Writes) /\ UNCHANGED <<closed, sent>>
      /\ queue \in Seq(Requests) /\ (sent => queue # <<>>)
      /\ spent \in Counts /\ session \in SessionType \cup {None} /\ store \in SessionType \cup {None}
  BY DEF WriteEnds, WriteAt, CloudInv, CloudType
<1>2. /\ Head(writes) \in Writes /\ o \in Ops /\ ops[o].at = "saving" /\ writes[1] = Head(writes)
      /\ Free(o, queue, Tail(writes)) /\ Head(writes).state \in SessionType
  BY <1>1, FreeAfterWrite DEF Writes
<1>3. \/ store' = Head(writes).state /\ Resume(o, Tail(writes))
      \/ /\ spent' = [spent EXCEPT !.failures = @ + 1] /\ Fail(o)
         /\ writes' = Tail(writes) /\ UNCHANGED <<store, session, queue>>
  BY <1>1, <1>2, LeftOf DEF WriteEnds, WriteAt
<1> HIDE DEF o
<1>4. CASE store' = Head(writes).state /\ Resume(o, Tail(writes))
  BY <1>1, <1>2, <1>4, ResumeMoves, MovedInv, MovedQueue
<1>5. CASE spent' = [spent EXCEPT !.failures = @ + 1] /\ Fail(o)
           /\ writes' = Tail(writes) /\ UNCHANGED <<store, session, queue>>
  <2>1. spent' \in Counts
    BY SMTT(60), <1>1, <1>5 DEF Counts
  <2>2. Moved(o, queue, Tail(writes))
    BY <1>1, <1>2, <1>5, <2>1, ReturnMoves DEF Fail
  <2> QED
    BY <1>1, <1>2, <1>5, <2>2, MovedInv
<1> QED
  BY <1>3, <1>4, <1>5

(* What an operation does with the answer to its request.                   *)
LEMMA LoginEndsMoves ==
    ASSUME CloudInv, NEW o \in Ops, NEW q, session \in SessionType, LoginEnds(o, q)
    PROVE Moved(o, q, writes)
<1>1. spent \in Counts /\ Fits(o, "captcha") /\ Fits(o, "code") /\ Fits(o, "login")
      /\ {"locked", "raw", "failed", "verification_required", "connected"} \subseteq Words
  BY DEF CloudInv, CloudType, Fits, Words
<1>2. ASSUME NEW next \in {<<"locked", "locked">>, <<"captcha", "raw">>, <<session.phase, "failed">>},
             Persist([session EXCEPT !.phase = next[1]], o, "captcha", next[2], writes),
             queue' = q, spent' = spent
      PROVE Moved(o, q, writes)
  <2>1. next[1] \in Phases /\ next[2] \in Words
    BY <1>1, <1>2 DEF Phases, SessionType
  <2>2. [session EXCEPT !.phase = next[1]] \in SessionType
    BY <2>1 DEF SessionType
  <2> QED
    BY <1>1, <1>2, <2>1, <2>2, PersistMoves
<1>3. ASSUME Verification(o, q) PROVE Moved(o, q, writes)
  <2> DEFINE s == [session EXCEPT !.token = "valid", !.phase = "verification"]
             then == IF session.phase # "verification" THEN "raw" ELSE "verification_required"
  <2>1. s \in SessionType /\ then \in Words
    BY <1>1 DEF SessionType, Phases
  <2>2. Persist(s, o, "code", then, writes) /\ queue' = q /\ spent' = spent
    BY <1>3 DEF Verification
  <2> HIDE DEF s, then
  <2> QED
    BY <1>1, <2>1, <2>2, PersistMoves
<1>4. ASSUME Persist([session EXCEPT !.token = "valid", !.phase = "authenticated"], o, "login",
                     "connected", writes),
             queue' = q, spent' = spent
      PROVE Moved(o, q, writes)
  <2>1. [session EXCEPT !.token = "valid", !.phase = "authenticated"] \in SessionType
    BY DEF SessionType, Phases
  <2> QED
    BY <1>1, <1>4, <2>1, PersistMoves
<1> QED
  BY <1>2, <1>3, <1>4 DEF LoginEnds

LEMMA DiscardedMoves ==
    ASSUME CloudInv, NEW o \in Ops, NEW then \in Words, NEW q, session \in SessionType,
           Discarded(o, then, q)
    PROVE Moved(o, q, writes)
<1>1. [session EXCEPT !.identity = NoKey] \in SessionType
  BY DEF SessionType, NoKey
<1>2. spent \in Counts /\ Fits(o, ops[o].goal)
  BY DEF CloudInv, CloudType
<1>3. Persist([session EXCEPT !.identity = NoKey], o, ops[o].goal, then, writes)
      /\ queue' = q /\ spent' = spent
  BY DEF Discarded
<1> QED
  BY <1>1, <1>2, <1>3, PersistMoves

LEMMA AcceptedMoves ==
    ASSUME CloudInv, NEW r \in Requests, NEW q, session \in SessionType, Accepted(r, q)
    PROVE Moved(r.op, q, writes)
<1>1. r.op \in Ops /\ r.key \in Nat /\ Fits(r.op, r.goal) /\ spent \in Counts
      /\ "request" \in Words /\ session \in SessionType \cup {None}
  BY DEF Requests, CloudInv, CloudType, Words
<1>2. CASE r.then = "exchange"
  <2>1. [session EXCEPT !.identity = r.key] \in SessionType
    BY <1>1 DEF SessionType
  <2>2. /\ Persist([session EXCEPT !.identity = r.key], r.op, r.goal, "request", writes)
        /\ queue' = q /\ spent' = spent
    BY <1>2 DEF Accepted
  <2> QED
    BY <1>1, <2>1, <2>2, PersistMoves
<1>3. CASE r.then = "answer" /\ r.goal = "domain"
  <2>1. Login([session EXCEPT !.domain = TRUE], q) /\ writes' = writes /\ r.op = Auth
    BY <1>1, <1>3 DEF Accepted, Fits
  <2>2. [session EXCEPT !.domain = TRUE] \in SessionType
    BY DEF SessionType
  <2> QED
    BY <2>1, <2>2, LoginMoves
<1>4. CASE r.then = "answer" /\ r.goal = "login"
  <2>1. LoginEnds(r.op, q)
    BY <1>4 DEF Accepted
  <2> QED
    BY <1>1, <2>1, LoginEndsMoves
<1>5. CASE r.then # "exchange" /\ ~(r.then = "answer" /\ r.goal \in {"domain", "login"})
  <2>1. PICK state : Return(r.op, state)
    BY <1>5 DEF Accepted
  <2>2. queue' = q /\ session' = session /\ writes' = writes /\ spent' = spent
    BY <1>5 DEF Accepted
  <2> QED
    BY <1>1, <2>1, <2>2, ReturnMoves
<1> QED
  BY <1>2, <1>3, <1>4, <1>5

LEMMA AnswerInv == CloudInv /\ Answer => CloudInv'
<1> SUFFICES ASSUME CloudInv, Answer PROVE CloudInv'
  OBVIOUS
<1> DEFINE r == Head(queue)
           q == Tail(queue)
<1>1. /\ queue # <<>> /\ ~r.gone /\ ~sent' /\ UNCHANGED <<closed, store>>
      /\ spent \in Counts /\ session \in SessionType \cup {None} /\ store \in SessionType \cup {None}
      /\ "failed" \in Words /\ "again" \in Words
  BY DEF Answer, CloudInv, CloudType, Words
<1>2. r \in Requests /\ r.op \in Ops /\ ops[r.op].at = "waiting" /\ Free(r.op, q, writes)
  BY <1>1, RestOfQueue
<1>3. session \in SessionType
  BY <1>2 DEF CloudInv
<1>4. \/ Accepted(r, q)
      \/ Discarded(r.op, "failed", q)
      \/ Discarded(r.op, "again", q)
      \/ Fail(r.op) /\ queue' = q /\ UNCHANGED <<session, writes, spent>>
  BY DEF Answer
<1> HIDE DEF r, q
<1>5. Moved(r.op, q, writes)
  <2>1. CASE Accepted(r, q)
    BY <1>2, <1>3, <2>1, AcceptedMoves
  <2>2. CASE Discarded(r.op, "failed", q) \/ Discarded(r.op, "again", q)
    BY <1>1, <1>2, <1>3, <2>2, DiscardedMoves
  <2>3. CASE Fail(r.op) /\ queue' = q /\ UNCHANGED <<session, writes, spent>>
    BY <1>1, <1>2, <1>3, <2>3, ReturnMoves DEF Fail
  <2> QED
    BY <1>4, <2>1, <2>2, <2>3
<1> QED
  BY <1>1, <1>2, <1>5, MovedInv

(* The steps of the slot, the cloud and the token.                          *)
LEMMA OthersInv == CloudInv /\ (Send \/ SlotOpens \/ Expires \/ \E k \in keys : Forgets(k)) => CloudInv'
<1> SUFFICES ASSUME CloudInv, Send \/ SlotOpens \/ Expires \/ \E k \in keys : Forgets(k)
             PROVE CloudInv'
  OBVIOUS
<1>1. spent \in Counts /\ session \in SessionType \cup {None} /\ (sent => queue # <<>>)
  BY DEF CloudInv, CloudType
<1>2. CASE Send
  BY <1>1, <1>2, SameInv DEF Send, Sends, saving
<1>3. CASE SlotOpens
  BY <1>1, <1>3, SameInv DEF SlotOpens, saving
<1>4. CASE Expires
  <2>1. session' \in SessionType
    <3>1. session \in SessionType /\ session' = [session EXCEPT !.token = "expired"]
      BY <1>1, <1>4 DEF Expires
    <3> QED
      BY <3>1 DEF SessionType
  <2> QED
    BY <1>1, <1>4, <2>1, SameInv DEF Expires, saving
<1>5. ASSUME NEW k \in keys, Forgets(k) PROVE CloudInv'
  <2>1. spent' \in Counts
    BY <1>1, <1>5 DEF Forgets, Counts
  <2> QED
    BY <1>1, <1>5, <2>1, SameInv DEF Forgets, saving
<1> QED
  BY <1>2, <1>3, <1>4, <1>5

LEMMA NextInv == CloudInv /\ [Next]_vars => CloudInv'
<1> SUFFICES ASSUME CloudInv, [Next]_vars PROVE CloudInv'
  OBVIOUS
<1>1. CASE UNCHANGED vars
  BY <1>1, SameInv DEF vars, saving, CloudInv, CloudType
<1>2. ASSUME NEW o \in Ops, Cancel(o) PROVE CloudInv'
  <2>1. {o} \in SUBSET InRequest /\ Leave({o}) /\ closed' = closed
    BY <1>2 DEF Cancel
  <2> QED
    BY <2>1, LeaveInv DEF CloudInv, CloudType
<1>3. CASE Close
  BY <1>3, LeaveInv DEF Close
<1> QED
  BY <1>1, <1>2, <1>3, ConnectInv, LoadedInv, CallInv, AbandonedInv, AnswerInv, OthersInv,
     WriteEndsInv, CrashInv DEF Next

LEMMA Invariant == Spec => []CloudInv
  BY InitInv, NextInv, PTL DEF Spec

-----------------------------------------------------------------------------
(* "Queueing also consumes the deadline. A cancelled queued request never   *)
(* sends" (cloud.ts post): whatever is sent has a caller that still waits   *)
(* for it, on a client that is open.                                        *)
THEOREM SentIsAwaited == Spec => SentForCaller
<1>1. ASSUME CloudInv, Next, ~sent, sent'
      PROVE ~closed /\ ~Head(queue).gone /\ ops[Head(queue).op].at = "waiting"
  <2>1. Send
    BY <1>1 DEF Next, Connect, Loaded, Call, SlotOpens, Abandoned, Answer, Cancel, Leave, Close,
                WriteEnds, WriteAt, Forgets, Expires, Crash
  <2>2. queue # <<>> /\ ~Head(queue).gone
    BY <2>1 DEF Send
  <2> QED
    BY <1>1, <2>2, RestOfQueue
<1>2. CloudInv /\ [Next]_vars =>
        [~sent /\ sent' => ~closed /\ ~Head(queue).gone /\ ops[Head(queue).op].at = "waiting"]_vars
  BY <1>1
<1> QED
  BY <1>2, Invariant, PTL DEF SentForCaller, Spec

-----------------------------------------------------------------------------
(* The session, the store and what connect() told.                          *)

Honest(x) == x # None /\ x.phase = "authenticated" => x.token # "none"
Has(x, phase) == x # None /\ x.phase = phase
(* A state saved earlier has the phase of the session s, except that a login *)
(* resets an authenticated session in memory only.                          *)
Follows(x, s) == x.phase = s.phase \/ (s.phase = "new" /\ x.phase = "authenticated")
Stored(s, st) == IF st = None THEN s.phase = "new" ELSE Follows(st, s)
(* No write of connect() is behind the j-th.                                *)
Last(j, ws) == \A i \in DOMAIN ws : i > j => ws[i].op # Auth
Verified(st, ws) ==
    Has(st, "verification") /\ \A i \in DOMAIN ws : ws[i].state.phase = "verification"

(* What an operation other than connect() may ask for and do then; and what  *)
(* a request that is not gone carries.                                      *)
CallStep(o, goal, then) ==
    o # Auth => goal \in {"none", "call"}
                /\ then \in {"none", "answer", "exchange", "request", "failed"}
OpsFit == \A o \in Ops : /\ CallStep(o, ops[o].goal, ops[o].then)
                         /\ ops[o].at = "waiting" => ops[o].then \in {"answer", "exchange"}
Carries(q) ==
    \A i \in DOMAIN q :
        ~q[i].gone => q[i].goal = ops[q[i].op].goal /\ q[i].then = ops[q[i].op].then
Present(o, q, ws) ==
    /\ ops[o].at = "waiting" => \E i \in DOMAIN q : q[i].op = o /\ ~q[i].gone
    /\ ops[o].at = "saving" => \E i \in DOMAIN ws : ws[i].op = o

(* A request that the step leads to, and what it tells when it is saved.    *)
Ahead(step) == step.at = "waiting" \/ (step.at = "saving" /\ step.then \in {"raw", "request"})
Leads(step, s) ==
    /\ Ahead(step) /\ step.goal = "captcha" => s.phase = "captcha"
    /\ Ahead(step) /\ step.goal = "code" => s.phase = "verification"
    /\ step.at = "saving" /\ step.then \in DOMAIN PhaseOf => s.phase = PhaseOf[step.then]
Told(s, st, failures) ==
    answered \in DOMAIN PhaseOf =>
        /\ ops[Auth].at = "idle"
        /\ s # None => s.phase = PhaseOf[answered]
        /\ failures = 0 => Has(st, PhaseOf[answered])
(* When a code has been mailed, the phase is verification everywhere, and no *)
(* request for one is to be sent.                                           *)
CodeSafe(s, st, q, ws, slot) ==
    /\ code => Verified(st, ws) /\ (s # None => s.phase = "verification")
    /\ /\ ops[Auth].goal = "code"
       /\ ops[Auth].at = "waiting" \/ (ops[Auth].at = "saving" /\ ops[Auth].then = "request")
       => Verified(st, ws)
    /\ code /\ ops[Auth].goal = "code" /\ Ahead(ops[Auth]) =>
           /\ ops[Auth].at = "waiting" /\ ops[Auth].then = "answer"
           /\ slot /\ Head(q).op = Auth /\ ~Head(q).gone

StoryAt(s, st, q, ws, slot, failures) ==
    /\ Honest(s) /\ Honest(st) /\ \A i \in DOMAIN ws : Honest(ws[i].state)
    /\ s # None => /\ \A j \in DOMAIN ws : Last(j, ws) => Follows(ws[j].state, s)
                   /\ failures = 0 /\ ops[Auth].at # "saving" => Stored(s, st)
    /\ Leads(ops[Auth], s)
    /\ Told(s, st, failures)
    /\ CodeSafe(s, st, q, ws, slot)
StoryInv ==
    /\ StoryAt(session, store, queue, writes, sent, spent.failures)
    /\ Carries(queue) /\ OpsFit
    /\ \A o \in Ops : Present(o, queue, writes)

(* Where connect() starts a step, with the session s.                       *)
AuthReady(s, st, ws, failures) ==
    /\ s \in SessionType
    /\ Honest(s) /\ Honest(st) /\ \A i \in DOMAIN ws : Honest(ws[i].state)
    /\ \A j \in DOMAIN ws : Follows(ws[j].state, s)
    /\ failures = 0 => Stored(s, st)
    /\ code => Verified(st, ws) /\ s.phase = "verification"
    /\ answered \notin DOMAIN PhaseOf

(* The steps of an operation: it ends, it asks for a request or saves.      *)
Ends(o, state, q, ws) ==
    /\ Return(o, state) /\ writes' = ws
    /\ \/ queue' = q
       \/ \E r \in Requests : r.gone /\ r.op = o /\ queue' = Append(q, r)
Asks(o, goal, then, q, ws) ==
    /\ \E step \in Steps : /\ ops' = [ops EXCEPT ![o] = step]
                           /\ step.at = "waiting" /\ step.goal = goal /\ step.then = then
    /\ \E r \in Requests : /\ queue' = Append(q, r)
                           /\ ~r.gone /\ r.op = o /\ r.goal = goal /\ r.then = then
    /\ writes' = ws /\ UNCHANGED answered
Saves(o, goal, then, q, ws) ==
    /\ \E step \in Steps : /\ ops' = [ops EXCEPT ![o] = step]
                           /\ step.at = "saving" /\ step.goal = goal /\ step.then = then
    /\ \E w \in Writes : writes' = Append(ws, w) /\ w.op = o /\ w.state = session'
    /\ queue' = q /\ UNCHANGED answered
CallMoves(o, q, ws) ==
    /\ session # None /\ session' \in SessionType
    /\ session'.phase = session.phase /\ Honest(session')
    /\ code' => code
    /\ \/ \E state : Ends(o, state, q, ws)
       \/ \E goal \in {"none", "call"}, then \in {"answer", "exchange"} : Asks(o, goal, then, q, ws)
       \/ \E goal \in {"none", "call"}, then \in {"request", "failed"} : Saves(o, goal, then, q, ws)
Resets(s) == session'.phase = s.phase \/ (s.phase = "authenticated" /\ session'.phase = "new")
AuthMoves(s, st, q, ws) ==
    /\ session' \in SessionType /\ Honest(session')
    /\ code' => code
    /\ \/ \E state :
            /\ Ends(Auth, state, q, ws) /\ Resets(s)
            /\ state \in DOMAIN PhaseOf => s.phase = PhaseOf[state] /\ session'.phase = s.phase
       \/ \E goal, then :
            /\ Asks(Auth, goal, then, q, ws) /\ Resets(s)
            /\ then \in {"answer", "exchange"}
            /\ goal = "captcha" => session'.phase = "captcha"
            /\ goal = "code" => /\ session'.phase = "verification" /\ ~code'
                                /\ Verified(st, ws)
       \/ \E goal, then :
            /\ Saves(Auth, goal, then, q, ws)
            /\ code' => session'.phase = "verification"
            /\ Leads([at |-> "saving", goal |-> goal, then |-> then], session')
            /\ goal = "code" /\ then = "request" => Verified(st, ws)
            /\ goal = "code" /\ then \in {"raw", "request"} => ~code'

LEMMA PhaseOfIs ==
    /\ DOMAIN PhaseOf = {"locked", "verification_required", "captcha_required", "connected"}
    /\ PhaseOf["locked"] = "locked" /\ PhaseOf["verification_required"] = "verification"
    /\ PhaseOf["captcha_required"] = "captcha" /\ PhaseOf["connected"] = "authenticated"
    /\ \A state \in DOMAIN PhaseOf : PhaseOf[state] # "new"
  BY DEF PhaseOf

(* What any step of an operation keeps: the requests carry what their callers *)
(* wait for, and whoever waits has a request or a write.                     *)
LEMMA StepKeeps ==
    ASSUME CloudInv, NEW o \in Ops, NEW q, NEW ws, Free(o, q, ws), OpsFit, Carries(q),
           \A x \in Ops \ {o} : Present(x, q, ws),
           \/ \E state : Ends(o, state, q, ws)
           \/ \E goal, then : /\ Asks(o, goal, then, q, ws) /\ CallStep(o, goal, then)
                              /\ then \in {"answer", "exchange"}
           \/ \E goal, then : Saves(o, goal, then, q, ws) /\ CallStep(o, goal, then)
    PROVE Carries(queue)' /\ OpsFit' /\ \A x \in Ops : Present(x, queue, writes)'
<1> DEFINE Step(step) ==
        /\ ops' = [ops EXCEPT ![o] = step] /\ step \in Steps
        /\ CallStep(o, step.goal, step.then)
        /\ step.at = "waiting" => step.then \in {"answer", "exchange"}
        /\ \/ queue' = q /\ step.at # "waiting"
           \/ \E r \in Requests :
                /\ queue' = Append(q, r) /\ r.op = o
                /\ ~r.gone => r.goal = step.goal /\ r.then = step.then
                /\ step.at = "waiting" => ~r.gone
        /\ \/ writes' = ws /\ step.at # "saving"
           \/ \E w \in Writes : writes' = Append(ws, w) /\ w.op = o
<1>1. ASSUME NEW state, Ends(o, state, q, ws) PROVE \E step : Step(step)
  <2>1. ops' = [ops EXCEPT ![o] = Idle] /\ writes' = ws
    BY <1>1 DEF Ends, Return
  <2>2. Idle \in Steps /\ Idle.at = "idle" /\ CallStep(o, Idle.goal, Idle.then)
    BY OpsType DEF Idle, CallStep
  <2>3. \/ queue' = q
        \/ \E r \in Requests : r.gone /\ r.op = o /\ queue' = Append(q, r)
    BY <1>1 DEF Ends
  <2> QED
    BY <2>1, <2>2, <2>3
<1>2. ASSUME NEW goal, NEW then, Asks(o, goal, then, q, ws), CallStep(o, goal, then),
             then \in {"answer", "exchange"}
      PROVE \E step : Step(step)
  BY <1>2 DEF Asks
<1>3. ASSUME NEW goal, NEW then, Saves(o, goal, then, q, ws), CallStep(o, goal, then)
      PROVE \E step : Step(step)
  BY <1>3 DEF Saves
<1>4. PICK step : Step(step)
  BY <1>1, <1>2, <1>3
<1>5. /\ q \in Seq(Requests) /\ ws \in Seq(Writes) /\ ops \in [Ops -> Steps]
      /\ \A x \in Ops : ops'[x] = IF x = o THEN step ELSE ops[x]
      /\ \A i \in DOMAIN q : q[i].op \in Ops /\ (~q[i].gone => q[i].op # o)
  <2>1. q \in Seq(Requests) /\ ws \in Seq(Writes) /\ ops \in [Ops -> Steps]
    BY DEF Free, CloudInv, CloudType
  <2>2. \A i \in DOMAIN q : q[i] \in Requests
    BY <2>1, MemberOf
  <2> QED
    BY <1>4, <2>1, <2>2 DEF Free, Requests
<1>6. OpsFit'
  BY <1>4, <1>5 DEF OpsFit, CallStep
<1>7. Carries(queue)'
  <2>1. CASE queue' = q
    BY <1>5, <2>1 DEF Carries
  <2>2. ASSUME NEW r \in Requests, queue' = Append(q, r), r.op = o,
               ~r.gone => r.goal = step.goal /\ r.then = step.then
        PROVE Carries(queue)'
    <3>1. \A i \in DOMAIN queue' : (i \in DOMAIN q /\ queue'[i] = q[i]) \/ queue'[i] = r
      BY <1>5, <2>2, AppendOf
    <3> QED
      BY <1>5, <2>2, <3>1 DEF Carries
  <2> QED
    BY <1>4, <2>1, <2>2
<1>8. ASSUME NEW x \in Ops PROVE Present(x, queue, writes)'
  <2>1. /\ \A i \in DOMAIN q : i \in DOMAIN queue' /\ queue'[i] = q[i]
        /\ \A i \in DOMAIN ws : i \in DOMAIN writes' /\ writes'[i] = ws[i]
    <3>1. \A i \in DOMAIN q : i \in DOMAIN queue' /\ queue'[i] = q[i]
      <4>1. ASSUME NEW r \in Requests, queue' = Append(q, r)
            PROVE \A i \in DOMAIN q : i \in DOMAIN queue' /\ queue'[i] = q[i]
        <5>1. /\ Len(q) \in Nat /\ DOMAIN q = 1..Len(q) /\ DOMAIN queue' = 1..(Len(q) + 1)
              /\ \A i \in DOMAIN q : queue'[i] = q[i]
          BY <1>5, <4>1, AppendOf
        <5> QED
          BY <5>1
      <4> QED
        BY <1>4, <4>1
    <3>2. \A i \in DOMAIN ws : i \in DOMAIN writes' /\ writes'[i] = ws[i]
      <4>1. ASSUME NEW w \in Writes, writes' = Append(ws, w)
            PROVE \A i \in DOMAIN ws : i \in DOMAIN writes' /\ writes'[i] = ws[i]
        <5>1. /\ Len(ws) \in Nat /\ DOMAIN ws = 1..Len(ws) /\ DOMAIN writes' = 1..(Len(ws) + 1)
              /\ \A i \in DOMAIN ws : writes'[i] = ws[i]
          BY <1>5, <4>1, AppendOf
        <5> QED
          BY <5>1
      <4> QED
        BY <1>4, <4>1
    <3> QED
      BY <3>1, <3>2
  <2>2. CASE x # o
    BY <1>5, <2>1, <2>2 DEF Present
  <2>3. CASE x = o
    <3>1. step.at = "waiting" => \E i \in DOMAIN queue' : queue'[i].op = o /\ ~queue'[i].gone
      <4>1. ASSUME step.at = "waiting"
            PROVE \E r \in Requests : queue' = Append(q, r) /\ r.op = o /\ ~r.gone
        BY <1>4, <4>1
      <4>2. ASSUME NEW r \in Requests, queue' = Append(q, r), r.op = o, ~r.gone
            PROVE \E i \in DOMAIN queue' : queue'[i].op = o /\ ~queue'[i].gone
        <5>1. Len(q) + 1 \in DOMAIN queue' /\ queue'[Len(q) + 1] = r
          BY <1>5, <4>2, AppendOf
        <5> QED
          BY <4>2, <5>1
      <4> QED
        BY <4>1, <4>2
    <3>2. step.at = "saving" => \E i \in DOMAIN writes' : writes'[i].op = o
      <4>1. ASSUME step.at = "saving" PROVE \E w \in Writes : writes' = Append(ws, w) /\ w.op = o
        BY <1>4, <4>1
      <4>2. ASSUME NEW w \in Writes, writes' = Append(ws, w), w.op = o
            PROVE \E i \in DOMAIN writes' : writes'[i].op = o
        <5>1. Len(ws) + 1 \in DOMAIN writes' /\ writes'[Len(ws) + 1] = w
          BY <1>5, <4>2, AppendOf
        <5> QED
          BY <4>2, <5>1
      <4> QED
        BY <4>1, <4>2
    <3> QED
      BY <1>5, <2>3, <3>1, <3>2 DEF Present
  <2> QED
    BY <2>2, <2>3
<1> QED
  BY <1>6, <1>7, <1>8

(* How the step leaves the writes and the request that holds the slot.       *)
LEMMA StepWrites ==
    ASSUME CloudInv, NEW o \in Ops, NEW q, NEW ws, Free(o, q, ws),
           \/ \E state : Ends(o, state, q, ws)
           \/ \E goal, then : Asks(o, goal, then, q, ws)
           \/ \E goal, then : Saves(o, goal, then, q, ws)
    PROVE /\ \A j \in DOMAIN ws : j \in DOMAIN writes' /\ writes'[j] = ws[j] /\ j \in Nat
          /\ \A j \in DOMAIN writes' :
                \/ j \in DOMAIN ws /\ writes'[j] = ws[j]
                \/ writes'[j].state = session' /\ writes' # ws /\ writes'[j].op = o
          /\ q # <<>> => Head(queue') = Head(q) /\ queue' # <<>>
          /\ \A x \in Ops \ {o} : ops'[x] = ops[x]
<1>1. q \in Seq(Requests) /\ ws \in Seq(Writes) /\ ops \in [Ops -> Steps]
  BY DEF Free, CloudInv, CloudType
<1>2. queue' = q \/ \E r \in Requests : queue' = Append(q, r)
  BY DEF Ends, Asks, Saves
<1>3. writes' = ws \/ \E w \in Writes : writes' = Append(ws, w) /\ w.state = session' /\ w.op = o
  BY DEF Ends, Asks, Saves
<1>4. q # <<>> => Head(queue') = Head(q) /\ queue' # <<>>
  <2>1. ASSUME NEW r \in Requests, queue' = Append(q, r), q # <<>>
        PROVE Head(queue') = Head(q) /\ queue' # <<>>
    BY <1>1, <2>1
  <2> QED
    BY <1>2, <2>1
<1>5. \A x \in Ops \ {o} : ops'[x] = ops[x]
  <2>1. \E step : ops' = [ops EXCEPT ![o] = step]
    BY DEF Ends, Asks, Saves, Return
  <2> QED
    BY <1>1, <2>1
<1>6. ASSUME NEW w \in Writes, writes' = Append(ws, w), w.state = session', w.op = o
      PROVE /\ \A j \in DOMAIN ws : j \in DOMAIN writes' /\ writes'[j] = ws[j] /\ j \in Nat
            /\ \A j \in DOMAIN writes' :
                  \/ j \in DOMAIN ws /\ writes'[j] = ws[j]
                  \/ writes'[j].state = session' /\ writes' # ws /\ writes'[j].op = o
  <2>1. /\ Len(ws) \in Nat /\ DOMAIN ws = 1..Len(ws) /\ DOMAIN writes' = 1..(Len(ws) + 1)
        /\ \A j \in DOMAIN ws : writes'[j] = ws[j]
        /\ writes'[Len(ws) + 1] = w
    BY <1>1, <1>6, AppendOf
  <2>2. writes' # ws
    BY <2>1
  <2>3. \A j \in DOMAIN ws : j \in DOMAIN writes' /\ writes'[j] = ws[j] /\ j \in Nat
    BY <2>1
  <2>4. \A j \in DOMAIN writes' : j \in DOMAIN ws \/ j = Len(ws) + 1
    BY <2>1
  <2> QED
    BY <1>6, <2>1, <2>2, <2>3, <2>4
<1>7. CASE writes' = ws
  <2>1. \A j \in DOMAIN ws : j \in Nat
    BY <1>1
  <2> QED
    BY <1>4, <1>5, <1>7, <2>1
<1> QED
  BY <1>3, <1>4, <1>5, <1>6, <1>7

LEMMA CallMovesStory ==
    ASSUME CloudInv, NEW o \in Ops, o # Auth, NEW q, NEW ws, NEW st, NEW slot,
           Free(o, q, ws), StoryAt(session, st, q, ws, slot, spent'.failures),
           Carries(q), OpsFit, \A x \in Ops \ {o} : Present(x, q, ws),
           CallMoves(o, q, ws), store' = st, sent' = slot, slot => q # <<>>
    PROVE StoryInv'
<1>1. /\ \/ \E state : Ends(o, state, q, ws)
         \/ \E goal, then : /\ Asks(o, goal, then, q, ws) /\ CallStep(o, goal, then)
                            /\ then \in {"answer", "exchange"}
         \/ \E goal, then : Saves(o, goal, then, q, ws) /\ CallStep(o, goal, then)
      /\ answered' = answered
  BY DEF CallMoves, CallStep, Ends, Asks, Saves, Return
<1>2. /\ \A j \in DOMAIN ws : j \in DOMAIN writes' /\ writes'[j] = ws[j] /\ j \in Nat
      /\ \A j \in DOMAIN writes' :
            \/ j \in DOMAIN ws /\ writes'[j] = ws[j]
            \/ writes'[j].state = session'
      /\ q # <<>> => Head(queue') = Head(q)
      /\ ops'[Auth] = ops[Auth]
  BY <1>1, StepWrites DEF Ops
<1>3. /\ session # None /\ session' \in SessionType /\ session' # None
      /\ session'.phase = session.phase /\ Honest(session') /\ (code' => code)
  BY MegaCloudDistinct DEF CallMoves
<1>4. Honest(session)' /\ Honest(store)' /\ \A i \in DOMAIN writes' : Honest(writes'[i].state)
  BY <1>2, <1>3 DEF StoryAt, Honest
<1>5. \A j \in DOMAIN writes' : Last(j, writes') => Follows(writes'[j].state, session')
  BY <1>2, <1>3 DEF StoryAt, Last, Follows
<1>6. spent'.failures = 0 /\ ops'[Auth].at # "saving" => Stored(session', store')
  BY <1>2, <1>3 DEF StoryAt, Stored, Follows
<1>7. Leads(ops'[Auth], session') /\ Told(session, store, spent.failures)'
  BY <1>1, <1>2, <1>3 DEF StoryAt, Leads, Told
<1>8. CodeSafe(session, store, queue, writes, sent)'
  <2>1. Verified(st, ws) /\ session.phase = "verification" => Verified(store', writes')
    BY <1>2, <1>3 DEF Verified, Has
  <2>2. Verified(store', writes') <=> Verified(store, writes)'
    BY DEF Verified, Has
  <2>3. ops[Auth].goal = "code" /\ (ops[Auth].at = "waiting"
            \/ (ops[Auth].at = "saving" /\ ops[Auth].then = "request"))
        => session.phase = "verification"
    BY DEF StoryAt, Leads, Ahead
  <2> QED
    BY <1>2, <1>3, <2>1, <2>2, <2>3 DEF StoryAt, CodeSafe, Ahead
<1>9. StoryAt(session, store, queue, writes, sent, spent.failures)'
  BY <1>4, <1>5, <1>6, <1>7, <1>8 DEF StoryAt, Last, Follows, Honest, Stored, Leads, Ahead
<1> QED
  BY <1>1, <1>9, StepKeeps DEF StoryInv

LEMMA AuthMovesStory ==
    ASSUME CloudInv, NEW s, NEW st, NEW q, NEW ws, Free(Auth, q, ws),
           AuthReady(s, st, ws, spent'.failures), AuthMoves(s, st, q, ws),
           Carries(q), OpsFit, \A x \in Ops \ {Auth} : Present(x, q, ws), store' = st
    PROVE StoryInv'
<1> DEFINE keeps == Carries(queue)' /\ OpsFit' /\ \A x \in Ops : Present(x, queue, writes)'
<1>1. Auth \in Ops /\ ops \in [Ops -> Steps]
  BY DEF Ops, CloudInv, CloudType
<1>2. /\ \/ \E state : Ends(Auth, state, q, ws)
         \/ \E goal, then : /\ Asks(Auth, goal, then, q, ws) /\ CallStep(Auth, goal, then)
                            /\ then \in {"answer", "exchange"}
         \/ \E goal, then : Saves(Auth, goal, then, q, ws) /\ CallStep(Auth, goal, then)
  BY DEF AuthMoves, CallStep
<1>3. keeps
  BY <1>1, <1>2, StepKeeps
<1>4. /\ \A j \in DOMAIN ws : j \in DOMAIN writes' /\ writes'[j] = ws[j]
      /\ \A j \in DOMAIN writes' :
            \/ j \in DOMAIN ws /\ writes'[j] = ws[j]
            \/ writes'[j].state = session' /\ writes' # ws /\ writes'[j].op = Auth
  BY <1>1, <1>2, StepWrites
<1>5. /\ s \in SessionType /\ session' \in SessionType /\ s # None /\ session' # None
      /\ Honest(session)' /\ Honest(store)' /\ \A i \in DOMAIN writes' : Honest(writes'[i].state)
      /\ code' => code
  BY <1>4, MegaCloudDistinct DEF AuthReady, AuthMoves, Honest
<1>6. CASE writes' = ws /\ Resets(s)
           /\ \/ \E state :
                   /\ Ends(Auth, state, q, ws)
                   /\ state \in DOMAIN PhaseOf => s.phase = PhaseOf[state] /\ session'.phase = s.phase
              \/ \E goal, then :
                   /\ Asks(Auth, goal, then, q, ws)
                   /\ goal = "captcha" => session'.phase = "captcha"
                   /\ goal = "code" => /\ session'.phase = "verification" /\ ~code'
                                       /\ Verified(st, ws)
  <2>1. /\ \A j \in DOMAIN writes' : Follows(writes'[j].state, session')
        /\ spent'.failures = 0 => Stored(session', store')
    BY <1>4, <1>6 DEF AuthReady, Follows, Stored, Resets
  <2>2. code' => Verified(store', writes') /\ session'.phase = "verification"
    BY <1>5, <1>6 DEF AuthReady, Verified, Resets
  <2>3. ASSUME NEW state, Ends(Auth, state, q, ws),
               state \in DOMAIN PhaseOf => s.phase = PhaseOf[state] /\ session'.phase = s.phase
        PROVE StoryAt(session, store, queue, writes, sent, spent.failures)'
    <3>1. ops'[Auth] = Idle /\ answered' = state /\ Idle.at = "idle" /\ ops'[Auth].at = "idle"
      BY <1>1, <2>3, OpsType DEF Ends, Return
    <3>2. Leads(ops[Auth], session)' /\ ~Ahead(ops[Auth])'
      BY <3>1 DEF Leads, Ahead
    <3>3. Told(session, store, spent.failures)'
      <4>1. ASSUME state \in DOMAIN PhaseOf
            PROVE /\ session'.phase = PhaseOf[state]
                  /\ spent'.failures = 0 => Has(store', PhaseOf[state])
        BY <2>1, <2>3, <4>1, PhaseOfIs DEF Stored, Has, Follows
      <4> QED
        BY <3>1, <4>1 DEF Told, Has
    <3>4. CodeSafe(session, store, queue, writes, sent)'
      BY <2>2, <3>1, <3>2 DEF CodeSafe, Verified, Has
    <3> QED
      BY <1>5, <2>1, <3>2, <3>3, <3>4 DEF StoryAt, Honest, Follows, Stored
  <2>4. ASSUME NEW goal, NEW then, Asks(Auth, goal, then, q, ws),
               goal = "captcha" => session'.phase = "captcha",
               goal = "code" => session'.phase = "verification" /\ ~code' /\ Verified(st, ws)
        PROVE StoryAt(session, store, queue, writes, sent, spent.failures)'
    <3>1. /\ ops'[Auth].at = "waiting" /\ ops'[Auth].goal = goal /\ ops'[Auth].then = then
          /\ answered' = answered
      BY <1>1, <2>4 DEF Asks
    <3>2. Leads(ops[Auth], session)'
      BY <2>4, <3>1 DEF Leads, Ahead
    <3>3. Told(session, store, spent.failures)'
      BY <3>1 DEF Told, AuthReady
    <3>4. CodeSafe(session, store, queue, writes, sent)'
      <4>1. goal = "code" => Verified(store', writes')
        BY <1>6, <2>4
      <4> QED
        BY <2>2, <2>4, <3>1, <4>1 DEF CodeSafe, Verified, Has
    <3> QED
      BY <1>5, <2>1, <3>2, <3>3, <3>4 DEF StoryAt, Honest, Follows, Stored
  <2> QED
    BY <1>3, <1>6, <2>3, <2>4 DEF StoryInv
<1>7. ASSUME NEW goal, NEW then,
             Saves(Auth, goal, then, q, ws),
             code' => session'.phase = "verification",
             Leads([at |-> "saving", goal |-> goal, then |-> then], session'),
             goal = "code" /\ then = "request" => Verified(st, ws),
             goal = "code" /\ then \in {"raw", "request"} => ~code'
      PROVE StoryInv'
  <2>1. /\ ops'[Auth].at = "saving" /\ ops'[Auth].goal = goal /\ ops'[Auth].then = then
        /\ answered' = answered
    BY <1>1, <1>7 DEF Saves
  <2>2. Leads(ops[Auth], session)'
    BY <1>7, <2>1 DEF Leads, Ahead
  <2>3. \A j \in DOMAIN writes' : Last(j, writes') => Follows(writes'[j].state, session')
    <3>1. ASSUME NEW j \in DOMAIN ws PROVE ~Last(j, writes')
      <4>1. ws \in Seq(Writes) /\ \E w \in Writes : writes' = Append(ws, w) /\ w.op = Auth
        BY <1>7 DEF Saves, Free
      <4>2. PICK w \in Writes : writes' = Append(ws, w) /\ w.op = Auth
        BY <4>1
      <4>3. /\ Len(ws) \in Nat /\ DOMAIN ws = 1..Len(ws) /\ DOMAIN writes' = 1..(Len(ws) + 1)
            /\ writes'[Len(ws) + 1] = w
        BY <4>1, <4>2, AppendOf
      <4>4. Len(ws) + 1 \in DOMAIN writes' /\ Len(ws) + 1 > j
        BY <3>1, <4>3
      <4> QED
        BY <4>2, <4>3, <4>4 DEF Last
    <3> QED
      BY <1>4, <3>1 DEF Follows
  <2>4. Verified(st, ws) /\ session'.phase = "verification" => Verified(store', writes')
    BY <1>4 DEF Verified
  <2>5. CodeSafe(session, store, queue, writes, sent)'
    <3>1. code' => Verified(store', writes') /\ session'.phase = "verification"
      BY <1>5, <1>7, <2>4 DEF AuthReady
    <3>2. goal = "code" /\ then = "request" => Verified(store', writes')
      <4>1. goal = "code" /\ then = "request" => session'.phase = "verification"
        BY <1>7 DEF Leads, Ahead
      <4> QED
        BY <1>7, <2>4, <4>1
    <3>3. ~(code' /\ goal = "code" /\ then \in {"raw", "request"})
      BY <1>7
    <3> QED
      BY <2>1, <3>1, <3>2, <3>3 DEF CodeSafe, Verified, Has, Ahead
  <2>6. Told(session, store, spent.failures)'
    BY <2>1 DEF Told, AuthReady
  <2>7. StoryAt(session, store, queue, writes, sent, spent.failures)'
    BY <1>5, <2>1, <2>2, <2>3, <2>5, <2>6 DEF StoryAt, Honest, Follows, Last
  <2> QED
    BY <1>3, <2>7 DEF StoryInv
<1>8. CASE \E state : /\ Ends(Auth, state, q, ws) /\ Resets(s)
                      /\ state \in DOMAIN PhaseOf => s.phase = PhaseOf[state] /\ session'.phase = s.phase
  BY <1>6, <1>8 DEF Ends
<1>9. CASE \E goal, then :
            /\ Asks(Auth, goal, then, q, ws) /\ Resets(s)
            /\ goal = "captcha" => session'.phase = "captcha"
            /\ goal = "code" => /\ session'.phase = "verification" /\ ~code'
                                /\ Verified(st, ws)
  BY <1>6, <1>9 DEF Asks
<1> QED
  BY <1>7, <1>8, <1>9 DEF AuthMoves

(* Where the steps start: after a load, a write or an answer.                *)
LEMMA AfterLoad ==
    ASSUME CloudInv, StoryInv, ops[Auth].at = "loading", NEW s \in SessionType,
           s = IF session # None THEN session ELSE IF store # None THEN store ELSE NewSession
    PROVE AuthReady(s, store, writes, spent.failures)
<1>1. /\ writes \in Seq(Writes) /\ Saving(writes)
      /\ \A i \in DOMAIN writes : writes[i].op # Auth /\ i \in Nat
  BY DEF CloudInv, CloudType, Saving
<1>2. /\ Honest(session) /\ Honest(store) /\ \A i \in DOMAIN writes : Honest(writes[i].state)
      /\ session # None => /\ \A j \in DOMAIN writes : Follows(writes[j].state, session)
                           /\ spent.failures = 0 => Stored(session, store)
      /\ answered \notin DOMAIN PhaseOf
      /\ code => Verified(store, writes) /\ (session # None => session.phase = "verification")
  BY <1>1 DEF StoryInv, StoryAt, Last, Told, CodeSafe
<1>3. session = None => writes = <<>>
  <2> SUFFICES ASSUME session = None, writes # <<>> PROVE FALSE
    OBVIOUS
  <2>1. Head(writes).op \in Ops /\ ops[Head(writes).op].at = "saving"
    BY FreeAfterWrite
  <2> QED
    BY <2>1, MegaCloudDistinct DEF CloudInv
<1>4. CASE session # None
  BY <1>2, <1>4 DEF AuthReady
<1>5. CASE session = None /\ store # None
  BY <1>2, <1>3, <1>5 DEF AuthReady, Stored, Follows, Verified, Has
<1>6. CASE session = None /\ store = None
  <2>1. s.phase = "new" /\ Honest(s) /\ ~code
    BY <1>2, <1>6 DEF NewSession, Honest, Verified, Has
  <2> QED
    BY <1>2, <1>3, <1>6, <2>1 DEF AuthReady, Stored
<1> QED
  BY <1>4, <1>5, <1>6

LEMMA PresentOthers ==
    ASSUME CloudInv, NEW o \in Ops, \A x \in Ops : Present(x, queue, writes)
    PROVE /\ queue # <<>> /\ (Head(queue).gone \/ Head(queue).op = o) =>
                \A x \in Ops \ {o} : Present(x, Tail(queue), writes)
          /\ queue # <<>> /\ Head(queue).gone => \A x \in Ops : Present(x, Tail(queue), writes)
          /\ writes # <<>> /\ Head(writes).op = o =>
                \A x \in Ops \ {o} : Present(x, queue, Tail(writes))
<1>1. queue \in Seq(Requests) /\ writes \in Seq(Writes)
  BY DEF CloudInv, CloudType
<1>2. ASSUME NEW S, NEW s \in Seq(S), s # <<>>, NEW i \in DOMAIN s, i # 1
      PROVE i - 1 \in DOMAIN Tail(s) /\ Tail(s)[i - 1] = s[i]
  BY <1>2
<1>3. ASSUME queue # <<>>, NEW x \in Ops, Head(queue).gone \/ Head(queue).op # x
      PROVE Present(x, Tail(queue), writes)
  <2>1. ASSUME ops[x].at = "waiting"
        PROVE \E i \in DOMAIN Tail(queue) : Tail(queue)[i].op = x /\ ~Tail(queue)[i].gone
    <3>1. PICK i \in DOMAIN queue : queue[i].op = x /\ ~queue[i].gone
      BY <2>1 DEF Present
    <3>2. i # 1
      BY <1>1, <1>3, <3>1, TailOf
    <3> QED
      BY <1>1, <1>2, <1>3, <3>1, <3>2
  <2> QED
    BY <2>1 DEF Present
<1>4. ASSUME writes # <<>>, NEW x \in Ops, Head(writes).op # x
      PROVE Present(x, queue, Tail(writes))
  <2>1. ASSUME ops[x].at = "saving" PROVE \E i \in DOMAIN Tail(writes) : Tail(writes)[i].op = x
    <3>1. PICK i \in DOMAIN writes : writes[i].op = x
      BY <2>1 DEF Present
    <3>2. i # 1
      BY <1>1, <1>4, <3>1, TailOf
    <3> QED
      BY <1>1, <1>2, <1>4, <3>1, <3>2
  <2> QED
    BY <2>1 DEF Present
<1> QED
  BY <1>3, <1>4

LEMMA CarriesRest == ASSUME CloudInv, Carries(queue), queue # <<>> PROVE Carries(Tail(queue))
<1>1. \A i \in DOMAIN Tail(queue) : i + 1 \in DOMAIN queue /\ Tail(queue)[i] = queue[i + 1]
  BY TailOf DEF CloudInv, CloudType
<1> QED
  BY <1>1 DEF Carries

LEMMA AfterWrite ==
    ASSUME CloudInv, StoryInv, writes # <<>>, NEW st, NEW failures,
           \/ st = Head(writes).state /\ failures = spent.failures
           \/ st = store /\ failures # 0
    PROVE LET o == Head(writes).op
              ws == Tail(writes)
          IN  /\ o # Auth => StoryAt(session, st, queue, ws, sent, failures)
              /\ o = Auth => /\ AuthReady(session, st, ws, failures)
                             /\ session.phase = "verification" /\ st = Head(writes).state
                                   => Verified(st, ws)
              /\ \A x \in Ops \ {o} : Present(x, queue, ws)
<1> DEFINE o == Head(writes).op
           ws == Tail(writes)
           w == Head(writes)
<1>1. /\ w \in Writes /\ o \in Ops /\ ops[o].at = "saving" /\ Saving(writes) /\ OneWrite(writes)
      /\ session \in SessionType /\ session # None
      /\ w.state \in SessionType /\ w.state # None
  <2>1. w \in Writes /\ o \in Ops /\ ops[o].at = "saving" /\ session \in SessionType
    BY FreeAfterWrite DEF CloudInv
  <2> QED
    BY <2>1, MegaCloudDistinct DEF CloudInv, Writes
<1>2. /\ 1 \in DOMAIN writes /\ w = writes[1] /\ \A i \in DOMAIN writes : i \in Nat
      /\ \A i \in DOMAIN ws :
            i + 1 \in DOMAIN writes /\ i \in Nat /\ i + 1 # 1 /\ ws[i] = writes[i + 1]
      /\ \A i \in DOMAIN writes : i # 1 => i - 1 \in DOMAIN ws /\ writes[i] = ws[i - 1]
  <2>1. writes \in Seq(Writes)
    BY DEF CloudInv, CloudType
  <2>2. \A i \in DOMAIN writes : i # 1 => i - 1 \in DOMAIN ws /\ writes[i] = ws[i - 1]
    BY <2>1
  <2>3. \A i \in DOMAIN writes : i \in Nat
    BY <2>1
  <2> QED
    BY <2>1, <2>2, <2>3, TailOf
<1>3. /\ Honest(session) /\ Honest(store) /\ \A i \in DOMAIN writes : Honest(writes[i].state)
      /\ \A j \in DOMAIN writes : Last(j, writes) => Follows(writes[j].state, session)
      /\ Leads(ops[Auth], session) /\ Told(session, store, spent.failures)
      /\ CodeSafe(session, store, queue, writes, sent)
      /\ spent.failures = 0 /\ ops[Auth].at # "saving" => Stored(session, store)
  BY <1>1 DEF StoryInv, StoryAt
<1>4. Honest(st) /\ \A i \in DOMAIN ws : Honest(ws[i].state)
  BY <1>2, <1>3
<1>5. Verified(store, writes) => Verified(st, ws)
  BY <1>1, <1>2 DEF Verified, Has
<1>6. \A x \in Ops \ {o} : Present(x, queue, ws)
  BY <1>1, PresentOthers DEF StoryInv
<1> HIDE DEF w, ws
<1>7. ASSUME o # Auth PROVE StoryAt(session, st, queue, ws, sent, failures)
  <2>1. \A j \in DOMAIN ws : Last(j, ws) => Follows(ws[j].state, session)
    <3> SUFFICES ASSUME NEW j \in DOMAIN ws, Last(j, ws) PROVE Follows(ws[j].state, session)
      OBVIOUS
    <3>1. Last(j + 1, writes)
      <4> SUFFICES ASSUME NEW i \in DOMAIN writes, i > j + 1 PROVE writes[i].op # Auth
        BY DEF Last
      <4>1. i # 1 /\ i - 1 > j /\ i - 1 \in DOMAIN ws
        BY <1>2
      <4> QED
        BY <1>2, <4>1 DEF Last
    <3> QED
      BY <1>2, <1>3, <3>1
  <2>2. ops[Auth].at # "saving" => Follows(w.state, session)
    <3>1. ASSUME ops[Auth].at # "saving" PROVE Last(1, writes)
      BY <1>1, <3>1 DEF Last, Saving
    <3> QED
      BY <1>2, <1>3, <3>1
  <2>3. failures = 0 /\ ops[Auth].at # "saving" => Stored(session, st)
    BY <1>1, <2>2 DEF Stored, w
  <2>4. Told(session, st, failures)
    <3> SUFFICES ASSUME answered \in DOMAIN PhaseOf PROVE Told(session, st, failures)
      BY DEF Told
    <3>1. /\ ops[Auth].at = "idle" /\ session.phase = PhaseOf[answered]
          /\ session.phase # "new"
      BY <1>1, <1>3, PhaseOfIs DEF Told
    <3>2. failures = 0 => Has(st, PhaseOf[answered])
      BY <2>3, <3>1 DEF Stored, Has, Follows
    <3> QED
      BY <3>1, <3>2 DEF Told
  <2>5. CodeSafe(session, st, queue, ws, sent)
    BY <1>3, <1>5 DEF CodeSafe
  <2> QED
    BY <1>1, <1>3, <1>4, <2>1, <2>3, <2>4, <2>5 DEF StoryAt
<1>8. ASSUME o = Auth
      PROVE /\ AuthReady(session, st, ws, failures)
            /\ session.phase = "verification" /\ st = w.state => Verified(st, ws)
  <2>1. \A j \in DOMAIN writes : Last(j, writes)
    <3> SUFFICES ASSUME NEW j \in DOMAIN writes, NEW i \in DOMAIN writes, i > j,
                        writes[i].op = Auth
                 PROVE FALSE
      BY DEF Last
    <3>1. i = 1
      BY <1>2, <1>8 DEF OneWrite, CloudInv, w
    <3>2. j \in Nat /\ j # 0
      <4>1. writes \in Seq(Writes)
        BY DEF CloudInv, CloudType
      <4> QED
        BY <4>1
    <3> QED
      BY <3>1, <3>2
  <2>2. /\ \A j \in DOMAIN writes : Follows(writes[j].state, session)
        /\ \A j \in DOMAIN ws : Follows(ws[j].state, session)
        /\ Follows(w.state, session)
    BY <1>2, <1>3, <2>1
  <2>3. failures = 0 => Stored(session, st)
    BY <1>1, <2>2 DEF Stored, w
  <2>4. answered \notin DOMAIN PhaseOf
    BY <1>1, <1>3, <1>8 DEF Told
  <2>5. code => Verified(st, ws) /\ session.phase = "verification"
    BY <1>1, <1>3, <1>5 DEF CodeSafe
  <2>6. session.phase = "verification" /\ st = w.state => Verified(st, ws)
    BY <1>1, <2>2 DEF Verified, Has, Follows
  <2> QED
    BY <1>1, <1>3, <1>4, <2>2, <2>3, <2>4, <2>5, <2>6 DEF AuthReady
<1> QED
  BY <1>6, <1>7, <1>8 DEF w, ws

LEMMA AfterAnswer ==
    ASSUME CloudInv, StoryInv, sent, ~Head(queue).gone
    PROVE LET r == Head(queue)
              q == Tail(queue)
          IN  /\ r.op # Auth => StoryAt(session, store, q, writes, FALSE, spent.failures)
              /\ r.op = Auth => /\ AuthReady(session, store, writes, spent.failures)
                                /\ Leads(ops[Auth], session)
                                /\ code /\ r.goal = "code" => r.then = "answer"
                                /\ r.goal = "code" => Verified(store, writes)
              /\ r.goal = ops[r.op].goal /\ r.then = ops[r.op].then
              /\ r.then \in {"answer", "exchange"}
              /\ r.op # Auth => r.goal \in {"none", "call"}
              /\ Carries(q) /\ OpsFit
              /\ \A x \in Ops \ {r.op} : Present(x, q, writes)
<1> DEFINE r == Head(queue)
           q == Tail(queue)
<1>1. /\ queue # <<>> /\ queue \in Seq(Requests) /\ 1 \in DOMAIN queue /\ r = queue[1]
      /\ r \in Requests /\ r.op \in Ops /\ ops[r.op].at = "waiting"
      /\ session \in SessionType /\ session # None
  <2>1. queue # <<>> /\ queue \in Seq(Requests)
    BY DEF CloudInv, CloudType
  <2>2. r \in Requests /\ r.op \in Ops /\ ops[r.op].at = "waiting"
    BY <2>1, RestOfQueue
  <2> QED
    BY <2>1, <2>2, TailOf, MegaCloudDistinct DEF CloudInv
<1>2. r.goal = ops[r.op].goal /\ r.then = ops[r.op].then
  BY <1>1 DEF StoryInv, Carries
<1>3. r.then \in {"answer", "exchange"} /\ (r.op # Auth => r.goal \in {"none", "call"})
  BY <1>1, <1>2 DEF StoryInv, OpsFit, CallStep
<1>4. Carries(q) /\ OpsFit /\ \A x \in Ops \ {r.op} : Present(x, q, writes)
  BY <1>1, CarriesRest, PresentOthers DEF StoryInv
<1>5. /\ StoryAt(session, store, queue, writes, sent, spent.failures)
      /\ CodeSafe(session, store, queue, writes, sent)
  BY DEF StoryInv, StoryAt
<1>6. ASSUME r.op # Auth PROVE StoryAt(session, store, q, writes, FALSE, spent.failures)
  <2>1. CodeSafe(session, store, q, writes, FALSE)
    BY <1>5, <1>6 DEF CodeSafe
  <2> QED
    BY <1>5, <2>1 DEF StoryAt
<1>7. ASSUME r.op = Auth
      PROVE /\ AuthReady(session, store, writes, spent.failures)
            /\ Leads(ops[Auth], session)
            /\ code /\ r.goal = "code" => r.then = "answer"
            /\ r.goal = "code" => Verified(store, writes)
  <2>1. \A i \in DOMAIN writes : writes[i].op # Auth
    BY <1>1, <1>7 DEF CloudInv, Saving
  <2>2. \A j \in DOMAIN writes : Last(j, writes)
    BY <2>1 DEF Last
  <2>3. answered \notin DOMAIN PhaseOf
    BY <1>1, <1>5, <1>7 DEF StoryAt, Told
  <2>4. AuthReady(session, store, writes, spent.failures)
    BY <1>1, <1>5, <1>7, <2>2, <2>3 DEF StoryAt, AuthReady, CodeSafe
  <2>5. Ahead(ops[Auth])
    BY <1>1, <1>7 DEF Ahead
  <2> QED
    BY <1>1, <1>2, <1>5, <1>7, <2>4, <2>5 DEF StoryAt, CodeSafe
<1> QED
  BY <1>2, <1>3, <1>4, <1>6, <1>7

(* What the operators of the model do is one of these steps.                 *)
LEMMA PostStep ==
    ASSUME CloudInv, NEW o \in Ops, NEW goal, Fits(o, goal), NEW then \in Words, NEW key \in Nat,
           NEW q, NEW ws, Post(o, goal, then, key, q), writes' = ws
    PROVE Ends(o, "failed", q, ws) \/ Asks(o, goal, then, q, ws)
<1> DEFINE step == [ops[o] EXCEPT !.at = "waiting", !.goal = goal, !.then = then, !.key = key]
           r == [op |-> o, goal |-> goal, then |-> then, key |-> key, gone |-> closed]
<1>1. step \in Steps /\ step.at = "waiting" /\ step.goal = goal /\ step.then = then
  BY OpsType DEF Steps, Fits
<1>2. r \in Requests /\ r.op = o /\ r.gone = closed /\ r.goal = goal /\ r.then = then
  BY DEF Requests, Fits, CloudInv, CloudType
<1>3. queue' = Append(q, r)
  BY DEF Post
<1>4. CASE closed
  <2>1. Return(o, "failed")
    BY <1>4 DEF Post, Fail
  <2> HIDE DEF r
  <2> QED
    BY <1>2, <1>3, <1>4, <2>1 DEF Ends
<1>5. CASE ~closed
  <2>1. ops' = [ops EXCEPT ![o] = step] /\ answered' = answered
    BY <1>5 DEF Post
  <2> HIDE DEF r, step
  <2> QED
    BY <1>1, <1>2, <1>3, <1>5, <2>1 DEF Asks
<1> QED
  BY <1>4, <1>5

LEMMA RawStep ==
    ASSUME CloudInv, NEW s \in SessionType, NEW o \in Ops, NEW goal, Fits(o, goal), NEW q, NEW ws,
           Raw(s, o, goal, q), writes' = ws
    PROVE Ends(o, "failed", q, ws) \/ \E then \in {"answer", "exchange"} : Asks(o, goal, then, q, ws)
<1>1. s.identity \in Nat /\ spent.keys + 1 \in Nat /\ "answer" \in Words /\ "exchange" \in Words
  BY DEF SessionType, CloudInv, CloudType, Counts, Words
<1>2. CASE s.identity # NoKey
  <2>1. Post(o, goal, "answer", s.identity, q)
    BY <1>2 DEF Raw
  <2> QED
    BY <1>1, <2>1, PostStep
<1>3. CASE s.identity = NoKey
  <2>1. Post(o, goal, "exchange", spent.keys + 1, q)
    BY <1>3 DEF Raw
  <2> QED
    BY <1>1, <2>1, PostStep
<1> QED
  BY <1>2, <1>3

LEMMA PersistStep ==
    ASSUME CloudInv, NEW o \in Ops, NEW s \in SessionType, NEW goal, Fits(o, goal),
           NEW then \in Words, NEW q, NEW ws, Persist(s, o, goal, then, ws),
           queue' = q, answered' = answered
    PROVE Saves(o, goal, then, q, ws) /\ session' = s
<1> DEFINE step == [ops[o] EXCEPT !.at = "saving", !.goal = goal, !.then = then]
           w == [state |-> s, op |-> o]
<1>1. step \in Steps /\ step.at = "saving" /\ step.goal = goal /\ step.then = then
  BY OpsType DEF Steps, Fits
<1>2. w \in Writes /\ w.op = o /\ w.state = s
  BY DEF Writes
<1>3. ops' = [ops EXCEPT ![o] = step] /\ writes' = Append(ws, w) /\ session' = s
  BY DEF Persist
<1> HIDE DEF step, w
<1> QED
  BY <1>1, <1>2, <1>3 DEF Saves

LEMMA ReturnStep ==
    ASSUME NEW o, NEW state, NEW q, NEW ws, Return(o, state), queue' = q, writes' = ws
    PROVE Ends(o, state, q, ws)
  BY DEF Ends

LEMMA LoginStep ==
    ASSUME CloudInv, NEW s \in SessionType, Honest(s), NEW st, NEW q, NEW ws, Login(s, q),
           writes' = ws, code' => code
    PROVE AuthMoves(s, st, q, ws)
<1>1. session' \in SessionType /\ Honest(session') /\ Resets(s) /\ Raw(s, Auth, "login", q)
  BY DEF Login, SessionType, Phases, Honest, Resets
<1>2. Auth \in Ops /\ Fits(Auth, "login")
  BY DEF Ops, Fits, Words
<1>3. Ends(Auth, "failed", q, ws) \/ \E then \in {"answer", "exchange"} : Asks(Auth, "login", then, q, ws)
  BY <1>1, <1>2, RawStep
<1> QED
  BY <1>1, <1>3, PhaseOfIs DEF AuthMoves

LEMMA BeginStep ==
    ASSUME CloudInv, NEW s \in SessionType, Honest(s), NEW st, NEW answer, Begin(s, answer),
           UNCHANGED <<writes, code>>
    PROVE AuthMoves(s, st, queue, writes)
<1>1. /\ Auth \in Ops /\ "answer" \in Words /\ NoKey \in Nat
      /\ Fits(Auth, "captcha") /\ Fits(Auth, "domain")
  BY DEF Ops, Words, NoKey, Fits
<1>2. CASE Settled(s, answer) # "no" /\ Return(Auth, Settled(s, answer)) /\ session' = s
           /\ UNCHANGED <<queue, spent>>
  <2>1. Settled(s, answer) \in DOMAIN PhaseOf /\ s.phase = PhaseOf[Settled(s, answer)]
    BY <1>2, PhaseOfIs DEF Settled, Authenticated
  <2>2. Ends(Auth, Settled(s, answer), queue, writes)
    BY <1>2, ReturnStep
  <2> QED
    BY <1>2, <2>1, <2>2 DEF AuthMoves, Resets
<1>3. CASE s.phase = "captcha" /\ session' = s /\ Raw(s, Auth, "captcha", queue)
  <2>1. \/ Ends(Auth, "failed", queue, writes)
        \/ \E then \in {"answer", "exchange"} : Asks(Auth, "captcha", then, queue, writes)
    BY <1>1, <1>3, RawStep
  <2> QED
    BY <1>3, <2>1, PhaseOfIs DEF AuthMoves, Resets
<1>4. CASE Login(s, queue)
  BY <1>4, LoginStep
<1>5. CASE session' = s /\ Post(Auth, "domain", "answer", NoKey, queue) /\ UNCHANGED spent
  <2>1. Ends(Auth, "failed", queue, writes) \/ Asks(Auth, "domain", "answer", queue, writes)
    BY <1>1, <1>5, PostStep
  <2> QED
    BY <1>5, <2>1, PhaseOfIs DEF AuthMoves, Resets
<1> QED
  BY <1>2, <1>3, <1>4, <1>5 DEF Begin

LEMMA LoadedStory == ASSUME CloudInv, StoryInv, Loaded PROVE StoryInv'
<1>1. /\ Auth \in Ops /\ ops[Auth].at = "loading" /\ UNCHANGED <<closed, sent, writes, store, code>>
      /\ session \in SessionType \cup {None} /\ store \in SessionType \cup {None}
      /\ Free(Auth, queue, writes)
  BY FreeNow DEF Loaded, Ops, CloudInv, CloudType, saving, cloud
<1>2. Carries(queue) /\ OpsFit /\ \A x \in Ops \ {Auth} : Present(x, queue, writes)
  BY DEF StoryInv
<1> DEFINE s == IF session # None THEN session ELSE IF store # None THEN store ELSE NewSession
<1>3. s \in SessionType
  BY <1>1 DEF NewSession, SessionType, Phases, NoKey
<1>4. AuthReady(s, store, writes, spent.failures) /\ Honest(s)
  BY <1>1, <1>3, AfterLoad DEF AuthReady
<1>5. CASE Begin(s, ops[Auth].answer)
  <2> HIDE DEF s
  <2>1. AuthMoves(s, store, queue, writes)
    BY <1>1, <1>3, <1>4, <1>5, BeginStep
  <2>2. spent'.failures = spent.failures
    <3>1. UNCHANGED spent \/ spent' = [spent EXCEPT !.keys = @ + 1]
      BY <1>5 DEF Begin, Login, Raw
    <3> QED
      BY <3>1 DEF CloudInv, CloudType, Counts
  <2> QED
    BY <1>1, <1>2, <1>4, <2>1, <2>2, AuthMovesStory
<1>6. CASE session = None /\ Fail(Auth) /\ UNCHANGED <<session, queue, spent>>
  <2>1. /\ ops'[Auth].at = "idle" /\ answered' = "failed" /\ answered' \notin DOMAIN PhaseOf
        /\ \A x \in Ops \ {Auth} : ops'[x] = ops[x]
        /\ CallStep(Auth, ops'[Auth].goal, ops'[Auth].then) /\ ops'[Auth].goal = "none"
    BY <1>1, <1>6, OpsType, PhaseOfIs DEF Fail, Return, CallStep, Idle
  <2>2. \A i \in DOMAIN queue : ~queue[i].gone => queue[i].op \in Ops \ {Auth}
    <3>1. \A i \in DOMAIN queue : queue[i] \in Requests
      BY MemberOf DEF CloudInv, CloudType
    <3> QED
      BY <1>1, <3>1 DEF Free, Requests
  <2>3. Carries(queue)' /\ OpsFit' /\ \A x \in Ops : Present(x, queue, writes)'
    <3>1. Carries(queue)'
      BY <1>2, <1>6, <2>1, <2>2 DEF Carries
    <3>2. OpsFit'
      BY <1>2, <2>1 DEF OpsFit, CallStep
    <3>3. \A x \in Ops : Present(x, queue, writes)'
      BY <1>1, <1>2, <1>6, <2>1 DEF Present
    <3> QED
      BY <3>1, <3>2, <3>3
  <2>4. StoryAt(session, store, queue, writes, sent, spent.failures)'
    BY <1>1, <1>6, <2>1 DEF StoryInv, StoryAt, Honest, Leads, Ahead, Told, CodeSafe, Verified, Has
  <2> QED
    BY <2>3, <2>4 DEF StoryInv
<1> QED
  BY <1>1, <1>5, <1>6 DEF Loaded

LEMMA CallStory == ASSUME CloudInv, StoryInv, NEW o \in Calls, Call(o) PROVE StoryInv'
<1>1. /\ o \in Ops /\ o # Auth /\ ops[o].at = "idle"
      /\ UNCHANGED <<closed, session, sent, writes, store, code>>
      /\ session \in SessionType /\ session # None /\ session.identity \in Nat
      /\ spent \in Counts /\ spent.keys + 1 \in Nat /\ (sent => queue # <<>>)
      /\ {"answer", "exchange"} \subseteq Words /\ Fits(o, "call")
  BY MegaCloudDistinct
  DEF Call, Ops, CloudInv, CloudType, saving, cloud, SessionType, Words, Fits, Counts
<1>2. Free(o, queue, writes)
  BY <1>1, FreeNow
<1>3. \/ Ends(o, "failed", queue, writes)
      \/ \E then \in {"answer", "exchange"} : Asks(o, "call", then, queue, writes)
  <2>1. \/ Post(o, "call", "answer", session.identity, queue)
        \/ Post(o, "call", "exchange", spent.keys + 1, queue)
    BY DEF Call
  <2> QED
    BY <1>1, <2>1, PostStep
<1>4. CallMoves(o, queue, writes)
  BY <1>1, <1>3 DEF CallMoves, StoryInv, StoryAt
<1>5. spent'.failures = spent.failures
  <2> DEFINE c == [spent EXCEPT !.calls = @ + 1]
  <2>1. c \in Counts /\ c.failures = spent.failures
    BY <1>1 DEF Counts
  <2>2. spent' = c \/ spent' = [c EXCEPT !.keys = @ + 1]
    BY DEF Call
  <2> HIDE DEF c
  <2> QED
    BY <2>1, <2>2 DEF Counts
<1> QED
  BY <1>1, <1>2, <1>4, <1>5, CallMovesStory DEF StoryInv

LEMMA ResumeCall ==
    ASSUME CloudInv, StoryInv, NEW o \in Ops, o # Auth, NEW left, Resume(o, left),
           ops[o].at = "saving", UNCHANGED code
    PROVE CallMoves(o, queue, left)
<1>1. /\ session \in SessionType /\ session # None /\ Honest(session)
      /\ Fits(o, ops[o].goal) /\ ops[o].key \in Nat /\ "answer" \in Words
      /\ ops[o].goal \in {"none", "call"}
      /\ ops[o].then \in {"none", "answer", "exchange", "request", "failed"}
  BY OpsType, MegaCloudDistinct DEF CloudInv, StoryInv, StoryAt, OpsFit, CallStep, Steps, Words
<1>2. CASE Post(o, ops[o].goal, "answer", ops[o].key, queue) /\ writes' = left
           /\ UNCHANGED <<session, spent>>
  <2>1. Ends(o, "failed", queue, left) \/ Asks(o, ops[o].goal, "answer", queue, left)
    BY <1>1, <1>2, PostStep
  <2> QED
    BY <1>1, <1>2, <2>1 DEF CallMoves
<1>3. CASE Return(o, ops[o].then) /\ writes' = left /\ UNCHANGED <<session, queue, spent>>
  <2>1. Ends(o, ops[o].then, queue, left)
    BY <1>3, ReturnStep
  <2> QED
    BY <1>1, <1>3, <2>1 DEF CallMoves
<1> QED
  BY <1>1, <1>2, <1>3 DEF Resume

LEMMA ResumeAuth ==
    ASSUME CloudInv, StoryInv, NEW left, NEW st, Resume(Auth, left), ops[Auth].at = "saving",
           session.phase = "verification" => Verified(st, left), UNCHANGED code
    PROVE AuthMoves(session, st, queue, left)
<1> DEFINE a == ops[Auth]
<1>1. /\ Auth \in Ops /\ session \in SessionType /\ session # None /\ Honest(session)
      /\ Fits(Auth, a.goal) /\ a.key \in Nat /\ Fits(Auth, "login")
      /\ {"answer", "failed"} \subseteq Words /\ Leads(a, session)
  <2>1. Auth \in Ops
    BY DEF Ops
  <2> QED
    BY <2>1, OpsType, MegaCloudDistinct
    DEF CloudInv, StoryInv, StoryAt, Steps, Words, Fits
<1>2. a.goal = "code" /\ a.then \in {"raw", "request"} => ~code
  BY DEF StoryInv, StoryAt, CodeSafe, Ahead
<1>3. CASE a.then = "request" /\ Post(Auth, a.goal, "answer", a.key, queue) /\ writes' = left
           /\ UNCHANGED <<session, spent>>
  <2>1. Ends(Auth, "failed", queue, left) \/ Asks(Auth, a.goal, "answer", queue, left)
    BY <1>1, <1>3, PostStep
  <2>2. /\ a.goal = "captcha" => session'.phase = "captcha"
        /\ a.goal = "code" => session'.phase = "verification" /\ ~code' /\ Verified(st, left)
    BY <1>1, <1>2, <1>3 DEF Leads, Ahead
  <2> HIDE DEF a
  <2>3. CASE Ends(Auth, "failed", queue, left)
    BY <1>1, <1>3, <2>3, PhaseOfIs DEF AuthMoves, Resets
  <2>4. CASE Asks(Auth, a.goal, "answer", queue, left)
    BY <1>1, <1>3, <2>2, <2>4 DEF AuthMoves, Resets
  <2> QED
    BY <2>1, <2>3, <2>4
<1>4. CASE a.then = "raw" /\ Raw(session, Auth, a.goal, queue) /\ writes' = left
           /\ UNCHANGED session
  <2>1. \/ Ends(Auth, "failed", queue, left)
        \/ \E then \in {"answer", "exchange"} : Asks(Auth, a.goal, then, queue, left)
    BY <1>1, <1>4, RawStep
  <2>2. /\ a.goal = "captcha" => session'.phase = "captcha"
        /\ a.goal = "code" => session'.phase = "verification" /\ ~code' /\ Verified(st, left)
    BY <1>1, <1>2, <1>4 DEF Leads, Ahead
  <2> HIDE DEF a
  <2>3. CASE Ends(Auth, "failed", queue, left)
    BY <1>1, <1>4, <2>3, PhaseOfIs DEF AuthMoves, Resets
  <2>4. ASSUME NEW then \in {"answer", "exchange"}, Asks(Auth, a.goal, then, queue, left)
        PROVE AuthMoves(session, st, queue, left)
    BY <1>1, <1>4, <2>2, <2>4 DEF AuthMoves, Resets
  <2> QED
    BY <2>1, <2>3, <2>4
<1>5. CASE a.then = "again" /\ Persist(session, Auth, "login", "failed", left)
           /\ UNCHANGED <<queue, answered, spent>>
  <2>1. Saves(Auth, "login", "failed", queue, left) /\ session' = session
    BY <1>1, <1>5, PersistStep
  <2>2. Leads([at |-> "saving", goal |-> "login", then |-> "failed"], session')
    BY PhaseOfIs DEF Leads, Ahead
  <2>3. code' => session'.phase = "verification"
    BY <1>1, <2>1 DEF StoryInv, StoryAt, CodeSafe
  <2> QED
    BY <1>1, <2>1, <2>2, <2>3 DEF AuthMoves
<1>6. CASE Return(Auth, a.then) /\ writes' = left /\ UNCHANGED <<session, queue, spent>>
  <2>1. Ends(Auth, a.then, queue, left)
    BY <1>6, ReturnStep
  <2>2. a.then \in DOMAIN PhaseOf => session.phase = PhaseOf[a.then]
    BY <1>1 DEF Leads
  <2> HIDE DEF a
  <2> QED
    BY <1>1, <1>6, <2>1, <2>2 DEF AuthMoves, Resets
<1> QED
  BY <1>3, <1>4, <1>5, <1>6 DEF Resume

LEMMA WriteEndsStory ==
    ASSUME CloudInv, StoryInv, NEW ok \in BOOLEAN, WriteEnds(ok) PROVE StoryInv'
<1> DEFINE o == Head(writes).op
           ws == Tail(writes)
<1>1. /\ writes # <<>> /\ writes \in Seq(Writes) /\ UNCHANGED <<closed, sent, code>>
      /\ (sent => queue # <<>>) /\ spent \in Counts /\ Carries(queue) /\ OpsFit
  BY DEF WriteEnds, WriteAt, CloudInv, CloudType, cloud, StoryInv
<1>2. /\ Head(writes) \in Writes /\ o \in Ops /\ ops[o].at = "saving" /\ writes[1] = Head(writes)
      /\ Free(o, queue, ws) /\ session \in SessionType /\ session # None
  <2>1. /\ Head(writes) \in Writes /\ o \in Ops /\ ops[o].at = "saving"
        /\ Free(o, queue, ws)
    BY <1>1, FreeAfterWrite
  <2> QED
    BY <1>1, <2>1, MegaCloudDistinct DEF CloudInv
<1>3. \/ store' = Head(writes).state /\ Resume(o, ws)
      \/ /\ spent' = [spent EXCEPT !.failures = @ + 1] /\ Fail(o)
         /\ writes' = ws /\ UNCHANGED <<store, session, queue>>
  BY <1>1, <1>2, LeftOf DEF WriteEnds, WriteAt
<1> DEFINE ready(st, failures) ==
        /\ o # Auth => StoryAt(session, st, queue, ws, sent, failures)
        /\ o = Auth => /\ AuthReady(session, st, ws, failures)
                       /\ session.phase = "verification" /\ st = Head(writes).state
                             => Verified(st, ws)
        /\ \A x \in Ops \ {o} : Present(x, queue, ws)
<1>4. ASSUME store' = Head(writes).state, Resume(o, ws) PROVE StoryInv'
  <2>1. ready(store', spent.failures)
    BY <1>1, <1>4, AfterWrite
  <2>2. spent'.failures = spent.failures
    <3>1. UNCHANGED spent \/ spent' = [spent EXCEPT !.keys = @ + 1]
      BY <1>4 DEF Resume, Raw
    <3> QED
      BY <1>1, <3>1 DEF Counts
  <2>3. CASE o # Auth
    <3>1. CallMoves(o, queue, ws)
      BY <1>1, <1>2, <1>4, <2>3, ResumeCall
    <3> HIDE DEF o, ws
    <3> QED
      BY <1>1, <1>2, <2>1, <2>2, <2>3, <3>1, CallMovesStory
  <2>4. CASE o = Auth
    <3>1. AuthMoves(session, store', queue, ws)
      BY <1>1, <1>2, <1>4, <2>1, <2>4, ResumeAuth
    <3> HIDE DEF o, ws
    <3> QED
      BY <1>1, <1>2, <2>1, <2>2, <2>4, <3>1, AuthMovesStory
  <2> QED
    BY <2>3, <2>4
<1>5. ASSUME spent' = [spent EXCEPT !.failures = @ + 1], Fail(o), writes' = ws,
             UNCHANGED <<store, session, queue>>
      PROVE StoryInv'
  <2>1. spent'.failures = spent.failures + 1 /\ spent'.failures # 0
    BY <1>1, <1>5 DEF Counts
  <2>2. ready(store, spent'.failures)
    BY <1>1, <2>1, AfterWrite
  <2>3. Ends(o, "failed", queue, ws) /\ Honest(session)
    BY <1>5, ReturnStep DEF Fail, StoryInv, StoryAt
  <2>4. CASE o # Auth
    <3>1. CallMoves(o, queue, ws)
      BY <1>1, <1>2, <1>5, <2>3 DEF CallMoves
    <3> HIDE DEF o, ws
    <3> QED
      BY <1>1, <1>2, <1>5, <2>2, <2>4, <3>1, CallMovesStory
  <2>5. CASE o = Auth
    <3>1. AuthMoves(session, store, queue, ws)
      BY <1>1, <1>2, <1>5, <2>3, <2>5, PhaseOfIs DEF AuthMoves, Resets
    <3> HIDE DEF o, ws
    <3> QED
      BY <1>1, <1>2, <1>5, <2>2, <2>5, <3>1, AuthMovesStory
  <2> QED
    BY <2>4, <2>5
<1> QED
  BY <1>3, <1>4, <1>5

(* An identity or the domain is no part of what is told.                     *)
LEMMA SamePhase ==
    ASSUME NEW s \in SessionType, Honest(s), NEW k \in Nat
    PROVE /\ [s EXCEPT !.identity = k] \in SessionType
          /\ [s EXCEPT !.identity = k].phase = s.phase /\ Honest([s EXCEPT !.identity = k])
          /\ [s EXCEPT !.domain = TRUE] \in SessionType
          /\ [s EXCEPT !.domain = TRUE].phase = s.phase /\ Honest([s EXCEPT !.domain = TRUE])
<1>1. s # None /\ (s.phase = "authenticated" => s.token # "none")
  BY MegaCloudDistinct DEF Honest
<1> QED
  BY <1>1 DEF SessionType, Honest

LEMMA AnswerCall ==
    ASSUME CloudInv, NEW r \in Requests, r.op # Auth, NEW q, session \in SessionType,
           Honest(session), r.goal = ops[r.op].goal, r.goal \in {"none", "call"},
           r.then \in {"answer", "exchange"}, code' => code,
           \/ Accepted(r, q)
           \/ Discarded(r.op, "failed", q)
           \/ Fail(r.op) /\ queue' = q /\ UNCHANGED <<session, writes, spent>>
    PROVE CallMoves(r.op, q, writes)
<1>1. /\ r.op \in Ops /\ r.key \in Nat /\ Fits(r.op, r.goal) /\ session # None
      /\ "request" \in Words /\ "failed" \in Words
  BY MegaCloudDistinct DEF Requests, Words
<1>2. ASSUME NEW s \in SessionType, s.phase = session.phase, Honest(s), NEW then \in {"request", "failed"},
             Persist(s, r.op, r.goal, then, writes), queue' = q, answered' = answered
      PROVE CallMoves(r.op, q, writes)
  <2>1. Saves(r.op, r.goal, then, q, writes) /\ session' = s
    BY <1>1, <1>2, PersistStep
  <2> QED
    BY <1>1, <1>2, <2>1 DEF CallMoves
<1>3. ASSUME NEW state, Return(r.op, state), queue' = q, writes' = writes, session' = session
      PROVE CallMoves(r.op, q, writes)
  BY <1>1, <1>3, ReturnStep DEF CallMoves
<1>4. CASE Accepted(r, q)
  <2>1. CASE r.then = "exchange"
    <3>1. /\ [session EXCEPT !.identity = r.key] \in SessionType
          /\ [session EXCEPT !.identity = r.key].phase = session.phase
          /\ Honest([session EXCEPT !.identity = r.key])
      BY <1>1, SamePhase
    <3>2. /\ Persist([session EXCEPT !.identity = r.key], r.op, r.goal, "request", writes)
          /\ queue' = q /\ answered' = answered
      BY <1>4, <2>1 DEF Accepted
    <3> QED
      BY <1>2, <3>1, <3>2
  <2>2. CASE r.then = "answer"
    <3>1. PICK state : Return(r.op, state) /\ queue' = q /\ session' = session /\ writes' = writes
      BY <1>4, <2>2 DEF Accepted
    <3> QED
      BY <1>3, <3>1
  <2> QED
    BY <2>1, <2>2
<1>5. CASE Discarded(r.op, "failed", q)
  <2>1. /\ [session EXCEPT !.identity = NoKey] \in SessionType
        /\ [session EXCEPT !.identity = NoKey].phase = session.phase
        /\ Honest([session EXCEPT !.identity = NoKey])
    BY SamePhase DEF NoKey
  <2>2. /\ Persist([session EXCEPT !.identity = NoKey], r.op, r.goal, "failed", writes)
        /\ queue' = q /\ answered' = answered
    BY <1>5 DEF Discarded
  <2> QED
    BY <1>2, <2>1, <2>2
<1>6. CASE Fail(r.op) /\ queue' = q /\ UNCHANGED <<session, writes, spent>>
  BY <1>3, <1>6 DEF Fail
<1> QED
  BY <1>4, <1>5, <1>6

LEMMA LoginEndsStep ==
    ASSUME CloudInv, NEW q, NEW failures, AuthReady(session, store, writes, failures),
           LoginEnds(Auth, q),
           code' = (code /\ ops'[Auth].then \notin {"locked", "connected"}
                         /\ ~(ops'[Auth].goal = "captcha" /\ ops'[Auth].then = "raw"))
    PROVE AuthMoves(session, store, q, writes)
<1>1. /\ Auth \in Ops /\ Fits(Auth, "captcha") /\ Fits(Auth, "code") /\ Fits(Auth, "login")
      /\ {"locked", "raw", "failed", "verification_required", "connected"} \subseteq Words
      /\ session \in SessionType /\ Honest(session) /\ ops \in [Ops -> Steps]
      /\ code => session.phase = "verification"
      /\ code' => code
  BY DEF Fits, Words, Ops, AuthReady, CloudInv, CloudType
<1>2. ASSUME NEW s \in SessionType, Honest(s), NEW goal, Fits(Auth, goal), NEW then \in Words,
             Persist(s, Auth, goal, then, writes), queue' = q, answered' = answered,
             code' => s.phase = "verification", Leads([at |-> "saving", goal |-> goal, then |-> then], s),
             then # "request", goal = "code" /\ then = "raw" => ~code'
      PROVE AuthMoves(session, store, q, writes)
  <2>1. Saves(Auth, goal, then, q, writes) /\ session' = s
    BY <1>1, <1>2, PersistStep
  <2> QED
    BY <1>1, <1>2, <2>1 DEF AuthMoves
<1>3. ASSUME NEW s, NEW goal, NEW then, Persist(s, Auth, goal, then, writes)
      PROVE ops'[Auth].goal = goal /\ ops'[Auth].then = then
  BY <1>1, <1>3 DEF Persist, Steps
<1>4. ASSUME NEW next \in {<<"locked", "locked">>, <<"captcha", "raw">>, <<session.phase, "failed">>},
             Persist([session EXCEPT !.phase = next[1]], Auth, "captcha", next[2], writes),
             queue' = q, answered' = answered
      PROVE AuthMoves(session, store, q, writes)
  <2> DEFINE s == [session EXCEPT !.phase = next[1]]
  <2>1. next[1] \in Phases /\ next[2] \in {"locked", "raw", "failed"}
    BY <1>1, <1>4 DEF Phases, SessionType
  <2>2. /\ next[2] = "locked" => next[1] = "locked"
        /\ next[2] = "raw" => next[1] = "captcha"
        /\ next[2] = "failed" => next[1] = session.phase
    BY <1>4
  <2>3. s \in SessionType /\ s.phase = next[1]
    BY <1>1, <2>1 DEF SessionType
  <2>4. Honest(s)
    BY <1>1, <2>1, <2>2 DEF Honest, SessionType
  <2>5. ops'[Auth].goal = "captcha" /\ ops'[Auth].then = next[2]
    BY <1>3, <1>4
  <2>6. code' => s.phase = "verification"
    BY <1>1, <2>1, <2>2, <2>3, <2>5
  <2>7. Leads([at |-> "saving", goal |-> "captcha", then |-> next[2]], s)
    BY <2>1, <2>2, <2>3, PhaseOfIs DEF Leads, Ahead
  <2>8. Persist(s, Auth, "captcha", next[2], writes)
    BY <1>4
  <2> HIDE DEF s
  <2> QED
    BY <1>1, <1>2, <1>4, <2>1, <2>3, <2>4, <2>6, <2>7, <2>8
<1>5. CASE Verification(Auth, q)
  <2> DEFINE s == [session EXCEPT !.token = "valid", !.phase = "verification"]
             then == IF session.phase # "verification" THEN "raw" ELSE "verification_required"
  <2>1. s \in SessionType /\ Honest(s) /\ s.phase = "verification"
    BY <1>1 DEF SessionType, Phases, Honest
  <2>2. then \in Words /\ then # "request" /\ (then = "raw" => ~code) /\ (code' => code)
    BY <1>1
  <2>3. Persist(s, Auth, "code", then, writes) /\ queue' = q /\ answered' = answered
    BY <1>5 DEF Verification
  <2>4. Leads([at |-> "saving", goal |-> "code", then |-> then], s)
    BY <2>1, PhaseOfIs DEF Leads, Ahead
  <2> HIDE DEF s, then
  <2> QED
    BY <1>1, <1>2, <2>1, <2>2, <2>3, <2>4
<1>6. CASE /\ Persist([session EXCEPT !.token = "valid", !.phase = "authenticated"], Auth, "login",
                      "connected", writes)
           /\ queue' = q /\ UNCHANGED <<spent, answered>>
  <2> DEFINE s == [session EXCEPT !.token = "valid", !.phase = "authenticated"]
  <2>1. s \in SessionType /\ Honest(s) /\ s.phase = "authenticated"
    BY <1>1 DEF SessionType, Phases, Honest
  <2>2. ~code'
    BY <1>3, <1>6
  <2>3. Leads([at |-> "saving", goal |-> "login", then |-> "connected"], s)
    BY <2>1, PhaseOfIs DEF Leads, Ahead
  <2>4. Persist(s, Auth, "login", "connected", writes)
    BY <1>6
  <2> HIDE DEF s
  <2> QED
    BY <1>1, <1>2, <1>6, <2>1, <2>2, <2>3, <2>4
<1>7. CASE \E next \in {<<"locked", "locked">>, <<"captcha", "raw">>, <<session.phase, "failed">>} :
              /\ Persist([session EXCEPT !.phase = next[1]], Auth, "captcha", next[2], writes)
              /\ queue' = q /\ answered' = answered
  BY <1>4, <1>7
<1> QED
  BY <1>5, <1>6, <1>7 DEF LoginEnds

LEMMA AnswerAuth ==
    ASSUME CloudInv, NEW r \in Requests, r.op = Auth, NEW q, NEW failures,
           AuthReady(session, store, writes, failures), ops[Auth].at = "waiting",
           Leads(ops[Auth], session), r.goal = ops[Auth].goal,
           r.then \in {"answer", "exchange"}, code /\ r.goal = "code" => r.then = "answer",
           r.goal = "code" => Verified(store, writes),
           code' = (code /\ ops'[Auth].then \notin {"locked", "connected"}
                         /\ ~(ops'[Auth].goal = "captcha" /\ ops'[Auth].then = "raw")),
           \/ Accepted(r, q)
           \/ Discarded(Auth, "failed", q) \/ Discarded(Auth, "again", q)
           \/ Fail(Auth) /\ queue' = q /\ UNCHANGED <<session, writes, spent>>
    PROVE \E s : AuthReady(s, store, writes, failures) /\ AuthMoves(s, store, q, writes)
<1>1. /\ Auth \in Ops /\ r.key \in Nat /\ Fits(Auth, r.goal)
      /\ {"request", "failed", "again"} \subseteq Words
      /\ session \in SessionType /\ Honest(session)
      /\ code' => code /\ session.phase = "verification"
      /\ r.goal = "captcha" => session.phase = "captcha"
      /\ r.goal = "code" => session.phase = "verification"
  <2>1. Auth \in Ops /\ r.key \in Nat /\ Fits(Auth, r.goal)
    BY DEF Requests, Ops
  <2>2. /\ r.goal = "captcha" => session.phase = "captcha"
        /\ r.goal = "code" => session.phase = "verification"
    BY DEF Leads, Ahead
  <2> QED
    BY <2>1, <2>2 DEF Words, AuthReady
<1>2. ASSUME NEW s \in SessionType, Honest(s), s.phase = session.phase, NEW then \in {"request", "failed", "again"},
             Persist(s, Auth, r.goal, then, writes), queue' = q, answered' = answered,
             r.goal = "code" /\ then = "request" => ~code
      PROVE AuthMoves(session, store, q, writes)
  <2>1. Saves(Auth, r.goal, then, q, writes) /\ session' = s
    BY <1>1, <1>2, PersistStep
  <2>2. Leads([at |-> "saving", goal |-> r.goal, then |-> then], s)
    BY <1>1, <1>2, PhaseOfIs DEF Leads, Ahead
  <2> QED
    BY <1>1, <1>2, <2>1, <2>2 DEF AuthMoves
<1>3. ASSUME NEW state, Return(Auth, state), queue' = q, writes' = writes, session' = session,
             state \in DOMAIN PhaseOf => session.phase = PhaseOf[state]
      PROVE AuthMoves(session, store, q, writes)
  BY <1>1, <1>3, ReturnStep DEF AuthMoves, Resets
<1>4. CASE Accepted(r, q)
  <2>1. CASE r.then = "exchange"
    <3>1. /\ [session EXCEPT !.identity = r.key] \in SessionType
          /\ [session EXCEPT !.identity = r.key].phase = session.phase
          /\ Honest([session EXCEPT !.identity = r.key])
      BY <1>1, SamePhase
    <3>2. /\ Persist([session EXCEPT !.identity = r.key], Auth, r.goal, "request", writes)
          /\ queue' = q /\ answered' = answered
      BY <1>4, <2>1 DEF Accepted
    <3> QED
      BY <1>2, <2>1, <3>1, <3>2
  <2>2. CASE r.then = "answer" /\ r.goal = "domain"
    <3> DEFINE s == [session EXCEPT !.domain = TRUE]
    <3>1. Login(s, q) /\ writes' = writes
      BY <1>4, <2>2 DEF Accepted
    <3>2. s \in SessionType /\ s.phase = session.phase /\ Honest(s)
      BY <1>1, SamePhase
    <3> HIDE DEF s
    <3>3. AuthReady(s, store, writes, failures)
      BY <3>2 DEF AuthReady, Follows, Stored
    <3>4. AuthMoves(s, store, q, writes)
      BY <1>1, <3>1, <3>2, LoginStep
    <3> QED
      BY <3>3, <3>4
  <2>3. CASE r.then = "answer" /\ r.goal = "login"
    <3>1. LoginEnds(Auth, q)
      BY <1>4, <2>3 DEF Accepted
    <3> QED
      BY <3>1, LoginEndsStep
  <2>4. CASE r.then = "answer" /\ r.goal \notin {"domain", "login"}
    <3> DEFINE state == CASE r.goal = "captcha" -> "captcha_required"
                          [] r.goal = "code" -> "verification_required"
                          [] OTHER -> "answered"
    <3>1. Return(Auth, state) /\ queue' = q /\ session' = session /\ writes' = writes
      BY <1>4, <2>4 DEF Accepted
    <3>2. state \in DOMAIN PhaseOf => session.phase = PhaseOf[state]
      BY <1>1, PhaseOfIs
    <3> HIDE DEF state
    <3> QED
      BY <1>3, <3>1, <3>2
  <2> QED
    BY <2>1, <2>2, <2>3, <2>4
<1>5. ASSUME NEW then \in {"failed", "again"}, Discarded(Auth, then, q)
      PROVE AuthMoves(session, store, q, writes)
  <2>1. /\ [session EXCEPT !.identity = NoKey] \in SessionType
        /\ [session EXCEPT !.identity = NoKey].phase = session.phase
        /\ Honest([session EXCEPT !.identity = NoKey])
    BY <1>1, SamePhase DEF NoKey
  <2>2. /\ Persist([session EXCEPT !.identity = NoKey], Auth, r.goal, then, writes)
        /\ queue' = q /\ answered' = answered
    BY <1>5 DEF Discarded
  <2> QED
    BY <1>2, <2>1, <2>2
<1>6. CASE Fail(Auth) /\ queue' = q /\ UNCHANGED <<session, writes, spent>>
  BY <1>3, <1>6, PhaseOfIs DEF Fail
<1> QED
  BY <1>4, <1>5, <1>6

LEMMA AnswerStory == ASSUME CloudInv, StoryInv, Answer PROVE StoryInv'
<1> DEFINE r == Head(queue)
           q == Tail(queue)
<1>1. /\ queue # <<>> /\ sent /\ ~r.gone /\ sent' = FALSE /\ UNCHANGED <<closed, store>>
      /\ spent \in Counts
  BY DEF Answer, CloudInv, CloudType
<1>2. /\ r \in Requests /\ r.op \in Ops /\ ops[r.op].at = "waiting" /\ Free(r.op, q, writes)
      /\ session \in SessionType /\ Honest(session)
  <2>1. r \in Requests /\ r.op \in Ops /\ ops[r.op].at = "waiting" /\ Free(r.op, q, writes)
    BY <1>1, RestOfQueue
  <2> QED
    BY <2>1 DEF CloudInv, StoryInv, StoryAt
<1>3. /\ r.op # Auth => StoryAt(session, store, q, writes, FALSE, spent.failures)
      /\ r.op = Auth => /\ AuthReady(session, store, writes, spent.failures)
                        /\ Leads(ops[Auth], session)
                        /\ code /\ r.goal = "code" => r.then = "answer"
                        /\ r.goal = "code" => Verified(store, writes)
      /\ r.goal = ops[r.op].goal /\ r.then = ops[r.op].then
      /\ r.then \in {"answer", "exchange"}
      /\ r.op # Auth => r.goal \in {"none", "call"}
      /\ Carries(q) /\ OpsFit
      /\ \A x \in Ops \ {r.op} : Present(x, q, writes)
  BY <1>1, AfterAnswer
<1>4. /\ \/ Accepted(r, q)
         \/ Discarded(r.op, "failed", q)
         \/ r.goal = "login" /\ Discarded(r.op, "again", q)
         \/ Fail(r.op) /\ queue' = q /\ UNCHANGED <<session, writes, spent>>
      /\ code' = (code /\ ops'[Auth].then \notin {"locked", "connected"}
                       /\ ~(ops'[Auth].goal = "captcha" /\ ops'[Auth].then = "raw"))
  BY DEF Answer
<1>5. spent'.failures = spent.failures
  <2>1. UNCHANGED spent \/ spent' = [spent EXCEPT !.keys = @ + 1]
    BY <1>4 DEF Accepted, Discarded, Login, Raw, LoginEnds, Verification
  <2> QED
    BY <1>1, <2>1 DEF Counts
<1> HIDE DEF r, q
<1>6. CASE r.op # Auth
  <2>1. \/ Accepted(r, q)
        \/ Discarded(r.op, "failed", q)
        \/ Fail(r.op) /\ queue' = q /\ UNCHANGED <<session, writes, spent>>
    BY <1>3, <1>4, <1>6
  <2>2. CallMoves(r.op, q, writes)
    BY <1>2, <1>3, <1>4, <1>6, <2>1, AnswerCall
  <2> QED
    BY <1>1, <1>2, <1>3, <1>5, <1>6, <2>2, CallMovesStory
<1>7. CASE r.op = Auth
  <2>1. PICK s : AuthReady(s, store, writes, spent.failures) /\ AuthMoves(s, store, q, writes)
    BY <1>2, <1>3, <1>4, <1>7, AnswerAuth
  <2> QED
    BY <1>1, <1>2, <1>3, <1>5, <1>7, <2>1, AuthMovesStory
<1> QED
  BY <1>6, <1>7

(* The other steps: nothing is saved or asked for.                           *)
LEMMA SameStory ==
    ASSUME CloudInv, StoryInv,
           UNCHANGED <<ops, queue, sent, writes, store, code, answered>>,
           spent'.failures = spent.failures,
           \/ session' = session
           \/ /\ session # None /\ session' # None
              /\ session'.phase = session.phase /\ Honest(session')
    PROVE StoryInv'
<1>1. /\ StoryAt(session, store, queue, writes, sent, spent.failures)
      /\ Carries(queue) /\ OpsFit /\ \A o \in Ops : Present(o, queue, writes)
  BY DEF StoryInv
<1>2. Carries(queue)' /\ OpsFit' /\ \A o \in Ops : Present(o, queue, writes)'
  BY <1>1 DEF Carries, OpsFit, Present, CallStep
<1>3. StoryAt(session, store, queue, writes, sent, spent.failures)'
  <2>1. Honest(session)' /\ Honest(store)' /\ \A i \in DOMAIN writes' : Honest(writes'[i].state)
    BY <1>1 DEF StoryAt, Honest
  <2>2. session' # None =>
           /\ \A j \in DOMAIN writes' : Last(j, writes') => Follows(writes'[j].state, session')
           /\ spent'.failures = 0 /\ ops'[Auth].at # "saving" => Stored(session', store')
    BY <1>1 DEF StoryAt, Last, Follows, Stored
  <2>3. Leads(ops'[Auth], session') /\ Told(session, store, spent.failures)'
    BY <1>1 DEF StoryAt, Leads, Told, Has, Ahead
  <2>4. CodeSafe(session, store, queue, writes, sent)'
    BY <1>1 DEF StoryAt, CodeSafe, Verified, Has, Ahead
  <2> QED
    BY <2>1, <2>2, <2>3, <2>4 DEF StoryAt, Honest, Last, Follows, Stored, Leads, Ahead
<1> QED
  BY <1>2, <1>3 DEF StoryInv

LEMMA InitStory == Init => StoryInv
<1> SUFFICES ASSUME Init PROVE StoryInv
  OBVIOUS
<1>1. /\ session = None /\ store = None /\ queue = <<>> /\ writes = <<>> /\ code = FALSE
      /\ answered = "none" /\ \A o \in Ops : ops[o] = Idle
  BY DEF Init
<1>2. Auth \in Ops /\ Idle.at = "idle" /\ Idle.goal = "none" /\ Idle.then = "none"
  BY DEF Ops, Idle
<1>3. "none" \notin DOMAIN PhaseOf
  BY PhaseOfIs
<1>4. StoryAt(session, store, queue, writes, sent, spent.failures)
  BY <1>1, <1>2, <1>3 DEF StoryAt, Honest, Leads, Ahead, Told, CodeSafe
<1> QED
  BY <1>1, <1>2, <1>4 DEF StoryInv, Carries, OpsFit, CallStep, Present

LEMMA ConnectStory == ASSUME CloudInv, StoryInv, NEW answer \in BOOLEAN, Connect(answer) PROVE StoryInv'
<1> DEFINE step == [Idle EXCEPT !.at = "loading", !.answer = answer]
<1>1. /\ Auth \in Ops /\ ops[Auth].at = "idle" /\ ops \in [Ops -> Steps]
      /\ step.at = "loading" /\ step.goal = "none" /\ step.then = "none"
      /\ ops' = [ops EXCEPT ![Auth] = step] /\ answered' = "none"
      /\ UNCHANGED <<session, queue, sent, writes, store, code>>
  BY DEF Connect, Ops, CloudInv, CloudType, Idle, saving, cloud
<1>2. ops'[Auth] = step /\ \A x \in Ops \ {Auth} : ops'[x] = ops[x]
  BY <1>1
<1> HIDE DEF step
<1>3. spent'.failures = spent.failures
  BY DEF Connect, CloudInv, CloudType, Counts
<1>4. \A i \in DOMAIN queue : ~queue[i].gone => queue[i].op \in Ops \ {Auth}
  <2>1. \A i \in DOMAIN queue : queue[i] \in Requests
    BY MemberOf DEF CloudInv, CloudType
  <2> QED
    BY <1>1, <2>1 DEF CloudInv, Waits, Requests
<1>5. Carries(queue)'
  BY <1>1, <1>2, <1>4 DEF StoryInv, Carries
<1>6. OpsFit' /\ \A x \in Ops : Present(x, queue, writes)'
  BY <1>1, <1>2 DEF StoryInv, OpsFit, CallStep, Present
<1>7. "none" \notin DOMAIN PhaseOf
  BY PhaseOfIs
<1>8. StoryAt(session, store, queue, writes, sent, spent.failures)'
  <2>1. StoryAt(session, store, queue, writes, sent, spent.failures)
    BY DEF StoryInv
  <2>2. ~Ahead(ops'[Auth]) /\ ops'[Auth].at = "loading" /\ ops'[Auth].goal = "none"
    BY <1>1, <1>2 DEF Ahead
  <2>3. Leads(ops'[Auth], session') /\ Told(session, store, spent.failures)'
    BY <1>1, <1>7, <2>2 DEF Leads, Told
  <2>4. CodeSafe(session, store, queue, writes, sent)'
    BY <1>1, <2>1, <2>2 DEF StoryAt, CodeSafe, Verified, Has, Ahead
  <2> QED
    BY <1>1, <1>3, <2>1, <2>2, <2>3, <2>4
    DEF StoryAt, Honest, Last, Follows, Stored, Leads, Ahead
<1> QED
  BY <1>5, <1>6, <1>8 DEF StoryInv

LEMMA SendStory == ASSUME CloudInv, StoryInv, Send PROVE StoryInv'
<1> DEFINE r == Head(queue)
<1>1. /\ queue # <<>> /\ ~r.gone /\ ~sent /\ sent' = TRUE /\ code' = (code \/ Mails(r))
      /\ UNCHANGED <<session, ops, queue, writes, store, answered, spent>>
  BY DEF Send, Sends, saving
<1>2. /\ r \in Requests /\ r.op \in Ops /\ ops[r.op].at = "waiting" /\ 1 \in DOMAIN queue
      /\ r = queue[1] /\ session \in SessionType /\ session # None
  <2>1. queue \in Seq(Requests) /\ r.op \in Ops /\ ops[r.op].at = "waiting" /\ r \in Requests
    BY <1>1, RestOfQueue DEF CloudInv, CloudType
  <2> QED
    BY <1>1, <2>1, TailOf, MegaCloudDistinct DEF CloudInv
<1>3. /\ StoryAt(session, store, queue, writes, sent, spent.failures)
      /\ Carries(queue) /\ OpsFit /\ \A o \in Ops : Present(o, queue, writes)
  BY DEF StoryInv
<1>4. r.goal = ops[r.op].goal /\ r.then = ops[r.op].then
  BY <1>1, <1>2, <1>3 DEF Carries
<1> HIDE DEF r
<1>5. CodeSafe(session, store, queue, writes, sent)'
  <2>1. CASE Mails(r)
    <3>1. r.goal = "code" /\ r.then = "answer" /\ r.op = Auth
      BY <1>2, <1>3, <1>4, <2>1 DEF Mails, OpsFit, CallStep
    <3>2. Verified(store, writes) /\ session.phase = "verification"
      BY <1>2, <1>3, <1>4, <3>1 DEF StoryAt, Leads, Ahead, CodeSafe
    <3> QED
      BY <1>1, <1>2, <1>4, <3>1, <3>2 DEF CodeSafe, Verified, Has, r
  <2>2. CASE ~Mails(r)
    BY <1>1, <1>3, <2>2 DEF StoryAt, CodeSafe, Verified, Has, Ahead
  <2> QED
    BY <2>1, <2>2
<1>6. StoryAt(session, store, queue, writes, sent, spent.failures)'
  BY <1>1, <1>3, <1>5 DEF StoryAt, Honest, Last, Follows, Stored, Leads, Ahead, Told, Has
<1>7. Carries(queue)' /\ OpsFit' /\ \A o \in Ops : Present(o, queue, writes)'
  BY <1>1, <1>3 DEF Carries, OpsFit, CallStep, Present
<1> QED
  BY <1>6, <1>7 DEF StoryInv

LEMMA AbandonedStory == ASSUME CloudInv, StoryInv, Abandoned PROVE StoryInv'
<1>1. /\ queue # <<>> /\ Head(queue).gone /\ queue' = Tail(queue)
      /\ UNCHANGED <<session, ops, writes, store, code, answered, spent>>
  BY DEF Abandoned, saving, cloud
<1>2. Auth \in Ops
  BY DEF Ops
<1>3. Carries(Tail(queue)) /\ \A x \in Ops : Present(x, Tail(queue), writes)
  BY <1>1, <1>2, CarriesRest, PresentOthers DEF StoryInv
<1>4. Carries(queue)' /\ OpsFit' /\ \A x \in Ops : Present(x, queue, writes)'
  BY <1>1, <1>3 DEF StoryInv, Carries, OpsFit, CallStep, Present
<1>5. StoryAt(session, store, queue, writes, sent, spent.failures)
  BY DEF StoryInv
<1>6. CodeSafe(session, store, queue, writes, sent)'
  BY <1>1, <1>5 DEF StoryAt, CodeSafe, Verified, Has, Ahead
<1>7. StoryAt(session, store, queue, writes, sent, spent.failures)'
  BY <1>1, <1>5, <1>6 DEF StoryAt, Honest, Last, Follows, Stored, Leads, Ahead, Told, Has
<1> QED
  BY <1>4, <1>7 DEF StoryInv

LEMMA LeaveStory ==
    ASSUME CloudInv, CloudInv', StoryInv, NEW gone \in SUBSET InRequest, Leave(gone)
    PROVE StoryInv'
<1>1. /\ queue \in Seq(Requests) /\ queue' \in Seq(Requests) /\ ops \in [Ops -> Steps]
      /\ UNCHANGED <<session, sent, writes, store, code, spent>>
      /\ answered' = IF Auth \in gone THEN "failed" ELSE answered
      /\ sent => queue # <<>>
  BY DEF Leave, saving, cloud, CloudInv, CloudType
<1>2. /\ \A o \in Ops : ops'[o] = IF o \in gone THEN Idle ELSE ops[o]
      /\ Idle.at = "idle" /\ Idle.goal = "none" /\ Idle.then = "none" /\ Auth \in Ops
  BY DEF Leave, Idle, Ops
<1>3. /\ DOMAIN queue' = DOMAIN queue
      /\ \A i \in DOMAIN queue :
            /\ queue[i].op \in Ops /\ queue'[i].op = queue[i].op
            /\ queue[i].op \in gone => queue'[i].gone
            /\ queue[i].op \notin gone => queue'[i] = queue[i]
  <2>1. queue' = [i \in DOMAIN queue |->
            IF queue[i].op \in gone THEN [queue[i] EXCEPT !.gone = TRUE] ELSE queue[i]]
    BY DEF Leave
  <2>2. \A i \in DOMAIN queue : queue[i] \in Requests
    BY <1>1, MemberOf
  <2> QED
    BY <2>1, <2>2 DEF Requests
<1>4. /\ StoryAt(session, store, queue, writes, sent, spent.failures)
      /\ Carries(queue) /\ OpsFit /\ \A o \in Ops : Present(o, queue, writes)
  BY DEF StoryInv
<1>5. Carries(queue)'
  BY <1>2, <1>3, <1>4 DEF Carries
<1>6. OpsFit'
  BY <1>2, <1>4 DEF OpsFit, CallStep
<1>7. ASSUME NEW o \in Ops PROVE Present(o, queue, writes)'
  BY <1>1, <1>2, <1>3, <1>4 DEF Present
<1>8. StoryAt(session, store, queue, writes, sent, spent.failures)'
  <2>1. CASE Auth \in gone
    <3>1. ops'[Auth] = Idle /\ answered' = "failed" /\ "failed" \notin DOMAIN PhaseOf
          /\ ops[Auth].at = "waiting"
      BY <1>1, <1>2, <2>1, PhaseOfIs DEF InRequest
    <3>2. Leads(ops'[Auth], session') /\ Told(session, store, spent.failures)'
      BY <1>2, <3>1 DEF Leads, Ahead, Told
    <3>3. CodeSafe(session, store, queue, writes, sent)'
      BY <1>1, <1>2, <1>4, <3>1 DEF StoryAt, CodeSafe, Verified, Has, Ahead
    <3> QED
      BY <1>1, <1>2, <1>4, <3>1, <3>2, <3>3
      DEF StoryAt, Honest, Last, Follows, Stored, Leads, Ahead
  <2>2. CASE Auth \notin gone
    <3>1. ops'[Auth] = ops[Auth] /\ answered' = answered
      BY <1>1, <1>2, <2>2
    <3>2. sent /\ Head(queue).op = Auth => Head(queue') = Head(queue)
      <4>1. ASSUME sent, Head(queue).op = Auth PROVE Head(queue') = Head(queue)
        <5>1. 1 \in DOMAIN queue /\ Head(queue) = queue[1]
          BY <1>1, <4>1, TailOf
        <5>2. queue' # <<>>
          BY <1>3, <5>1
        <5>3. Head(queue') = queue'[1]
          BY <1>1, <5>2, TailOf
        <5> QED
          BY <1>3, <2>2, <4>1, <5>1, <5>3
      <4> QED
        BY <4>1
    <3>3. CodeSafe(session, store, queue, writes, sent)'
      BY <1>1, <1>4, <3>1, <3>2 DEF StoryAt, CodeSafe, Verified, Has, Ahead
    <3>4. Leads(ops'[Auth], session') /\ Told(session, store, spent.failures)'
      BY <1>1, <1>4, <3>1 DEF StoryAt, Leads, Ahead, Told, Has
    <3> QED
      BY <1>1, <1>4, <3>1, <3>3, <3>4 DEF StoryAt, Honest, Last, Follows, Stored, Leads, Ahead
  <2> QED
    BY <2>1, <2>2
<1> QED
  BY <1>5, <1>6, <1>7, <1>8 DEF StoryInv

LEMMA CrashStory == ASSUME CloudInv, StoryInv, Crash PROVE StoryInv'
<1>1. /\ session' = None /\ queue' = <<>> /\ writes' = <<>> /\ UNCHANGED <<store, code, answered>>
      /\ \A o \in Ops : ops'[o] = Idle
      /\ Auth \in Ops /\ Idle.at = "idle" /\ Idle.goal = "none" /\ Idle.then = "none"
  BY DEF Crash, cloud, Ops, Idle
<1>2. spent'.failures = spent.failures
  BY DEF Crash, CloudInv, CloudType, Counts
<1>3. Told(session, store, spent.failures) /\ CodeSafe(session, store, queue, writes, sent)
      /\ Honest(store)
  BY DEF StoryInv, StoryAt
<1>4. StoryAt(session, store, queue, writes, sent, spent.failures)'
  <2>1. Told(session, store, spent.failures)'
    BY <1>1, <1>2, <1>3 DEF Told, Has
  <2>2. CodeSafe(session, store, queue, writes, sent)'
    BY <1>1, <1>3 DEF CodeSafe, Verified, Has, Ahead
  <2> QED
    BY <1>1, <1>3, <2>1, <2>2 DEF StoryAt, Honest, Leads, Ahead
<1> QED
  BY <1>1, <1>4 DEF StoryInv, Carries, OpsFit, CallStep, Present

LEMMA NextStory == CloudInv /\ StoryInv /\ [Next]_vars => StoryInv'
<1> SUFFICES ASSUME CloudInv, StoryInv, [Next]_vars PROVE StoryInv'
  OBVIOUS
<1>1. CASE UNCHANGED vars
  BY <1>1, SameStory DEF vars, saving, cloud
<1>2. ASSUME NEW o \in Ops, Cancel(o) PROVE StoryInv'
  <2>1. {o} \in SUBSET InRequest /\ Leave({o}) /\ CloudInv'
    BY <1>2, NextInv DEF Cancel, Next
  <2> QED
    BY <2>1, LeaveStory
<1>3. CASE Close
  BY <1>3, LeaveStory, NextInv DEF Close, Next
<1>4. CASE SlotOpens
  BY <1>4, SameStory DEF SlotOpens, saving, cloud
<1>5. CASE Expires
  <2>1. /\ session # None /\ session.token = "valid" /\ session' = [session EXCEPT !.token = "expired"]
        /\ UNCHANGED <<ops, queue, sent, writes, store, code, answered, spent>>
    BY <1>5 DEF Expires, saving, cloud
  <2>2. session \in SessionType
    BY <2>1 DEF CloudInv, CloudType
  <2>3. session' \in SessionType /\ session'.phase = session.phase /\ Honest(session')
    BY <2>1, <2>2 DEF SessionType, Honest
  <2> QED
    BY <2>1, <2>3, SameStory, MegaCloudDistinct
<1>6. ASSUME NEW k \in keys, Forgets(k) PROVE StoryInv'
  <2>1. spent'.failures = spent.failures
    BY <1>6 DEF Forgets, CloudInv, CloudType, Counts
  <2> QED
    BY <1>6, <2>1, SameStory DEF Forgets, saving
<1> QED
  BY <1>1, <1>2, <1>3, <1>4, <1>5, <1>6, ConnectStory, LoadedStory, CallStory, SendStory,
     AbandonedStory, AnswerStory, WriteEndsStory, CrashStory DEF Next

LEMMA StoryInvariant == Spec => [](CloudInv /\ StoryInv)
<1>1. CloudInv /\ StoryInv /\ [Next]_vars => (CloudInv /\ StoryInv)'
  BY NextInv, NextStory
<1>2. Init => CloudInv /\ StoryInv
  BY InitInv, InitStory
<1> QED
  BY <1>1, <1>2, PTL DEF Spec

-----------------------------------------------------------------------------
(* One thing is pending: a set of the positions of one element.              *)
LEMMA OneOrNone ==
    ASSUME NEW P, \A i, j \in P : i = j
    PROVE Cardinality(P) = IF P = {} THEN 0 ELSE 1
<1>1. CASE P = {}
  BY <1>1, FS_EmptySet
<1>2. CASE P # {}
  <2>1. PICK i \in P : TRUE
    BY <1>2
  <2>2. P = {i}
    BY <2>1
  <2> QED
    BY <2>2, FS_Singleton
<1> QED
  BY <1>1, <1>2

(* Every operation waits for exactly one request or one write, which is its  *)
(* own, and while no write has failed what connect() told is what the store  *)
(* holds (cloud.ts connect, persist, post).                                  *)
THEOREM CloudHolds == Spec => []CloudOK
<1>1. ASSUME CloudInv, StoryInv PROVE TypeOK
  <2>1. /\ CloudType /\ Waits(queue) /\ OneLive(queue) /\ Saving(writes) /\ OneWrite(writes)
        /\ \A o \in Ops : Present(o, queue, writes)
        /\ Honest(store)
    BY <1>1 DEF CloudInv, StoryInv, StoryAt
  <2>2. ASSUME NEW o \in Ops
        PROVE /\ Cardinality(Awaited(o)) = IF ops[o].at = "waiting" THEN 1 ELSE 0
              /\ Cardinality(Written(o)) = IF ops[o].at = "saving" THEN 1 ELSE 0
    <3>1. (Awaited(o) # {}) <=> ops[o].at = "waiting"
      BY <2>1 DEF Awaited, Waits, Present
    <3>2. (Written(o) # {}) <=> ops[o].at = "saving"
      BY <2>1 DEF Written, Saving, Present
    <3>3. \A i, j \in Awaited(o) : i = j
      BY <2>1 DEF Awaited, OneLive
    <3>4. \A i, j \in Written(o) : i = j
      BY <2>1 DEF Written, OneWrite
    <3> QED
      BY <3>1, <3>2, <3>3, <3>4, OneOrNone
  <2>3. {session, store} \ {None} \subseteq SessionType /\ (sent => queue # <<>>)
    BY <2>1 DEF CloudType
  <2> QED
    BY <2>1, <2>2, <2>3 DEF TypeOK, Honest
<1>2. ASSUME StoryInv PROVE AnswerIsStored
  BY <1>2 DEF StoryInv, StoryAt, Told, AnswerIsStored, Has
<1> QED
  BY <1>1, <1>2, StoryInvariant, PTL DEF CloudOK

(* While one login's verification step is open, one code is mailed: across   *)
(* refused answers, failed writes, crashes and further connect() calls       *)
(* (cloud.ts, the verification phase is saved before its code is asked for). *)
THEOREM OneCode == Spec => NoSecondCode
<1>1. ASSUME CloudInv, StoryInv, Next, ~sent, sent', Mails(Head(queue)) PROVE ~code
  <2>1. Send
    BY <1>1 DEF Next, Connect, Loaded, Call, SlotOpens, Abandoned, Answer, Cancel, Leave, Close,
                WriteEnds, WriteAt, Forgets, Expires, Crash
  <2> DEFINE r == Head(queue)
  <2>2. /\ queue # <<>> /\ ~r.gone /\ r.op \in Ops /\ ops[r.op].at = "waiting"
        /\ 1 \in DOMAIN queue /\ r = queue[1]
    <3>1. queue # <<>> /\ ~r.gone /\ queue \in Seq(Requests)
      BY <1>1, <2>1 DEF Send, CloudInv, CloudType
    <3> QED
      BY <1>1, <3>1, RestOfQueue, TailOf
  <2>3. r.goal = ops[r.op].goal /\ r.goal = "code"
    BY <1>1, <2>2 DEF StoryInv, Carries, Mails
  <2>4. r.op = Auth
    BY <1>1, <2>2, <2>3 DEF StoryInv, OpsFit, CallStep
  <2> QED
    BY <1>1, <2>2, <2>3, <2>4 DEF StoryInv, StoryAt, CodeSafe, Ahead
<1>2. CloudInv /\ StoryInv /\ [Next]_vars => [~sent /\ sent' /\ Mails(Head(queue)) => ~code]_vars
  BY <1>1
<1> QED
  BY <1>2, StoryInvariant, PTL DEF NoSecondCode, Spec

===============================================================================
