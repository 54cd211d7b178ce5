------------------------------- MODULE MegaCloud -------------------------------
(* The cloud transport (src/src/cloud.ts): the queue of requests with its
   deadlines, the identity that requests are signed with, the login with captcha
   and verification code, and the writes of the session to its store. The client
   lets one connect() run at a time (src/src/client.ts); any number of call()s
   run beside it. The cloud is external: it may forget an identity at any time
   and answers a login as it likes.

   Not here: the event session that EventTransport saves in the same store, the
   formats of requests, and the length of the interval between requests. *)
EXTENDS Naturals, Sequences, FiniteSets

CONSTANTS
    Calls,          \* the call()s
    None,
    MaxLogins,      \* bound: connect() calls
    MaxCalls,       \* bound: call() calls
    MaxForgets,     \* bound: how often the cloud forgets an identity
    MaxFailures,    \* bound: writes of the store that fail
    MaxCrashes      \* bound: crashes of the process

ASSUME MegaCloudAssumption ==
    {MaxLogins, MaxCalls, MaxForgets, MaxFailures, MaxCrashes} \subseteq Nat

Auth == "connect"
Ops == Calls \cup {Auth}

VARIABLES
    closed,     \* is the client closed
    session,    \* cloud.session in memory, or None before it is loaded
    ops,        \* where each operation stands
    queue,      \* the requests, the first one holding the slot
    sent,       \* is the first request sent
    cooling,    \* has the interval after the last request not passed
    writes,     \* the writes of the session that have not ended, in order
    store,      \* the session store: survives a crash
    keys,       \* cloud: the identities it knows
    code,       \* has a verification code been sent for the login that is open
    answered,   \* what the last connect() returned
    spent       \* how much of the bounds is used
saving == <<writes, store>>
cloud == <<keys, code>>
vars == <<closed, session, ops, queue, sent, cooling, saving, cloud, answered, spent>>

Phases == {"new", "captcha", "verification", "locked", "authenticated"}
NoKey == 0
NewSession == [phase |-> "new", token |-> "none", domain |-> FALSE, identity |-> NoKey]

(* at: does an operation wait for the store to load, for a request or for a
   write. goal: the request it is to make. then: what it does after that. *)
Idle == [at |-> "idle", answer |-> FALSE, goal |-> "none", key |-> NoKey, then |-> "none"]

Init ==
    /\ closed = FALSE /\ session = None
    /\ ops = [o \in Ops |-> Idle]
    /\ queue = <<>> /\ sent = FALSE /\ cooling = FALSE
    /\ writes = <<>> /\ store = None
    /\ keys = {} /\ code = FALSE /\ answered = "none"
    /\ spent = [logins |-> 0, calls |-> 0, keys |-> 0,
                forgets |-> 0, failures |-> 0, crashes |-> 0]

Authenticated(s) == ~closed /\ s.phase = "authenticated" /\ s.token = "valid"

Return(o, state) ==
    /\ ops' = [ops EXCEPT ![o] = Idle]
    /\ answered' = IF o = Auth THEN state ELSE answered
Fail(o) == Return(o, "failed")

(********************* requests: post, identity, raw **********************)

(* post: the request joins the queue q. On a closed client it is gone at once. *)
Post(o, goal, then, key, q) ==
    /\ queue' = Append(q, [op |-> o, goal |-> goal, then |-> then, key |-> key, gone |-> closed])
    /\ IF closed THEN Fail(o)
       ELSE /\ ops' = [ops EXCEPT ![o] = [@ EXCEPT !.at = "waiting", !.goal = goal,
                                                  !.then = then, !.key = key]]
            /\ UNCHANGED answered
(* raw: the identity of the session s signs the request, or one is exchanged first. *)
Raw(s, o, goal, q) ==
    IF s.identity # NoKey
    THEN Post(o, goal, "answer", s.identity, q) /\ UNCHANGED spent
    ELSE /\ spent' = [spent EXCEPT !.keys = @ + 1]
         /\ Post(o, goal, "exchange", spent.keys + 1, q)

(* The request that holds the slot is signed and sent, unless its caller is gone.
   The cloud knows the key of an exchange and mails a code, whatever becomes of
   the answer. *)
Mails(r) == r.goal = "code" /\ r.then = "answer" /\ r.key \in keys
Sends(r) ==
    /\ ~sent /\ ~cooling
    /\ sent' = TRUE /\ cooling' = TRUE
    /\ keys' = IF r.then = "exchange" THEN keys \cup {r.key} ELSE keys
    /\ code' = (code \/ Mails(r))
    /\ UNCHANGED <<closed, session, ops, queue, saving, answered, spent>>
SendAbandoned == queue # <<>> /\ Sends(Head(queue))
Send == queue # <<>> /\ ~Head(queue).gone /\ Sends(Head(queue))
SlotOpens ==
    /\ cooling /\ cooling' = FALSE
    /\ UNCHANGED <<closed, session, ops, queue, sent, saving, cloud, answered, spent>>
Abandoned ==
    /\ queue # <<>> /\ Head(queue).gone
    /\ queue' = Tail(queue) /\ sent' = FALSE
    /\ UNCHANGED <<closed, session, ops, cooling, saving, cloud, answered, spent>>

(* The caller's signal or the deadline, which also counts in the queue; closing
   the client ends every request. *)
Leave(gone) ==
    /\ ops' = [o \in Ops |-> IF o \in gone THEN Idle ELSE ops[o]]
    /\ queue' = [i \in DOMAIN queue |->
                    IF queue[i].op \in gone THEN [queue[i] EXCEPT !.gone = TRUE] ELSE queue[i]]
    /\ answered' = IF Auth \in gone THEN "failed" ELSE answered
    /\ UNCHANGED <<session, sent, cooling, saving, cloud, spent>>
InRequest == {o \in Ops : ops[o].at = "waiting"}
CancelAtClose(o) == closed /\ o \in InRequest /\ Leave({o}) /\ UNCHANGED closed
Cancel(o) == o \in InRequest /\ Leave({o}) /\ UNCHANGED closed
Close == ~closed /\ closed' = TRUE /\ Leave(InRequest)

(********************************** saving **********************************)

(* persist: a copy of the session s is written behind the earlier ones. *)
Persist(s, o, goal, then, earlier) ==
    /\ session' = s
    /\ writes' = Append(earlier, [state |-> s, op |-> o])
    /\ ops' = [ops EXCEPT ![o] = [@ EXCEPT !.at = "saving", !.goal = goal, !.then = then]]

(* What an operation does when its write has ended: after an exchange the request
   it was for, a captcha or a code after a login, a second write after a login
   whose identity was rejected, or its end. *)
Resume(o, left) ==
    \/ /\ ops[o].then = "request"
       /\ Post(o, ops[o].goal, "answer", ops[o].key, queue)
       /\ writes' = left /\ UNCHANGED <<session, spent>>
    \/ /\ ops[o].then = "raw"
       /\ Raw(session, o, ops[o].goal, queue)
       /\ writes' = left /\ UNCHANGED session
    \/ /\ ops[o].then = "again"
       /\ Persist(session, o, "login", "failed", left)
       /\ UNCHANGED <<queue, answered, spent>>
    \/ /\ ops[o].then \notin {"request", "raw", "again"}
       /\ Return(o, ops[o].then)
       /\ writes' = left /\ UNCHANGED <<session, queue, spent>>

(* The store replaces its file by a rename, or fails: then the operation fails,
   and the writes behind it go on. *)
WriteAt(i, ok) ==
    LET left == SubSeq(writes, 1, i - 1) \o SubSeq(writes, i + 1, Len(writes))
    IN  /\ \/ ok /\ store' = writes[i].state /\ Resume(writes[i].op, left)
           \/ /\ ~ok /\ spent.failures < MaxFailures
              /\ spent' = [spent EXCEPT !.failures = @ + 1]
              /\ Fail(writes[i].op)
              /\ writes' = left /\ UNCHANGED <<store, session, queue>>
        /\ UNCHANGED <<closed, sent, cooling, cloud>>
WriteUnordered(ok) == \E i \in DOMAIN writes : WriteAt(i, ok)
WriteEnds(ok) == writes # <<>> /\ WriteAt(1, ok)

(**************************** connect and call ****************************)

Connect(answer) ==
    /\ ops[Auth].at = "idle" /\ ~closed /\ spent.logins < MaxLogins
    /\ ops' = [ops EXCEPT ![Auth] = [Idle EXCEPT !.at = "loading", !.answer = answer]]
    /\ answered' = "none"
    /\ spent' = [spent EXCEPT !.logins = @ + 1]
    /\ UNCHANGED <<closed, session, queue, sent, cooling, saving, cloud>>

(* The login: an authenticated session, whose token is no longer valid or which an
   answer replaces, is reset first. *)
Login(s, q) ==
    /\ session' = IF s.phase = "authenticated"
                  THEN [s EXCEPT !.phase = "new", !.token = "none"] ELSE s
    /\ Raw(s, Auth, "login", q)
Settled(s, answer) ==
    IF Authenticated(s) /\ ~answer THEN "connected"
    ELSE IF s.phase = "locked" THEN "locked"
    ELSE IF s.phase = "verification" /\ ~answer THEN "verification_required"
    ELSE "no"
(* Once the session is loaded, or a new one made: what it says already, a new
   captcha, the domain or the login. Or the store cannot be read. *)
Begin(s, answer) ==
    \/ /\ Settled(s, answer) # "no" /\ Return(Auth, Settled(s, answer))
       /\ session' = s /\ UNCHANGED <<queue, spent>>
    \/ /\ Settled(s, answer) = "no" /\ s.phase = "captcha" /\ ~answer
       /\ session' = s /\ Raw(s, Auth, "captcha", queue)
    \/ /\ Settled(s, answer) = "no" /\ ~(s.phase = "captcha" /\ ~answer)
       /\ IF s.domain THEN Login(s, queue)
          ELSE session' = s /\ Post(Auth, "domain", "answer", NoKey, queue) /\ UNCHANGED spent
Loaded ==
    /\ ops[Auth].at = "loading"
    /\ \/ Begin(IF session # None THEN session ELSE IF store # None THEN store ELSE NewSession,
                ops[Auth].answer)
       \/ session = None /\ Fail(Auth) /\ UNCHANGED <<session, queue, spent>>
    /\ UNCHANGED <<closed, sent, cooling, saving, cloud>>

Call(o) ==
    /\ ops[o].at = "idle" /\ spent.calls < MaxCalls
    /\ IF session = None THEN FALSE ELSE Authenticated(session)
    /\ LET counted == [spent EXCEPT !.calls = @ + 1]
       IN  IF session.identity # NoKey
           THEN Post(o, "call", "answer", session.identity, queue) /\ spent' = counted
           ELSE /\ spent' = [counted EXCEPT !.keys = @ + 1]
                /\ Post(o, "call", "exchange", spent.keys + 1, queue)
    /\ UNCHANGED <<closed, session, sent, cooling, saving, cloud>>

(********************************* answers *********************************)

(* A verification step: the code is asked for only by the login that enters the
   phase, when the phase is saved. *)
VerificationUnsaved(o, q) ==
    LET s == [session EXCEPT !.token = "valid", !.phase = "verification"]
    IN  /\ session' = s /\ UNCHANGED writes
        /\ IF session.phase # "verification" THEN Raw(s, o, "code", q)
           ELSE Return(o, "verification_required") /\ queue' = q /\ UNCHANGED spent
Verification(o, q) ==
    /\ Persist([session EXCEPT !.token = "valid", !.phase = "verification"], o, "code",
               IF session.phase # "verification" THEN "raw" ELSE "verification_required", writes)
    /\ queue' = q /\ UNCHANGED <<spent, answered>>
(* The phase a login ends in, and what follows when it is saved. *)
LoginEnds(o, q) ==
    \/ /\ \E next \in {<<"locked", "locked">>, <<"captcha", "raw">>, <<session.phase, "failed">>} :
             Persist([session EXCEPT !.phase = next[1]], o, "captcha", next[2], writes)
       /\ queue' = q /\ UNCHANGED <<spent, answered>>
    \/ Verification(o, q)
    \/ /\ Persist([session EXCEPT !.token = "valid", !.phase = "authenticated"], o, "login",
                  "connected", writes)
       /\ queue' = q /\ UNCHANGED <<spent, answered>>

(* The cloud answers the request r that was sent, and whose slot ends. A request
   signed with an identity that it has forgotten is rejected, which discards the
   identity in memory; any other may also be refused or come back damaged. *)
Discarded(o, then, q) ==
    /\ Persist([session EXCEPT !.identity = NoKey], o, ops[o].goal, then, writes)
    /\ queue' = q /\ UNCHANGED <<spent, answered>>
Accepted(r, q) ==
    CASE r.then = "exchange" ->
            /\ Persist([session EXCEPT !.identity = r.key], r.op, r.goal, "request", writes)
            /\ queue' = q /\ UNCHANGED <<spent, answered>>
      [] r.goal = "domain" /\ r.then = "answer" ->
            Login([session EXCEPT !.domain = TRUE], q) /\ UNCHANGED writes
      [] r.goal = "login" /\ r.then = "answer" -> LoginEnds(r.op, q)
      [] OTHER ->
            /\ Return(r.op, CASE r.goal = "captcha" -> "captcha_required"
                              [] r.goal = "code" -> "verification_required"
                              [] OTHER -> "answered")
            /\ queue' = q /\ UNCHANGED <<session, writes, spent>>
Answer ==
    /\ sent /\ ~Head(queue).gone
    /\ sent' = FALSE
    /\ LET r == Head(queue)
           q == Tail(queue)
           known == r.goal = "domain" \/ r.then = "exchange" \/ r.key \in keys
       IN  \/ known /\ Accepted(r, q)
           \/ /\ r.then = "exchange" /\ Discarded(r.op, "failed", q)
           \/ /\ ~known /\ Discarded(r.op, IF r.goal = "login" THEN "again" ELSE "failed", q)
           \/ Fail(r.op) /\ queue' = q /\ UNCHANGED <<session, writes, spent>>
    /\ code' = (code /\ ops'[Auth].then \notin {"locked", "connected"}
                     /\ ~(ops'[Auth].goal = "captcha" /\ ops'[Auth].then = "raw"))
    /\ UNCHANGED <<closed, cooling, store, keys>>

(************************* the cloud, crashes, Next *************************)

Forgets(k) ==
    /\ k \in keys /\ spent.forgets < MaxForgets
    /\ keys' = keys \ {k}
    /\ spent' = [spent EXCEPT !.forgets = @ + 1]
    /\ UNCHANGED <<closed, session, ops, queue, sent, cooling, saving, code, answered>>
Expires ==
    /\ IF session = None THEN FALSE ELSE session.token = "valid"
    /\ session' = [session EXCEPT !.token = "expired"]
    /\ UNCHANGED <<closed, ops, queue, sent, cooling, saving, cloud, answered, spent>>
(* The process ends and starts again with what the store holds. *)
Crash ==
    /\ spent.crashes < MaxCrashes
    /\ spent' = [spent EXCEPT !.crashes = @ + 1]
    /\ closed' = FALSE /\ session' = None
    /\ ops' = [o \in Ops |-> Idle]
    /\ queue' = <<>> /\ sent' = FALSE /\ cooling' = FALSE /\ writes' = <<>>
    /\ UNCHANGED <<store, cloud, answered>>

Next ==
    \/ \E answer \in BOOLEAN : Connect(answer)
    \/ Loaded
    \/ \E o \in Calls : Call(o)
    \/ Send \/ SlotOpens \/ Abandoned \/ Answer
    \/ \E o \in Ops : Cancel(o)
    \/ Close
    \/ \E ok \in BOOLEAN : WriteEnds(ok)
    \/ \E k \in keys : Forgets(k)
    \/ Expires \/ Crash

(* Fairness: promises go on, a write ends, and every request has a deadline. The
   cloud need not answer. *)
Fairness ==
    /\ WF_vars(Loaded) /\ WF_vars(\E ok \in BOOLEAN : WriteEnds(ok))
    /\ \A o \in Ops : WF_vars(Cancel(o))
Spec == Init /\ [][Next]_vars /\ Fairness

-------------------------------------------------------------------------------

SessionType ==
    [phase : Phases, token : {"none", "valid", "expired"}, domain : BOOLEAN, identity : Nat]
ASSUME MegaCloudDistinct == None \notin SessionType /\ Auth \notin Calls

Awaited(o) == {i \in DOMAIN queue : queue[i].op = o /\ ~queue[i].gone}
Written(o) == {i \in DOMAIN writes : writes[i].op = o}
(* An operation waits for exactly one thing, which is there: a request of its own
   that is not gone, or a write of its own. *)
TypeOK ==
    /\ {session, store} \ {None} \subseteq SessionType
    /\ \A o \in Ops :
          /\ Cardinality(Awaited(o)) = IF ops[o].at = "waiting" THEN 1 ELSE 0
          /\ Cardinality(Written(o)) = IF ops[o].at = "saving" THEN 1 ELSE 0
    /\ sent => queue # <<>>
    /\ store # None /\ store.phase = "authenticated" => store.token # "none"

(* "Queueing also consumes the deadline. A cancelled queued request never sends"
   (cloud.ts:198): what is sent, somebody waits for, and the client is open. *)
SentForCaller ==
    [][~sent /\ sent' => ~closed /\ ~Head(queue).gone /\ ops[Head(queue).op].at = "waiting"]_vars

(* As long as one login's verification step is open, the user is mailed one code,
   across refused answers, failed writes, crashes and further connect() calls. *)
NoSecondCode == [][~sent /\ sent' /\ Mails(Head(queue)) => ~code]_vars

(* The phase of the session that an answer of connect() tells of. *)
PhaseOf == [locked |-> "locked", verification_required |-> "verification",
            captcha_required |-> "captcha", connected |-> "authenticated"]
(* While no write has failed, what connect() has told its caller is what the store
   holds, so that a restart finds the same lock, the same open step or the same
   session, whatever other operations were saving at the time. *)
AnswerIsStored ==
    spent.failures = 0 /\ answered \in DOMAIN PhaseOf
        => store # None /\ store.phase = PhaseOf[answered]

(* The state of the session, the queue and the store between any two steps. *)
CloudOK == TypeOK /\ AnswerIsStored

(* Every connect() and call() ends, also when the cloud never answers, writes fail
   and the slot is held by a request that nobody waits for. *)
CallsEnd == \A o \in Ops : ops[o].at # "idle" ~> ops[o].at = "idle"
================================================================================
