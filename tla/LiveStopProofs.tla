--------------------------- MODULE LiveStopProofs ---------------------------
(***************************************************************************)
(* LiveStop implements LiveHandle, for any bounds on attempts and commands.*)
(* Most actions touch only messages and timers.  What they can do to the   *)
(* owner of an attempt is one of the seven steps of OwnerStep; the rest of *)
(* that proof is about those.                                              *)
(*                                                                         *)
(* Acknowledgements are counted as credit, and each phase of an attempt    *)
(* has the stream or the STOP that it rests on.                            *)
(***************************************************************************)
EXTENDS LiveStop, FiniteSetTheorems, TLAPS

Begins ==
    /\ pc = "free" /\ attempt < MaxAttempts
    /\ attempt' = attempt + 1
    /\ pc' \in {"wait", "confirm"}
    /\ outcome' = outcome
Moves(from, to) ==
    /\ pc = from /\ pc' = to
    /\ attempt' = attempt /\ outcome' = outcome
Reports(r) ==
    /\ attempt' = attempt
    /\ Reported(r)
    /\ \/ pc = "live" /\ pc' = "free"
       \/ pc = "confirm" /\ r = "confirmed" /\ pc' = "free"
       \/ pc = "confirm" /\ r = "unconfirmed" /\ pc' = "close"
Stays == attempt' = attempt /\ pc' = pc /\ outcome' = outcome

OwnerStep ==
    \/ Begins
    \/ Moves("wait", "live") \/ Moves("wait", "confirm") \/ Moves("close", "free")
    \/ Reports("confirmed") \/ Reports("unconfirmed")
    \/ Stays

(* The owner of an attempt that is not over has nothing reported yet, and  *)
(* neither have the attempts to come.                                      *)
Unreported ==
    /\ attempt \in {0} \cup Attempt
    /\ pc \in Pc
    /\ outcome \in [Attempt -> {"none", "confirmed", "unconfirmed"}]
    /\ pc # "free" => attempt \in Attempt
    /\ pc \in {"wait", "live", "confirm"} => outcome[attempt] = "none"
    /\ \A n \in Attempt : n > attempt => outcome[n] = "none"

-----------------------------------------------------------------------------
(* Handlers of the session's events.                                       *)

LEMMA EndStreamOwner == EndStream => OwnerStep
BY DEF EndStream, LocalStop, Finish, OwnerStep, Reports, Stays, owner

LEMMA StopResultOwner ==
    ASSUME NEW w
    PROVE (StopConfirmed \/ StopFailed(w)) => OwnerStep
BY DEF StopConfirmed, StopFailed, Finish, CleanupFails, OwnerStep, Reports, Stays, owner

LEMMA WireOwner ==
    ASSUME NEW i \in DOMAIN wire,
           SendEffect(i) \/ Ack(i) \/ Result(i) \/ NoResult(i) \/ Execute(i)
    PROVE OwnerStep
<1>1. CASE SendEffect(i)
  BY <1>1, EndStreamOwner DEF SendEffect, OwnerStep, Stays, owner
<1>2. CASE Ack(i)
  BY <1>2 DEF Ack, OwnerStep, Stays, owner
<1>3. CASE Result(i)
  BY <1>3, StopResultOwner DEF Result, OwnerStep, Stays, owner
<1>4. CASE NoResult(i)
  BY <1>4, StopResultOwner, EndStreamOwner DEF NoResult, OwnerStep, Stays, owner
<1>5. CASE Execute(i)
  BY <1>5 DEF Execute, OwnerStep, Stays, owner
<1> QED
  BY <1>1, <1>2, <1>3, <1>4, <1>5

(* Every step of the specification is one of the owner's seven.            *)
LEMMA NextOwner == [Next]_vars => OwnerStep
<1> SUFFICES ASSUME [Next]_vars PROVE OwnerStep
  OBVIOUS
<1>1. CASE StartLive
  BY <1>1 DEF StartLive, OwnerStep, Begins
<1>2. CASE StartFails
  BY <1>2 DEF StartFails, OwnerStep, Moves
<1>3. CASE ConfirmTimeout
  BY <1>3 DEF ConfirmTimeout, CleanupFails, OwnerStep, Reports
<1>4. CASE Released
  BY <1>4 DEF Released, OwnerStep, Moves
<1>5. CASE StopLive
  BY <1>5 DEF StopLive, OwnerStep, Stays
<1>6. CASE StopTimeout
  BY <1>6 DEF StopTimeout, Finish, OwnerStep, Reports
<1>7. CASE Ask
  BY <1>7 DEF Ask, OwnerStep, Stays, owner
<1>8. CASE OnWire
  BY <1>8, WireOwner DEF OnWire
<1>9. CASE Data
  BY <1>9 DEF Data, OwnerStep, Moves, Stays
<1>10. CASE Invalid
  BY <1>10 DEF Invalid, Finish, OwnerStep, Reports, Stays, owner
<1>11. CASE Stall
  BY <1>11, EndStreamOwner DEF Stall
<1>12. CASE Lost \/ EndSent
  BY <1>12 DEF Lost, EndSent, Disconnect, Finish, CleanupFails, OwnerStep, Moves, Reports,
               Stays, owner
<1>13. CASE LinkUp
  BY <1>13 DEF LinkUp, OwnerStep, Stays, owner
<1>14. CASE UNCHANGED vars
  BY <1>14 DEF vars, OwnerStep, Stays, owner
<1> QED
  BY <1>1, <1>2, <1>3, <1>4, <1>5, <1>6, <1>7, <1>8, <1>9, <1>10, <1>11, <1>12, <1>13, <1>14
     DEF Next

-----------------------------------------------------------------------------
LEMMA InitUnreported == Init => Unreported
BY AttemptsAssumption DEF Init, Unreported, Attempt, Pc

LEMMA StepUnreported == Unreported /\ OwnerStep => Unreported'
<1> SUFFICES ASSUME Unreported, OwnerStep PROVE Unreported'
  OBVIOUS
<1> USE AttemptsAssumption DEF Unreported, Attempt, Pc
<1>1. CASE Begins
  BY <1>1 DEF Begins
<1>2. CASE Moves("wait", "live") \/ Moves("wait", "confirm") \/ Moves("close", "free")
  BY <1>2 DEF Moves
<1>3. ASSUME NEW r \in {"confirmed", "unconfirmed"}, Reports(r) PROVE Unreported'
  BY <1>3 DEF Reports, Reported
<1>4. CASE Stays
  BY <1>4 DEF Stays
<1> QED
  BY <1>1, <1>2, <1>3, <1>4 DEF OwnerStep

(* No owner of an attempt ever loses track of its report.                  *)
THEOREM UnreportedHolds == Spec => []Unreported
<1>1. Unreported /\ [Next]_vars => Unreported'
  BY NextOwner, StepUnreported
<1> QED
  BY InitUnreported, <1>1, PTL DEF Spec

-----------------------------------------------------------------------------
LEMMA InitPromise == Init => Promise!Init
BY DEF Init, Promise!Init, Stage, Attempt

LEMMA StepPromise == Unreported /\ OwnerStep => [Promise!Next]_Promise!vars
<1> SUFFICES ASSUME Unreported, OwnerStep
             PROVE [Promise!Next]_Promise!vars
  OBVIOUS
<1> USE DEF Stage
<1>1. CASE Begins
  BY <1>1 DEF Begins, Promise!Next, Promise!Begin
<1>2. CASE Moves("wait", "live")
  BY <1>2 DEF Moves, Promise!Next, Promise!Open
<1>3. CASE Moves("wait", "confirm")
  BY <1>3 DEF Moves, Promise!Next, Promise!Fail
<1>4. CASE Moves("close", "free")
  BY <1>4 DEF Moves, Promise!Next, Promise!Release
<1>5. ASSUME NEW r \in {"confirmed", "unconfirmed"}, Reports(r) PROVE Promise!Next
  <2>1. Promise!Report(r)
    BY <1>5 DEF Reports, Reported, Promise!Report, Unreported
  <2> QED
    BY <2>1 DEF Promise!Next, Promise!Result
<1>6. CASE Stays
  BY <1>6 DEF Stays, Promise!vars
<1> QED
  BY <1>1, <1>2, <1>3, <1>4, <1>5, <1>6 DEF OwnerStep

(* The transport implements LiveHandle: one attempt at a time owns the     *)
(* camera, and each is reported exactly once before the next begins.       *)
THEOREM HandleRefined == Spec => Handle
<1>1. Unreported /\ [Next]_vars => [Promise!Next]_Promise!vars
  BY NextOwner, StepPromise
<1> QED
  BY InitPromise, UnreportedHolds, <1>1, PTL DEF Spec, Handle, Promise!Spec

-----------------------------------------------------------------------------
(* Acknowledgements as credit.  A live stream holds one from the result    *)
(* that acknowledged it until it is reported.                              *)
Held == pc = "live" /\ live.acknowledged

Keeps ==
    /\ acks' = acks
    /\ outcome' = outcome \/ Reported("unconfirmed")
    /\ Held' => Held
Banks == acks' = acks + 1 /\ outcome' = outcome
Spends == acks' = acks + 1 /\ Reported("confirmed") /\ ~Held'
Draws == acks' = acks /\ Held /\ Reported("confirmed") /\ ~Held'

CreditStep == Keeps \/ Banks \/ Spends \/ Draws

LiveTyped ==
    /\ live \in [acknowledged : BOOLEAN, stopped : BOOLEAN, stop : BOOLEAN]
    /\ pc # "live" => live = NoLive

Credit ==
    /\ acks \in Nat
    /\ outcome \in [Attempt -> {"none", "confirmed", "unconfirmed"}]
    /\ Cardinality(Confirmed) + (IF Held THEN 1 ELSE 0) <= acks

(* The three ways a handler changes the owner of an attempt.               *)
LEMMA SameOwnerCredit ==
    LiveTyped /\ UNCHANGED owner => LiveTyped' /\ (Held' <=> Held) /\ outcome' = outcome
BY DEF LiveTyped, Held, owner

LEMMA FinishCredit ==
    ASSUME NEW r
    PROVE Finish(r) => LiveTyped' /\ ~Held' /\ Reported(r)
<1> SUFFICES ASSUME Finish(r) PROVE LiveTyped' /\ ~Held' /\ Reported(r)
  OBVIOUS
<1>1. pc' = "free" /\ live' = NoLive /\ Reported(r)
  BY DEF Finish
<1>2. LiveTyped'
  BY <1>1 DEF LiveTyped, NoLive
<1> QED
  BY <1>1, <1>2 DEF Held

LEMMA CleanupFailsCredit ==
    LiveTyped /\ pc # "live" /\ CleanupFails
        => LiveTyped' /\ ~Held' /\ Reported("unconfirmed")
BY DEF CleanupFails, LiveTyped, Held

LEMMA EndStreamCredit ==
    ASSUME LiveTyped, EndStream, acks' = acks
    PROVE CreditStep /\ LiveTyped'
<1>1. CASE UNCHANGED owner
  BY <1>1, SameOwnerCredit DEF CreditStep, Keeps
<1>2. CASE pc = "live" /\ live.acknowledged /\ Finish("confirmed")
  BY <1>2, FinishCredit DEF CreditStep, Draws, Held
<1>3. CASE /\ pc = "live" /\ ~live.acknowledged
           /\ live' = [live EXCEPT !.stopped = TRUE]
           /\ UNCHANGED <<attempt, pc, outcome>>
  <2>1. live'.acknowledged = live.acknowledged /\ LiveTyped'
    BY <1>3 DEF LiveTyped
  <2>2. ~Held'
    BY <1>3, <2>1 DEF Held
  <2> QED
    BY <1>3, <2>1, <2>2 DEF CreditStep, Keeps
<1> QED
  BY <1>1, <1>2, <1>3 DEF EndStream, LocalStop

LEMMA StopConfirmedCredit ==
    ASSUME LiveTyped, StopConfirmed, acks' = acks + 1
    PROVE CreditStep /\ LiveTyped'
<1>1. CASE UNCHANGED owner
  BY <1>1, SameOwnerCredit DEF CreditStep, Banks
<1>2. CASE Finish("confirmed")
  BY <1>2, FinishCredit DEF CreditStep, Spends
<1>3. CASE /\ pc = "live"
           /\ live' = [live EXCEPT !.acknowledged = TRUE]
           /\ UNCHANGED <<attempt, pc, outcome>>
  BY <1>3 DEF LiveTyped, CreditStep, Banks
<1> QED
  BY <1>1, <1>2, <1>3 DEF StopConfirmed

LEMMA StopFailedCredit ==
    ASSUME NEW w, LiveTyped, StopFailed(w), acks' = acks
    PROVE CreditStep /\ LiveTyped'
<1>1. CASE UNCHANGED owner
  BY <1>1, SameOwnerCredit DEF CreditStep, Keeps
<1>2. CASE Finish("unconfirmed")
  BY <1>2, FinishCredit DEF CreditStep, Keeps
<1>3. CASE pc = "confirm" /\ CleanupFails
  BY <1>3, CleanupFailsCredit DEF CreditStep, Keeps
<1> QED
  BY <1>1, <1>2, <1>3 DEF StopFailed

LEMMA WireCredit ==
    ASSUME LiveTyped, NEW i \in DOMAIN wire,
           SendEffect(i) \/ Ack(i) \/ Result(i) \/ NoResult(i) \/ Execute(i)
    PROVE CreditStep /\ LiveTyped'
<1>1. CASE acks' = acks /\ UNCHANGED owner
  BY <1>1, SameOwnerCredit DEF CreditStep, Keeps
<1>2. CASE acks' = acks /\ EndStream
  BY <1>2, EndStreamCredit
<1>3. CASE acks' = acks /\ StopFailed(Without(i))
  BY <1>3, StopFailedCredit
<1>4. CASE acks' = acks + 1 /\ StopConfirmed
  BY <1>4, StopConfirmedCredit
<1> QED
  BY <1>1, <1>2, <1>3, <1>4 DEF SendEffect, Ack, Result, NoResult, Execute

LEMMA NextCredit ==
    ASSUME LiveTyped, [Next]_vars
    PROVE CreditStep /\ LiveTyped'
<1>1. CASE acks' = acks /\ UNCHANGED owner
  BY <1>1, SameOwnerCredit DEF CreditStep, Keeps
<1>2. ASSUME acks' = acks, outcome' = outcome, live' = live, pc # "live",
             pc' # "live" \/ live = NoLive
      PROVE CreditStep /\ LiveTyped'
  <2>1. LiveTyped'
    BY <1>2 DEF LiveTyped, Pc
  <2>2. ~Held'
    BY <1>2 DEF Held, NoLive, LiveTyped
  <2> QED
    BY <1>2, <2>1, <2>2 DEF CreditStep, Keeps
<1>3. CASE acks' = acks /\ Finish("unconfirmed")
  BY <1>3, FinishCredit DEF CreditStep, Keeps
<1>4. CASE StartLive
  BY <1>2, <1>4 DEF StartLive
<1>5. CASE StartFails
  BY <1>2, <1>5 DEF StartFails
<1>6. CASE ConfirmTimeout
  BY <1>6, CleanupFailsCredit DEF ConfirmTimeout, CreditStep, Keeps
<1>7. CASE Released
  BY <1>2, <1>7 DEF Released
<1>8. CASE StopLive
  <2>1. live'.acknowledged = live.acknowledged /\ LiveTyped'
    BY <1>8 DEF StopLive, LiveTyped
  <2>2. Held' => Held
    BY <1>8, <2>1 DEF StopLive, Held
  <2> QED
    BY <1>8, <2>1, <2>2 DEF StopLive, CreditStep, Keeps
<1>9. CASE StopTimeout
  BY <1>3, <1>9 DEF StopTimeout
<1>10. CASE OnWire
  BY <1>10, WireCredit DEF OnWire
<1>11. CASE Data
  <2>1. CASE pc = "wait"
    BY <1>2, <1>11, <2>1 DEF Data, LiveTyped
  <2>2. CASE pc # "wait"
    BY <1>1, <1>11, <2>2 DEF Data, owner
  <2> QED
    BY <2>1, <2>2
<1>12. CASE Invalid
  BY <1>1, <1>3, <1>12 DEF Invalid
<1>13. CASE Stall
  BY <1>13, EndStreamCredit DEF Stall
<1>14. CASE Lost \/ EndSent
  <2>1. Disconnect /\ acks' = acks
    BY <1>14 DEF Lost, EndSent, Disconnect
  <2>2. CASE pc = "live"
    <3>1. CASE live.acknowledged /\ Finish("confirmed")
      BY <2>1, <2>2, <3>1, FinishCredit DEF CreditStep, Draws, Held
    <3>2. CASE Finish("unconfirmed")
      BY <1>3, <2>1, <3>2
    <3> QED
      BY <2>1, <2>2, <3>1, <3>2 DEF Disconnect
  <2>3. CASE pc = "wait"
    BY <1>2, <2>1, <2>3 DEF Disconnect
  <2>4. CASE pc = "confirm"
    BY <2>1, <2>4, CleanupFailsCredit DEF Disconnect, CreditStep, Keeps
  <2>5. CASE pc \notin {"live", "wait", "confirm"}
    BY <1>1, <2>1, <2>5 DEF Disconnect
  <2> QED
    BY <2>2, <2>3, <2>4, <2>5
<1>15. CASE Ask \/ LinkUp \/ UNCHANGED vars
  BY <1>1, <1>15 DEF Ask, LinkUp, vars
<1> QED
  BY <1>4, <1>5, <1>6, <1>7, <1>8, <1>9, <1>10, <1>11, <1>12, <1>13, <1>14, <1>15 DEF Next

(* A report adds at most its attempt to the confirmed ones, and an         *)
(* unconfirmed one adds nothing.                                           *)
LEMMA ConfirmedGrows ==
    ASSUME outcome \in [Attempt -> {"none", "confirmed", "unconfirmed"}],
           NEW r \in {"confirmed", "unconfirmed"}, Reported(r)
    PROVE /\ Cardinality(Confirmed) \in Nat
          /\ Cardinality(Confirmed') \in Nat
          /\ Cardinality(Confirmed') <= Cardinality(Confirmed) + 1
          /\ r = "unconfirmed" => Cardinality(Confirmed') <= Cardinality(Confirmed)
<1>1. IsFiniteSet(Attempt)
  BY AttemptsAssumption, FS_Interval DEF Attempt
<1>2. IsFiniteSet(Confirmed) /\ Cardinality(Confirmed) \in Nat
  BY <1>1, FS_Subset, FS_CardinalityType DEF Confirmed
<1>3. /\ IsFiniteSet(Confirmed \cup {attempt})
      /\ Cardinality(Confirmed \cup {attempt}) \in Nat
      /\ Cardinality(Confirmed \cup {attempt}) <= Cardinality(Confirmed) + 1
  BY <1>2, FS_AddElement, FS_CardinalityType
<1>4. Confirmed' \subseteq Confirmed \cup {attempt}
  BY DEF Confirmed, Reported
<1>5. r = "unconfirmed" => Confirmed' \subseteq Confirmed
  BY DEF Confirmed, Reported
<1>6. /\ Cardinality(Confirmed') \in Nat
      /\ Cardinality(Confirmed') <= Cardinality(Confirmed \cup {attempt})
  BY <1>3, <1>4, FS_Subset, FS_CardinalityType
<1>7. r = "unconfirmed" => Cardinality(Confirmed') <= Cardinality(Confirmed)
  BY <1>2, <1>5, FS_Subset
<1> QED
  BY <1>2, <1>3, <1>6, <1>7

LEMMA InitCredit == Init => Credit /\ LiveTyped
<1> SUFFICES ASSUME Init PROVE Credit /\ LiveTyped
  OBVIOUS
<1>1. Confirmed = {}
  BY DEF Init, Confirmed
<1> QED
  BY <1>1, FS_EmptySet DEF Init, Credit, LiveTyped, Held, NoLive

LEMMA StepCredit == Credit /\ CreditStep => Credit'
<1> SUFFICES ASSUME Credit, CreditStep PROVE Credit'
  OBVIOUS
<1>0. Cardinality(Confirmed) \in Nat
  <2>1. IsFiniteSet(Attempt)
    BY AttemptsAssumption, FS_Interval DEF Attempt
  <2> QED
    BY <2>1, FS_Subset, FS_CardinalityType DEF Confirmed
<1>1. CASE outcome' = outcome
  <2>1. Confirmed' = Confirmed
    BY <1>1 DEF Confirmed
  <2> QED
    BY <1>0, <1>1, <2>1 DEF Credit, CreditStep, Keeps, Banks, Spends, Draws, Reported
<1>2. CASE Reported("unconfirmed") /\ Keeps
  <2>1. outcome' \in [Attempt -> {"none", "confirmed", "unconfirmed"}]
    BY <1>2 DEF Credit, Reported
  <2>2. /\ Cardinality(Confirmed') \in Nat
        /\ Cardinality(Confirmed') <= Cardinality(Confirmed)
    BY <1>2, ConfirmedGrows DEF Credit
  <2> QED
    BY <1>0, <1>2, <2>1, <2>2 DEF Credit, Keeps
<1>3. CASE Spends \/ Draws
  <2>1. outcome' \in [Attempt -> {"none", "confirmed", "unconfirmed"}]
    BY <1>3 DEF Credit, Reported, Spends, Draws
  <2>2. /\ Cardinality(Confirmed') \in Nat
        /\ Cardinality(Confirmed') <= Cardinality(Confirmed) + 1
    BY <1>3, ConfirmedGrows DEF Credit, Spends, Draws
  <2> QED
    BY <1>0, <1>3, <2>1, <2>2 DEF Credit, Spends, Draws
<1> QED
  BY <1>1, <1>2, <1>3 DEF CreditStep, Keeps, Banks

(* Every `confirmed: true` uses up a STOP acknowledgement of its own.      *)
THEOREM AcknowledgementsHold == Spec => []AcknowledgementsCover
<1>1. (Credit /\ LiveTyped) /\ [Next]_vars => (Credit /\ LiveTyped)'
  BY NextCredit, StepCredit
<1>2. Credit => AcknowledgementsCover
  <2> SUFFICES ASSUME Credit PROVE AcknowledgementsCover
    OBVIOUS
  <2>1. IsFiniteSet(Attempt)
    BY AttemptsAssumption, FS_Interval DEF Attempt
  <2>2. Cardinality(Confirmed) \in Nat
    BY <2>1, FS_Subset, FS_CardinalityType DEF Confirmed
  <2> QED
    BY <2>2 DEF Credit, AcknowledgementsCover
<1> QED
  BY InitCredit, <1>1, <1>2, PTL DEF Spec

-----------------------------------------------------------------------------
(* Streams and STOPs.  A command is queued or sent.                        *)
Has(c, q, w) == (\E i \in DOMAIN q : q[i] = c) \/ (\E i \in DOMAIN w : w[i].c = c)

MessagesType == queue \in Seq(Command) /\ wire \in Seq(Message)
StreamType ==
    /\ stream \in [n : {0} \cup Attempt, answered : BOOLEAN, started : BOOLEAN,
                   invalid : BOOLEAN]
    /\ On => stream.n \in Attempt

LEMMA CommandIs ==
    /\ Query \in Command /\ \A n \in Attempt : Start(n) \in Command /\ Stop(n) \in Command
    /\ \A c \in Command : c.cmd = "start" => c.n \in Attempt
<1>1. Query \in Command /\ \A n \in Attempt : Start(n) \in Command /\ Stop(n) \in Command
  BY DEF Command
<1>2. ASSUME NEW c \in Command, c.cmd = "start" PROVE c.n \in Attempt
  <2>1. Query.cmd = "query" /\ \A n \in Attempt : Stop(n).cmd = "stop" /\ Start(n).n = n
    BY DEF Query, Stop, Start
  <2>2. \/ \E n \in Attempt : c = Start(n)
        \/ \E n \in Attempt : c = Stop(n)
        \/ c = Query
    BY DEF Command
  <2> QED
    BY <1>2, <2>1, <2>2
<1> QED
  BY <1>1, <1>2

LEMMA AppendOf ==
    ASSUME NEW S, NEW s \in Seq(S), NEW x \in S
    PROVE /\ Append(s, x) \in Seq(S)
          /\ \A i \in DOMAIN s : i \in DOMAIN Append(s, x) /\ Append(s, x)[i] = s[i]
          /\ \E i \in DOMAIN Append(s, x) : Append(s, x)[i] = x
<1>1. Append(s, x) \in Seq(S) /\ \A i \in DOMAIN s : i \in DOMAIN Append(s, x) /\ Append(s, x)[i] = s[i]
  OBVIOUS
<1>2. Len(s) + 1 \in DOMAIN Append(s, x) /\ Append(s, x)[Len(s) + 1] = x
  OBVIOUS
<1> QED
  BY <1>1, <1>2

LEMMA ConcatOf ==
    ASSUME NEW S, NEW a \in Seq(S), NEW b \in Seq(S)
    PROVE /\ a \o b \in Seq(S)
          /\ \A i \in DOMAIN a : i \in DOMAIN (a \o b) /\ (a \o b)[i] = a[i]
          /\ \A i \in DOMAIN b : Len(a) + i \in DOMAIN (a \o b) /\ (a \o b)[Len(a) + i] = b[i]
OBVIOUS

LEMMA SubSeqOf ==
    ASSUME NEW S, NEW s \in Seq(S), NEW m \in 1 .. Len(s) + 1, NEW n \in m - 1 .. Len(s)
    PROVE /\ SubSeq(s, m, n) \in Seq(S) /\ Len(SubSeq(s, m, n)) = n - m + 1
          /\ \A j \in m .. n : /\ j - m + 1 \in DOMAIN SubSeq(s, m, n)
                              /\ SubSeq(s, m, n)[j - m + 1] = s[j]
<1>1. m \in Nat /\ m >= 1 /\ n \in Nat /\ n >= m - 1 /\ n <= Len(s) /\ Len(s) \in Nat
  OBVIOUS
<1>2. SubSeq(s, m, n) \in Seq(S)
  BY <1>1
<1>3. Len(SubSeq(s, m, n)) = n - m + 1
  BY <1>1
<1>4. ASSUME NEW j \in m .. n
      PROVE j - m + 1 \in DOMAIN SubSeq(s, m, n) /\ SubSeq(s, m, n)[j - m + 1] = s[j]
  BY <1>1
<1> QED
  BY <1>2, <1>3, <1>4

LEMMA TailOf ==
    ASSUME NEW S, NEW s \in Seq(S), s # <<>>
    PROVE /\ Tail(s) \in Seq(S) /\ Head(s) \in S
          /\ \A i \in DOMAIN s : s[i] = Head(s) \/ \E j \in DOMAIN Tail(s) : Tail(s)[j] = s[i]
<1>1. Tail(s) \in Seq(S) /\ Head(s) \in S
  OBVIOUS
<1>2. ASSUME NEW i \in DOMAIN s, s[i] # Head(s)
      PROVE i - 1 \in DOMAIN Tail(s) /\ Tail(s)[i - 1] = s[i]
  BY <1>2
<1> QED
  BY <1>1, <1>2

(* What is appended to a queue is in it, and a message that leaves takes   *)
(* nothing else with it.                                                   *)
LEMMA AppendHas ==
    ASSUME NEW q \in Seq(Command), NEW w, NEW c \in Command
    PROVE /\ Append(q, c) \in Seq(Command) /\ Has(c, Append(q, c), w)
          /\ \A x : Has(x, q, w) => Has(x, Append(q, c), w)
BY AppendOf DEF Has

LEMMA WithoutIs ==
    ASSUME NEW i \in DOMAIN wire, wire \in Seq(Message)
    PROVE /\ Without(i) \in Seq(Message)
          /\ \A c, q : Has(c, q, wire) /\ wire[i].c # c => Has(c, q, Without(i))
<1> DEFINE before == SubSeq(wire, 1, i - 1)
           after == SubSeq(wire, i + 1, Len(wire))
           w == Without(i)
<1>1. w = before \o after
  BY DEF Without, RemoveAt
<1>2. i \in Nat /\ i >= 1 /\ i <= Len(wire) /\ Len(wire) \in Nat /\ DOMAIN wire = 1 .. Len(wire)
  OBVIOUS
<1>3. /\ before \in Seq(Message) /\ Len(before) = i - 1
      /\ \A j \in 1 .. i - 1 : j \in DOMAIN before /\ before[j] = wire[j]
  <2>1. 1 \in 1 .. Len(wire) + 1 /\ i - 1 \in 1 - 1 .. Len(wire)
    BY <1>2
  <2>2. \A j \in 1 .. i - 1 : j - 1 + 1 = j
    BY <1>2
  <2> QED
    BY <1>2, <2>1, <2>2, SubSeqOf
<1>4. /\ after \in Seq(Message)
      /\ \A j \in i + 1 .. Len(wire) : j - i \in DOMAIN after /\ after[j - i] = wire[j]
  <2>1. i + 1 \in 1 .. Len(wire) + 1 /\ Len(wire) \in i + 1 - 1 .. Len(wire)
    BY <1>2
  <2>2. \A j \in i + 1 .. Len(wire) : j - (i + 1) + 1 = j - i
    BY <1>2
  <2>3. /\ after \in Seq(Message)
        /\ \A j \in i + 1 .. Len(wire) : /\ j - (i + 1) + 1 \in DOMAIN after
                                         /\ after[j - (i + 1) + 1] = wire[j]
    BY SMTT(60), <2>1, SubSeqOf
  <2> HIDE DEF after
  <2> QED
    BY <2>2, <2>3
<1> HIDE DEF before, after, w
<1>5. w \in Seq(Message)
  BY <1>1, <1>3, <1>4, ConcatOf
<1>6. ASSUME NEW j \in DOMAIN wire, j # i
      PROVE \E k \in DOMAIN w : w[k] = wire[j]
  <2>1. CASE j < i
    <3>1. j \in DOMAIN before /\ before[j] = wire[j]
      BY <1>2, <1>3, <2>1
    <3>2. j \in DOMAIN w /\ w[j] = wire[j]
      BY <1>1, <1>3, <1>4, <3>1, ConcatOf
    <3> QED
      BY <3>2
  <2>2. CASE j > i
    <3>1. j - i \in DOMAIN after /\ after[j - i] = wire[j]
      BY <1>2, <1>4, <2>2
    <3>2. Len(before) + (j - i) \in DOMAIN w /\ w[Len(before) + (j - i)] = wire[j]
      BY SMTT(60), <1>1, <1>3, <1>4, <3>1, ConcatOf
    <3> QED
      BY <3>2
  <2> QED
    BY <1>2, <1>6, <2>1, <2>2
<1>7. ASSUME NEW c, NEW q, Has(c, q, wire), wire[i].c # c
      PROVE Has(c, q, w)
  BY <1>6, <1>7 DEF Has
<1> QED
  BY <1>5, <1>7 DEF w

LEMMA PumpIs ==
    ASSUME NEW q \in Seq(Command), NEW w \in Seq(Message), NEW l, Pump(q, w, l)
    PROVE MessagesType' /\ \A c : Has(c, q, w) => Has(c, queue', wire')
<1>1. CASE queue' = q /\ wire' = w
  BY <1>1 DEF MessagesType
<1>2. CASE q # <<>> /\ queue' = Tail(q) /\ wire' = Append(w, Sent(Head(q)))
  <2>1. Sent(Head(q)) \in Message /\ Sent(Head(q)).c = Head(q)
    BY <1>2, TailOf DEF Sent, Message
  <2>2. MessagesType'
    BY <1>2, <2>1, TailOf, AppendOf DEF MessagesType
  <2>3. ASSUME NEW c, Has(c, q, w) PROVE Has(c, queue', wire')
    <3>1. CASE \E i \in DOMAIN q : q[i] = c
      <4>1. c = Head(q) \/ \E j \in DOMAIN queue' : queue'[j] = c
        BY <1>2, <3>1, TailOf
      <4>2. c = Head(q) => \E i \in DOMAIN wire' : wire'[i].c = c
        BY <1>2, <2>1, AppendOf
      <4> QED
        BY <4>1, <4>2 DEF Has
    <3>2. CASE \E i \in DOMAIN w : w[i].c = c
      BY <1>2, <2>1, <3>2, AppendOf DEF Has
    <3> QED
      BY <2>3, <3>1, <3>2 DEF Has
  <2> QED
    BY <2>2, <2>3
<1> QED
  BY <1>1, <1>2 DEF Pump

LEMMA PushIs ==
    ASSUME MessagesType, NEW c \in Command, Push(c)
    PROVE /\ MessagesType' /\ Has(c, queue', wire')
          /\ \A x : Has(x, queue, wire) => Has(x, queue', wire')
BY PumpIs, AppendHas DEF Push, MessagesType

(* What holds of an attempt that goes on in the same phase, or leaves it.  *)
SameCleanup == pc' = "confirm" => pc = "confirm" /\ attempt' = attempt

LEMMA KeepsCleanup ==
    ASSUME CleanupHasStop, SameCleanup, \A c : Has(c, queue, wire) => Has(c, queue', wire')
    PROVE CleanupHasStop'
<1> SUFFICES ASSUME pc' = "confirm" PROVE Has(Stop(attempt), queue', wire')
  BY DEF CleanupHasStop, Has, SameCleanup, Stop
<1>1. Has(Stop(attempt), queue, wire)
  BY DEF CleanupHasStop, Has, SameCleanup
<1> QED
  BY <1>1

LEMMA LeavesCleanup == pc' # "confirm" => CleanupHasStop'
BY DEF CleanupHasStop

LEMMA EndStreamCleanup == EndStream => SameCleanup
BY DEF EndStream, LocalStop, Finish, SameCleanup, owner

(* A message that is sent, acknowledged or executed stays the same command. *)
LEMMA MarkedIs ==
    ASSUME NEW i \in DOMAIN wire, MessagesType, NEW m \in Message, m.c = wire[i].c,
           NEW w, w = [wire EXCEPT ![i] = m]
    PROVE w \in Seq(Message) /\ \A c, q : Has(c, q, wire) => Has(c, q, w)
<1>1. wire \in Seq(Message)
  BY DEF MessagesType
<1>2. w \in Seq(Message) /\ DOMAIN w = DOMAIN wire
  BY <1>1
<1>3. \A j \in DOMAIN wire : w[j].c = wire[j].c
  BY <1>1
<1> QED
  BY <1>2, <1>3 DEF Has

LEMMA WireMessages ==
    ASSUME NEW i \in DOMAIN wire, MessagesType, Unreported, CleanupHasStop,
           SendEffect(i) \/ Ack(i) \/ Result(i) \/ NoResult(i) \/ Execute(i)
    PROVE MessagesType' /\ CleanupHasStop'
<1>1. queue \in Seq(Command) /\ wire \in Seq(Message) /\ wire[i] \in Message
  BY DEF MessagesType
<1>2. CASE SendEffect(i)
  <2> DEFINE m == [wire[i] EXCEPT !.effect = TRUE]
  <2>1. m \in Message /\ m.c = wire[i].c
    BY <1>1 DEF Message
  <2>2. wire' = [wire EXCEPT ![i] = m] /\ queue' = queue
    BY <1>2 DEF SendEffect
  <2>3. SameCleanup
    BY <1>2, EndStreamCleanup DEF SendEffect, SameCleanup, owner
  <2> HIDE DEF m
  <2> QED
    BY <1>1, <2>1, <2>2, <2>3, MarkedIs, KeepsCleanup DEF MessagesType
<1>3. CASE Ack(i)
  <2> DEFINE m == [wire[i] EXCEPT !.ack = TRUE]
             w == [wire EXCEPT ![i].ack = TRUE]
  <2>1. m \in Message /\ m.c = wire[i].c
    BY <1>1 DEF Message
  <2>2. w = [wire EXCEPT ![i] = m]
    OBVIOUS
  <2>3. Pump(queue, w, link) /\ SameCleanup
    BY <1>3 DEF Ack, SameCleanup, owner
  <2> HIDE DEF m, w
  <2>4. w \in Seq(Message) /\ \A c : Has(c, queue, wire) => Has(c, queue, w)
    BY <2>1, <2>2, MarkedIs
  <2> QED
    BY <1>1, <2>3, <2>4, PumpIs, KeepsCleanup
<1>4. CASE Execute(i)
  <2>1. PICK answer \in {"ok", "refused"} : wire' = [wire EXCEPT ![i].dev = answer]
    BY <1>4 DEF Execute
  <2> DEFINE m == [wire[i] EXCEPT !.dev = answer]
  <2>2. m \in Message /\ m.c = wire[i].c
    BY <1>1 DEF Message
  <2>3. wire' = [wire EXCEPT ![i] = m] /\ queue' = queue /\ SameCleanup
    BY <1>4, <2>1 DEF Execute, SameCleanup, owner
  <2> HIDE DEF m
  <2> QED
    BY <1>1, <2>2, <2>3, MarkedIs, KeepsCleanup DEF MessagesType
<1>5. Without(i) \in Seq(Message)
      /\ \A c, q : Has(c, q, wire) /\ wire[i].c # c => Has(c, q, Without(i))
  BY <1>1, WithoutIs
<1>6. ASSUME Shut, wire' = Without(i), pc' # "confirm" PROVE MessagesType' /\ CleanupHasStop'
  <2>1. queue' = <<>> /\ <<>> \in Seq(Command)
    BY <1>6 DEF Shut
  <2> QED
    BY <1>5, <1>6, <2>1, LeavesCleanup DEF MessagesType
<1>7. ASSUME Pump(queue, Without(i), link), pc' # "confirm"
      PROVE MessagesType' /\ CleanupHasStop'
  BY <1>1, <1>5, <1>7, PumpIs, LeavesCleanup
<1>8. ASSUME Pump(queue, Without(i), link), SameCleanup, wire[i].c.cmd # "stop"
      PROVE MessagesType' /\ CleanupHasStop'
  <2>1. MessagesType' /\ \A c : Has(c, queue, Without(i)) => Has(c, queue', wire')
    BY <1>1, <1>5, <1>8, PumpIs
  <2>2. wire[i].c # Stop(attempt) /\ Stop(attempt).cmd = "stop"
    BY <1>8 DEF Stop
  <2>3. CASE pc' = "confirm"
    <3>1. Has(Stop(attempt), queue, wire) /\ attempt' = attempt
      BY <1>8, <2>3 DEF CleanupHasStop, Has, SameCleanup
    <3>2. Has(Stop(attempt), queue', wire')
      BY <1>5, <2>1, <2>2, <3>1
    <3> QED
      BY <2>1, <3>1, <3>2 DEF CleanupHasStop, Has, Stop
  <2> QED
    BY <2>1, <2>3, LeavesCleanup
<1>9. CASE Result(i) \/ NoResult(i)
  <2>1. CASE wire[i].c.cmd = "stop" /\ StopConfirmed /\ Pump(queue, Without(i), link)
    <3>1. pc' # "confirm"
      BY <2>1 DEF StopConfirmed, Finish, owner
    <3> QED
      BY <1>7, <2>1, <3>1
  <2>2. CASE wire[i].c.cmd = "stop" /\ StopFailed(Without(i))
    <3>1. pc' # "confirm"
      BY <2>2 DEF StopFailed, Finish, CleanupFails, owner
    <3> QED
      BY <1>6, <1>7, <2>2, <3>1 DEF StopFailed
  <2>3. CASE wire[i].c.cmd # "stop"
    <3>1. Pump(queue, Without(i), link) /\ SameCleanup
      BY <1>9, <2>3, EndStreamCleanup DEF Result, NoResult, SameCleanup, owner
    <3> QED
      BY <1>8, <2>3, <3>1
  <2> QED
    BY <1>9, <2>1, <2>2, <2>3 DEF Result, NoResult
<1> QED
  BY <1>2, <1>3, <1>4, <1>9

LEMMA NextMessages ==
    ASSUME MessagesType, StreamType, Unreported, Unreported', CleanupHasStop, [Next]_vars
    PROVE MessagesType' /\ CleanupHasStop'
<1>1. queue \in Seq(Command) /\ wire \in Seq(Message) /\ <<>> \in Seq(Command) /\ <<>> \in Seq(Message)
  BY DEF MessagesType
<1>2. ASSUME NEW c \in Command, Push(c), SameCleanup PROVE MessagesType' /\ CleanupHasStop'
  BY <1>2, PushIs, KeepsCleanup
<1>3. ASSUME NEW c \in Command, Push(c), c = Stop(attempt') PROVE MessagesType' /\ CleanupHasStop'
  BY <1>3, PushIs DEF CleanupHasStop, Has, Stop
<1>4. ASSUME queue' = <<>>, wire' = wire \/ wire' = <<>>, pc' # "confirm"
      PROVE MessagesType' /\ CleanupHasStop'
  BY <1>1, <1>4, LeavesCleanup DEF MessagesType
<1>5. ASSUME UNCHANGED messages, SameCleanup PROVE MessagesType' /\ CleanupHasStop'
  BY <1>1, <1>5, KeepsCleanup DEF messages, MessagesType
<1>6. CASE StartLive
  <2>1. attempt' \in Attempt
    BY <1>6, AttemptsAssumption DEF StartLive, Unreported, Attempt
  <2>2. Start(attempt') \in Command /\ Stop(attempt') \in Command
    BY <2>1, CommandIs
  <2>3. CASE On
    BY <1>3, <1>6, <2>2, <2>3 DEF StartLive
  <2>4. CASE ~On
    BY <1>2, <1>6, <2>2, <2>4 DEF StartLive, SameCleanup
  <2> QED
    BY <2>3, <2>4
<1>7. CASE StartFails
  <2>1. Stop(attempt) \in Command /\ Stop(attempt) = Stop(attempt')
    BY <1>7, CommandIs DEF StartFails, Unreported, Stop
  <2> QED
    BY <1>3, <1>7, <2>1 DEF StartFails
<1>8. CASE ConfirmTimeout
  BY <1>4, <1>8 DEF ConfirmTimeout, CleanupFails, Shut
<1>9. CASE Released
  BY <1>5, <1>9 DEF Released, SameCleanup
<1>10. CASE StopLive
  <2>1. Stop(attempt) \in Command /\ SameCleanup /\ pc' # "confirm"
    BY <1>10, CommandIs DEF StopLive, Unreported, SameCleanup
  <2> QED
    BY <1>2, <1>4, <1>10, <2>1 DEF StopLive, Shut
<1>11. CASE StopTimeout
  BY <1>4, <1>11 DEF StopTimeout, Finish, Shut
<1>12. CASE Ask
  BY <1>2, <1>12, CommandIs DEF Ask, SameCleanup, owner
<1>13. CASE OnWire
  BY <1>13, WireMessages DEF OnWire
<1>14. CASE Data \/ Invalid
  BY <1>5, <1>14 DEF Data, Invalid, Finish, SameCleanup, owner
<1>15. CASE Stall
  <2>1. Stop(stream.n) \in Command /\ SameCleanup
    BY <1>15, CommandIs, EndStreamCleanup DEF Stall, StreamType
  <2> QED
    BY <1>2, <1>5, <1>15, <2>1 DEF Stall
<1>16. CASE Lost \/ EndSent
  <2>1. Disconnect /\ wire' = <<>>
    BY <1>16 DEF Lost, EndSent, Disconnect
  <2>2. CASE pc = "wait"
    <3>1. queue' = Append(queue, Stop(attempt)) /\ attempt' = attempt /\ Stop(attempt) \in Command
      BY <2>1, <2>2, CommandIs DEF Disconnect, Unreported
    <3>2. MessagesType' /\ Has(Stop(attempt), queue', wire')
      BY <1>1, <2>1, <3>1, AppendHas DEF MessagesType
    <3> QED
      BY <3>1, <3>2 DEF CleanupHasStop, Has, Stop
  <2>3. CASE pc # "wait"
    <3>1. pc' # "confirm" /\ (queue' = queue \/ queue' = <<>>)
      BY <2>1, <2>3 DEF Disconnect, Finish, CleanupFails, owner
    <3> QED
      BY <1>1, <2>1, <3>1, LeavesCleanup DEF MessagesType
  <2> QED
    BY <2>2, <2>3
<1>17. CASE LinkUp
  <2>1. Pump(queue, wire, "up") /\ SameCleanup
    BY <1>17 DEF LinkUp, SameCleanup, owner
  <2> QED
    BY <1>1, <2>1, PumpIs, KeepsCleanup
<1>18. CASE UNCHANGED vars
  BY <1>5, <1>18 DEF vars, SameCleanup, owner
<1> QED
  BY <1>6, <1>7, <1>8, <1>9, <1>10, <1>11, <1>12, <1>13, <1>14, <1>15, <1>16, <1>17, <1>18
     DEF Next

-----------------------------------------------------------------------------
(* What a step does to the stream and to the stream's owner.               *)
StreamOK == StreamType /\ LiveHasStream

LEMMA SameStream ==
    StreamOK /\ stream' = stream /\ (pc' # "live" \/ UNCHANGED owner) => StreamOK'
BY DEF StreamOK, StreamType, LiveHasStream, On, NoStream, owner

LEMMA SameOwnerStream ==
    ASSUME StreamOK, UNCHANGED owner, StreamType',
           stream'.started = stream.started, stream'.invalid = stream.invalid
    PROVE StreamOK'
BY DEF StreamOK, LiveHasStream, owner

LEMMA NoStreamIs == stream' = NoStream => StreamType' /\ ~On'
BY DEF StreamType, On, NoStream

(* Without a stream a live attempt is one whose stream has stopped.        *)
LEMMA EndStreamOK == StreamOK /\ LiveTyped /\ EndStream => StreamOK'
<1> SUFFICES ASSUME StreamOK, LiveTyped, EndStream PROVE StreamOK'
  OBVIOUS
<1>1. StreamType'
  BY NoStreamIs DEF EndStream
<1>2. ASSUME pc' = "live" PROVE live'.stopped
  <2>1. CASE stream.started /\ ~stream.invalid /\ pc = "live" /\ live.acknowledged
    BY <1>2, <2>1 DEF EndStream, LocalStop, Finish
  <2>2. CASE stream.started /\ ~stream.invalid /\ pc = "live" /\ ~live.acknowledged
    BY <2>2 DEF EndStream, LocalStop, LiveTyped
  <2>3. CASE stream.started /\ ~stream.invalid /\ pc # "live"
    BY <1>2, <2>3 DEF EndStream, LocalStop, owner
  <2>4. CASE ~(stream.started /\ ~stream.invalid)
    <3>1. UNCHANGED owner
      BY <2>4 DEF EndStream
    <3> QED
      BY <1>2, <2>4, <3>1 DEF StreamOK, LiveHasStream, owner
  <2> QED
    BY <2>1, <2>2, <2>3, <2>4
<1> QED
  BY <1>1, <1>2 DEF StreamOK, LiveHasStream

LEMMA StopResultOK ==
    ASSUME NEW w, StreamOK, LiveTyped, stream' = stream, StopConfirmed \/ StopFailed(w)
    PROVE StreamOK'
<1>1. CASE UNCHANGED owner
  BY <1>1, SameStream
<1>2. CASE pc' # "live"
  BY <1>2, SameStream
<1>3. CASE pc = "live" /\ ~live.stopped /\ live' = [live EXCEPT !.acknowledged = TRUE]
           /\ UNCHANGED <<attempt, pc, outcome>>
  <2>1. live'.stopped = live.stopped /\ pc' = pc /\ StreamType'
    BY <1>3 DEF LiveTyped, StreamOK, StreamType, On, NoStream
  <2> QED
    BY <2>1 DEF StreamOK, LiveHasStream
<1> QED
  BY <1>1, <1>2, <1>3 DEF StopConfirmed, StopFailed, Finish, CleanupFails

LEMMA WireStream ==
    ASSUME NEW i \in DOMAIN wire, MessagesType, LiveTyped, StreamOK,
           SendEffect(i) \/ Ack(i) \/ Result(i) \/ NoResult(i) \/ Execute(i)
    PROVE StreamOK'
<1>0. wire[i].c \in Command
  <2>1. wire[i] \in Message
    BY DEF MessagesType
  <2> QED
    BY <2>1 DEF Message
<1>1. CASE stream' = stream /\ UNCHANGED owner
  BY <1>1, SameStream
<1>2. CASE EndStream
  BY <1>2, EndStreamOK
<1>3. CASE stream' = stream /\ (StopConfirmed \/ StopFailed(Without(i)))
  BY <1>3, StopResultOK
<1>4. CASE SendEffect(i) /\ wire[i].c.cmd = "start"
  <2>1. CASE On
    <3>1. stream' = [stream EXCEPT !.answered = FALSE] /\ UNCHANGED owner
      BY <1>4, <2>1 DEF SendEffect
    <3>2. /\ StreamType' /\ stream'.started = stream.started
          /\ stream'.invalid = stream.invalid
      BY <2>1, <3>1 DEF StreamOK, StreamType
    <3> QED
      BY <3>1, <3>2, SameOwnerStream
  <2>2. CASE ~On
    <3>1. stream' = [NoStream EXCEPT !.n = wire[i].c.n] /\ UNCHANGED owner
      BY <1>4, <2>2 DEF SendEffect
    <3>2. wire[i].c.n \in Attempt
      BY <1>0, <1>4, CommandIs
    <3>3. StreamType' /\ ~stream'.started /\ ~stream'.invalid
      BY <3>1, <3>2 DEF StreamType, NoStream
    <3>4. ~stream.started /\ ~stream.invalid
      BY <2>2 DEF On, NoStream
    <3> QED
      BY <3>1, <3>3, <3>4 DEF StreamOK, LiveHasStream, owner
  <2> QED
    BY <2>1, <2>2
<1>5. CASE Result(i) /\ wire[i].c.cmd = "start" /\ On
  <2>1. stream' = [stream EXCEPT !.answered = TRUE] /\ UNCHANGED owner
    BY <1>5 DEF Result
  <2>2. StreamType' /\ stream'.started = stream.started /\ stream'.invalid = stream.invalid
    BY <1>5, <2>1 DEF StreamOK, StreamType
  <2> QED
    BY <2>1, <2>2, SameOwnerStream
<1> QED
  BY <1>1, <1>2, <1>3, <1>4, <1>5 DEF SendEffect, Ack, Result, NoResult, Execute

LEMMA NextStream ==
    ASSUME MessagesType, LiveTyped, StreamOK, [Next]_vars
    PROVE StreamOK'
<1>1. CASE stream' = stream /\ (pc' # "live" \/ UNCHANGED owner)
  BY <1>1, SameStream
<1>2. CASE EndStream
  BY <1>2, EndStreamOK
<1>3. CASE StartLive \/ StartFails \/ ConfirmTimeout \/ Released \/ StopTimeout \/ Ask \/ LinkUp
  BY <1>1, <1>3 DEF StartLive, StartFails, ConfirmTimeout, CleanupFails, Released, StopTimeout,
                    Finish, Ask, LinkUp
<1>4. CASE StopLive
  <2>1. live'.stopped = live.stopped /\ pc' = pc /\ stream' = stream
    BY <1>4 DEF StopLive, LiveTyped
  <2> QED
    BY <2>1 DEF StreamOK, StreamType, LiveHasStream, On, NoStream
<1>5. CASE OnWire
  BY <1>5, WireStream DEF OnWire
<1>6. CASE Data
  <2>1. On /\ ~stream.invalid /\ stream' = [stream EXCEPT !.started = TRUE, !.answered = TRUE]
    BY <1>6 DEF Data
  <2>2. StreamType' /\ stream'.started /\ ~stream'.invalid
    BY <2>1 DEF StreamOK, StreamType
  <2> QED
    BY <2>2 DEF StreamOK, LiveHasStream
<1>7. CASE Invalid
  <2>1. On /\ stream' = [stream EXCEPT !.invalid = TRUE, !.answered = TRUE]
    BY <1>7 DEF Invalid
  <2>2. StreamType' /\ pc' # "live"
    BY <1>7, <2>1 DEF Invalid, Finish, owner, StreamOK, StreamType
  <2> QED
    BY <2>2 DEF StreamOK, LiveHasStream
<1>8. CASE Stall
  BY <1>2, <1>8 DEF Stall
<1>9. CASE Lost \/ EndSent
  <2>1. stream' = NoStream /\ pc' # "live"
    BY <1>9 DEF Lost, EndSent, Disconnect, Finish, CleanupFails, owner
  <2> QED
    BY <2>1, NoStreamIs DEF StreamOK, LiveHasStream
<1>10. CASE UNCHANGED vars
  BY <1>1, <1>10 DEF vars
<1> QED
  BY <1>3, <1>4, <1>5, <1>6, <1>7, <1>8, <1>9, <1>10 DEF Next

(* The link, the camera and the counts.                                    *)
Rest ==
    /\ link \in {"up", "ending", "down"} /\ asked \in 0 .. MaxQueries
    /\ camera \in {0} \cup Attempt

LEMMA NextRest == MessagesType /\ Rest /\ [Next]_vars => Rest'
<1> SUFFICES ASSUME MessagesType, Rest, [Next]_vars PROVE Rest'
  OBVIOUS
<1> USE DEF Rest
<1>1. CASE UNCHANGED network /\ UNCHANGED camera
  BY <1>1 DEF network
<1>2. CASE Shut /\ UNCHANGED camera
  BY <1>2 DEF Shut
<1>3. CASE StartLive \/ StartFails \/ ConfirmTimeout \/ Released \/ StopLive \/ StopTimeout
  BY <1>1, <1>2, <1>3
     DEF StartLive, StartFails, ConfirmTimeout, Released, StopLive, StopTimeout
<1>4. CASE Ask
  BY <1>4, QueriesAssumption DEF Ask
<1>5. ASSUME NEW i \in DOMAIN wire,
             SendEffect(i) \/ Ack(i) \/ Result(i) \/ NoResult(i)
      PROVE Rest'
  BY <1>1, <1>2, <1>5 DEF SendEffect, Ack, Result, NoResult, StopFailed
<1>6. ASSUME NEW i \in DOMAIN wire, Execute(i) PROVE Rest'
  <2>1. wire[i].c \in Command
    <3>1. wire[i] \in Message
      BY DEF MessagesType
    <3> QED
      BY <3>1 DEF Message
  <2>2. PICK answer \in {"ok", "refused"} :
            camera' = CASE answer = "refused" \/ wire[i].c.cmd = "query" -> camera
                        [] answer = "ok" /\ wire[i].c.cmd = "start" -> wire[i].c.n
                        [] answer = "ok" /\ wire[i].c.cmd = "stop" -> 0
    BY <1>6 DEF Execute
  <2>3. wire[i].c.cmd \in {"start", "stop", "query"} /\ (wire[i].c.cmd = "start" => wire[i].c.n \in Attempt)
    BY <2>1, CommandIs DEF Command, Start, Stop, Query
  <2>4. camera' \in {0} \cup Attempt
    BY <2>2, <2>3
  <2> QED
    BY <1>6, <2>4 DEF Execute, network
<1>7. CASE Data \/ Invalid \/ Stall
  BY <1>1, <1>7 DEF Data, Invalid, Stall
<1>8. CASE Lost \/ EndSent \/ LinkUp
  BY <1>8 DEF Lost, EndSent, Disconnect, LinkUp
<1>9. CASE UNCHANGED vars
  BY <1>1, <1>9 DEF vars
<1> QED
  BY <1>3, <1>4, <1>5, <1>6, <1>7, <1>8, <1>9 DEF Next, OnWire

StreamInv == Unreported /\ LiveTyped /\ MessagesType /\ CleanupHasStop /\ StreamOK /\ Rest

LEMMA InitStream == Init => StreamInv
<1> SUFFICES ASSUME Init PROVE StreamInv
  OBVIOUS
<1>1. Unreported /\ LiveTyped
  BY InitUnreported, InitCredit
<1>2. MessagesType /\ CleanupHasStop
  BY DEF Init, MessagesType, CleanupHasStop
<1>3. StreamOK
  BY DEF Init, StreamOK, StreamType, LiveHasStream, On, NoStream
<1>4. Rest
  BY QueriesAssumption DEF Init, Rest
<1> QED
  BY <1>1, <1>2, <1>3, <1>4 DEF StreamInv

LEMMA StepStream == StreamInv /\ [Next]_vars => StreamInv'
<1> SUFFICES ASSUME StreamInv, [Next]_vars PROVE StreamInv'
  OBVIOUS
<1>1. Unreported' /\ LiveTyped'
  BY NextOwner, StepUnreported, NextCredit DEF StreamInv
<1>2. MessagesType' /\ CleanupHasStop'
  BY <1>1, NextMessages DEF StreamInv, StreamOK
<1>3. StreamOK'
  BY NextStream DEF StreamInv
<1>4. Rest'
  BY NextRest DEF StreamInv
<1> QED
  BY <1>1, <1>2, <1>3, <1>4 DEF StreamInv

(* Each phase of an attempt has what it rests on: a live handle whose      *)
(* session has not ended it a stream that the session receives and can     *)
(* decrypt, a failed start a STOP of its own that is queued or sent.       *)
THEOREM StreamsAreOwned == Spec => []StreamOwned
<1>1. StreamInv /\ Credit => StreamOwned
  BY DEF StreamInv, Credit, StreamOwned, TypeOK, Unreported, LiveTyped, MessagesType, StreamOK,
         StreamType, Rest
<1>2. (StreamInv /\ Credit) /\ [Next]_vars => (StreamInv /\ Credit)'
  BY StepStream, NextCredit, StepCredit DEF StreamInv
<1> QED
  BY InitStream, InitCredit, <1>1, <1>2, PTL DEF Spec
=============================================================================
