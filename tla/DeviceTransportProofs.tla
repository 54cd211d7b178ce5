----------------------- MODULE DeviceTransportProofs -----------------------
(***************************************************************************)
(* The device transport, for every set of stations, cameras and calls and  *)
(* every live limit: no two owners share a session, its reservations are   *)
(* exactly those of its calls, it implements StationAdmission, a stream    *)
(* keeps its session, close() leaves nothing behind, and a session close   *)
(* hits nobody else.                                                       *)
(*                                                                         *)
(* Each invariant comes with the ways in which a step can touch it; most   *)
(* actions are then an instance of the one that keeps it.                  *)
(***************************************************************************)
EXTENDS DeviceTransport, TLAPS, FiniteSetTheorems

-----------------------------------------------------------------------------
(* The session and reservation helpers keep their variables' types.        *)

LEMMA CloseTyping ==
    ASSUME TypeOK, NEW S, Close(S)
    PROVE  /\ closing' \in [Station -> {"no", "end", "socket"}]
           /\ link' \in [Station -> {"down", "opening", "up"}]
           /\ reconnectTimeout' \in SUBSET Station
BY DEF TypeOK, Close

LEMMA DialTyping ==
    ASSUME TypeOK, NEW s
    PROVE  Dialled(s) \in [Station -> {"down", "opening", "up"}]
BY DEF TypeOK, Dialled

LEMMA ReleaseTyping ==
    ASSUME TypeOK, NEW K, Release(K)
    PROVE  /\ starting' \in SUBSET Station
           /\ commands' \in SUBSET Station
           /\ operations' \in SUBSET Station
           /\ transfers' \in SUBSET Call
BY DEF TypeOK, Release

LEMMA NoCallTyping == NoCall \in CallType
BY DEF NoCall, CallType, Pc, Op

LEMMA GotoTyping ==
    ASSUME TypeOK, NEW k \in Call, NEW pc \in Pc, Goto(k, pc)
    PROVE  call' \in [Call -> CallType]
BY DEF TypeOK, Goto, CallType

LEMMA ReturnTyping ==
    ASSUME TypeOK, NEW k \in Call, Return(k)
    PROVE  call' \in [Call -> CallType]
BY NoCallTyping DEF TypeOK, Return

(* A call that begins takes one of the two ways of connect().              *)
LEMMA BeginTyping ==
    ASSUME TypeOK, NEW k \in Call, NEW op \in Op, NEW s \in Station,
           NEW c \in Camera \cup {None}, Begin(k, op, s, c)
    PROVE  /\ call' \in [Call -> CallType]
           /\ connecting' \in SUBSET Station
           /\ link' \in [Station -> {"down", "opening", "up"}]
           /\ UNCHANGED <<encryption, closing, reconnectTimeout, transfers, streams, extras, owners>>
<1>1. RequestPc(op) \in Pc /\ "connect" \in Pc
  BY DEF RequestPc, Pc, Linking
<1>2. CASE Connected(s)
  BY <1>1, <1>2 DEF Begin, TypeOK, CallType
<1>3. CASE ~Connected(s)
  BY <1>1, <1>3, DialTyping DEF Begin, TypeOK, CallType
<1> QED BY <1>2, <1>3

-----------------------------------------------------------------------------
(* Type correctness, one lemma per group of actions.                       *)

LEMMA CallTyping ==
    ASSUME TypeOK, NEW k \in Call, CallStep(k)
    PROVE  TypeOK'
<1> USE OwnerAssumption DEF session, reservations, streams, extras, owners
<1>1. ASSUME NEW c \in Camera, StartLive(k, c) PROVE TypeOK'
  BY <1>1, BeginTyping DEF StartLive, TypeOK, Op
<1>2. ASSUME NEW c \in Camera, StartExtraLive(k, c) PROVE TypeOK'
  BY <1>2, Zenon DEF StartExtraLive, TypeOK, CallType, Op, Pc
<1>3. ASSUME NEW c \in Camera, EnsureLiveStopped(k, c) PROVE TypeOK'
  BY <1>3, BeginTyping DEF EnsureLiveStopped, TypeOK, Op, CommandOp
<1>4. ASSUME NEW c \in Camera, EnsureAborted(k, c) PROVE TypeOK'
  BY <1>4, CloseTyping DEF EnsureAborted, TypeOK, CallType, Op, CommandOp, Pc, Linking
<1>5. ASSUME NEW s \in Station, NEW op \in {"guard", "preset"}, StartCommand(k, op, s) PROVE TypeOK'
  BY <1>5, BeginTyping DEF StartCommand, TypeOK, Op, CommandOp
<1>6. ASSUME NEW s \in Station, NEW op \in HistoryOp, StartHistory(k, op, s) PROVE TypeOK'
  BY <1>6, BeginTyping DEF StartHistory, TypeOK, Op
<1>7. ASSUME NEW s \in Station, Peek(k, s) PROVE TypeOK'
  BY <1>7, BeginTyping DEF Peek, TypeOK, Op
<1>8. CASE Answered(k)
  BY <1>8, ReturnTyping, ReleaseTyping DEF Answered, TypeOK
<1>9. CASE RequestFails(k)
  BY <1>9, CloseTyping, GotoTyping DEF RequestFails, TypeOK, Pc
<1>10. CASE PresetRefused(k)
  BY <1>10, ReturnTyping, ReleaseTyping DEF PresetRefused, TypeOK
<1>11. CASE PeekReturns(k)
  BY <1>11, ReturnTyping DEF PeekReturns, TypeOK
<1>12. CASE TransferStarts(k)
  BY <1>12, GotoTyping DEF TransferStarts, TypeOK, Pc
<1>13. CASE TransferCompletes(k)
  BY <1>13, ReturnTyping, ReleaseTyping DEF TransferCompletes, TypeOK
<1>14. CASE TransferFails(k)
  BY <1>14, CloseTyping, GotoTyping DEF TransferFails, TypeOK, Pc
<1>15. CASE ConnectFails(k)
  BY <1>15, CloseTyping, GotoTyping DEF ConnectFails, TypeOK, Pc, Linking
<1>16. CASE DeafReturns(k)
  BY <1>16, ReturnTyping, ReleaseTyping DEF DeafReturns, TypeOK
<1>17. CASE LivestreamStart(k)
  BY <1>17, ReturnTyping, ReleaseTyping DEF LivestreamStart, TypeOK, CallType
<1>18. CASE StartFails(k)
  BY <1>18, GotoTyping DEF StartFails, TypeOK, Pc
<1>19. CASE StopConfirmed(k)
  BY <1>19, CloseTyping, GotoTyping, ReturnTyping, ReleaseTyping DEF StopConfirmed, TypeOK, Pc
<1>20. CASE StopUnconfirmed(k)
  BY <1>20, CloseTyping, GotoTyping DEF StopUnconfirmed, TypeOK, Pc
<1>21. CASE ExtraReady(k)
  BY <1>21, GotoTyping DEF ExtraReady, ExtraAt, TypeOK, Pc
<1>22. ASSUME NEW c \in Camera, ExtraStart(k, c) PROVE TypeOK'
  BY <1>22, ReturnTyping DEF ExtraStart, ExtraAt, TypeOK, CallType
<1>23. CASE ExtraFails(k)
  BY <1>23, GotoTyping DEF ExtraFails, ExtraAt, TypeOK, Pc
<1>24. CASE ExtraDisposed(k)
  BY <1>24, ReturnTyping DEF ExtraDisposed, ExtraAt, TypeOK
<1> QED
  BY <1>1, <1>2, <1>3, <1>4, <1>5, <1>6, <1>7, <1>8, <1>9, <1>10, <1>11, <1>12, <1>13, <1>14, <1>15, <1>16, <1>17, <1>18, <1>19, <1>20, <1>21, <1>22, <1>23, <1>24 DEF CallStep

LEMMA EndedTyping ==
    ASSUME TypeOK, NEW s \in Station, Ended(s)
    PROVE  /\ call' \in [Call -> CallType]
           /\ encryption' \in SUBSET Station
           /\ lives' \in [Station -> Camera \cup {None}]
           /\ stop' \in SUBSET Station
           /\ link' \in [Station -> {"down", "opening", "up"}]
<1>1. \A pc \in {"drop", "confirm", "close"} : pc \in Pc
  BY DEF Pc, Linking
<1>2. call' \in [Call -> CallType]
  BY <1>1 DEF Ended, TypeOK, CallType
<1> QED BY <1>2 DEF Ended, TypeOK

(* Links, keys and the streams of a station. *)
LEMMA SessionTyping ==
    ASSUME TypeOK, NEW s \in Station, SessionStep(s)
    PROVE  TypeOK'
<1> USE DEF session, reservations, streams, extras, owners
<1>1. CASE SessionUp(s)
  BY <1>1 DEF SessionUp, TypeOK
<1>2. CASE KeyReady(s)
  BY <1>2, NoCallTyping, ReleaseTyping DEF KeyReady, TypeOK, CallType, RequestPc, Pc
<1>3. CASE SessionReconnect(s)
  BY <1>3, DialTyping DEF SessionReconnect, TypeOK
<1>4. CASE DialFails(s)
  BY <1>4 DEF DialFails, TypeOK, CallType, Pc, Linking
<1>5. CASE LinkLost(s)
  BY <1>5, EndedTyping DEF LinkLost, TypeOK
<1>6. CASE CloseEnd(s)
  BY <1>6, EndedTyping DEF CloseEnd, TypeOK
<1>7. CASE SocketClosed(s)
  BY <1>7, NoCallTyping, ReleaseTyping DEF SocketClosed, TypeOK, CallType, Pc, Linking
<1>8. CASE StopLive(s)
  BY <1>8, CloseTyping DEF StopLive, TypeOK
<1>9. CASE FinishLive(s)
  BY <1>9 DEF FinishLive, TypeOK
<1>10. CASE StopTimeout(s) \/ StopRefused(s)
  BY <1>10, CloseTyping DEF StopTimeout, StopRefused, EndLive, TypeOK
<1> QED
  BY <1>1, <1>2, <1>3, <1>4, <1>5, <1>6, <1>7, <1>8, <1>9, <1>10 DEF SessionStep

(* Streams on additional sessions. *)
LEMMA ExtraTyping ==
    ASSUME TypeOK, NEW c \in Camera, ExtraStep(c)
    PROVE  TypeOK'
<1> USE DEF session, reservations, streams, extras, owners
<1>1. CASE StopExtraLive(c)
  BY <1>1 DEF StopExtraLive, TypeOK
<1>2. CASE FinishExtraLive(c)
  BY <1>2 DEF FinishExtraLive, TypeOK
<1> QED
  BY <1>1, <1>2 DEF ExtraStep

(* load(). *)
LEMMA LoadTyping ==
    ASSUME TypeOK, LoadStep
    PROVE  TypeOK'
<1> USE DEF session, reservations, streams, extras, owners
<1>1. ASSUME NEW S \in SUBSET Station, NEW s \in S, Load(S, s) PROVE TypeOK'
  BY <1>1, CloseTyping DEF Load, Dispose, TypeOK, CallType, Pc, Linking
<1>2. ASSUME NEW s \in Station, LoadNext(s) PROVE TypeOK'
  BY <1>2, CloseTyping DEF LoadNext, Dispose, TypeOK, CallType, Pc, Linking
<1> QED
  BY <1>1, <1>2 DEF LoadStep

(* close(). *)
LEMMA CloseStepTyping ==
    ASSUME TypeOK, CloseStep
    PROVE  TypeOK'
<1> USE DEF session, reservations, streams, extras, owners
<1>1. CASE CloseBegin
  <2>1. /\ closing' \in [Station -> {"no", "end", "socket"}]
        /\ link' \in [Station -> {"down", "opening", "up"}]
        /\ reconnectTimeout' \in SUBSET Station
    BY <1>1, CloseTyping DEF CloseBegin
  <2>2. ASSUME NEW k \in Call PROVE call'[k] \in CallType
    <3>1. call[k] \in CallType /\ k \in DOMAIN call'
      BY <1>1 DEF CloseBegin, TypeOK
    <3>2. call'[k] = NoCall \/ \E pc \in Pc : call'[k] = [call[k] EXCEPT !.pc = pc]
      BY <1>1, <3>1 DEF CloseBegin, CallType, Pc, Linking
    <3> QED
      BY <3>1, <3>2, NoCallTyping DEF CallType
  <2>3. call' \in [Call -> CallType]
    BY <1>1, <2>2 DEF CloseBegin
  <2> QED
    BY <1>1, <2>1, <2>3 DEF CloseBegin, TypeOK
<1>2. CASE CloseStarts
  BY <1>2 DEF CloseStarts, TypeOK
<1>3. CASE CloseStreams
  BY <1>3, CloseTyping DEF CloseStreams, TypeOK
<1>4. CASE CloseSessions
  BY <1>4, CloseTyping DEF CloseSessions, TypeOK
<1>5. CASE CloseDone
  BY <1>5 DEF CloseDone, TypeOK
<1> QED
  BY <1>1, <1>2, <1>3, <1>4, <1>5 DEF CloseStep

LEMMA StepTyping == TypeOK /\ [Next]_vars => TypeOK'
<1>1. CASE Next
  BY <1>1, CallTyping, SessionTyping, ExtraTyping, LoadTyping, CloseStepTyping DEF Next
<1>2. CASE UNCHANGED vars
  BY <1>2 DEF TypeOK, vars, session, reservations, streams, extras, owners
<1> QED BY <1>1, <1>2

LEMMA InitTyping == Init => TypeOK
BY NoCallTyping DEF Init, TypeOK

(* Every variable of the transport always holds a value of its kind.       *)
THEOREM TypeCorrect == Spec => []TypeOK
BY InitTyping, StepTyping, PTL DEF Spec

-----------------------------------------------------------------------------
(* One owner per primary session.  The invariant is inductive together     *)
(* with OwnersHeld: an admission looks at the reservation sets, and only   *)
(* because these are exactly the pending calls does a free set mean that   *)
(* no other owner exists.                                                  *)

Ownership == TypeOK /\ OneOwner /\ OwnersHeld

(* A call keeps what it owns, or owned nothing and still does not.         *)
SameOwner(k) ==
    \/ call'[k].op = call[k].op /\ call'[k].st = call[k].st
    \/ call[k].op \notin ExclusiveOp /\ call'[k].op \notin ExclusiveOp

LEMMA KeepOwners ==
    ASSUME Ownership,
           \A k \in Call : SameOwner(k),
           \A s \in Station : lives'[s] \in {lives[s], None},
           UNCHANGED <<starting, commands, operations>>
    PROVE  OneOwner' /\ OwnersHeld'
<1> USE DEF Ownership, SameOwner, Pending, On, ExclusiveOp, CommandOp, HistoryOp
<1>1. OneOwner'
  BY DEF OneOwner
<1>2. OwnersHeld'
  BY DEF OwnersHeld
<1> QED BY <1>1, <1>2

(* The calls in K end and give back what they own.                         *)
LEMMA ReleaseOwners ==
    ASSUME Ownership, NEW K \in SUBSET Call, Release(K),
           \A k \in K : call'[k] = NoCall,
           \A k \in Call \ K : SameOwner(k),
           \A s \in Station : lives'[s] \in {lives[s], None}
    PROVE  OneOwner' /\ OwnersHeld'
<1> USE DEF Ownership, SameOwner, Pending, On, ExclusiveOp, CommandOp, HistoryOp, NoCall
<1>1. OneOwner'
  BY DEF OneOwner
<1>2. ASSUME NEW s \in Station PROVE s \in starting' <=> Pending(s, {"live"})' # {}
  BY DEF OwnersHeld, OneOwner, Release
<1>3. ASSUME NEW s \in Station PROVE s \in commands' <=> Pending(s, CommandOp)' # {}
  BY DEF OwnersHeld, OneOwner, Release
<1>4. ASSUME NEW s \in Station PROVE s \in operations' <=> Pending(s, HistoryOp)' # {}
  BY DEF OwnersHeld, OneOwner, Release
<1> QED BY <1>1, <1>2, <1>3, <1>4 DEF OwnersHeld

(* A call takes a station that nobody owns.                                *)
LEMMA TakeOwner ==
    ASSUME Ownership, NEW k \in Call, Idle(k), NEW s \in Station,
           s \notin starting, s \notin commands, s \notin operations, lives[s] = None,
           call'[k].op \in ExclusiveOp, call'[k].st = s,
           \A j \in Call \ {k} : call'[j] = call[j],
           starting' = IF call'[k].op = "live" THEN starting \cup {s} ELSE starting,
           commands' = IF call'[k].op \in CommandOp THEN commands \cup {s} ELSE commands,
           operations' = IF call'[k].op \in HistoryOp THEN operations \cup {s} ELSE operations,
           UNCHANGED lives
    PROVE  OneOwner' /\ OwnersHeld'
<1> USE DEF Ownership, Pending, On, ExclusiveOp, CommandOp, HistoryOp, NoCall, Idle
<1>1. Pending(s, ExclusiveOp) = {}
  BY DEF OwnersHeld
<1>2. OneOwner'
  BY <1>1 DEF OneOwner
<1>3. OwnersHeld'
  BY <1>1 DEF OwnersHeld
<1> QED BY <1>2, <1>3

(* A live start gives its reservation back by becoming the station's stream. *)
LEMMA StartedOwners ==
    ASSUME Ownership, NEW k \in Call, NEW s \in Station, NEW c,
           call[k].op = "live", call[k].st = s,
           Release({k}), Return(k), lives' = [lives EXCEPT ![s] = c]
    PROVE  OneOwner' /\ OwnersHeld'
<1> USE DEF Ownership, Pending, On, ExclusiveOp, CommandOp, HistoryOp, NoCall, Return, TypeOK
<1>1. \A j \in Pending(s, ExclusiveOp) : j = k
  BY DEF OneOwner
<1>2. Pending(s, ExclusiveOp)' = {}
  BY <1>1
<1>3. \A t \in Station \ {s} :
        Pending(t, ExclusiveOp)' \subseteq Pending(t, ExclusiveOp) /\ lives'[t] = lives[t]
  OBVIOUS
<1>4. OneOwner'
  BY <1>2, <1>3 DEF OneOwner
<1>5. OwnersHeld'
  BY <1>1 DEF OwnersHeld, Release
<1> QED BY <1>4, <1>5

(* The steps of one call. *)
LEMMA CallOwners ==
    ASSUME Ownership, NEW k \in Call, CallStep(k)
    PROVE  OneOwner' /\ OwnersHeld'
<1> USE OwnerAssumption DEF Ownership, SameOwner, Goto, Return, NoCall, Idle, ExtraAt, TypeOK,
        CallType, ExclusiveOp, CommandOp, HistoryOp, streams, extras, owners, session,
        reservations, StreamBusy, RecordingsBusy
<1> DEFINE Goal == OneOwner' /\ OwnersHeld'
<1>1. ASSUME NEW c \in Camera, StartLive(k, c) PROVE Goal
  <2>1. OwnerOf[c] \in Station
    OBVIOUS
  <2>2. call'[k].op = "live" /\ call'[k].st = OwnerOf[c]
    BY <1>1 DEF StartLive, Begin
  <2>3. \A j \in Call \ {k} : call'[j] = call[j]
    BY <1>1 DEF StartLive, Begin
  <2> QED BY <1>1, <2>1, <2>2, <2>3, TakeOwner DEF StartLive, Begin
<1>2. ASSUME NEW c \in Camera, StartExtraLive(k, c) PROVE Goal
  BY <1>2, KeepOwners DEF StartExtraLive
<1>3. ASSUME NEW c \in Camera, EnsureLiveStopped(k, c) PROVE Goal
  BY <1>3, TakeOwner DEF EnsureLiveStopped, EnsureFree, Begin, RequestPc
<1>4. ASSUME NEW c \in Camera, EnsureAborted(k, c) PROVE Goal
  BY <1>4, TakeOwner DEF EnsureAborted, EnsureFree
<1>5. ASSUME NEW s \in Station, NEW op \in {"guard", "preset"}, StartCommand(k, op, s) PROVE Goal
  BY <1>5, TakeOwner DEF StartCommand, Begin, RequestPc
<1>6. ASSUME NEW s \in Station, NEW op \in HistoryOp, StartHistory(k, op, s) PROVE Goal
  BY <1>6, TakeOwner DEF StartHistory, Begin, RequestPc
<1>7. ASSUME NEW s \in Station, Peek(k, s) PROVE Goal
  BY <1>7, KeepOwners DEF Peek, Begin, RequestPc
<1>8. CASE Answered(k)
  BY <1>8, ReleaseOwners DEF Answered
<1>9. CASE RequestFails(k)
  BY <1>9, KeepOwners DEF RequestFails
<1>10. CASE PresetRefused(k)
  BY <1>10, ReleaseOwners DEF PresetRefused
<1>11. CASE PeekReturns(k)
  BY <1>11, KeepOwners DEF PeekReturns
<1>12. CASE TransferStarts(k)
  BY <1>12, KeepOwners DEF TransferStarts
<1>13. CASE TransferCompletes(k)
  BY <1>13, ReleaseOwners DEF TransferCompletes
<1>14. CASE TransferFails(k)
  BY <1>14, KeepOwners DEF TransferFails
<1>15. CASE ConnectFails(k)
  BY <1>15, KeepOwners DEF ConnectFails
<1>16. CASE DeafReturns(k)
  BY <1>16, ReleaseOwners DEF DeafReturns
<1>17. CASE LivestreamStart(k)
  BY <1>17, StartedOwners DEF LivestreamStart, Connected
<1>18. CASE StartFails(k)
  BY <1>18, KeepOwners DEF StartFails
<1>19. CASE StopConfirmed(k)
  BY <1>19, ReleaseOwners, KeepOwners DEF StopConfirmed
<1>20. CASE StopUnconfirmed(k)
  BY <1>20, KeepOwners DEF StopUnconfirmed
<1>21. CASE ExtraReady(k)
  BY <1>21, KeepOwners DEF ExtraReady
<1>22. ASSUME NEW c \in Camera, ExtraStart(k, c) PROVE Goal
  BY <1>22, KeepOwners DEF ExtraStart
<1>23. CASE ExtraFails(k)
  BY <1>23, KeepOwners DEF ExtraFails
<1>24. CASE ExtraDisposed(k)
  BY <1>24, KeepOwners DEF ExtraDisposed
<1> QED
  BY <1>1, <1>2, <1>3, <1>4, <1>5, <1>6, <1>7, <1>8, <1>9, <1>10, <1>11, <1>12, <1>13, <1>14, <1>15, <1>16, <1>17, <1>18, <1>19, <1>20, <1>21, <1>22, <1>23, <1>24 DEF CallStep

(* Links, keys and the stream of a station. *)
LEMMA SessionOwners ==
    ASSUME Ownership, NEW s \in Station, SessionStep(s)
    PROVE  OneOwner' /\ OwnersHeld'
<1> USE DEF Ownership, SameOwner, TypeOK, CallType, streams, extras, owners, session, reservations
<1>1. CASE SessionUp(s) \/ SessionReconnect(s) \/ StopLive(s)
  BY <1>1, KeepOwners DEF SessionUp, SessionReconnect, StopLive
<1>2. CASE KeyReady(s)
  <2> DEFINE renewed == {k \in On(s) : call[k].pc = "reconnect"}
  <2>1. renewed \in SUBSET Call /\ Release(renewed)
    BY <1>2 DEF KeyReady, On
  <2>2. /\ \A k \in renewed : call'[k] = NoCall
        /\ \A k \in Call \ renewed : SameOwner(k)
    BY <1>2 DEF KeyReady, On
  <2>3. \A t \in Station : lives'[t] = lives[t]
    BY <1>2 DEF KeyReady
  <2> QED BY <2>1, <2>2, <2>3, ReleaseOwners
<1>3. CASE DialFails(s)
  BY <1>3, KeepOwners DEF DialFails
<1>4. CASE LinkLost(s)
  BY <1>4, KeepOwners DEF LinkLost, Ended
<1>5. CASE CloseEnd(s)
  BY <1>5, KeepOwners DEF CloseEnd, Ended
<1>6. CASE SocketClosed(s)
  <2> DEFINE failed == IF link[s] = "opening"
                      THEN {k \in On(s) : call[k].pc \in {"connect", "reconnect", "confirm"}}
                      ELSE {}
            ended == failed \cup {k \in On(s) : call[k].pc \in {"drop", "close"}}
            renewing == {k \in On(s) : call[k].pc = "renew"}
            pc == IF s \in disposing THEN "deafConnect" ELSE "reconnect"
  <2>1. PICK again \in SUBSET renewing :
          /\ call' = [k \in Call |-> IF k \in again THEN [call[k] EXCEPT !.pc = pc]
                                    ELSE IF k \in ended \cup (renewing \ again) THEN NoCall
                                    ELSE call[k]]
          /\ Release(ended \cup (renewing \ again))
    BY <1>6 DEF SocketClosed
  <2> DEFINE released == ended \cup (renewing \ again)
  <2>2. released \in SUBSET Call /\ released \cap again = {}
    BY DEF On
  <2>3. \A k \in released : call'[k] = NoCall
    BY <2>1, <2>2
  <2>4. \A k \in Call \ released : SameOwner(k)
    BY <2>1, <2>2
  <2>5. \A t \in Station : lives'[t] = lives[t]
    BY <1>6 DEF SocketClosed
  <2> HIDE DEF released
  <2> QED BY <2>1, <2>2, <2>3, <2>4, <2>5, ReleaseOwners DEF released
<1>7. CASE FinishLive(s)
  BY <1>7, KeepOwners DEF FinishLive
<1>8. CASE StopTimeout(s) \/ StopRefused(s)
  BY <1>8, KeepOwners DEF StopTimeout, StopRefused, EndLive
<1> QED
  BY <1>1, <1>2, <1>3, <1>4, <1>5, <1>6, <1>7, <1>8 DEF SessionStep

(* load() and close() end no exclusive call and give no stream a station.  *)
LEMMA OtherOwners ==
    ASSUME Ownership, (\E c \in Camera : ExtraStep(c)) \/ LoadStep \/ CloseStep
    PROVE  OneOwner' /\ OwnersHeld'
<1> USE DEF Ownership, SameOwner, TypeOK, CallType, streams, extras, owners, session, reservations
<1>1. ASSUME NEW c \in Camera, ExtraStep(c) PROVE OneOwner' /\ OwnersHeld'
  BY <1>1, KeepOwners DEF ExtraStep, StopExtraLive, FinishExtraLive
<1>2. CASE LoadStep
  <2>1. PICK s : Dispose(s)
    BY <1>2 DEF LoadStep, Load, LoadNext
  <2>2. \A k \in Call : SameOwner(k)
    BY <2>1 DEF Dispose
  <2> QED BY <2>1, <2>2, KeepOwners DEF Dispose
<1>3. CASE CloseBegin
  BY <1>3, KeepOwners DEF CloseBegin, NoCall, ExclusiveOp, CommandOp, HistoryOp
<1>4. CASE CloseStarts \/ CloseStreams \/ CloseSessions \/ CloseDone
  BY <1>4, KeepOwners DEF CloseStarts, CloseStreams, CloseSessions, CloseDone
<1> QED BY <1>1, <1>2, <1>3, <1>4 DEF CloseStep

LEMMA StepOwners == Ownership /\ [Next]_vars => Ownership'
<1>1. CASE Next
  BY <1>1, StepTyping, CallOwners, SessionOwners, OtherOwners DEF Next, Ownership
<1>2. CASE UNCHANGED vars
  BY <1>2, StepTyping, KeepOwners
     DEF vars, Ownership, SameOwner, session, reservations, streams, extras, owners
<1> QED BY <1>1, <1>2

LEMMA InitOwners == Init => Ownership
<1> SUFFICES ASSUME Init PROVE Ownership
  OBVIOUS
<1>1. \A s \in Station : On(s) = {}
  BY NoneAssumption DEF Init, On, NoCall
<1> QED
  BY <1>1, InitTyping DEF Init, Ownership, OneOwner, OwnersHeld, Pending

(* The primary session of a station never serves two owners at a time.     *)
THEOREM OneOwnerHolds == Spec => []OneOwner
<1>1. Ownership => OneOwner
  BY DEF Ownership
<1> QED BY <1>1, InitOwners, StepOwners, PTL DEF Spec

(* The reservation sets are exactly the pending calls that took them: no   *)
(* failure path leaks an entry or deletes another call's.                  *)
THEOREM OwnersHeldHolds == Spec => []OwnersHeld
<1>1. Ownership => OwnersHeld
  BY DEF Ownership
<1> QED BY <1>1, InitOwners, StepOwners, PTL DEF Spec

-----------------------------------------------------------------------------
(* Which operation can wait where.                                          *)

ExtraPc == {"xconnect", "xwait", "xconfirm", "xdispose"}
Fits(x) ==
    /\ x.op = "none" => x = NoCall
    /\ x.op # "none" => x.st \in Station /\ x.pc # "idle"
    /\ x.op = "extra" => x.pc \in ExtraPc /\ x.cam \in Camera /\ x.st = OwnerOf[x.cam]
    /\ x.op # "extra" => x.pc \notin ExtraPc
    /\ x.pc \in {"renew", "reconnect"} => x.op = "ensure"
    /\ x.pc = "confirm" => x.op \in {"live", "ensure"}
    /\ x.pc = "transfer" => x.op = "download"
    /\ x.op = "peek" => x.pc \in {"connect", "drop", "wait", "deafConnect"}

AllFit == \A k \in Call : Fits(call[k])

LEMMA NoCallFits == Fits(NoCall)
BY DEF Fits, NoCall, ExtraPc

(* A call goes on at a place that its operation knows.                      *)
LEMMA GoesOnFits ==
    ASSUME NEW x \in CallType, NEW pc \in Pc \ {"idle"}, Fits(x), x.op # "none",
           x.op = "extra" <=> pc \in ExtraPc,
           pc \in {"renew", "reconnect"} => x.op = "ensure",
           pc = "confirm" => x.op \in {"live", "ensure"},
           pc = "transfer" => x.op = "download",
           x.op = "peek" => pc \in {"connect", "drop", "wait", "deafConnect"}
    PROVE Fits([x EXCEPT !.pc = pc])
<1> DEFINE y == [x EXCEPT !.pc = pc]
<1>1. y.op = x.op /\ y.st = x.st /\ y.cam = x.cam /\ y.pc = pc
  BY DEF CallType
<1> HIDE DEF y
<1>2. Fits(y)
  BY <1>1 DEF Fits
<1> QED
  BY <1>2 DEF y

LEMMA BeginFits ==
    ASSUME TypeOK, AllFit, NEW k \in Call, NEW op \in Op \ {"extra"}, NEW s \in Station, NEW c,
           Begin(k, op, s, c)
    PROVE AllFit'
<1> DEFINE x == call'[k]
<1>1. /\ x.op = op /\ x.st = s /\ x.cam = c
      /\ x.pc = IF Connected(s) THEN RequestPc(op) ELSE "connect"
      /\ \A j \in Call \ {k} : call'[j] = call[j]
  BY DEF Begin, TypeOK
<1>2. op # "none"
  BY DEF Op, CommandOp, HistoryOp
<1> HIDE DEF x
<1>3. Fits(x)
  BY <1>1, <1>2 DEF Fits, RequestPc, ExtraPc
<1> QED
  BY <1>1, <1>3 DEF AllFit, x

LEMMA CallFits ==
    ASSUME TypeOK, AllFit, NEW k \in Call, CallStep(k)
    PROVE AllFit'
<1> USE OwnerAssumption
<1>0. \A j \in Call : call[j] \in CallType /\ Fits(call[j])
  BY DEF TypeOK, AllFit
<1>1. ASSUME NEW c \in Camera, StartLive(k, c) \/ EnsureLiveStopped(k, c) PROVE AllFit'
  BY <1>1, BeginFits DEF StartLive, EnsureLiveStopped, Op, CommandOp
<1>2. ASSUME NEW s \in Station, NEW op \in {"guard", "preset"}, StartCommand(k, op, s) PROVE AllFit'
  BY <1>2, BeginFits DEF StartCommand, Op, CommandOp
<1>3. ASSUME NEW s \in Station, NEW op \in HistoryOp, StartHistory(k, op, s) PROVE AllFit'
  BY <1>3, BeginFits DEF StartHistory, Op, HistoryOp
<1>4. ASSUME NEW s \in Station, Peek(k, s) PROVE AllFit'
  BY <1>4, BeginFits DEF Peek, Op
<1>5. ASSUME NEW x, call' = [call EXCEPT ![k] = x], Fits(x) PROVE AllFit'
  BY <1>0, <1>5 DEF AllFit, TypeOK
<1>6. ASSUME NEW c \in Camera, StartExtraLive(k, c) PROVE AllFit'
  <2>1. Fits([op |-> "extra", st |-> OwnerOf[c], cam |-> c, pc |-> "xconnect"])
    BY DEF Fits, ExtraPc
  <2> QED
    BY <1>5, <1>6, <2>1 DEF StartExtraLive
<1>7. ASSUME NEW c \in Camera, EnsureAborted(k, c) PROVE AllFit'
  <2>1. \A pc \in {"close", "drop"} :
            Fits([op |-> "ensure", st |-> OwnerOf[c], cam |-> c, pc |-> pc])
    BY DEF Fits, ExtraPc
  <2> QED
    BY <1>5, <1>7, <2>1 DEF EnsureAborted
<1>8. CASE Return(k)
  BY <1>5, <1>8, NoCallFits DEF Return
<1>9. ASSUME NEW pc \in Pc \ {"idle"}, Goto(k, pc), Fits([call[k] EXCEPT !.pc = pc]) PROVE AllFit'
  BY <1>5, <1>9 DEF Goto
<1>10. CASE RequestFails(k) \/ TransferStarts(k) \/ TransferFails(k) \/ ConnectFails(k)
            \/ StartFails(k) \/ StopUnconfirmed(k)
  <2>1. PICK pc \in {"close", "transfer", "drop", "confirm"} :
          /\ Goto(k, pc) /\ call[k].pc \in {"wait", "transfer", "connect", "reconnect", "confirm"}
          /\ pc = "transfer" => call[k].op = "download"
          /\ pc = "confirm" => call[k].op = "live"
          /\ pc # "drop" => call[k].op # "peek"
    BY <1>0, <1>10 DEF RequestFails, TransferStarts, TransferFails, ConnectFails, StartFails,
                       StopUnconfirmed, HistoryOp, Fits
  <2>2. pc \in Pc \ {"idle"} /\ call[k].op # "none" /\ call[k].op # "extra" /\ pc \notin ExtraPc
    BY <1>0, <2>1 DEF Fits, Pc, Linking, ExtraPc, NoCall
  <2>3. Fits([call[k] EXCEPT !.pc = pc])
    BY <1>0, <2>1, <2>2, GoesOnFits
  <2> QED
    BY <1>9, <2>1, <2>2, <2>3
<1>11. CASE StopConfirmed(k) /\ call[k].op = "ensure"
  <2>1. Fits([call[k] EXCEPT !.pc = "renew"])
    BY <1>0, <1>11, GoesOnFits DEF Pc, ExtraPc
  <2> QED
    BY <1>9, <1>11, <2>1 DEF StopConfirmed, Pc
<1>12. CASE ExtraReady(k) \/ ExtraFails(k)
  <2>1. PICK pc \in ExtraPc : Goto(k, pc) /\ call[k].op = "extra"
    BY <1>12 DEF ExtraReady, ExtraFails, ExtraAt, ExtraPc
  <2>2. pc \in Pc \ {"idle"} /\ pc \notin {"renew", "reconnect", "confirm", "transfer"}
    BY <2>1 DEF ExtraPc, Pc
  <2>3. Fits([call[k] EXCEPT !.pc = pc])
    BY <1>0, <2>1, <2>2, GoesOnFits
  <2> QED
    BY <1>9, <2>1, <2>2, <2>3
<1> QED
  BY <1>1, <1>2, <1>3, <1>4, <1>6, <1>7, <1>8, <1>10, <1>11, <1>12
     DEF CallStep, Answered, PresetRefused, PeekReturns, TransferCompletes, DeafReturns,
         LivestreamStart, StopConfirmed, ExtraStart, ExtraDisposed

(* Every pending call is where it was, goes on, or is over.                 *)
LEMMA AllGoOn ==
    ASSUME TypeOK, AllFit,
           \A k \in Call :
              \/ call'[k] = call[k] \/ call'[k] = NoCall
              \/ \E pc \in {"drop", "close", "confirm", "deaf", "deafConnect", "wait", "reconnect",
                            "xdispose", "xconfirm"} :
                    /\ call'[k] = [call[k] EXCEPT !.pc = pc]
                    /\ call[k].op # "none" /\ (call[k].op = "extra" <=> pc \in ExtraPc)
                    /\ pc = "reconnect" => call[k].op = "ensure"
                    /\ pc = "confirm" => call[k].op \in {"live", "ensure"}
                    /\ call[k].op = "peek" => pc \in {"drop", "wait", "deafConnect"}
    PROVE AllFit'
<1> SUFFICES ASSUME NEW k \in Call PROVE Fits(call'[k])
  BY DEF AllFit
<1>1. call[k] \in CallType /\ Fits(call[k])
  BY DEF TypeOK, AllFit
<1>2. CASE call'[k] = call[k] \/ call'[k] = NoCall
  BY <1>1, <1>2, NoCallFits
<1>3. ASSUME NEW pc \in {"drop", "close", "confirm", "deaf", "deafConnect", "wait", "reconnect",
                         "xdispose", "xconfirm"},
             call'[k] = [call[k] EXCEPT !.pc = pc],
             call[k].op # "none", call[k].op = "extra" <=> pc \in ExtraPc,
             pc = "reconnect" => call[k].op = "ensure",
             pc = "confirm" => call[k].op \in {"live", "ensure"},
             call[k].op = "peek" => pc \in {"drop", "wait", "deafConnect"}
      PROVE Fits(call'[k])
  <2>1. pc \in Pc \ {"idle"}
    BY DEF Pc, Linking
  <2> QED
    BY <1>1, <1>3, <2>1, GoesOnFits
<1> QED
  BY <1>2, <1>3

(* What a call on a station is, where it waits.                             *)
LEMMA OnFits ==
    ASSUME TypeOK, AllFit, NEW s \in Station, NEW k \in On(s)
    PROVE /\ k \in Call /\ call[k].op # "none"
          /\ call[k].pc \in Linking \cup {"wait", "confirm", "transfer", "renew"}
                => call[k].op # "extra"
          /\ call[k].pc \in {"confirm", "transfer", "renew"} => call[k].op # "peek"
          /\ call[k].pc = "renew" => call[k].op = "ensure"
BY NoneAssumption DEF On, AllFit, Fits, NoCall, ExtraPc, Linking

LEMMA SessionFits ==
    ASSUME TypeOK, AllFit, NEW s \in Station, SessionStep(s)
    PROVE AllFit'
<1> USE DEF ExtraPc, Linking
<1>1. CASE SessionUp(s) \/ SessionReconnect(s) \/ StopLive(s) \/ FinishLive(s)
           \/ StopTimeout(s) \/ StopRefused(s)
  BY <1>1 DEF SessionUp, SessionReconnect, StopLive, FinishLive, StopTimeout, StopRefused, EndLive,
              AllFit
<1>2. CASE KeyReady(s)
  <2>1. \A k \in On(s) : call[k].pc = "connect" =>
            RequestPc(call[k].op) \in {"wait", "confirm"}
            /\ (RequestPc(call[k].op) = "confirm" => call[k].op = "ensure")
    BY DEF RequestPc
  <2> QED
    BY <1>2, <2>1, OnFits, AllGoOn DEF KeyReady, On
<1>3. CASE DialFails(s)
  BY <1>3, OnFits, AllGoOn DEF DialFails, On
<1>4. CASE LinkLost(s) \/ CloseEnd(s)
  <2>1. Ended(s)
    BY <1>4 DEF LinkLost, CloseEnd
  <2> QED
    BY <2>1, OnFits, AllGoOn DEF Ended, Linked, Stopping, Pending, Failing, On
<1>5. CASE SocketClosed(s)
  <2>1. \A k \in Call : \/ call'[k] = call[k] \/ call'[k] = NoCall
                        \/ /\ k \in On(s) /\ call[k].pc = "renew"
                           /\ \E pc \in {"deafConnect", "reconnect"} :
                                 call'[k] = [call[k] EXCEPT !.pc = pc]
    BY <1>5 DEF SocketClosed, On
  <2>2. \A k \in On(s) : call[k].pc = "renew" => call[k].op = "ensure"
    BY OnFits
  <2> QED
    BY <2>1, <2>2, AllGoOn
<1> QED
  BY <1>1, <1>2, <1>3, <1>4, <1>5 DEF SessionStep

LEMMA OtherFits ==
    ASSUME TypeOK, AllFit, (\E c \in Camera : ExtraStep(c)) \/ LoadStep \/ CloseStep
    PROVE AllFit'
<1> USE DEF ExtraPc, Linking
<1>1. ASSUME NEW c \in Camera, ExtraStep(c) PROVE AllFit'
  BY <1>1 DEF ExtraStep, StopExtraLive, FinishExtraLive, AllFit
<1>2. CASE LoadStep
  <2>1. PICK s \in Station : Dispose(s)
    BY <1>2 DEF LoadStep, Load, LoadNext
  <2> QED
    BY <2>1, OnFits, AllGoOn DEF Dispose, Linked, On
<1>3. CASE CloseBegin
  <2>1. \A k \in Call : Fits(call[k]) /\ call[k] \in CallType
    BY DEF AllFit, TypeOK
  <2>2. ASSUME NEW k \in Call
        PROVE \/ call'[k] = call[k] \/ call'[k] = NoCall
              \/ \E pc \in {"drop", "close", "confirm", "xdispose", "xconfirm"} :
                    /\ call'[k] = [call[k] EXCEPT !.pc = pc]
                    /\ call[k].op # "none" /\ (call[k].op = "extra" <=> pc \in ExtraPc)
                    /\ pc = "confirm" => call[k].op \in {"live", "ensure"}
                    /\ call[k].op = "peek" => pc \in {"drop", "wait", "deafConnect"}
    BY <1>3, <2>1 DEF CloseBegin, Fits, NoCall, CallType
  <2> QED
    BY <2>2, AllGoOn
<1>4. CASE CloseStarts \/ CloseStreams \/ CloseSessions \/ CloseDone
  BY <1>4 DEF CloseStarts, CloseStreams, CloseSessions, CloseDone, AllFit
<1> QED
  BY <1>1, <1>2, <1>3, <1>4 DEF CloseStep

-----------------------------------------------------------------------------
(* Additional sessions: the entry of a start is its call's, and there is    *)
(* room for every stream.                                                   *)

Room ==
    /\ extraLives \cap extraStarting = {}
    /\ \A s \in Station :
          /\ StreamBusy(s) => LiveLimit = 1 \/ s \in Standalone
          /\ ExtraBusy(s) => LiveLimit > 1 /\ s \notin Standalone /\ s \notin operations
          /\ IsFiniteSet(ExtraOf(s)) /\ Cardinality(ExtraOf(s)) <= LiveLimit

ExtrasInv == ExtrasHeld /\ Room

(* A call goes on with the same camera, or is not an additional start.      *)
SameExtra(k) ==
    \/ call'[k].op = call[k].op /\ call'[k].cam = call[k].cam
    \/ call[k].op # "extra" /\ call'[k].op # "extra" /\ k \notin transfers'

KeepsExtras ==
    /\ UNCHANGED <<extraLives, extraStarting>>
    /\ \A k \in Call : SameExtra(k)
    /\ transfers' \subseteq transfers \cup {k \in Call : call[k].op = "download"}
    /\ \A s \in Station :
          /\ lives'[s] # None \/ s \in starting' => StreamBusy(s) \/ LiveLimit = 1 \/ s \in Standalone
          /\ s \in operations' => s \in operations \/ ~ExtraBusy(s)

LEMMA KeepsExtrasInv ==
    ASSUME TypeOK, TypeOK', ExtrasInv, KeepsExtras
    PROVE ExtrasInv'
<1>1. \A c \in Camera : Opening(c)' = Opening(c)
  BY DEF KeepsExtras, SameExtra, Opening
<1>2. \A k \in transfers' : call'[k].op = "download"
  BY DEF KeepsExtras, SameExtra, ExtrasInv, ExtrasHeld, TypeOK
<1>3. ExtrasHeld'
  BY <1>1, <1>2 DEF KeepsExtras, ExtrasInv, ExtrasHeld
<1>4. \A s \in Station : ExtraOf(s)' = ExtraOf(s) /\ (ExtraBusy(s)' <=> ExtraBusy(s))
  BY DEF KeepsExtras, ExtraOf, ExtraBusy
<1>5. \A s \in Station : StreamBusy(s)' => StreamBusy(s) \/ LiveLimit = 1 \/ s \in Standalone
  BY DEF KeepsExtras, StreamBusy
<1>6. Room'
  BY <1>4, <1>5 DEF KeepsExtras, ExtrasInv, Room
<1> QED
  BY <1>3, <1>6 DEF ExtrasInv

(* A step that neither frees nor takes an entry, whatever it does to links. *)
LEMMA SameKeepsExtras ==
    ASSUME \A k \in Call : call'[k].op = call[k].op /\ call'[k].cam = call[k].cam,
           UNCHANGED <<extraLives, extraStarting, transfers, starting, operations>>,
           \A s \in Station : lives'[s] \in {lives[s], None}
    PROVE KeepsExtras
BY DEF KeepsExtras, SameExtra, StreamBusy

(* The calls in K end; none of them is an additional start.                 *)
LEMMA ReleaseKeepsExtras ==
    ASSUME NEW K \in SUBSET Call, Release(K),
           \A k \in K : call[k].op # "extra" /\ call'[k] = NoCall,
           \A k \in Call \ K : call'[k].op = call[k].op /\ call'[k].cam = call[k].cam,
           UNCHANGED <<extraLives, extraStarting>>,
           \A s \in Station : lives'[s] \in {lives[s], None}
    PROVE KeepsExtras
<1>1. \A k \in Call : SameExtra(k)
  BY DEF SameExtra, Release, NoCall
<1> QED
  BY <1>1 DEF KeepsExtras, StreamBusy, Release

(* A call begins that is not an additional start.                           *)
LEMMA BeginKeepsExtras ==
    ASSUME TypeOK, ExtrasInv, NEW k \in Call, NEW op \in Op \ {"extra"}, NEW s, NEW c, Begin(k, op, s, c),
           \A t \in Station :
              /\ t \in starting' => t \in starting \/ LiveLimit = 1 \/ t \in Standalone
              /\ t \in operations' => t \in operations \/ ~ExtraBusy(t)
    PROVE KeepsExtras
<1>1. /\ UNCHANGED <<extraLives, extraStarting, transfers, lives>>
      /\ call[k].op = "none" /\ call'[k].op # "extra"
      /\ \A j \in Call \ {k} : call'[j] = call[j]
  BY DEF Begin, Idle, NoCall, extras, streams, TypeOK
<1>2. k \notin transfers
  BY <1>1 DEF ExtrasInv, ExtrasHeld
<1>3. \A j \in Call : SameExtra(j)
  BY <1>1, <1>2 DEF SameExtra
<1> QED
  BY <1>1, <1>3 DEF KeepsExtras, StreamBusy

(* Room follows station by station.                                         *)
LEMMA RoomHolds ==
    ASSUME TypeOK, ExtrasInv, NEW s \in Station,
           extraLives' \cap extraStarting' = {},
           UNCHANGED <<operations, lives, starting>>,
           \A t \in Station \ {s} : ExtraOf(t)' = ExtraOf(t),
           ExtraOf(s)' \subseteq ExtraOf(s)
    PROVE Room'
<1>1. \A t \in Station : StreamBusy(t)' <=> StreamBusy(t)
  BY DEF StreamBusy
<1>2. \A t \in Station \ {s} : ExtraBusy(t)' <=> ExtraBusy(t)
  BY DEF ExtraBusy
<1>3. IsFiniteSet(ExtraOf(s)) /\ Cardinality(ExtraOf(s)) <= LiveLimit
  BY DEF ExtrasInv, Room
<1>4. /\ IsFiniteSet(ExtraOf(s)')
      /\ Cardinality(ExtraOf(s)') <= Cardinality(ExtraOf(s))
      /\ Cardinality(ExtraOf(s)) \in Nat /\ Cardinality(ExtraOf(s)') \in Nat
  BY <1>3, FS_Subset, FS_CardinalityType
<1>5. Cardinality(ExtraOf(s)') <= LiveLimit
  BY <1>3, <1>4, LiveLimitAssumption
<1>6. ExtraBusy(s)' => ExtraBusy(s)
  BY DEF ExtraBusy
<1> QED
  BY <1>1, <1>2, <1>4, <1>5, <1>6 DEF ExtrasInv, Room

LEMMA AddsExtras ==
    ASSUME TypeOK, ExtrasInv, NEW k \in Call, NEW c \in Camera, StartExtraLive(k, c)
    PROVE ExtrasInv'
<1> DEFINE s == OwnerOf[c]
<1> USE OwnerAssumption DEF StartExtraLive, session, reservations, streams
<1>1. /\ s \in Station /\ s \notin operations /\ LiveLimit > 1 /\ s \notin Standalone
      /\ c \notin extraLives /\ c \notin extraStarting /\ LiveCount(s) < LiveLimit
      /\ extraStarting' = extraStarting \cup {c}
      /\ call[k].op = "none" /\ call'[k].op = "extra" /\ call'[k].cam = c
      /\ \A j \in Call \ {k} : call'[j] = call[j]
      /\ UNCHANGED <<extraLives, lives, starting, operations, transfers>>
  BY DEF RecordingsBusy, TypeOK, Idle, NoCall
<1>2. Opening(c) = {} /\ Opening(c)' = {k}
  BY <1>1 DEF ExtrasInv, ExtrasHeld, Opening
<1>3. \A d \in Camera \ {c} : Opening(d)' = Opening(d)
  BY <1>1 DEF Opening
<1>4. \A j \in transfers' : call'[j].op = "download"
  BY <1>1 DEF ExtrasInv, ExtrasHeld
<1>5. ExtrasHeld'
  BY ONLY ExtrasInv, <1>1, <1>2, <1>3, <1>4 DEF ExtrasInv, ExtrasHeld
<1>6. ExtraOf(s)' = ExtraOf(s) \cup {c} /\ c \notin ExtraOf(s)
  BY <1>1 DEF ExtraOf, TypeOK
<1>7. \A t \in Station \ {s} : ExtraOf(t)' = ExtraOf(t) /\ (ExtraBusy(t)' <=> ExtraBusy(t))
  BY <1>1 DEF ExtraOf, ExtraBusy
<1>8. IsFiniteSet(ExtraOf(s)) /\ Cardinality(ExtraOf(s)) \in Nat
  BY <1>1, FS_CardinalityType DEF ExtrasInv, Room
<1>9. IsFiniteSet(ExtraOf(s)') /\ Cardinality(ExtraOf(s)') = Cardinality(ExtraOf(s)) + 1
  BY <1>6, <1>8, FS_AddElement
<1>10. LiveCount(s) \in {Cardinality(ExtraOf(s)), Cardinality(ExtraOf(s)) + 1}
  BY <1>8 DEF LiveCount
<1>11. Cardinality(ExtraOf(s)') <= LiveLimit
  BY ONLY <1>1, <1>8, <1>9, <1>10, LiveLimitAssumption
<1>12. \A t \in Station : StreamBusy(t)' <=> StreamBusy(t)
  BY <1>1 DEF StreamBusy
<1>13. extraLives' \cap extraStarting' = {}
  BY <1>1 DEF ExtrasInv, Room
<1>14. Room'
  BY ONLY ExtrasInv, <1>1, <1>7, <1>9, <1>11, <1>12, <1>13 DEF ExtrasInv, Room
<1> QED
  BY <1>5, <1>14 DEF ExtrasInv

LEMMA MovesExtras ==
    ASSUME TypeOK, AllFit, ExtrasInv, NEW k \in Call, NEW c \in Camera, ExtraStart(k, c)
    PROVE ExtrasInv'
<1> USE OwnerAssumption DEF ExtraStart, ExtraAt, Return, session, reservations, streams
<1>1. /\ call[k].op = "extra" /\ call[k].cam = c /\ call'[k].op = "none"
      /\ \A j \in Call \ {k} : call'[j] = call[j]
      /\ UNCHANGED <<lives, starting, operations, transfers>>
  BY DEF TypeOK, NoCall
<1>2. Opening(c) = {k} /\ Opening(c)' = {} /\ c \in extraStarting
  BY <1>1 DEF ExtrasInv, ExtrasHeld, Opening
<1>3. \A d \in Camera \ {c} : Opening(d)' = Opening(d)
  BY <1>1 DEF Opening
<1>4. \A j \in transfers' : call'[j].op = "download"
  BY <1>1 DEF ExtrasInv, ExtrasHeld, TypeOK
<1>5. ExtrasHeld'
  BY <1>2, <1>3, <1>4 DEF ExtrasInv, ExtrasHeld
<1>6. \A t \in Station : ExtraOf(t)' = ExtraOf(t)
  BY <1>2 DEF ExtraOf
<1>7. extraLives' \cap extraStarting' = {}
  BY DEF ExtrasInv, Room
<1>8. OwnerOf[c] \in Station
  OBVIOUS
<1>9. Room'
  BY <1>1, <1>6, <1>7, <1>8, RoomHolds
<1> QED
  BY <1>5, <1>9 DEF ExtrasInv

LEMMA DropsExtras ==
    ASSUME TypeOK, AllFit, ExtrasInv, NEW k \in Call, ExtraDisposed(k)
    PROVE ExtrasInv'
<1> USE OwnerAssumption DEF ExtraDisposed, ExtraAt, Return, session, reservations, streams
<1>c. PICK c \in Camera : call[k].cam = c
  BY DEF AllFit, Fits
<1>1. /\ call[k].op = "extra" /\ call'[k].op = "none" /\ c \in Camera /\ call[k].cam = c
      /\ extraStarting' = extraStarting \ {c}
      /\ \A j \in Call \ {k} : call'[j] = call[j]
      /\ UNCHANGED <<extraLives, lives, starting, operations, transfers>>
  BY <1>c DEF TypeOK, NoCall
<1>2. Opening(c) = {k} /\ Opening(c)' = {}
  BY <1>1, ExtrasInv DEF ExtrasInv, ExtrasHeld, Opening
<1>3. \A d \in Camera \ {c} : Opening(d)' = Opening(d)
  BY <1>1 DEF Opening
<1>4. \A j \in transfers' : call'[j].op = "download"
  BY <1>1 DEF ExtrasInv, ExtrasHeld, TypeOK
<1>5. ExtrasHeld'
  BY ExtrasInv, <1>1, <1>2, <1>3, <1>4 DEF ExtrasInv, ExtrasHeld
<1>6. /\ \A t \in Station \ {OwnerOf[c]} : ExtraOf(t)' = ExtraOf(t)
      /\ ExtraOf(OwnerOf[c])' \subseteq ExtraOf(OwnerOf[c])
  BY <1>1 DEF ExtraOf
<1>7. extraLives' \cap extraStarting' = {}
  BY <1>1 DEF ExtrasInv, Room
<1>8. OwnerOf[c] \in Station
  BY <1>1
<1>9. Room'
  BY TypeOK, ExtrasInv, <1>1, <1>6, <1>7, <1>8, RoomHolds
<1> QED
  BY <1>5, <1>9 DEF ExtrasInv

LEMMA CallExtras ==
    ASSUME Ownership, AllFit, TypeOK', ExtrasInv, NEW k \in Call, CallStep(k)
    PROVE ExtrasInv'
<1> USE OwnerAssumption DEF Ownership, Goto, Return, TypeOK, CallType, NoCall, ExtraAt,
        streams, extras, owners, session, reservations
<1>0. ASSUME KeepsExtras PROVE ExtrasInv'
  BY <1>0, KeepsExtrasInv
<1>1. ASSUME NEW c \in Camera, StartLive(k, c) PROVE KeepsExtras
  BY <1>1, BeginKeepsExtras DEF StartLive, Op
<1>2. ASSUME NEW c \in Camera, EnsureLiveStopped(k, c) PROVE KeepsExtras
  BY <1>2, BeginKeepsExtras DEF EnsureLiveStopped, Op, CommandOp
<1>3. ASSUME NEW s \in Station, NEW op \in {"guard", "preset"}, StartCommand(k, op, s)
      PROVE KeepsExtras
  BY <1>3, BeginKeepsExtras DEF StartCommand, Op, CommandOp
<1>4. ASSUME NEW s \in Station, NEW op \in HistoryOp, StartHistory(k, op, s) PROVE KeepsExtras
  BY <1>4, BeginKeepsExtras DEF StartHistory, Op, HistoryOp
<1>5. ASSUME NEW s \in Station, Peek(k, s) PROVE KeepsExtras
  BY <1>5, BeginKeepsExtras DEF Peek, Op
<1>6. ASSUME NEW c \in Camera, EnsureAborted(k, c) PROVE KeepsExtras
  <2>1. call[k].op = "none" /\ k \notin transfers
    BY <1>6 DEF EnsureAborted, Idle, ExtrasInv, ExtrasHeld
  <2>2. \A j \in Call : SameExtra(j)
    BY <1>6, <2>1 DEF EnsureAborted, SameExtra
  <2> QED
    BY <1>6, <2>2 DEF EnsureAborted, KeepsExtras, StreamBusy
<1>7. CASE Answered(k) \/ PresetRefused(k) \/ TransferCompletes(k) \/ LivestreamStart(k)
           \/ DeafReturns(k) \/ (StopConfirmed(k) /\ call[k].op # "ensure")
  <2> SUFFICES KeepsExtras
    BY <1>0
  <2>1. call[k].op # "extra" /\ Return(k) /\ Release({k}) /\ UNCHANGED <<extraLives, extraStarting>>
    BY <1>7 DEF Answered, PresetRefused, TransferCompletes, LivestreamStart, DeafReturns,
                StopConfirmed, AllFit, Fits, ExtraPc
  <2>0. \A j \in Call \ {k} : call'[j].op = call[j].op /\ call'[j].cam = call[j].cam
    BY <2>1
  <2>2. CASE UNCHANGED lives
    <3>1. call'[k] = NoCall /\ \A s \in Station : lives'[s] \in {lives[s], None}
      BY <2>1, <2>2
    <3> QED
      BY ONLY <2>0, <2>1, <3>1, ReleaseKeepsExtras
  <2>3. CASE LivestreamStart(k)
    <3>1. call[k].st \in starting /\ \A s \in Station \ {call[k].st} : lives'[s] = lives[s]
      BY <2>3 DEF LivestreamStart, OwnersHeld, Pending, On, AllFit, Fits
    <3>2. \A j \in Call : SameExtra(j)
      BY <2>1 DEF SameExtra, Release
    <3>3. /\ transfers' \subseteq transfers /\ starting' \subseteq starting
          /\ operations' \subseteq operations
      BY ONLY <2>1 DEF Release
    <3>4. \A s \in Station : lives'[s] # None \/ s \in starting' => StreamBusy(s)
      BY ONLY <3>1, <3>3 DEF StreamBusy
    <3> QED
      BY ONLY <2>1, <3>2, <3>3, <3>4 DEF KeepsExtras
  <2> QED
    BY <1>7, <2>2, <2>3 DEF Answered, PresetRefused, TransferCompletes, DeafReturns, StopConfirmed
<1>8. CASE PeekReturns(k)
  <2> SUFFICES KeepsExtras
    BY <1>0
  <2>1. k \notin transfers
    BY <1>8 DEF PeekReturns, ExtrasInv, ExtrasHeld
  <2>2. \A j \in Call : SameExtra(j)
    <3>1. call[k].op = "peek" /\ k \notin transfers' /\ call'[k].op = "none"
      BY <1>8, <2>1 DEF PeekReturns
    <3>2. \A j \in Call \ {k} : call'[j] = call[j]
      BY <1>8 DEF PeekReturns
    <3> QED
      BY ONLY <3>1, <3>2 DEF SameExtra
  <2>3. UNCHANGED <<extraLives, extraStarting, transfers, lives, starting, operations>>
    BY <1>8 DEF PeekReturns
  <2> QED
    BY ONLY <2>2, <2>3 DEF KeepsExtras, StreamBusy
<1>9. CASE RequestFails(k) \/ TransferFails(k) \/ ConnectFails(k) \/ StartFails(k)
           \/ StopUnconfirmed(k) \/ ExtraReady(k) \/ ExtraFails(k)
           \/ (StopConfirmed(k) /\ call[k].op = "ensure")
  <2> SUFFICES KeepsExtras
    BY <1>0
  <2>1. \A j \in Call : call'[j].op = call[j].op /\ call'[j].cam = call[j].cam
    BY <1>9 DEF RequestFails, TransferFails, ConnectFails, StartFails, StopUnconfirmed,
       ExtraReady, ExtraFails, StopConfirmed
  <2>2. UNCHANGED <<extraLives, extraStarting, transfers, starting, operations, lives>>
    BY <1>9 DEF RequestFails, TransferFails, ConnectFails, StartFails, StopUnconfirmed,
       ExtraReady, ExtraFails, StopConfirmed
  <2> QED
    BY ONLY <2>1, <2>2, SameKeepsExtras
<1>10. CASE TransferStarts(k)
  <2> SUFFICES KeepsExtras
    BY <1>0
  <2>1. \A j \in Call : SameExtra(j)
    BY <1>10 DEF TransferStarts, SameExtra
  <2>2. /\ transfers' = transfers \cup {k} /\ call[k].op = "download"
        /\ UNCHANGED <<extraLives, extraStarting, lives, starting, operations>>
    BY <1>10 DEF TransferStarts
  <2> QED
    BY ONLY <2>1, <2>2 DEF KeepsExtras, StreamBusy
<1>11. ASSUME NEW c \in Camera, StartExtraLive(k, c) PROVE ExtrasInv'
  BY <1>11, AddsExtras DEF StartExtraLive
<1>12. ASSUME NEW c \in Camera, ExtraStart(k, c) PROVE ExtrasInv'
  BY <1>12, MovesExtras DEF ExtraStart
<1>13. CASE ExtraDisposed(k)
  BY <1>13, DropsExtras DEF ExtraDisposed, AllFit, Fits
<1> QED
  BY <1>0, <1>1, <1>2, <1>3, <1>4, <1>5, <1>6, <1>7, <1>8, <1>9, <1>10, <1>11, <1>12, <1>13
     DEF CallStep

LEMMA SessionExtras ==
    ASSUME Ownership, AllFit, TypeOK', ExtrasInv, NEW s \in Station, SessionStep(s)
    PROVE ExtrasInv'
<1> USE DEF Ownership, TypeOK, CallType, streams, extras, owners, session, reservations
<1>1. SUFFICES KeepsExtras
  BY KeepsExtrasInv
<1>2. CASE SessionUp(s) \/ SessionReconnect(s) \/ StopLive(s) \/ FinishLive(s)
           \/ StopTimeout(s) \/ StopRefused(s)
  BY <1>2, SameKeepsExtras DEF SessionUp, SessionReconnect, StopLive, FinishLive, StopTimeout,
       StopRefused, EndLive
<1>3. CASE KeyReady(s)
  <2> DEFINE renewed == {k \in On(s) : call[k].pc = "reconnect"}
  <2>1. renewed \in SUBSET Call /\ Release(renewed)
    BY <1>3 DEF KeyReady, On
  <2>2. \A k \in renewed : call[k].op # "extra"
    BY OnFits DEF Linking
  <2>3. /\ \A k \in renewed : call'[k] = NoCall
        /\ \A k \in Call \ renewed : call'[k].op = call[k].op /\ call'[k].cam = call[k].cam
    BY <1>3 DEF KeyReady, On
  <2>4. UNCHANGED <<extraLives, extraStarting, lives>>
    BY <1>3 DEF KeyReady
  <2> HIDE DEF renewed
  <2> QED
    BY <2>1, <2>2, <2>3, <2>4, ReleaseKeepsExtras
<1>4. CASE DialFails(s)
  BY <1>4, SameKeepsExtras DEF DialFails
<1>5. CASE LinkLost(s) \/ CloseEnd(s)
  <2>1. Ended(s) /\ UNCHANGED <<reservations, extras>>
    BY <1>5 DEF LinkLost, CloseEnd
  <2> QED
    BY <2>1, SameKeepsExtras DEF Ended
<1>6. CASE SocketClosed(s)
  <2> DEFINE failed == IF link[s] = "opening"
                      THEN {k \in On(s) : call[k].pc \in {"connect", "reconnect", "confirm"}}
                      ELSE {}
            ended == failed \cup {k \in On(s) : call[k].pc \in {"drop", "close"}}
            renewing == {k \in On(s) : call[k].pc = "renew"}
            pc == IF s \in disposing THEN "deafConnect" ELSE "reconnect"
  <2>1. PICK again \in SUBSET renewing :
          /\ call' = [k \in Call |-> IF k \in again THEN [call[k] EXCEPT !.pc = pc]
                                    ELSE IF k \in ended \cup (renewing \ again) THEN NoCall
                                    ELSE call[k]]
          /\ Release(ended \cup (renewing \ again))
    BY <1>6 DEF SocketClosed
  <2> DEFINE released == ended \cup (renewing \ again)
  <2>2. released \in SUBSET Call /\ released \cap again = {}
    BY DEF On
  <2>3. \A k \in released : call'[k] = NoCall /\ call[k].op # "extra"
    <3>1. \A k \in released : /\ k \in On(s) /\ k \in Call
                             /\ call[k].pc \in {"connect", "reconnect", "confirm", "drop", "close", "renew"}
      BY DEF On
    <3>2. \A k \in released : call[k].op # "extra"
      BY <3>1 DEF AllFit, Fits, ExtraPc
    <3> QED
      BY <2>1, <2>2, <3>2
  <2>4. \A k \in Call \ released : call'[k].op = call[k].op /\ call'[k].cam = call[k].cam
    BY <2>1, <2>2
  <2>5. UNCHANGED <<extraLives, extraStarting, lives>>
    BY <1>6 DEF SocketClosed
  <2> HIDE DEF released
  <2> QED
    BY <2>1, <2>2, <2>3, <2>4, <2>5, ReleaseKeepsExtras DEF released
<1> QED
  BY <1>2, <1>3, <1>4, <1>5, <1>6 DEF SessionStep

LEMMA OtherExtras ==
    ASSUME Ownership, AllFit, TypeOK', ExtrasInv,
           (\E c \in Camera : ExtraStep(c)) \/ LoadStep \/ CloseStep
    PROVE ExtrasInv'
<1> USE OwnerAssumption
    DEF Ownership, TypeOK, CallType, streams, extras, owners, session, reservations
<1>1. ASSUME KeepsExtras PROVE ExtrasInv'
  BY <1>1, KeepsExtrasInv
<1>2. ASSUME NEW c \in Camera, StopExtraLive(c) PROVE KeepsExtras
  BY <1>2, SameKeepsExtras DEF StopExtraLive
<1>3. ASSUME NEW c \in Camera, FinishExtraLive(c) PROVE ExtrasInv'
  <2>1. /\ UNCHANGED <<extraStarting, lives, starting, operations, transfers, call>>
        /\ extraLives' = extraLives \ {c}
    BY <1>3 DEF FinishExtraLive
  <2>2. /\ \A t \in Station \ {OwnerOf[c]} : ExtraOf(t)' = ExtraOf(t)
        /\ ExtraOf(OwnerOf[c])' \subseteq ExtraOf(OwnerOf[c])
    BY <2>1 DEF ExtraOf
  <2>3. extraLives' \cap extraStarting' = {} /\ OwnerOf[c] \in Station
    BY <2>1 DEF ExtrasInv, Room
  <2>4. Room'
    BY <2>1, <2>2, <2>3, RoomHolds
  <2>5. ExtrasHeld'
    BY <2>1 DEF ExtrasInv, ExtrasHeld, Opening
  <2> QED
    BY <2>4, <2>5 DEF ExtrasInv
<1>4. CASE LoadStep
  <2>1. PICK s : Dispose(s)
    BY <1>4 DEF LoadStep, Load, LoadNext
  <2>2. KeepsExtras
    BY <2>1, SameKeepsExtras DEF Dispose
  <2> QED
    BY <1>1, <2>2
<1>5. CASE CloseBegin
  <2>1. \A k \in Call : SameExtra(k)
    <3> SUFFICES ASSUME NEW k \in Call PROVE SameExtra(k)
      OBVIOUS
    <3>1. CASE call[k].pc = "wait" /\ call[k].op = "peek"
      BY <1>5, <3>1 DEF CloseBegin, SameExtra, NoCall, ExtrasInv, ExtrasHeld
    <3>2. CASE ~(call[k].pc = "wait" /\ call[k].op = "peek")
      BY <1>5, <3>2 DEF CloseBegin, SameExtra
    <3> QED
      BY <3>1, <3>2
  <2>2. KeepsExtras
    BY <1>5, <2>1 DEF CloseBegin, KeepsExtras, StreamBusy
  <2> QED
    BY <1>1, <2>2
<1>6. CASE CloseStarts \/ CloseStreams \/ CloseSessions \/ CloseDone
  BY <1>1, <1>6, SameKeepsExtras DEF CloseStarts, CloseStreams, CloseSessions, CloseDone
<1> QED
  BY <1>1, <1>2, <1>3, <1>4, <1>5, <1>6 DEF CloseStep, ExtraStep

LEMMA InitExtras == Init => AllFit /\ ExtrasInv
<1> SUFFICES ASSUME Init PROVE AllFit /\ ExtrasInv
  OBVIOUS
<1>1. AllFit
  BY NoCallFits DEF Init, AllFit
<1>2. \A c \in Camera : Opening(c) = {}
  BY DEF Init, Opening, NoCall
<1>3. ExtrasHeld
  BY <1>2 DEF Init, ExtrasHeld
<1>4. \A s \in Station : ExtraOf(s) = {} /\ ~ExtraBusy(s) /\ ~StreamBusy(s)
  BY DEF Init, ExtraOf, ExtraBusy, StreamBusy
<1>5. Room
  BY <1>4, FS_EmptySet, LiveLimitAssumption DEF Init, Room
<1> QED
  BY <1>1, <1>3, <1>5 DEF ExtrasInv

LEMMA StepExtras ==
    Ownership /\ AllFit /\ ExtrasInv /\ [Next]_vars => AllFit' /\ ExtrasInv'
<1> SUFFICES ASSUME Ownership, AllFit, ExtrasInv, [Next]_vars PROVE AllFit' /\ ExtrasInv'
  OBVIOUS
<1>1. TypeOK /\ TypeOK'
  BY StepTyping DEF Ownership
<1>2. CASE Next
  <2>1. AllFit'
    BY <1>1, <1>2, CallFits, SessionFits, OtherFits DEF Next
  <2>2. ExtrasInv'
    BY <1>1, <1>2, CallExtras, SessionExtras, OtherExtras DEF Next
  <2> QED
    BY <2>1, <2>2
<1>3. CASE UNCHANGED vars
  <2>1. AllFit'
    BY <1>3 DEF AllFit, vars
  <2>2. ExtrasInv'
    BY <1>1, <1>3, SameKeepsExtras, KeepsExtrasInv
       DEF vars, streams, extras, reservations
  <2> QED
    BY <2>1, <2>2
<1> QED
  BY <1>2, <1>3

-----------------------------------------------------------------------------
(* Connection attempts: one per station, and its reservation is its call's. *)

SameLinker(k) ==
    /\ call'[k].pc \in Linking <=> call[k].pc \in Linking
    /\ call[k].pc \in Linking => call'[k].st = call[k].st

LEMMA KeepsLinkers ==
    ASSUME LinkersHeld, UNCHANGED connecting, \A k \in Call : SameLinker(k)
    PROVE LinkersHeld'
<1>1. \A s \in Station : Linkers(s)' = Linkers(s)
  BY DEF SameLinker, Linkers, On
<1> QED
  BY <1>1 DEF LinkersHeld

(* Only what happens at one station is left to look at.                     *)
LEMMA LinkersAt ==
    ASSUME TypeOK, LinkersHeld, NEW s \in Station,
           \A k \in Call \ On(s) : SameLinker(k) \/ (call[k].pc \notin Linking /\ call'[k].st = s),
           \A k \in On(s) : call'[k].st = s \/ call'[k].pc \notin Linking,
           \A t \in Station \ {s} : t \in connecting' <=> t \in connecting,
           s \in connecting' <=> Linkers(s)' # {},
           \A j, k \in Linkers(s)' : j = k
    PROVE LinkersHeld'
<1>1. ASSUME NEW t \in Station \ {s} PROVE Linkers(t)' = Linkers(t)
  <2>1. ASSUME NEW k \in Call PROVE k \in Linkers(t)' <=> k \in Linkers(t)
    BY <1>1 DEF SameLinker, Linkers, On
  <2> QED
    BY <2>1 DEF Linkers, On
<1> QED
  BY <1>1 DEF LinkersHeld

(* A call takes the attempt of a station that has none.                     *)
LEMMA TakesLinker ==
    ASSUME TypeOK, LinkersHeld, NEW k \in Call, Idle(k), NEW s \in Station, s \notin connecting,
           call'[k].st = s, call'[k].pc \in Linking, connecting' = connecting \cup {s},
           \A j \in Call \ {k} : call'[j] = call[j]
    PROVE LinkersHeld'
<1>1. call[k].pc \notin Linking /\ Linkers(s) = {}
  BY DEF Idle, NoCall, Linking, LinkersHeld
<1>2. Linkers(s)' = {k}
  BY <1>1 DEF Linkers, On
<1>3. \A j \in Call \ {k} : SameLinker(j)
  BY DEF SameLinker
<1>4. \A j \in On(s) : call'[j].st = s \/ call'[j].pc \notin Linking
  BY DEF On
<1> QED
  BY <1>1, <1>2, <1>3, <1>4, LinkersAt

(* A call begins with an attempt of its own, or on a connected session.     *)
LEMMA BeginLinkers ==
    ASSUME TypeOK, LinkersHeld, NEW k \in Call, NEW op, NEW s \in Station, NEW c, Begin(k, op, s, c)
    PROVE LinkersHeld'
<1>1. CASE Connected(s)
  <2>1. UNCHANGED connecting /\ \A j \in Call \ {k} : call'[j] = call[j]
    BY <1>1 DEF Begin, TypeOK
  <2>2. SameLinker(k)
    BY <1>1 DEF Begin, TypeOK, Idle, NoCall, SameLinker, RequestPc, Linking
  <2> QED
    BY <2>1, <2>2, KeepsLinkers DEF SameLinker
<1>2. CASE ~Connected(s)
  BY <1>2, TakesLinker DEF Begin, TypeOK, Linking
<1> QED
  BY <1>1, <1>2

LEMMA CallLinkers ==
    ASSUME TypeOK, AllFit, LinkersHeld, NEW k \in Call, CallStep(k)
    PROVE LinkersHeld'
<1> USE OwnerAssumption DEF Goto, Return, TypeOK, CallType, NoCall, ExtraAt, reservations,
        SameLinker, Linking
<1>1. ASSUME NEW c \in Camera, StartLive(k, c) \/ EnsureLiveStopped(k, c) PROVE LinkersHeld'
  BY <1>1, BeginLinkers DEF StartLive, EnsureLiveStopped
<1>2. ASSUME NEW s \in Station, NEW op \in Op, StartCommand(k, op, s) \/ StartHistory(k, op, s)
      PROVE LinkersHeld'
  BY <1>2, BeginLinkers DEF StartCommand, StartHistory
<1>3. ASSUME NEW s \in Station, Peek(k, s) PROVE LinkersHeld'
  BY <1>3, BeginLinkers DEF Peek
<1>4. ASSUME NEW c \in Camera, EnsureAborted(k, c) PROVE LinkersHeld'
  <2>1. CASE Connected(OwnerOf[c])
    BY <1>4, <2>1, KeepsLinkers DEF EnsureAborted, Idle
  <2>2. CASE ~Connected(OwnerOf[c])
    BY <1>4, <2>2, TakesLinker DEF EnsureAborted, Idle
  <2> QED
    BY <2>1, <2>2
<1>5. ASSUME NEW c \in Camera, StartExtraLive(k, c) \/ ExtraStart(k, c) PROVE LinkersHeld'
  BY <1>5, KeepsLinkers DEF StartExtraLive, ExtraStart, Idle
<1>6. CASE Answered(k) \/ RequestFails(k) \/ PresetRefused(k) \/ PeekReturns(k)
           \/ TransferStarts(k) \/ TransferCompletes(k) \/ TransferFails(k) \/ ConnectFails(k)
  BY <1>6, KeepsLinkers DEF Answered, RequestFails, PresetRefused, PeekReturns, TransferStarts,
       TransferCompletes, TransferFails, ConnectFails
<1>7. CASE LivestreamStart(k) \/ StartFails(k) \/ StopConfirmed(k) \/ StopUnconfirmed(k)
           \/ ExtraReady(k) \/ ExtraFails(k) \/ ExtraDisposed(k)
  BY <1>7, KeepsLinkers DEF LivestreamStart, StartFails, StopConfirmed, StopUnconfirmed,
       ExtraReady, ExtraFails, ExtraDisposed
<1>8. CASE DeafReturns(k)
  <2>1. CASE call[k].pc = "deaf"
    BY <1>8, <2>1, KeepsLinkers DEF DeafReturns
  <2>2. CASE call[k].pc = "deafConnect"
    <3>1. PICK s \in Station : call[k].st = s
      BY <2>2 DEF AllFit, Fits
    <3>2. Linkers(s) = {k}
      BY <2>2, <3>1 DEF LinkersHeld, Linkers, On
    <3>3. Linkers(s)' = {} /\ connecting' = connecting \ {s}
      BY <1>8, <2>2, <3>1, <3>2 DEF DeafReturns, Linkers, On
    <3>4. \A j \in Call \ {k} : call'[j] = call[j]
      BY <1>8 DEF DeafReturns
    <3>5. call'[k].pc \notin Linking
      BY <1>8 DEF DeafReturns
    <3> QED
      BY <3>1, <3>3, <3>4, <3>5, LinkersAt DEF On
  <2> QED
    BY <1>8, <2>1, <2>2 DEF DeafReturns
<1> QED
  BY <1>1, <1>2, <1>3, <1>4, <1>5, <1>6, <1>7, <1>8 DEF CallStep, Op, CommandOp

LEMMA SessionLinkers ==
    ASSUME Ownership, AllFit, LinkersHeld, NEW s \in Station, SessionStep(s)
    PROVE LinkersHeld'
<1> USE DEF Ownership, TypeOK, CallType, NoCall, reservations, SameLinker, Linking
<1>1. CASE SessionUp(s) \/ SessionReconnect(s) \/ StopLive(s) \/ FinishLive(s)
           \/ StopTimeout(s) \/ StopRefused(s)
  <2>1. UNCHANGED <<call, connecting>>
    BY <1>1 DEF SessionUp, SessionReconnect, StopLive, FinishLive, StopTimeout, StopRefused, EndLive
  <2> QED
    BY <2>1, KeepsLinkers
<1>2. CASE KeyReady(s)
  <2> DEFINE renewed == {k \in On(s) : call[k].pc = "reconnect"}
             ready == {k \in On(s) : call[k].pc = "connect"}
  <2>1. \A k \in Call \ (renewed \cup ready) : call'[k] = call[k]
    BY <1>2 DEF KeyReady
  <2>2. \A k \in renewed \cup ready : call'[k].pc \notin Linking
    BY <1>2 DEF KeyReady, On, RequestPc
  <2>3. renewed \cup ready \subseteq Linkers(s)
    BY DEF Linkers
  <2>4. CASE renewed \cup ready = {}
    BY <1>2, <2>1, <2>4, KeepsLinkers DEF KeyReady
  <2>5. CASE renewed \cup ready # {}
    <3>1. connecting' = connecting \ {s}
      BY <1>2, <2>5 DEF KeyReady
    <3>2. Linkers(s) = renewed \cup ready
      BY <2>3, <2>5 DEF LinkersHeld
    <3>3. Linkers(s)' = {}
      BY <2>1, <2>2, <3>2 DEF Linkers, On
    <3>4. \A k \in On(s) : call'[k].st = s \/ call'[k].pc \notin Linking
      BY <2>1, <2>2 DEF On
    <3>5. \A k \in Call \ On(s) : SameLinker(k)
      BY <2>1
    <3> HIDE DEF renewed, ready
    <3> QED
      BY <3>1, <3>3, <3>4, <3>5, LinkersAt
  <2> QED
    BY <2>4, <2>5
<1>3. CASE DialFails(s)
  BY <1>3, KeepsLinkers DEF DialFails, On
<1>4. CASE LinkLost(s) \/ CloseEnd(s)
  <2>1. Ended(s) /\ UNCHANGED connecting
    BY <1>4 DEF LinkLost, CloseEnd
  <2>2. \A k \in Call : SameLinker(k)
    BY <2>1 DEF Ended, Linked, Stopping, Failing, On, Pending
  <2> QED
    BY <2>1, <2>2, KeepsLinkers
<1>5. CASE SocketClosed(s)
  <2> DEFINE failed == IF link[s] = "opening"
                      THEN {k \in On(s) : call[k].pc \in {"connect", "reconnect", "confirm"}}
                      ELSE {}
            ended == failed \cup {k \in On(s) : call[k].pc \in {"drop", "close"}}
            renewing == {k \in On(s) : call[k].pc = "renew"}
            pc == IF s \in disposing THEN "deafConnect" ELSE "reconnect"
            linkers == {k \in ended : call[k].pc \in Linking}
  <2>1. PICK again \in SUBSET renewing :
          /\ again # {} => (s \in connecting => linkers # {})
          /\ call' = [k \in Call |-> IF k \in again THEN [call[k] EXCEPT !.pc = pc]
                                    ELSE IF k \in ended \cup (renewing \ again) THEN NoCall
                                    ELSE call[k]]
          /\ connecting' = IF again # {} THEN connecting \cup {s}
                          ELSE IF linkers # {} THEN connecting \ {s}
                          ELSE connecting
    BY <1>5 DEF SocketClosed
  <2>2. renewing \cap ended = {} /\ ended \subseteq On(s) /\ renewing \subseteq On(s)
        /\ On(s) \subseteq Call
    BY DEF On
  <2>3. linkers \subseteq Linkers(s)
    BY DEF Linkers, On
  <2>4. \A j, k \in renewing : j = k
    <3>1. renewing \subseteq Pending(s, ExclusiveOp)
      BY OnFits DEF Pending, ExclusiveOp, CommandOp
    <3> QED
      BY <3>1 DEF OneOwner
  <2>5. \A k \in Call \ On(s) : SameLinker(k)
    BY <2>1, <2>2
  <2>6. \A k \in On(s) : call'[k].st = s \/ call'[k].pc \notin Linking
    BY <2>1, <2>2 DEF On
  <2>7. \A k \in again : k \in Linkers(s)'
    BY <2>1, <2>2 DEF Linkers, On
  <2>8. \A k \in Linkers(s)' : k \in again \/ (k \in Linkers(s) /\ k \notin linkers)
    BY <2>1, <2>2, NoneAssumption DEF Linkers, On
  <2>9. \A k \in Linkers(s) : k \in linkers \/ k \in Linkers(s)'
    BY <2>1, <2>2 DEF Linkers, On
  <2>10. linkers # {} => linkers = Linkers(s)
    BY <2>3 DEF LinkersHeld
  <2>11. s \in connecting <=> Linkers(s) # {}
    BY DEF LinkersHeld
  <2>12. s \in connecting' <=> Linkers(s)' # {}
    <3> HIDE DEF linkers
    <3> QED
      BY <2>1, <2>7, <2>8, <2>9, <2>10, <2>11
  <2>13. \A j, k \in Linkers(s)' : j = k
    <3> HIDE DEF linkers
    <3>1. \A j, k \in Linkers(s) : j = k
      BY DEF LinkersHeld
    <3> QED
      BY <2>1, <2>4, <2>8, <2>10, <2>11, <3>1
  <2>14. \A t \in Station \ {s} : t \in connecting' <=> t \in connecting
    BY <2>1
  <2> HIDE DEF linkers, pc, renewing, ended
  <2> QED
    BY <2>5, <2>6, <2>12, <2>13, <2>14, LinkersAt
<1> QED
  BY <1>1, <1>2, <1>3, <1>4, <1>5 DEF SessionStep

LEMMA OtherLinkers ==
    ASSUME TypeOK, LinkersHeld, (\E c \in Camera : ExtraStep(c)) \/ LoadStep \/ CloseStep
    PROVE LinkersHeld'
<1> USE DEF TypeOK, CallType, reservations, SameLinker, Linking
<1>1. ASSUME NEW c \in Camera, ExtraStep(c) PROVE LinkersHeld'
  BY <1>1, KeepsLinkers DEF ExtraStep, StopExtraLive, FinishExtraLive
<1>2. CASE LoadStep
  <2>1. PICK s : Dispose(s)
    BY <1>2 DEF LoadStep, Load, LoadNext
  <2> QED
    BY <2>1, KeepsLinkers DEF Dispose, Linked
<1>3. CASE CloseBegin
  BY <1>3, KeepsLinkers DEF CloseBegin, NoCall
<1>4. CASE CloseStarts \/ CloseStreams \/ CloseSessions \/ CloseDone
  BY <1>4, KeepsLinkers DEF CloseStarts, CloseStreams, CloseSessions, CloseDone
<1> QED
  BY <1>1, <1>2, <1>3, <1>4 DEF CloseStep

-----------------------------------------------------------------------------
(* All reservations together.                                               *)

Reserved == Ownership /\ AllFit /\ ExtrasInv /\ LinkersHeld

LEMMA InitReserved == Init => Reserved
<1> SUFFICES ASSUME Init PROVE Reserved
  OBVIOUS
<1>1. \A s \in Station : Linkers(s) = {}
  BY NoneAssumption DEF Init, Linkers, On, NoCall
<1>2. LinkersHeld
  BY <1>1 DEF Init, LinkersHeld
<1> QED
  BY <1>2, InitOwners, InitExtras DEF Reserved

LEMMA StepReserved == Reserved /\ [Next]_vars => Reserved'
<1> SUFFICES ASSUME Reserved, [Next]_vars PROVE Reserved'
  OBVIOUS
<1>1. Ownership /\ AllFit /\ ExtrasInv /\ LinkersHeld /\ TypeOK
  BY DEF Reserved, Ownership
<1>2. Ownership' /\ AllFit' /\ ExtrasInv'
  BY <1>1, StepOwners, StepExtras
<1>3. CASE Next
  BY <1>1, <1>2, <1>3, CallLinkers, SessionLinkers, OtherLinkers DEF Next, Reserved
<1>4. CASE UNCHANGED vars
  BY <1>1, <1>2, <1>4, KeepsLinkers DEF vars, reservations, SameLinker, Reserved
<1> QED
  BY <1>3, <1>4

LEMMA ReservedIsExact == Reserved => ReservationsExact
<1> SUFFICES ASSUME Reserved PROVE ReservationsExact
  OBVIOUS
<1>1. Ownership /\ ExtrasInv /\ LinkersHeld
  BY DEF Reserved
<1>2. ReservationsOwned
  BY <1>1 DEF ReservationsOwned, Ownership, ExtrasInv
<1>3. ASSUME NEW s \in Station PROVE LiveCount(s) <= LiveLimit
  <2>1. /\ Cardinality(ExtraOf(s)) \in Nat /\ Cardinality(ExtraOf(s)) <= LiveLimit
        /\ StreamBusy(s) => ~ExtraBusy(s)
    BY <1>1, FS_CardinalityType, LiveLimitAssumption DEF ExtrasInv, Room
  <2>2. CASE StreamBusy(s)
    <3>1. Cardinality(ExtraOf(s)) = 0
      BY <2>1, <2>2, FS_EmptySet DEF ExtraBusy
    <3> QED
      BY <2>2, <3>1, LiveLimitAssumption DEF LiveCount, StreamBusy
  <2>3. CASE ~StreamBusy(s)
    BY <2>1, <2>3, LiveLimitAssumption DEF LiveCount, StreamBusy
  <2> QED
    BY <2>2, <2>3
<1>4. ASSUME NEW s \in Station, RecordingsBusy(s) PROVE ~StreamBusy(s) /\ ~ExtraBusy(s)
  <2>1. Pending(s, HistoryOp) # {}
    BY <1>1, <1>4 DEF Ownership, OwnersHeld, RecordingsBusy
  <2>2. ~StreamBusy(s)
    BY <1>1, <2>1 DEF Ownership, OneOwner, OwnersHeld, StreamBusy, Pending, ExclusiveOp, HistoryOp
  <2> QED
    BY <1>1, <1>4, <2>2 DEF ExtrasInv, Room, RecordingsBusy
<1>5. StreamsBounded
  BY <1>1, <1>3, <1>4 DEF StreamsBounded, ExtrasInv, Room
<1> QED
  BY <1>2, <1>5 DEF ReservationsExact

(* Every reservation entry is its call's, connection attempts, additional  *)
(* starts and downloads included, and no station takes more streams than   *)
(* maxLiveStreamsPerStation or streams beside recordings.                  *)
THEOREM ReservationsHold == Spec => []ReservationsExact
BY InitReserved, StepReserved, ReservedIsExact, PTL DEF Spec

-----------------------------------------------------------------------------
(* A stream and its session.                                                *)

(* A socket that closes carries no stream any more.                         *)
LiveKept ==
    \A s \in Station : lives[s] # None => Connected(s) /\ closing[s] # "socket"

(* What a step does at a station with a stream: nothing, or an END on its   *)
(* way, or it ends the stream.                                              *)
LEMMA KeepsLive ==
    ASSUME LiveKept, TypeOK,
           \A s \in Station :
              \/ lives'[s] = None
              \/ /\ lives'[s] = lives[s]
                 /\ lives[s] # None /\ Connected(s) /\ closing[s] # "socket"
                       => link'[s] = "up" /\ s \in encryption' /\ closing'[s] # "socket"
    PROVE LiveKept'
BY DEF LiveKept, Connected

LEMMA ClosingKeepsLive ==
    ASSUME LiveKept, TypeOK, NEW S, Close(S), UNCHANGED encryption,
           \A s \in Station : lives'[s] \in {lives[s], None}
    PROVE LiveKept'
<1>1. \A s \in Station : Connected(s) /\ closing[s] # "socket" =>
          link'[s] = "up" /\ s \in encryption' /\ closing'[s] # "socket"
  BY DEF Close, TypeOK, Connected
<1> QED
  BY <1>1, KeepsLive

(* A dial leaves a link that is up alone.                                   *)
LEMMA DiallingKeepsLive ==
    ASSUME LiveKept, TypeOK, NEW t, link' \in {link, Dialled(t)},
           UNCHANGED <<encryption, closing>>,
           \A s \in Station : lives'[s] \in {lives[s], None}
    PROVE LiveKept'
<1>1. \A s \in Station : link[s] = "up" => link'[s] = "up"
  BY DEF Dialled, TypeOK
<1> QED
  BY <1>1, KeepsLive DEF Connected

LEMMA BeginKeepsLive ==
    ASSUME LiveKept, TypeOK, NEW k, NEW op, NEW s, NEW c, Begin(k, op, s, c)
    PROVE LiveKept'
BY DiallingKeepsLive DEF Begin, streams

LEMMA CallKeepsLive ==
    ASSUME LiveKept, TypeOK, NEW k \in Call, CallStep(k)
    PROVE LiveKept'
<1> USE DEF session, streams
<1>1. ASSUME NEW c \in Camera, StartLive(k, c) \/ EnsureLiveStopped(k, c) PROVE LiveKept'
  BY <1>1, BeginKeepsLive DEF StartLive, EnsureLiveStopped
<1>2. ASSUME NEW s \in Station, NEW op \in Op, StartCommand(k, op, s) \/ StartHistory(k, op, s)
      PROVE LiveKept'
  BY <1>2, BeginKeepsLive DEF StartCommand, StartHistory
<1>3. ASSUME NEW s \in Station, Peek(k, s) PROVE LiveKept'
  BY <1>3, BeginKeepsLive DEF Peek
<1>4. ASSUME NEW c \in Camera, EnsureAborted(k, c) PROVE LiveKept'
  BY <1>4, ClosingKeepsLive DEF EnsureAborted
<1>5. CASE RequestFails(k) \/ TransferFails(k) \/ ConnectFails(k) \/ StopUnconfirmed(k)
  BY <1>5, ClosingKeepsLive DEF RequestFails, TransferFails, ConnectFails, StopUnconfirmed
<1>6. CASE StopConfirmed(k)
  BY <1>6, ClosingKeepsLive, DiallingKeepsLive DEF StopConfirmed
<1>7. CASE LivestreamStart(k)
  BY <1>7 DEF LivestreamStart, LiveKept, Connected, TypeOK
<1>8. ASSUME UNCHANGED <<link, encryption, closing, lives>> PROVE LiveKept'
  BY <1>8, DiallingKeepsLive
<1>9. ASSUME NEW c \in Camera, StartExtraLive(k, c) \/ ExtraStart(k, c) PROVE LiveKept'
  BY <1>8, <1>9 DEF StartExtraLive, ExtraStart
<1>10. CASE Answered(k) \/ PresetRefused(k) \/ PeekReturns(k) \/ TransferStarts(k)
            \/ TransferCompletes(k) \/ DeafReturns(k) \/ StartFails(k)
            \/ ExtraReady(k) \/ ExtraFails(k) \/ ExtraDisposed(k)
  BY <1>8, <1>10 DEF Answered, PresetRefused, PeekReturns, TransferStarts, TransferCompletes,
       DeafReturns, StartFails, ExtraReady, ExtraFails, ExtraDisposed
<1> QED
  BY <1>1, <1>2, <1>3, <1>4, <1>5, <1>6, <1>7, <1>9, <1>10 DEF CallStep, Op, CommandOp

LEMMA SessionKeepsLive ==
    ASSUME LiveKept, TypeOK, NEW s \in Station, SessionStep(s)
    PROVE LiveKept'
<1> USE DEF session, streams, TypeOK
<1>1. CASE SessionUp(s) \/ KeyReady(s) \/ DialFails(s)
  BY <1>1, KeepsLive DEF SessionUp, KeyReady, DialFails, Connected
<1>2. CASE SessionReconnect(s)
  BY <1>2, DiallingKeepsLive DEF SessionReconnect
<1>3. CASE LinkLost(s) \/ CloseEnd(s)
  <2>1. Ended(s) /\ \A t \in Station \ {s} : closing'[t] = closing[t]
    BY <1>3 DEF LinkLost, CloseEnd
  <2> QED
    BY <2>1, KeepsLive DEF Ended, Connected
<1>4. CASE SocketClosed(s)
  <2>1. lives[s] = None
    BY <1>4 DEF SocketClosed, LiveKept
  <2>2. \A t \in Station \ {s} : /\ link'[t] = link[t] /\ closing'[t] = closing[t]
                                /\ t \in encryption' <=> t \in encryption
    BY <1>4 DEF SocketClosed
  <2>3. UNCHANGED lives
    BY <1>4 DEF SocketClosed
  <2> QED
    BY <2>1, <2>2, <2>3, KeepsLive DEF Connected
<1>5. CASE StopLive(s) \/ FinishLive(s)
  BY <1>5, ClosingKeepsLive, DiallingKeepsLive DEF StopLive, FinishLive
<1>6. CASE StopTimeout(s) \/ StopRefused(s)
  BY <1>6, ClosingKeepsLive DEF StopTimeout, StopRefused, EndLive
<1> QED
  BY <1>1, <1>2, <1>3, <1>4, <1>5, <1>6 DEF SessionStep

LEMMA OtherKeepsLive ==
    ASSUME LiveKept, TypeOK, (\E c \in Camera : ExtraStep(c)) \/ LoadStep \/ CloseStep
    PROVE LiveKept'
<1> USE DEF session, streams
<1>1. ASSUME UNCHANGED <<link, encryption, closing, lives>> PROVE LiveKept'
  BY <1>1, DiallingKeepsLive
<1>2. ASSUME NEW c \in Camera, ExtraStep(c) PROVE LiveKept'
  BY <1>1, <1>2 DEF ExtraStep, StopExtraLive, FinishExtraLive
<1>3. CASE LoadStep
  <2>1. PICK s : Dispose(s)
    BY <1>3 DEF LoadStep, Load, LoadNext
  <2> QED
    BY <2>1, ClosingKeepsLive DEF Dispose
<1>4. CASE CloseBegin \/ CloseStreams \/ CloseSessions
  BY <1>4, ClosingKeepsLive DEF CloseBegin, CloseStreams, CloseSessions
<1>5. CASE CloseStarts \/ CloseDone
  BY <1>1, <1>5 DEF CloseStarts, CloseDone
<1> QED
  BY <1>2, <1>3, <1>4, <1>5 DEF CloseStep

LEMMA StepLive == TypeOK /\ LiveKept /\ [Next]_vars => LiveKept'
<1> SUFFICES ASSUME TypeOK, LiveKept, [Next]_vars PROVE LiveKept'
  OBVIOUS
<1>1. CASE Next
  BY <1>1, CallKeepsLive, SessionKeepsLive, OtherKeepsLive DEF Next
<1>2. CASE UNCHANGED vars
  BY <1>2, DiallingKeepsLive DEF vars, session, streams
<1> QED
  BY <1>1, <1>2

(* A stream never outlives its session, so that its STOP can still be sent: *)
(* every way a session ends or closes takes the stream with it, or leaves   *)
(* the link up until the END is on the wire.                                *)
THEOREM LiveHolds == Spec => []LiveOnSession
<1>1. Init => LiveKept
  BY DEF Init, LiveKept
<1>2. LiveKept => LiveOnSession
  BY DEF LiveKept, LiveOnSession
<1> QED
  BY <1>1, <1>2, StepLive, TypeCorrect, PTL DEF Spec

-----------------------------------------------------------------------------
(* The refinement: every step is one of StationAdmission's, or none.        *)

SameStation(s) == User(s)' = User(s) /\ ExtraOf(s)' = ExtraOf(s)

(* The abstract module counts as this one does.                             *)
LEMMA SameCount == ASSUME NEW S PROVE A!Cardinality(S) = Cardinality(S)
BY DEF A!Cardinality, Cardinality

LEMMA AbstractStep ==
    ASSUME NEW s \in Station, \A t \in Station \ {s} : SameStation(t),
           \/ SameStation(s)
           \/ User(s)' = "free" /\ ExtraOf(s)' = ExtraOf(s)
           \/ /\ User(s) = "free" /\ ExtraOf(s)' = ExtraOf(s)
              /\ User(s)' \in {"stream", "command", "history"}
              /\ User(s)' \in {"stream", "history"} => ExtraOf(s) = {}
           \/ /\ User(s) = "free" /\ User(s)' = "free"
              /\ \E c \in Camera : ExtraOf(s)' = ExtraOf(s) \cup {c}
              /\ Cardinality(ExtraOf(s)') <= LiveLimit
           \/ /\ User(s)' = User(s)
              /\ \E c \in Camera : ExtraOf(s)' = ExtraOf(s) \ {c}
    PROVE [A!Next]_<<[t \in Station |-> User(t)], [t \in Station |-> ExtraOf(t)]>>
<1> DEFINE user == [t \in Station |-> User(t)]
           extra == [t \in Station |-> ExtraOf(t)]
<1>1. \A t \in Station : user'[t] = User(t)' /\ extra'[t] = ExtraOf(t)'
  OBVIOUS
<1>2. CASE SameStation(s)
  BY <1>2 DEF SameStation
<1>3. CASE User(s)' = "free" /\ ExtraOf(s)' = ExtraOf(s)
  BY <1>3 DEF SameStation, A!Next, A!Give
<1>4. CASE /\ User(s) = "free" /\ ExtraOf(s)' = ExtraOf(s)
           /\ User(s)' \in {"stream", "command", "history"}
           /\ User(s)' \in {"stream", "history"} => ExtraOf(s) = {}
  BY <1>4 DEF SameStation, A!Next, A!Take, A!Use
<1>5. ASSUME NEW c \in Camera, User(s) = "free", User(s)' = "free",
             ExtraOf(s)' = ExtraOf(s) \cup {c}, Cardinality(ExtraOf(s)') <= LiveLimit
      PROVE A!AddExtra(s, c)
  <2>1. user[s] = "free" /\ extra[s] = ExtraOf(s)
    BY <1>5
  <2>2. A!Cardinality(extra[s] \cup {c}) <= LiveLimit
    BY <1>5, <2>1, SameCount
  <2>3. extra' = [extra EXCEPT ![s] = extra[s] \cup {c}] /\ UNCHANGED user
    BY <1>5 DEF SameStation
  <2> HIDE DEF user, extra
  <2>4. extra' = [extra EXCEPT ![s] = extra[s] \cup {c}] /\ UNCHANGED user
    BY <2>3
  <2> QED
    BY ONLY <2>1, <2>2, <2>4 DEF A!AddExtra, user, extra
<1>6. ASSUME NEW c \in Camera, User(s)' = User(s), ExtraOf(s)' = ExtraOf(s) \ {c}
      PROVE A!DropExtra(s, c)
  BY <1>6 DEF SameStation, A!DropExtra
<1> QED
  BY <1>2, <1>3, <1>4, <1>5, <1>6 DEF A!Next

(* Who uses a session is decided by four sets.                              *)
LEMMA UserStays ==
    ASSUME NEW s \in Station, StreamBusy(s)' <=> StreamBusy(s),
           s \in commands' <=> s \in commands, s \in operations' <=> s \in operations
    PROVE User(s)' = User(s)
BY DEF User

(* A step that touches none of the reservations and streams.                *)
LEMMA Stutters ==
    ASSUME UNCHANGED <<starting, commands, operations, extraLives, extraStarting, lives>>
    PROVE \A s \in Station : SameStation(s)
<1> SUFFICES ASSUME NEW s \in Station PROVE SameStation(s)
  OBVIOUS
<1>1. User(s)' = User(s)
  BY UserStays DEF StreamBusy
<1> QED
  BY <1>1 DEF SameStation, ExtraOf

(* With one owner, giving up what a call holds frees its station.           *)
LEMMA ReleaseFrees ==
    ASSUME Ownership, NEW s \in Station, NEW K \in SUBSET On(s), Release(K),
           UNCHANGED <<lives, extraLives, extraStarting>>
    PROVE /\ \A t \in Station \ {s} : SameStation(t)
          /\ User(s)' \in {User(s), "free"} /\ ExtraOf(s)' = ExtraOf(s)
<1> USE DEF Ownership, Pending, On, ExclusiveOp, CommandOp, HistoryOp
<1>1. \A t \in Station : ExtraOf(t)' = ExtraOf(t)
  BY DEF ExtraOf
<1>2. ASSUME NEW t \in Station \ {s} PROVE SameStation(t)
  <2>1. /\ t \in starting' <=> t \in starting
        /\ t \in commands' <=> t \in commands
        /\ t \in operations' <=> t \in operations
    BY DEF Release
  <2>2. User(t)' = User(t)
    BY <2>1, UserStays DEF StreamBusy
  <2> QED
    BY <1>1, <2>2 DEF SameStation
<1>3. CASE \E k \in K : call[k].op \in ExclusiveOp
  <2>1. PICK k \in K : call[k].op \in ExclusiveOp
    BY <1>3
  <2>2. \A j \in Pending(s, ExclusiveOp) : j = k
    BY <2>1 DEF OneOwner
  <2>3. lives[s] = None
    BY <2>1 DEF OneOwner
  <2>4. s \notin starting' /\ s \notin commands' /\ s \notin operations'
    BY <2>1, <2>2 DEF OwnersHeld, Release
  <2>5. User(s)' = "free"
    BY <2>3, <2>4 DEF User, StreamBusy
  <2> QED
    BY <1>1, <1>2, <2>5
<1>4. CASE \A k \in K : call[k].op \notin ExclusiveOp
  <2>1. UNCHANGED <<starting, commands, operations>>
    BY <1>4 DEF Release
  <2>2. User(s)' = User(s)
    BY <2>1, UserStays DEF StreamBusy
  <2> QED
    BY <1>1, <1>2, <2>2
<1> QED
  BY <1>3, <1>4

(* The end of a stream frees its station.                                   *)
LEMMA EndFrees ==
    ASSUME Ownership, NEW s \in Station, lives' = [lives EXCEPT ![s] = None],
           UNCHANGED <<starting, commands, operations, extraLives, extraStarting>>
    PROVE /\ \A t \in Station \ {s} : SameStation(t)
          /\ User(s)' \in {User(s), "free"} /\ ExtraOf(s)' = ExtraOf(s)
<1> USE DEF Ownership, TypeOK
<1>1. \A t \in Station : ExtraOf(t)' = ExtraOf(t)
  BY DEF ExtraOf
<1>2. \A t \in Station \ {s} : SameStation(t)
  BY <1>1, UserStays DEF StreamBusy, SameStation
<1>3. CASE lives[s] = None
  BY <1>1, <1>2, <1>3, UserStays DEF StreamBusy
<1>4. CASE lives[s] # None
  <2>1. s \notin starting /\ s \notin commands /\ s \notin operations
    BY <1>4 DEF OneOwner, OwnersHeld, Pending, ExclusiveOp, CommandOp, HistoryOp
  <2> QED
    BY <1>1, <1>2, <2>1 DEF User, StreamBusy
<1> QED
  BY <1>3, <1>4

(* An admission takes a free station, and one without additional streams    *)
(* for a stream or for recordings.                                          *)
LEMMA AdmissionTakes ==
    ASSUME Ownership, NEW s \in Station, ~StreamBusy(s), s \notin commands, s \notin operations,
           UNCHANGED <<lives, extraLives, extraStarting>>,
           \/ starting' = starting \cup {s} /\ UNCHANGED <<commands, operations>> /\ ~ExtraBusy(s)
           \/ commands' = commands \cup {s} /\ UNCHANGED <<starting, operations>>
           \/ operations' = operations \cup {s} /\ UNCHANGED <<starting, commands>> /\ ~ExtraBusy(s)
    PROVE /\ \A t \in Station \ {s} : SameStation(t)
          /\ User(s) = "free" /\ ExtraOf(s)' = ExtraOf(s)
          /\ User(s)' \in {"stream", "command", "history"}
          /\ User(s)' \in {"stream", "history"} => ExtraOf(s) = {}
<1>1. \A t \in Station : ExtraOf(t)' = ExtraOf(t)
  BY DEF ExtraOf
<1>2. \A t \in Station \ {s} : SameStation(t)
  BY <1>1, UserStays DEF StreamBusy, SameStation
<1> QED
  BY <1>1, <1>2 DEF User, StreamBusy, ExtraBusy

Abstract == [A!Next]_<<[t \in Station |-> User(t)], [t \in Station |-> ExtraOf(t)]>>

LEMMA CallAbstract ==
    ASSUME Ownership, AllFit, ExtrasInv, ExtrasInv', NEW k \in Call, CallStep(k)
    PROVE Abstract
<1> USE OwnerAssumption DEF Abstract, RecordingsBusy, streams, extras, reservations
<1>1. ASSUME NEW c \in Camera, StartLive(k, c) PROVE Abstract
  <2>1. ~ExtraBusy(OwnerOf[c])
    BY <1>1 DEF StartLive, ExtrasInv, Room
  <2> QED
    BY <1>1, <2>1, AdmissionTakes, AbstractStep DEF StartLive, Begin
<1>2. ASSUME NEW c \in Camera, EnsureLiveStopped(k, c) PROVE Abstract
  BY <1>2, AdmissionTakes, AbstractStep DEF EnsureLiveStopped, EnsureFree, Begin
<1>3. ASSUME NEW c \in Camera, EnsureAborted(k, c) PROVE Abstract
  BY <1>3, AdmissionTakes, AbstractStep DEF EnsureAborted, EnsureFree
<1>4. ASSUME NEW s \in Station, NEW op \in {"guard", "preset"}, StartCommand(k, op, s) PROVE Abstract
  BY <1>4, AdmissionTakes, AbstractStep DEF StartCommand, Begin
<1>5. ASSUME NEW s \in Station, NEW op \in HistoryOp, StartHistory(k, op, s) PROVE Abstract
  BY <1>5, AdmissionTakes, AbstractStep DEF StartHistory, Begin
<1>6. ASSUME NEW s \in Station,
             UNCHANGED <<starting, commands, operations, extraLives, extraStarting, lives>>
      PROVE Abstract
  BY <1>6, Stutters, AbstractStep
<1>7. ASSUME NEW s \in Station, Peek(k, s) PROVE Abstract
  BY <1>6, <1>7 DEF Peek, Begin
<1>8. ASSUME NEW c \in Camera, StartExtraLive(k, c) PROVE Abstract
  <2> DEFINE s == OwnerOf[c]
  <2>1. s \in Station /\ User(s) = "free"
    BY <1>8 DEF StartExtraLive, User, ExtrasInv, Room
  <2>2. UNCHANGED <<lives, starting, commands, operations, extraLives>>
        /\ extraStarting' = extraStarting \cup {c}
    BY <1>8 DEF StartExtraLive
  <2>3. \A t \in Station : User(t)' = User(t)
    BY <2>2, UserStays DEF StreamBusy
  <2>4. /\ \A t \in Station \ {s} : ExtraOf(t)' = ExtraOf(t)
        /\ ExtraOf(s)' = ExtraOf(s) \cup {c}
    BY <2>2 DEF ExtraOf
  <2>5. Cardinality(ExtraOf(s)') <= LiveLimit
    BY <2>1 DEF ExtrasInv, Room
  <2> HIDE DEF s
  <2> QED
    BY <2>1, <2>3, <2>4, <2>5, AbstractStep DEF SameStation
<1>9. ASSUME NEW c \in Camera, ExtraStart(k, c) PROVE Abstract
  <2>1. UNCHANGED <<lives, starting, commands, operations>> /\ OwnerOf[c] \in Station
    BY <1>9 DEF ExtraStart
  <2>2. c \in extraStarting
    BY <1>9 DEF ExtraStart, ExtraAt, ExtrasInv, ExtrasHeld, Opening
  <2>3. \A t \in Station : ExtraOf(t)' = ExtraOf(t) /\ User(t)' = User(t)
    BY <1>9, <2>1, <2>2, UserStays DEF ExtraStart, ExtraOf, StreamBusy
  <2> QED
    BY <2>1, <2>3, AbstractStep DEF SameStation
<1>10. CASE ExtraDisposed(k)
  <2>1. PICK c \in Camera : call[k].cam = c
    BY <1>10 DEF ExtraDisposed, ExtraAt, AllFit, Fits
  <2>2. UNCHANGED <<lives, starting, commands, operations, extraLives>>
        /\ extraStarting' = extraStarting \ {c} /\ c \notin extraLives
    BY <1>10, <2>1 DEF ExtraDisposed, ExtraAt, ExtrasInv, ExtrasHeld, Opening, Room
  <2>3. \A t \in Station : User(t)' = User(t)
    BY <2>2, UserStays DEF StreamBusy
  <2>4. /\ \A t \in Station \ {OwnerOf[c]} : ExtraOf(t)' = ExtraOf(t)
        /\ ExtraOf(OwnerOf[c])' = ExtraOf(OwnerOf[c]) \ {c}
    BY <2>2 DEF ExtraOf
  <2>5. OwnerOf[c] \in Station
    OBVIOUS
  <2> QED
    BY <2>3, <2>4, <2>5, AbstractStep DEF SameStation
<1>11. ASSUME call[k].op # "none", Release({k}), UNCHANGED <<lives, extraLives, extraStarting>>
       PROVE Abstract
  <2>1. PICK s \in Station : k \in On(s)
    BY <1>11 DEF AllFit, Fits, On
  <2>2. {k} \in SUBSET On(s)
    BY <2>1
  <2> QED
    BY <1>11, <2>1, <2>2, ReleaseFrees, AbstractStep DEF SameStation
<1>12. CASE Answered(k) \/ PresetRefused(k) \/ TransferCompletes(k) \/ DeafReturns(k)
            \/ (StopConfirmed(k) /\ call[k].op # "ensure")
  <2>1. call[k].pc # "idle"
    BY <1>12 DEF Answered, PresetRefused, TransferCompletes, DeafReturns, StopConfirmed
  <2>2. call[k].op # "none"
    BY <2>1 DEF AllFit, Fits, NoCall
  <2> QED
    BY <1>11, <1>12, <2>2 DEF Answered, PresetRefused, TransferCompletes, DeafReturns, StopConfirmed
<1>13. CASE LivestreamStart(k)
  <2>1. PICK s \in Station : call[k].st = s
    BY <1>13 DEF LivestreamStart, AllFit, Fits
  <2>2. s \in starting /\ call[k].op = "live"
    BY <1>13, <2>1 DEF LivestreamStart, Ownership, OwnersHeld, Pending, On
  <2>3. /\ Release({k}) /\ lives' = [lives EXCEPT ![s] = call[k].cam]
        /\ UNCHANGED <<extraLives, extraStarting>>
    BY <1>13, <2>1 DEF LivestreamStart
  <2>4. ASSUME NEW t \in Station \ {s} PROVE SameStation(t)
    <3>1. /\ t \in starting' <=> t \in starting
          /\ t \in commands' <=> t \in commands
          /\ t \in operations' <=> t \in operations
          /\ lives'[t] = lives[t]
      BY <2>1, <2>2, <2>3 DEF Release, CommandOp, HistoryOp, Ownership, TypeOK
    <3> QED
      BY <2>3, <3>1, UserStays DEF SameStation, StreamBusy, ExtraOf
  <2>5. s \notin commands /\ s \notin operations /\ s \notin commands' /\ s \notin operations'
    <3>1. Pending(s, CommandOp) = {} /\ Pending(s, HistoryOp) = {}
      BY <2>1, <2>2 DEF Ownership, OneOwner, Pending, On, ExclusiveOp, CommandOp, HistoryOp
    <3> QED
      BY <2>3, <3>1 DEF Release, Ownership, OwnersHeld
  <2>6. User(s) = "stream" /\ User(s)' \in {"stream", "free"}
    BY <2>2, <2>5 DEF User, StreamBusy
  <2>7. ExtraOf(s)' = ExtraOf(s)
    BY <2>3 DEF ExtraOf
  <2> QED
    BY <2>4, <2>6, <2>7, AbstractStep DEF SameStation
<1>14. CASE RequestFails(k) \/ PeekReturns(k) \/ TransferStarts(k) \/ TransferFails(k)
            \/ ConnectFails(k) \/ StartFails(k) \/ StopUnconfirmed(k) \/ ExtraReady(k)
            \/ ExtraFails(k) \/ (StopConfirmed(k) /\ call[k].op = "ensure")
  <2>1. call[k].op # "none"
    BY <1>14 DEF RequestFails, PeekReturns, TransferStarts, TransferFails, ConnectFails, StartFails,
         StopUnconfirmed, ExtraReady, ExtraFails, StopConfirmed, ExtraAt, AllFit, Fits, NoCall
  <2>2. PICK s \in Station : call[k].st = s
    BY <2>1 DEF AllFit, Fits
  <2> QED
    BY <1>6, <1>14 DEF RequestFails, PeekReturns, TransferStarts, TransferFails, ConnectFails,
       StartFails, StopUnconfirmed, ExtraReady, ExtraFails, StopConfirmed
<1> QED
  BY <1>1, <1>2, <1>3, <1>4, <1>5, <1>7, <1>8, <1>9, <1>10, <1>12, <1>13, <1>14 DEF CallStep

LEMMA SessionAbstract ==
    ASSUME Ownership, NEW s \in Station, SessionStep(s)
    PROVE Abstract
<1> USE DEF Abstract, extras, reservations, session
<1>1. ASSUME UNCHANGED <<starting, commands, operations, extraLives, extraStarting, lives>>
      PROVE Abstract
  BY <1>1, Stutters, AbstractStep
<1>2. ASSUME lives' = [lives EXCEPT ![s] = None],
             UNCHANGED <<starting, commands, operations, extraLives, extraStarting>>
      PROVE Abstract
  BY <1>2, EndFrees, AbstractStep DEF SameStation
<1>3. ASSUME NEW K \in SUBSET On(s), Release(K), UNCHANGED <<lives, extraLives, extraStarting>>
      PROVE Abstract
  BY <1>3, ReleaseFrees, AbstractStep DEF SameStation
<1>4. CASE SessionUp(s) \/ SessionReconnect(s) \/ DialFails(s) \/ StopLive(s)
  BY <1>1, <1>4 DEF SessionUp, SessionReconnect, DialFails, StopLive, streams
<1>5. CASE LinkLost(s) \/ CloseEnd(s) \/ FinishLive(s) \/ StopTimeout(s) \/ StopRefused(s)
  BY <1>2, <1>5 DEF LinkLost, CloseEnd, Ended, FinishLive, StopTimeout, StopRefused, EndLive
<1>6. CASE KeyReady(s)
  BY <1>3, <1>6 DEF KeyReady, streams
<1>7. CASE SocketClosed(s)
  <2>1. PICK K \in SUBSET On(s) : Release(K)
    BY <1>7 DEF SocketClosed
  <2> QED
    BY <1>3, <1>7, <2>1 DEF SocketClosed, streams
<1> QED
  BY <1>4, <1>5, <1>6, <1>7 DEF SessionStep

LEMMA OtherAbstract ==
    ASSUME ExtrasInv, NEW o \in Station, (\E c \in Camera : ExtraStep(c)) \/ LoadStep \/ CloseStep
    PROVE Abstract
<1> USE OwnerAssumption DEF Abstract, extras, reservations, session, streams
<1>1. ASSUME UNCHANGED <<starting, commands, operations, extraLives, extraStarting, lives>>
      PROVE Abstract
  BY <1>1, Stutters, AbstractStep
<1>2. ASSUME NEW c \in Camera, StopExtraLive(c) PROVE Abstract
  BY <1>1, <1>2 DEF StopExtraLive
<1>3. ASSUME NEW c \in Camera, FinishExtraLive(c) PROVE Abstract
  <2>1. /\ UNCHANGED <<lives, starting, commands, operations, extraStarting>>
        /\ extraLives' = extraLives \ {c} /\ c \notin extraStarting
    BY <1>3 DEF FinishExtraLive, ExtrasInv, Room
  <2>2. \A t \in Station : User(t)' = User(t)
    BY <2>1, UserStays DEF StreamBusy
  <2>3. /\ \A t \in Station \ {OwnerOf[c]} : ExtraOf(t)' = ExtraOf(t)
        /\ ExtraOf(OwnerOf[c])' = ExtraOf(OwnerOf[c]) \ {c}
    BY <2>1 DEF ExtraOf
  <2>4. OwnerOf[c] \in Station
    OBVIOUS
  <2> QED
    BY <2>2, <2>3, <2>4, AbstractStep DEF SameStation
<1>4. CASE LoadStep
  <2>1. PICK s : Dispose(s)
    BY <1>4 DEF LoadStep, Load, LoadNext
  <2> QED
    BY <1>1, <2>1 DEF Dispose
<1>5. CASE CloseStep
  BY <1>1, <1>5 DEF CloseStep, CloseBegin, CloseStarts, CloseStreams, CloseSessions, CloseDone
<1> QED
  BY <1>2, <1>3, <1>4, <1>5 DEF ExtraStep

LEMMA StepAbstract == Reserved /\ Reserved' /\ [Next]_vars => Abstract
<1> SUFFICES ASSUME Reserved, Reserved', [Next]_vars PROVE Abstract
  OBVIOUS
<1>1. Ownership /\ AllFit /\ ExtrasInv /\ ExtrasInv'
  BY DEF Reserved
<1>2. CASE Station = {}
  BY <1>2 DEF Abstract
<1>3. ASSUME NEW o \in Station PROVE Abstract
  <2>1. CASE Next
    BY <1>1, <2>1, CallAbstract, SessionAbstract, OtherAbstract DEF Next
  <2>2. CASE UNCHANGED vars
    BY <2>2, Stutters, AbstractStep DEF vars, Abstract, reservations, streams, extras
  <2> QED
    BY <2>1, <2>2
<1> QED
  BY <1>2, <1>3

LEMMA InitAbstract == Init => A!Init
<1> SUFFICES ASSUME Init PROVE A!Init
  OBVIOUS
<1>1. \A s \in Station : User(s) = "free" /\ ExtraOf(s) = {}
  BY DEF Init, User, StreamBusy, ExtraOf
<1> QED
  BY <1>1 DEF A!Init

(* The transport implements the admission promise: whatever links, timers,  *)
(* load() and close() do, each of its steps takes or gives back a station   *)
(* as StationAdmission allows, or is invisible to it.                       *)
THEOREM AdmissionHolds == Spec => Admission
<1>1. Reserved /\ Reserved' /\ [Next]_vars =>
          [A!Next]_<<[s \in Station |-> User(s)], [s \in Station |-> ExtraOf(s)]>>
  BY StepAbstract DEF Abstract
<1> QED
  BY <1>1, InitReserved, StepReserved, InitAbstract, PTL DEF Spec, Admission, A!Spec

-----------------------------------------------------------------------------
(* Shutdown.  First: a request that is out has its link, and a socket that  *)
(* closes has none, so that no request is left when it has closed.          *)

WaitsUp ==
    /\ \A s \in Station : closing[s] = "socket" => link[s] # "up"
    /\ \A k \in Call : call[k].pc \in {"wait", "transfer"} /\ call[k].op # "peek"
                          => link[call[k].st] = "up"

LEMMA KeepsWaitsUp ==
    ASSUME WaitsUp, TypeOK, AllFit,
           \A s \in Station :
              /\ link[s] = "up" => link'[s] = "up"
              /\ closing'[s] = "socket" => closing[s] = "socket" \/ link[s] # "up"
              /\ link'[s] = "up" => link[s] = "up",
           \A k \in Call :
              \/ call'[k].pc \notin {"wait", "transfer"} \/ call'[k].op = "peek"
              \/ call'[k].st \in Station /\ link[call'[k].st] = "up"
              \/ call'[k].op = call[k].op /\ call'[k].st = call[k].st /\ call[k].pc \in {"wait", "transfer"}
    PROVE WaitsUp'
<1>1. \A k \in Call : call[k].pc \in {"wait", "transfer"} => call[k].st \in Station
  BY DEF AllFit, Fits, NoCall
<1> QED
  BY <1>1 DEF WaitsUp

LEMMA ClosingKeepsUp ==
    ASSUME TypeOK, NEW S, Close(S)
    PROVE \A s \in Station :
              /\ link[s] = "up" => link'[s] = "up"
              /\ closing'[s] = "socket" => closing[s] = "socket" \/ link[s] # "up"
              /\ link'[s] = "up" => link[s] = "up"
BY DEF Close, TypeOK

LEMMA DiallingKeepsUp ==
    ASSUME TypeOK, NEW t, link' \in {link, Dialled(t)}, UNCHANGED closing
    PROVE \A s \in Station :
              /\ link[s] = "up" => link'[s] = "up"
              /\ closing'[s] = "socket" => closing[s] = "socket" \/ link[s] # "up"
              /\ link'[s] = "up" => link[s] = "up"
BY DEF Dialled, TypeOK

LEMMA BeginWaitsUp ==
    ASSUME WaitsUp, TypeOK, AllFit, NEW k \in Call, NEW op, NEW s \in Station, NEW c, Begin(k, op, s, c)
    PROVE WaitsUp'
<1>1. link' \in {link, Dialled(s)} /\ UNCHANGED closing
  BY DEF Begin
<1>2. /\ call'[k].st = s
      /\ Connected(s) \/ call'[k].pc = "connect"
      /\ \A j \in Call \ {k} : call'[j] = call[j]
  BY DEF Begin, TypeOK
<1> QED
  BY <1>1, <1>2, DiallingKeepsUp, KeepsWaitsUp DEF Connected

LEMMA CallWaitsUp ==
    ASSUME WaitsUp, TypeOK, AllFit, NEW k \in Call, CallStep(k)
    PROVE WaitsUp'
<1> USE OwnerAssumption DEF session, Goto, Return, TypeOK, CallType, NoCall, ExtraAt
<1>1. ASSUME NEW c \in Camera, StartLive(k, c) \/ EnsureLiveStopped(k, c) PROVE WaitsUp'
  BY <1>1, BeginWaitsUp DEF StartLive, EnsureLiveStopped
<1>2. ASSUME NEW s \in Station, NEW op \in Op, StartCommand(k, op, s) \/ StartHistory(k, op, s)
      PROVE WaitsUp'
  BY <1>2, BeginWaitsUp DEF StartCommand, StartHistory
<1>3. ASSUME NEW s \in Station, Peek(k, s) PROVE WaitsUp'
  BY <1>3, BeginWaitsUp DEF Peek
<1>4. ASSUME NEW S, Close(S), call'[k].pc \notin {"wait", "transfer"},
             \A j \in Call \ {k} : call'[j] = call[j]
      PROVE WaitsUp'
  BY <1>4, ClosingKeepsUp, KeepsWaitsUp
<1>5. ASSUME UNCHANGED <<link, closing>>,
             \/ call'[k].pc \notin {"wait", "transfer"}
             \/ call'[k].op = call[k].op /\ call'[k].st = call[k].st /\ call[k].pc = "wait",
             \A j \in Call \ {k} : call'[j] = call[j]
      PROVE WaitsUp'
  BY <1>5, DiallingKeepsUp, KeepsWaitsUp
<1>6. ASSUME NEW c \in Camera, EnsureAborted(k, c) PROVE WaitsUp'
  BY <1>4, <1>6 DEF EnsureAborted
<1>7. CASE RequestFails(k) \/ TransferFails(k) \/ ConnectFails(k) \/ StopUnconfirmed(k)
           \/ (StopConfirmed(k) /\ call[k].op = "ensure")
  BY <1>4, <1>7 DEF RequestFails, TransferFails, ConnectFails, StopUnconfirmed, StopConfirmed
<1>8. ASSUME NEW c \in Camera, StartExtraLive(k, c) \/ ExtraStart(k, c) PROVE WaitsUp'
  BY <1>5, <1>8 DEF StartExtraLive, ExtraStart
<1>9. CASE Answered(k) \/ PresetRefused(k) \/ PeekReturns(k) \/ TransferStarts(k)
           \/ TransferCompletes(k) \/ DeafReturns(k) \/ LivestreamStart(k) \/ StartFails(k)
           \/ (StopConfirmed(k) /\ call[k].op # "ensure")
           \/ ExtraReady(k) \/ ExtraFails(k) \/ ExtraDisposed(k)
  BY <1>5, <1>9 DEF Answered, PresetRefused, PeekReturns, TransferStarts, TransferCompletes,
       DeafReturns, LivestreamStart, StartFails, StopConfirmed, ExtraReady, ExtraFails, ExtraDisposed
<1> QED
  BY <1>1, <1>2, <1>3, <1>6, <1>7, <1>8, <1>9 DEF CallStep, Op, CommandOp

LEMMA SessionWaitsUp ==
    ASSUME WaitsUp, TypeOK, AllFit, NEW s \in Station, SessionStep(s)
    PROVE WaitsUp'
<1> USE DEF session, TypeOK, CallType, NoCall
<1>1. CASE SessionUp(s)
  BY <1>1 DEF SessionUp, WaitsUp, AllFit, Fits
<1>2. CASE KeyReady(s)
  <2>1. UNCHANGED <<link, closing>> /\ link[s] = "up"
    BY <1>2 DEF KeyReady
  <2>2. \A k \in Call : call'[k] = call[k] \/ call'[k].pc = "idle" \/ call'[k].st = s
    BY <1>2 DEF KeyReady, On
  <2> QED
    BY <2>1, <2>2, DiallingKeepsUp, KeepsWaitsUp
<1>3. CASE SessionReconnect(s)
  BY <1>3, DiallingKeepsUp, KeepsWaitsUp DEF SessionReconnect
<1>4. CASE DialFails(s)
  <2>1. \A k \in Call : call'[k] = call[k] \/ call'[k].pc \in {"drop", "close"}
    BY <1>4 DEF DialFails
  <2>2. \A t \in Station : (link'[t] = "up" <=> link[t] = "up")
    BY <1>4 DEF DialFails
  <2>3. \A t \in Station : closing'[t] = "socket" => closing[t] = "socket" \/ link[t] # "up"
    BY <1>4 DEF DialFails
  <2> QED
    BY <2>1, <2>2, <2>3, KeepsWaitsUp
<1>5. CASE LinkLost(s) \/ CloseEnd(s)
  <2>1. Ended(s) /\ \A t \in Station \ {s} : closing'[t] = closing[t]
    BY <1>5 DEF LinkLost, CloseEnd
  <2>2. link'[s] # "up" /\ \A t \in Station \ {s} : link'[t] = link[t]
    BY <2>1 DEF Ended
  <2>3. \A k \in Call : /\ call'[k].op = call[k].op /\ call'[k].st = call[k].st
                        /\ call'[k].pc = call[k].pc \/ call'[k].pc \in {"drop", "close", "confirm"}
    BY <2>1 DEF Ended
  <2>4. \A k \in Call : call[k].st = s /\ call[k].op # "peek" => call'[k].pc \notin {"wait", "transfer"}
    BY <2>1 DEF Ended, Linked, Stopping, Failing, Pending, On
  <2>5. \A k \in Call : call[k].pc \in {"wait", "transfer"} => call[k].st \in Station
    BY DEF AllFit, Fits
  <2> QED
    BY <2>1, <2>2, <2>3, <2>4, <2>5 DEF WaitsUp
<1>6. CASE SocketClosed(s)
  <2>1. /\ closing[s] = "socket" /\ closing'[s] = "no" /\ link'[s] # "up"
        /\ \A t \in Station \ {s} : link'[t] = link[t] /\ closing'[t] = closing[t]
    BY <1>6 DEF SocketClosed
  <2>2. \A k \in Call : call'[k] = call[k] \/ call'[k].pc \notin {"wait", "transfer"}
    BY <1>6 DEF SocketClosed
  <2>3. \A k \in Call : call[k].pc \in {"wait", "transfer"} => call[k].st \in Station
    BY DEF AllFit, Fits
  <2> QED
    BY <2>1, <2>2, <2>3 DEF WaitsUp
<1>7. CASE StopLive(s) \/ FinishLive(s) \/ StopTimeout(s) \/ StopRefused(s)
  <2>1. UNCHANGED call
    BY <1>7 DEF StopLive, FinishLive, StopTimeout, StopRefused, EndLive
  <2>2. Close({s}) \/ UNCHANGED <<link, closing>>
    BY <1>7 DEF StopLive, FinishLive, StopTimeout, StopRefused, EndLive
  <2> QED
    BY <2>1, <2>2, ClosingKeepsUp, DiallingKeepsUp, KeepsWaitsUp
<1> QED
  BY <1>1, <1>2, <1>3, <1>4, <1>5, <1>6, <1>7 DEF SessionStep

LEMMA OtherWaitsUp ==
    ASSUME WaitsUp, TypeOK, AllFit, (\E c \in Camera : ExtraStep(c)) \/ LoadStep \/ CloseStep
    PROVE WaitsUp'
<1> USE DEF session, TypeOK, CallType, NoCall
<1>1. ASSUME UNCHANGED <<link, closing, call>> PROVE WaitsUp'
  BY <1>1, DiallingKeepsUp, KeepsWaitsUp
<1>2. ASSUME NEW S, Close(S), \A k \in Call : call'[k] = call[k]
                                  \/ call'[k].pc \notin {"wait", "transfer"}
      PROVE WaitsUp'
  BY <1>2, ClosingKeepsUp, KeepsWaitsUp
<1>3. ASSUME NEW c \in Camera, ExtraStep(c) PROVE WaitsUp'
  BY <1>1, <1>3 DEF ExtraStep, StopExtraLive, FinishExtraLive
<1>4. CASE LoadStep
  <2>1. PICK s : Dispose(s)
    BY <1>4 DEF LoadStep, Load, LoadNext
  <2> QED
    BY <1>2, <2>1 DEF Dispose
<1>5. CASE CloseBegin
  <2>1. \A k \in Call : call'[k].pc \in {"wait", "transfer"} =>
            call'[k].op = call[k].op /\ call'[k].st = call[k].st /\ call[k].pc \in {"wait", "transfer"}
    BY <1>5 DEF CloseBegin
  <2>2. PICK S : Close(S)
    BY <1>5 DEF CloseBegin
  <2> QED
    BY <2>1, <2>2, ClosingKeepsUp, KeepsWaitsUp
<1>6. CASE CloseStreams \/ CloseSessions
  BY <1>2, <1>6 DEF CloseStreams, CloseSessions
<1>7. CASE CloseStarts \/ CloseDone
  BY <1>1, <1>7 DEF CloseStarts, CloseDone
<1> QED
  BY <1>3, <1>4, <1>5, <1>6, <1>7 DEF CloseStep

-----------------------------------------------------------------------------
(* Next: a load meets no operation but a STOP-only call, and a peek that    *)
(* waits for its answer, so that it leaves no other call deaf.              *)

Apart(x) == x.op \in {"none", "ensure"}
Deaf(x) == x.pc \in {"deaf", "deafConnect"}

LoadsApart ==
    /\ \A k \in Call : Deaf(call[k]) => Apart(call[k])
    /\ loading # {} =>
          /\ lifetime = "open"
          /\ \A k \in Call : Apart(call[k]) \/ (call[k].op = "peek" /\ call[k].pc = "wait")
    /\ lifetime \notin {"sessions", "closed"} => disposing \subseteq loading

(* The calls of a step, outside load() and close().                         *)
CallsApart ==
    \A k \in Call :
       /\ Deaf(call'[k]) => Apart(call'[k]) \/ Deaf(call[k])
       /\ Deaf(call[k]) => Apart(call'[k])
       /\ loading # {} => Apart(call'[k]) \/ call'[k] = call[k]

LEMMA KeepsLoadsApart ==
    ASSUME LoadsApart, CallsApart, UNCHANGED owners
    PROVE LoadsApart'
BY DEF LoadsApart, CallsApart, owners

(* Only one call moves.                                                     *)
LEMMA OneApart ==
    ASSUME LoadsApart, NEW k \in Call, \A j \in Call \ {k} : call'[j] = call[j],
           Apart(call'[k]) \/ (~Deaf(call[k]) /\ ~Deaf(call'[k]) /\ loading = {})
    PROVE CallsApart
BY DEF LoadsApart, CallsApart

LEMMA BeginApart ==
    ASSUME LoadsApart, TypeOK, NEW k \in Call, NEW op, NEW s, NEW c, Begin(k, op, s, c),
           loading = {} \/ op = "ensure"
    PROVE CallsApart
<1>1. \A j \in Call \ {k} : call'[j] = call[j]
  BY DEF Begin, TypeOK
<1>2. call'[k].op = op /\ ~Deaf(call'[k]) /\ ~Deaf(call[k])
  BY DEF Begin, TypeOK, Deaf, RequestPc, Idle, NoCall
<1> QED
  BY <1>1, <1>2, OneApart DEF Apart

(* Calls leave load() and close() alone.                                    *)
LEMMA CallKeepsOwners ==
    ASSUME TypeOK, NEW k \in Call, CallStep(k)
    PROVE UNCHANGED owners
<1> USE OwnerAssumption DEF owners
<1>1. CASE \E c \in Camera : StartLive(k, c) \/ StartExtraLive(k, c) \/ EnsureLiveStopped(k, c)
                             \/ EnsureAborted(k, c) \/ ExtraStart(k, c)
  BY <1>1 DEF StartLive, StartExtraLive, EnsureLiveStopped, EnsureAborted, ExtraStart, Begin
<1>2. CASE \E s \in Station, op \in Op : StartCommand(k, op, s) \/ StartHistory(k, op, s) \/ Peek(k, s)
  BY <1>2 DEF StartCommand, StartHistory, Peek, Begin
<1>3. CASE Answered(k) \/ RequestFails(k) \/ PresetRefused(k) \/ PeekReturns(k)
           \/ TransferStarts(k) \/ TransferCompletes(k) \/ TransferFails(k)
           \/ ConnectFails(k) \/ DeafReturns(k)
  BY <1>3 DEF Answered, RequestFails, PresetRefused, PeekReturns, TransferStarts,
     TransferCompletes, TransferFails, ConnectFails, DeafReturns
<1>4. CASE LivestreamStart(k) \/ StartFails(k) \/ StopConfirmed(k) \/ StopUnconfirmed(k)
           \/ ExtraReady(k) \/ ExtraFails(k) \/ ExtraDisposed(k)
  BY <1>4 DEF LivestreamStart, StartFails, StopConfirmed, StopUnconfirmed, ExtraReady, ExtraFails,
     ExtraDisposed
<1> QED
  BY <1>1, <1>2, <1>3, <1>4 DEF CallStep, Op, CommandOp

LEMMA CallLoadsApart ==
    ASSUME LoadsApart, TypeOK, AllFit, NEW k \in Call, CallStep(k)
    PROVE LoadsApart'
<1> USE DEF Goto, Return, TypeOK, CallType, NoCall, ExtraAt, owners, Admitting
<1>1. UNCHANGED owners
  BY CallKeepsOwners
<1>2. SUFFICES CallsApart
  BY <1>1, KeepsLoadsApart
<1>3. CASE \E c \in Camera : StartLive(k, c) \/ EnsureLiveStopped(k, c)
  BY <1>3, BeginApart DEF StartLive, EnsureLiveStopped
<1>4. CASE \E s \in Station, op \in Op : StartCommand(k, op, s) \/ StartHistory(k, op, s) \/ Peek(k, s)
  BY <1>4, BeginApart DEF StartCommand, StartHistory, Peek
<1>5. CASE \E c \in Camera : StartExtraLive(k, c) \/ EnsureAborted(k, c) \/ ExtraStart(k, c)
  BY <1>5, OneApart DEF StartExtraLive, EnsureAborted, ExtraStart, Apart, Deaf, Idle
<1>6. ASSUME Return(k) PROVE CallsApart
  BY <1>6, OneApart DEF Apart
<1>7. ASSUME NEW pc \in Pc, Goto(k, pc), pc \notin {"deaf", "deafConnect"}, ~Deaf(call[k]),
             call[k].op # "peek" \/ call[k].pc # "wait"
      PROVE CallsApart
  <2>1. call'[k].op = call[k].op /\ ~Deaf(call'[k])
    BY <1>7 DEF Deaf
  <2>2. loading # {} => Apart(call'[k])
    BY <1>7, <2>1 DEF LoadsApart, Apart
  <2> QED
    BY <1>7, <2>1, <2>2, OneApart
<1>8. CASE Answered(k) \/ PresetRefused(k) \/ PeekReturns(k) \/ TransferCompletes(k)
           \/ DeafReturns(k) \/ LivestreamStart(k) \/ ExtraDisposed(k)
           \/ (StopConfirmed(k) /\ call[k].op # "ensure")
  BY <1>6, <1>8 DEF Answered, PresetRefused, PeekReturns, TransferCompletes, DeafReturns,
     LivestreamStart, ExtraDisposed, StopConfirmed
<1>9. CASE RequestFails(k) \/ TransferStarts(k) \/ TransferFails(k) \/ ConnectFails(k)
           \/ StartFails(k) \/ StopUnconfirmed(k) \/ ExtraReady(k) \/ ExtraFails(k)
           \/ (StopConfirmed(k) /\ call[k].op = "ensure")
  BY <1>7, <1>9 DEF RequestFails, TransferStarts, TransferFails, ConnectFails, StartFails,
     StopUnconfirmed, ExtraReady, ExtraFails, StopConfirmed, Deaf, Pc, Linking, HistoryOp
<1> QED
  BY <1>3, <1>4, <1>5, <1>8, <1>9 DEF CallStep, Op, CommandOp

LEMMA SessionLoadsApart ==
    ASSUME LoadsApart, TypeOK, AllFit, NEW s \in Station, SessionStep(s)
    PROVE LoadsApart'
<1> USE DEF TypeOK, CallType, NoCall, owners
<1>1. CASE SessionUp(s) \/ SessionReconnect(s) \/ StopLive(s) \/ FinishLive(s)
           \/ StopTimeout(s) \/ StopRefused(s)
  <2>1. UNCHANGED <<call, owners>>
    BY <1>1 DEF SessionUp, SessionReconnect, StopLive, FinishLive, StopTimeout, StopRefused, EndLive
  <2> QED
    BY <2>1, KeepsLoadsApart DEF CallsApart, LoadsApart
<1>2. CASE KeyReady(s)
  <2>1. \A k \in Call : \/ call'[k] = call[k] \/ Apart(call'[k])
                        \/ /\ call'[k].op = call[k].op /\ call[k].pc = "connect"
                           /\ call'[k].pc \in {"wait", "confirm"}
    BY <1>2 DEF KeyReady, RequestPc, Apart
  <2>2. CallsApart
    BY <2>1 DEF CallsApart, LoadsApart, Deaf, Apart
  <2> QED
    BY <1>2, <2>2, KeepsLoadsApart DEF KeyReady
<1>3. CASE DialFails(s)
  <2>1. \A k \in Call : \/ call'[k] = call[k]
                        \/ /\ call'[k].op = call[k].op /\ call[k].pc \in {"connect", "reconnect", "confirm"}
                           /\ call'[k].pc \in {"drop", "close"}
    BY <1>3 DEF DialFails
  <2>2. CallsApart
    BY <2>1 DEF CallsApart, LoadsApart, Deaf, Apart
  <2> QED
    BY <1>3, <2>2, KeepsLoadsApart DEF DialFails
<1>4. CASE LinkLost(s) \/ CloseEnd(s)
  <2>1. Ended(s) /\ UNCHANGED owners
    BY <1>4 DEF LinkLost, CloseEnd
  <2>2. \A k \in Call : \/ call'[k] = call[k]
                        \/ /\ call'[k].op = call[k].op /\ ~Deaf(call[k]) /\ ~Deaf(call'[k])
                           /\ ~(call[k].op = "peek" /\ call[k].pc = "wait")
    BY <2>1 DEF Ended, Linked, Stopping, Failing, Pending, On, Deaf
  <2>3. CallsApart
    BY <2>2 DEF CallsApart, LoadsApart, Apart
  <2> QED
    BY <2>1, <2>3, KeepsLoadsApart
<1>5. CASE SocketClosed(s)
  <2>1. \A k \in Call : \/ call'[k] = call[k] \/ call'[k] = NoCall
                        \/ (call[k].pc = "renew" /\ call'[k].op = call[k].op)
    BY <1>5 DEF SocketClosed
  <2>2. \A k \in Call : call'[k] = call[k] \/ Apart(call'[k])
    BY <2>1 DEF AllFit, Fits, Apart
  <2>3. /\ loading' \subseteq loading /\ lifetime' = lifetime
        /\ disposing \subseteq loading => disposing' \subseteq loading'
    BY <1>5 DEF SocketClosed
  <2> QED
    BY <2>2, <2>3 DEF LoadsApart
<1> QED
  BY <1>1, <1>2, <1>3, <1>4, <1>5 DEF SessionStep

(* Nothing is reserved when a load begins.                                  *)
LEMMA LoadMeets ==
    ASSUME Reserved, starting = {}, commands = {}, operations = {}, connecting = {}, extraStarting = {}
    PROVE \A k \in Call : Apart(call[k]) \/ (call[k].op = "peek" /\ call[k].pc = "wait")
<1> SUFFICES ASSUME NEW k \in Call, ~Apart(call[k]) PROVE call[k].op = "peek" /\ call[k].pc = "wait"
  OBVIOUS
<1>1. Fits(call[k]) /\ call[k] \in CallType /\ OwnersHeld /\ LinkersHeld /\ ExtrasHeld
  BY DEF Reserved, AllFit, Ownership, TypeOK, ExtrasInv
<1>2. call[k].st \in Station
  BY <1>1 DEF Fits, Apart
<1>3. call[k].op \notin {"live"} \cup CommandOp \cup HistoryOp
  BY <1>1, <1>2 DEF OwnersHeld, Pending, On
<1>4. call[k].op # "extra"
  BY <1>1 DEF ExtrasHeld, Opening, Fits
<1>5. call[k].op = "peek"
  BY <1>1, <1>3, <1>4 DEF CallType, Op, Apart
<1>6. call[k].pc \notin Linking
  BY <1>1, <1>2 DEF LinkersHeld, Linkers, On
<1> QED
  BY <1>1, <1>5, <1>6 DEF Fits, Linking

LEMMA OtherLoadsApart ==
    ASSUME LoadsApart, Reserved, (\E c \in Camera : ExtraStep(c)) \/ LoadStep \/ CloseStep
    PROVE LoadsApart'
<1> USE DEF Reserved, Ownership, TypeOK, CallType, NoCall, owners
<1>1. ASSUME NEW c \in Camera, ExtraStep(c) PROVE LoadsApart'
  <2>1. UNCHANGED <<call, owners>>
    BY <1>1 DEF ExtraStep, StopExtraLive, FinishExtraLive
  <2> QED
    BY <2>1, KeepsLoadsApart DEF CallsApart, LoadsApart
<1>2. ASSUME NEW s \in Station, Dispose(s), lifetime = "open", s \in loading',
             loading = {} \/ loading' = loading,
             \A k \in Call : Apart(call[k]) \/ (call[k].op = "peek" /\ call[k].pc = "wait")
      PROVE LoadsApart'
  <2>1. \A k \in Call : \/ call'[k] = call[k]
                        \/ call'[k].op = call[k].op /\ call[k].pc # "wait"
    BY <1>2 DEF Dispose, Linked, On
  <2>2. \A k \in Call : Apart(call'[k]) \/ (call'[k].op = "peek" /\ call'[k].pc = "wait")
    BY <1>2, <2>1 DEF Apart
  <2>3. lifetime' = "open" /\ disposing' = disposing \cup {s}
    BY <1>2 DEF Dispose
  <2>4. disposing' \subseteq loading'
    BY <1>2, <2>3 DEF LoadsApart
  <2> QED
    BY <2>2, <2>3, <2>4 DEF LoadsApart, Deaf
<1>3. ASSUME NEW S \in SUBSET Station, NEW s \in S, Load(S, s) PROVE LoadsApart'
  <2>1. \A k \in Call : Apart(call[k]) \/ (call[k].op = "peek" /\ call[k].pc = "wait")
    BY <1>3, LoadMeets DEF Load
  <2> QED
    BY <1>2, <1>3, <2>1 DEF Load
<1>4. ASSUME NEW s \in Station, LoadNext(s) PROVE LoadsApart'
  <2>1. \A k \in Call : Apart(call[k]) \/ (call[k].op = "peek" /\ call[k].pc = "wait")
    BY <1>4 DEF LoadNext, LoadsApart
  <2> QED
    BY <1>2, <1>4, <2>1 DEF LoadNext
<1>5. CASE CloseBegin
  <2>1. \A k \in Call : call'[k] = NoCall
                        \/ (call'[k].op = call[k].op /\ (Deaf(call'[k]) => Deaf(call[k])))
    BY <1>5 DEF CloseBegin, Deaf
  <2>2. \A k \in Call : Deaf(call'[k]) => Apart(call'[k])
    BY <2>1 DEF LoadsApart, Apart
  <2> QED
    BY <1>5, <2>2 DEF LoadsApart, CloseBegin
<1>6. CASE CloseStarts \/ CloseStreams \/ CloseSessions \/ CloseDone
  BY <1>6 DEF CloseStarts, CloseStreams, CloseSessions, CloseDone, LoadsApart
<1> QED
  BY <1>1, <1>3, <1>4, <1>5, <1>6 DEF LoadStep, CloseStep

-----------------------------------------------------------------------------
(* Last: once close() has begun, what is left of every call but a STOP-only *)
(* one is its cleanup; close() waits for the starts' and the transfers', and *)
(* what a closing session ends is the rest.                                 *)

Cleanup(x) ==
    \/ Apart(x)
    \/ x.pc \in {"drop", "close"}
    \/ x.op = "download" /\ x.pc \in {"wait", "transfer"}
    \/ x.op = "live" /\ x.pc = "confirm"
    \/ x.op = "extra" /\ x.pc \in {"xconfirm", "xdispose"}

CloseOrder ==
    /\ \A k \in Call : call[k].pc = "transfer" => k \in transfers
    /\ lifetime # "open" => \A k \in Call : Cleanup(call[k])
    /\ lifetime \notin {"open", "transfers"} => transfers = {}
    /\ lifetime \in {"streams", "sessions", "closed"} =>
          \A k \in Call : call[k].op \notin {"live", "extra"}
    /\ lifetime \in {"sessions", "closed"} =>
          /\ \A s \in Station : lives[s] = None
          /\ extraLives = {}
          /\ \A s \in disposing : closing[s] # "no"
          /\ \A k \in Call : Apart(call[k]) \/ call[k].st \in disposing
    /\ lifetime = "closed" => disposing = {}

(* A call winds up: it is over, a STOP-only call, or still in its cleanup.  *)
WindsUp(k) ==
    \/ Apart(call'[k])
    \/ /\ call'[k].op = call[k].op /\ call'[k].st = call[k].st
       /\ \/ call'[k].pc = call[k].pc
          \/ call'[k].pc \in {"drop", "close"}
          \/ call[k].op = "extra" /\ call'[k].pc = "xdispose"

LEMMA CallWindsUp ==
    ASSUME CloseOrder, TypeOK, AllFit, lifetime # "open", NEW k \in Call, CallStep(k)
    PROVE /\ \A j \in Call : WindsUp(j)
          /\ \A s \in Station : lives'[s] = lives[s]
          /\ extraLives' = extraLives
          /\ transfers' \subseteq transfers
          /\ UNCHANGED owners
          /\ \A s \in Station : closing[s] # "no" => closing'[s] # "no"
<1> USE OwnerAssumption DEF Goto, Return, TypeOK, CallType, NoCall, ExtraAt, Admitting, session,
        streams, extras, reservations
<1> DEFINE Goal == /\ \A j \in Call : WindsUp(j)
                   /\ \A s \in Station : lives'[s] = lives[s]
                   /\ extraLives' = extraLives
                   /\ transfers' \subseteq transfers
                   /\ UNCHANGED owners
                   /\ \A s \in Station : closing[s] # "no" => closing'[s] # "no"
<1>0. Cleanup(call[k]) /\ Fits(call[k])
  BY DEF CloseOrder, AllFit
<1>1. ASSUME NEW S, Close(S) PROVE \A s \in Station : closing[s] # "no" => closing'[s] # "no"
  BY <1>1 DEF Close
<1>2. ASSUME NEW c \in Camera, EnsureAborted(k, c) PROVE Goal
  BY <1>1, <1>2 DEF EnsureAborted, WindsUp, Apart
<1>3. CASE Answered(k) \/ PresetRefused(k) \/ PeekReturns(k) \/ TransferCompletes(k)
           \/ DeafReturns(k) \/ ExtraDisposed(k) \/ (StopConfirmed(k) /\ call[k].op # "ensure")
  BY <1>3 DEF Answered, PresetRefused, PeekReturns, TransferCompletes, DeafReturns, ExtraDisposed,
     StopConfirmed, WindsUp, Apart, Release
<1>4. CASE RequestFails(k) \/ TransferFails(k) \/ ConnectFails(k) \/ StopUnconfirmed(k)
           \/ (StopConfirmed(k) /\ call[k].op = "ensure")
  BY <1>1, <1>4 DEF RequestFails, TransferFails, ConnectFails, StopUnconfirmed, StopConfirmed,
     WindsUp, Apart
<1>5. ~LivestreamStart(k) /\ ~StartFails(k) /\ ~ExtraReady(k) /\ \A c \in Camera : ~ExtraStart(k, c)
  BY <1>0 DEF LivestreamStart, StartFails, ExtraReady, ExtraStart, Cleanup, Apart
<1>6. CASE ExtraFails(k)
  BY <1>0, <1>6 DEF ExtraFails, WindsUp, Cleanup, Apart
<1> QED
  BY <1>2, <1>3, <1>4, <1>5, <1>6 DEF CallStep, StartLive, StartExtraLive, EnsureLiveStopped,
     StartCommand, StartHistory, Peek, TransferStarts

(* Steps that leave the order of close() as it is.                          *)
LEMMA WoundUp ==
    ASSUME CloseOrder, lifetime # "open", UNCHANGED <<lifetime, disposing>>,
           \A k \in Call : WindsUp(k),
           \A s \in Station : lives'[s] \in {lives[s], None},
           extraLives' \subseteq extraLives, transfers' \subseteq transfers,
           \A s \in Station : closing[s] # "no" => closing'[s] # "no",
           disposing \subseteq Station,
           \A k \in Call : call'[k].pc = "transfer" => k \in transfers'
    PROVE CloseOrder'
<1>1. \A k \in Call : Cleanup(call'[k])
  BY DEF CloseOrder, WindsUp, Cleanup, Apart
<1>2. lifetime \in {"streams", "sessions", "closed"} =>
          \A k \in Call : call'[k].op \notin {"live", "extra"}
  BY DEF CloseOrder, WindsUp, Apart
<1>3. lifetime \in {"sessions", "closed"} =>
          \A k \in Call : Apart(call'[k]) \/ call'[k].st \in disposing
  BY DEF CloseOrder, WindsUp, Apart
<1> QED
  BY <1>1, <1>2, <1>3 DEF CloseOrder

(* A transfer that is under way is the cleanup promise's.                   *)
LEMMA OneTransfer ==
    ASSUME CloseOrder, NEW k \in Call, call'[k].pc # "transfer" \/ k \in transfers',
           \A j \in Call \ {k} : call'[j] = call[j], transfers \ {k} \subseteq transfers'
    PROVE \A j \in Call : call'[j].pc = "transfer" => j \in transfers'
BY DEF CloseOrder

LEMMA CallTransfers ==
    ASSUME CloseOrder, TypeOK, NEW k \in Call, CallStep(k)
    PROVE \A j \in Call : call'[j].pc = "transfer" => j \in transfers'
<1> USE OwnerAssumption DEF Goto, Return, TypeOK, CallType, NoCall, ExtraAt, reservations
<1> DEFINE Goal == \A j \in Call : call'[j].pc = "transfer" => j \in transfers'
<1>1. ASSUME NEW op, NEW s, NEW c, Begin(k, op, s, c) PROVE Goal
  BY <1>1, OneTransfer DEF Begin, RequestPc
<1>2. CASE \E c \in Camera : StartLive(k, c) \/ EnsureLiveStopped(k, c)
  BY <1>1, <1>2 DEF StartLive, EnsureLiveStopped
<1>3. CASE \E s \in Station, op \in Op : StartCommand(k, op, s) \/ StartHistory(k, op, s) \/ Peek(k, s)
  BY <1>1, <1>3 DEF StartCommand, StartHistory, Peek
<1>4. CASE \E c \in Camera : StartExtraLive(k, c) \/ EnsureAborted(k, c) \/ ExtraStart(k, c)
  BY <1>4, OneTransfer DEF StartExtraLive, EnsureAborted, ExtraStart
<1>5. CASE Answered(k) \/ RequestFails(k) \/ PresetRefused(k) \/ PeekReturns(k)
           \/ TransferStarts(k) \/ TransferCompletes(k) \/ TransferFails(k)
           \/ ConnectFails(k) \/ DeafReturns(k)
  BY <1>5, OneTransfer DEF Answered, RequestFails, PresetRefused, PeekReturns, TransferStarts,
       TransferCompletes, TransferFails, ConnectFails, DeafReturns, Release
<1>6. CASE LivestreamStart(k) \/ StartFails(k) \/ StopConfirmed(k) \/ StopUnconfirmed(k)
           \/ ExtraReady(k) \/ ExtraFails(k) \/ ExtraDisposed(k)
  BY <1>6, OneTransfer DEF LivestreamStart, StartFails, StopConfirmed, StopUnconfirmed, ExtraReady,
       ExtraFails, ExtraDisposed, Release
<1> QED
  BY <1>2, <1>3, <1>4, <1>5, <1>6 DEF CallStep, Op, CommandOp

LEMMA CallCloseOrder ==
    ASSUME CloseOrder, TypeOK, AllFit, UNCHANGED owners, NEW k \in Call, CallStep(k)
    PROVE CloseOrder'
<1>1. \A j \in Call : call'[j].pc = "transfer" => j \in transfers'
  BY CallTransfers
<1>2. UNCHANGED <<lifetime, disposing>> /\ disposing \subseteq Station
  BY DEF owners, TypeOK
<1>3. CASE lifetime = "open"
  BY <1>1, <1>2, <1>3 DEF CloseOrder
<1>4. CASE lifetime # "open"
  BY <1>1, <1>2, <1>4, CallWindsUp, WoundUp
<1> QED
  BY <1>3, <1>4

LEMMA SessionCloseOrder ==
    ASSUME CloseOrder, WaitsUp, TypeOK, AllFit, NEW s \in Station, SessionStep(s)
    PROVE CloseOrder'
<1> USE DEF TypeOK, CallType, NoCall, owners, streams, extras, reservations, session
<1>0. disposing \subseteq Station
  OBVIOUS
<1>1. CASE SessionUp(s) \/ SessionReconnect(s) \/ StopLive(s) \/ FinishLive(s)
           \/ StopTimeout(s) \/ StopRefused(s)
  <2>1. UNCHANGED <<call, owners, transfers, extraLives>> /\ \A t \in Station : lives'[t] \in {lives[t], None}
    BY <1>1 DEF SessionUp, SessionReconnect, StopLive, FinishLive, StopTimeout, StopRefused, EndLive
  <2>2. \A t \in Station : closing[t] # "no" => closing'[t] # "no"
    BY <1>1 DEF SessionUp, SessionReconnect, StopLive, FinishLive, StopTimeout, StopRefused, EndLive, Close
  <2> QED
    BY <2>1, <2>2 DEF CloseOrder
<1>2. CASE KeyReady(s)
  <2>1. UNCHANGED <<owners, lives, extraLives, closing>> /\ transfers' \subseteq transfers
    BY <1>2 DEF KeyReady, Release
  <2>2. \A k \in Call : \/ call'[k] = call[k] \/ call'[k] = NoCall
                        \/ /\ call'[k].op = call[k].op /\ call[k].pc = "connect"
                           /\ call'[k].pc \in {"wait", "confirm"}
    BY <1>2 DEF KeyReady, RequestPc
  <2>3. \A k \in Call : call'[k].pc = "transfer" => k \in transfers'
    <3>1. \A k \in Call : k \in transfers /\ k \notin transfers' => call[k].pc = "reconnect"
      BY <1>2 DEF KeyReady, Release
    <3> QED
      BY <2>2, <3>1 DEF CloseOrder
  <2>4. CASE lifetime = "open"
    BY <2>1, <2>3, <2>4 DEF CloseOrder
  <2>5. CASE lifetime # "open"
    <3>1. \A k \in Call : WindsUp(k)
      BY <2>2, <2>5 DEF CloseOrder, Cleanup, WindsUp, Apart
    <3> QED
      BY <1>0, <2>1, <2>3, <2>5, <3>1, WoundUp
  <2> QED
    BY <2>4, <2>5
<1>3. ASSUME UNCHANGED <<owners, extraLives, transfers>>,
             \A t \in Station : lives'[t] \in {lives[t], None},
             \A t \in Station : closing[t] # "no" => closing'[t] # "no",
             \A k \in Call : \/ call'[k] = call[k]
                             \/ /\ call'[k].op = call[k].op /\ call'[k].st = call[k].st
                                /\ \/ call'[k].pc \in {"drop", "close"}
                                   \/ call[k].op = "live" /\ call[k].pc = "wait" /\ call'[k].pc = "confirm"
      PROVE CloseOrder'
  <2>1. \A k \in Call : call'[k].pc = "transfer" => k \in transfers'
    BY <1>3 DEF CloseOrder
  <2>2. CASE lifetime = "open"
    BY <1>3, <2>1, <2>2 DEF CloseOrder
  <2>3. CASE lifetime # "open"
    <3>1. \A k \in Call : WindsUp(k)
      BY <1>3, <2>3 DEF CloseOrder, Cleanup, WindsUp, Apart
    <3> QED
      BY <1>0, <1>3, <2>1, <2>3, <3>1, WoundUp
  <2> QED
    BY <2>2, <2>3
<1>4. CASE DialFails(s)
  BY <1>3, <1>4 DEF DialFails
<1>5. CASE LinkLost(s) \/ CloseEnd(s)
  <2>1. /\ Ended(s) /\ UNCHANGED <<owners, extraLives, transfers>>
        /\ \A t \in Station : closing[t] # "no" => closing'[t] # "no"
    BY <1>5 DEF LinkLost, CloseEnd
  <2>2. \A k \in Call : \/ call'[k] = call[k]
                        \/ /\ call'[k].op = call[k].op /\ call'[k].st = call[k].st
                           /\ \/ call'[k].pc \in {"drop", "close"}
                              \/ call[k].op = "live" /\ call[k].pc = "wait" /\ call'[k].pc = "confirm"
    BY <2>1 DEF Ended, Stopping, Pending, On
  <2>3. \A t \in Station : lives'[t] \in {lives[t], None}
    BY <2>1 DEF Ended
  <2> QED
    BY <1>3, <2>1, <2>2, <2>3
<1>6. CASE SocketClosed(s)
  <2>1. /\ closing[s] = "socket" /\ disposing' = disposing \ {s}
        /\ UNCHANGED <<lives, extraLives, lifetime>> /\ transfers' \subseteq transfers
        /\ \A t \in Station \ {s} : closing'[t] = closing[t]
    BY <1>6 DEF SocketClosed, Release
  <2>2. \A k \in Call : \/ call'[k] = call[k] \/ call'[k] = NoCall
                        \/ /\ call[k].pc = "renew" /\ call'[k].op = call[k].op
                           /\ call'[k].pc \in {"deafConnect", "reconnect"}
    BY <1>6 DEF SocketClosed
  <2>3. \A k \in Call : k \in transfers /\ k \notin transfers' => call'[k] = NoCall
    BY <1>6 DEF SocketClosed, Release, On
  <2>4. \A k \in Call : call'[k].pc = "transfer" => k \in transfers'
    BY <2>2, <2>3 DEF CloseOrder
  <2>5. \A k \in Call : call'[k] = call[k] \/ Apart(call'[k])
    BY <2>2 DEF AllFit, Fits, Apart
  <2>6. \A k \in On(s) : call[k].pc \in {"drop", "close"} => call'[k] = NoCall
    BY <1>6 DEF SocketClosed, On
  <2>7. ASSUME lifetime \in {"sessions", "closed"}, NEW k \in Call
        PROVE Apart(call'[k]) \/ call'[k].st \in disposing'
    <3>1. Cleanup(call[k]) /\ call[k].op \notin {"live", "extra"}
          /\ (Apart(call[k]) \/ call[k].st \in disposing)
      BY <2>7 DEF CloseOrder
    <3>2. CASE call'[k] = call[k] /\ call[k].st = s /\ ~Apart(call[k])
      <4>1. call[k].pc \in {"wait", "transfer"} /\ call[k].op = "download"
        BY <2>6, <3>1, <3>2 DEF Cleanup, On, Apart
      <4> QED
        BY <2>1, <3>2, <4>1 DEF WaitsUp
    <3> QED
      BY <2>1, <2>5, <3>1, <3>2
  <2>8. \A k \in Call : Cleanup(call[k]) => Cleanup(call'[k])
    BY <2>5 DEF Cleanup
  <2>9. \A k \in Call : call[k].op \notin {"live", "extra"} => call'[k].op \notin {"live", "extra"}
    BY <2>5 DEF Apart
  <2> QED
    BY <2>1, <2>4, <2>7, <2>8, <2>9 DEF CloseOrder
<1> QED
  BY <1>1, <1>2, <1>4, <1>5, <1>6 DEF SessionStep

LEMMA OtherCloseOrder ==
    ASSUME CloseOrder, LoadsApart, TypeOK, AllFit,
           (\E c \in Camera : ExtraStep(c)) \/ LoadStep \/ CloseStep
    PROVE CloseOrder'
<1> USE DEF TypeOK, CallType, NoCall, owners, streams, extras, reservations, session
<1>1. ASSUME NEW c \in Camera, ExtraStep(c) PROVE CloseOrder'
  <2>1. UNCHANGED <<call, owners, transfers, lives, closing>> /\ extraLives' \subseteq extraLives
    BY <1>1 DEF ExtraStep, StopExtraLive, FinishExtraLive
  <2> QED
    BY <2>1 DEF CloseOrder
<1>2. CASE LoadStep
  <2>1. PICK s : Dispose(s) /\ lifetime = "open"
    BY <1>2 DEF LoadStep, Load, LoadNext
  <2>2. UNCHANGED <<lifetime, transfers>> /\ \A k \in Call : call'[k].pc = "transfer" => call[k].pc = "transfer"
    BY <2>1 DEF Dispose
  <2> QED
    BY <2>1, <2>2 DEF CloseOrder
<1>3. CASE CloseBegin
  <2>1. UNCHANGED transfers /\ lifetime' = "transfers" /\ \A k \in Call : ~Deaf(call[k]) \/ Apart(call[k])
    BY <1>3 DEF CloseBegin, LoadsApart
  <2>2. ASSUME NEW k \in Call PROVE Cleanup(call'[k]) /\ (call'[k].pc = "transfer" => call[k].pc = "transfer")
    <3>1. Fits(call[k]) /\ call[k] \in CallType
      BY DEF AllFit
    <3>2. CASE call[k].pc = "wait" /\ call[k].op = "peek"
      BY <1>3, <3>2 DEF CloseBegin, Cleanup, Apart
    <3>3. CASE ~(call[k].pc = "wait" /\ call[k].op = "peek")
      <4>1. call'[k].op = call[k].op
        BY <1>3, <3>3 DEF CloseBegin
      <4>2. CASE call[k].pc \in {"connect", "reconnect"}
        BY <1>3, <3>3, <4>2 DEF CloseBegin, Cleanup
      <4>3. CASE call[k].pc = "wait"
        BY <1>3, <3>1, <3>3, <4>1, <4>3
           DEF CloseBegin, Cleanup, Fits, ExtraPc, Op, CommandOp, HistoryOp, Apart
      <4>4. CASE call[k].pc = "confirm"
        BY <1>3, <3>1, <3>3, <4>1, <4>4 DEF CloseBegin, Cleanup, Fits, Apart
      <4>5. CASE call[k].pc \in {"xconnect", "xwait"}
        BY <1>3, <3>1, <3>3, <4>1, <4>5 DEF CloseBegin, Cleanup, Fits, ExtraPc, Apart
      <4>6. CASE call[k].pc \notin {"connect", "reconnect", "wait", "confirm", "xconnect", "xwait"}
        <5>1. call'[k].pc = call[k].pc
          BY <1>3, <3>3, <4>6 DEF CloseBegin
        <5>2. call[k].pc \in {"drop", "deafConnect", "idle", "transfer", "close", "renew", "deaf",
                              "xconfirm", "xdispose"}
          BY <3>1, <4>6 DEF Pc, Linking
        <5> QED
          BY <2>1, <3>1, <4>1, <5>1, <5>2 DEF Cleanup, Fits, ExtraPc, Apart, Deaf
      <4> QED
        BY <4>2, <4>3, <4>4, <4>5, <4>6
    <3> QED
      BY <3>2, <3>3
  <2> QED
    BY <2>1, <2>2 DEF CloseOrder
<1>4. CASE CloseStarts
  BY <1>4 DEF CloseStarts, CloseOrder
<1>5. CASE CloseStreams
  BY <1>5 DEF CloseStreams, CloseOrder
<1>6. CASE CloseSessions
  <2>1. \A s \in Station : closing'[s] # "no"
    BY <1>6 DEF CloseSessions, Close
  <2>2. \A k \in Call : Apart(call[k]) \/ call[k].st \in Station
    BY DEF AllFit, Fits, Apart
  <2> QED
    BY <1>6, <2>1, <2>2 DEF CloseSessions, CloseOrder
<1>7. CASE CloseDone
  BY <1>7 DEF CloseDone, CloseOrder
<1> QED
  BY <1>1, <1>2, <1>3, <1>4, <1>5, <1>6, <1>7 DEF CloseStep

CloseInv == Reserved /\ WaitsUp /\ LoadsApart /\ CloseOrder

LEMMA InitClose == Init => CloseInv
<1> SUFFICES ASSUME Init PROVE CloseInv
  OBVIOUS
<1>1. WaitsUp /\ LoadsApart /\ CloseOrder
  BY DEF Init, WaitsUp, LoadsApart, CloseOrder, NoCall, Deaf
<1> QED
  BY <1>1, InitReserved DEF CloseInv

LEMMA StepClose == CloseInv /\ [Next]_vars => CloseInv'
<1> SUFFICES ASSUME CloseInv, [Next]_vars PROVE CloseInv'
  OBVIOUS
<1>1. Reserved /\ Reserved' /\ TypeOK /\ AllFit /\ WaitsUp /\ LoadsApart /\ CloseOrder
  BY StepReserved DEF CloseInv, Reserved, Ownership
<1>2. CASE Next
  <2>1. WaitsUp'
    BY <1>1, <1>2, CallWaitsUp, SessionWaitsUp, OtherWaitsUp DEF Next
  <2>2. LoadsApart'
    BY <1>1, <1>2, CallLoadsApart, SessionLoadsApart, OtherLoadsApart DEF Next
  <2>3. CloseOrder'
    BY <1>1, <1>2, CallCloseOrder, CallKeepsOwners, SessionCloseOrder, OtherCloseOrder DEF Next
  <2> QED
    BY <1>1, <2>1, <2>2, <2>3 DEF CloseInv
<1>3. CASE UNCHANGED vars
  BY <1>1, <1>3 DEF vars, session, reservations, streams, owners, extras, CloseInv, WaitsUp,
     LoadsApart, CloseOrder
<1> QED
  BY <1>2, <1>3

(* When close() is done nothing streams and nothing is reserved: no call    *)
(* but a STOP-only one is left to use a disposed session.                   *)
THEOREM ClosedHolds == Spec => []ClosedIsQuiet
<1>1. CloseInv => ClosedIsQuiet
  <2> SUFFICES ASSUME CloseInv, lifetime = "closed" PROVE ClosedIsQuiet
    BY DEF ClosedIsQuiet
  <2>1. /\ TypeOK /\ OwnersHeld /\ ExtrasHeld /\ AllFit
        /\ transfers = {} /\ extraLives = {} /\ disposing = {}
        /\ \A s \in Station : lives[s] = None
        /\ \A k \in Call : Apart(call[k])
    BY DEF CloseInv, Reserved, Ownership, ExtrasInv, CloseOrder
  <2>2. starting = {} /\ operations = {}
    BY <2>1 DEF TypeOK, OwnersHeld, Pending, HistoryOp, Apart, On
  <2>3. extraStarting = {}
    BY <2>1 DEF TypeOK, ExtrasHeld, Opening, Apart
  <2>4. \A k \in Call : Idle(k) \/ call[k].op = "ensure"
    BY <2>1 DEF Apart, AllFit, Fits, Idle
  <2> QED
    BY <2>1, <2>2, <2>3, <2>4 DEF ClosedIsQuiet
<1> QED
  BY <1>1, InitClose, StepClose, PTL DEF Spec

-----------------------------------------------------------------------------
(* Whom a session close can hit.  A session has its key only while its link *)
(* is up, or until load() replaces it; so a peek never waits for the key of *)
(* a session that is connected, and a failed attempt of its closes no       *)
(* session that another call uses.                                          *)

KeyHeld == \A s \in encryption : link[s] = "up" \/ s \in loading
PeekHeld == \A k \in Call : call[k].op = "peek" /\ call[k].pc = "connect" => ~Connected(call[k].st)

KeepsKeys ==
    /\ \A s \in Station : link'[s] = "up" <=> link[s] = "up"
    /\ UNCHANGED <<encryption, loading>>
    /\ \A k \in Call : call'[k].op = "peek" /\ call'[k].pc = "connect" =>
            call'[k] = call[k] \/ ~Connected(call'[k].st)

LEMMA KeepsKeysHeld ==
    ASSUME TypeOK, AllFit, KeyHeld, PeekHeld, KeepsKeys
    PROVE KeyHeld' /\ PeekHeld'
<1>1. KeyHeld'
  BY DEF KeyHeld, KeepsKeys, TypeOK
<1>2. \A s \in Station : Connected(s)' <=> Connected(s)
  BY DEF KeepsKeys, Connected
<1>3. ASSUME NEW k \in Call, call'[k].op = "peek", call'[k].pc = "connect"
      PROVE ~Connected(call[k].st)'
  <2>1. ~Connected(call'[k].st)
    BY <1>3 DEF KeepsKeys, PeekHeld
  <2> QED
    BY <1>3, <2>1 DEF Connected, KeepsKeys, TypeOK
<1>4. PeekHeld'
  BY <1>3 DEF PeekHeld
<1> QED
  BY <1>1, <1>4

LEMMA CallKeepsKeys ==
    ASSUME TypeOK, NEW k \in Call, CallStep(k)
    PROVE KeepsKeys
<1> USE OwnerAssumption DEF Goto, Return, TypeOK, CallType, NoCall, ExtraAt, session
<1>1. UNCHANGED loading
  BY CallKeepsOwners DEF owners
<1>2. ASSUME NEW op, NEW s \in Station, NEW c, Begin(k, op, s, c) PROVE KeepsKeys
  <2>1. link' \in {link, Dialled(s)} /\ UNCHANGED <<closing, encryption>>
    BY <1>2 DEF Begin
  <2>2. /\ \A j \in Call \ {k} : call'[j] = call[j]
        /\ call'[k].st = s /\ (call'[k].pc = "connect" => ~Connected(s))
    BY <1>2 DEF Begin, RequestPc
  <2> QED
    BY <1>1, <2>1, <2>2, DiallingKeepsUp DEF KeepsKeys
<1>3. ASSUME UNCHANGED encryption, (\E S : Close(S)) \/ UNCHANGED link,
             call'[k].pc # "connect", \A j \in Call \ {k} : call'[j] = call[j]
      PROVE KeepsKeys
  BY <1>1, <1>3, ClosingKeepsUp DEF KeepsKeys
<1>4. CASE \E c \in Camera : StartLive(k, c) \/ EnsureLiveStopped(k, c)
  BY <1>2, <1>4 DEF StartLive, EnsureLiveStopped
<1>5. CASE \E s \in Station, op \in Op : StartCommand(k, op, s) \/ StartHistory(k, op, s) \/ Peek(k, s)
  BY <1>2, <1>5 DEF StartCommand, StartHistory, Peek
<1>6. CASE \E c \in Camera : StartExtraLive(k, c) \/ EnsureAborted(k, c) \/ ExtraStart(k, c)
  BY <1>3, <1>6 DEF StartExtraLive, EnsureAborted, ExtraStart
<1>7. CASE Answered(k) \/ RequestFails(k) \/ PresetRefused(k) \/ PeekReturns(k)
           \/ TransferStarts(k) \/ TransferCompletes(k) \/ TransferFails(k)
           \/ ConnectFails(k) \/ DeafReturns(k)
  BY <1>3, <1>7 DEF Answered, RequestFails, PresetRefused, PeekReturns, TransferStarts,
     TransferCompletes, TransferFails, ConnectFails, DeafReturns
<1>8. CASE LivestreamStart(k) \/ StartFails(k) \/ StopConfirmed(k) \/ StopUnconfirmed(k)
           \/ ExtraReady(k) \/ ExtraFails(k) \/ ExtraDisposed(k)
  BY <1>3, <1>8 DEF LivestreamStart, StartFails, StopConfirmed, StopUnconfirmed, ExtraReady,
     ExtraFails, ExtraDisposed
<1> QED
  BY <1>4, <1>5, <1>6, <1>7, <1>8 DEF CallStep, Op, CommandOp

LEMMA SessionKeepsKeys ==
    ASSUME TypeOK, AllFit, WaitsUp, LoadsApart, KeyHeld, PeekHeld, NEW s \in Station, SessionStep(s)
    PROVE KeyHeld' /\ PeekHeld'
<1> USE DEF TypeOK, CallType, NoCall, session, owners
<1>1. CASE SessionUp(s)
  <2>1. KeyHeld'
    BY <1>1 DEF SessionUp, KeyHeld
  <2>2. s \in encryption => s \in loading
    BY <1>1 DEF SessionUp, KeyHeld
  <2>3. ASSUME NEW k \in Call, call[k].op = "peek", call[k].pc = "connect"
        PROVE ~Connected(call[k].st)'
    <3>1. loading = {} /\ ~Connected(call[k].st)
      BY <2>3 DEF LoadsApart, Apart, PeekHeld
    <3> QED
      BY <1>1, <2>2, <3>1 DEF SessionUp, Connected
  <2> QED
    BY <1>1, <2>1, <2>3 DEF SessionUp, PeekHeld
<1>2. CASE KeyReady(s)
  <2>1. KeyHeld'
    BY <1>2 DEF KeyReady, KeyHeld
  <2>2. ASSUME NEW k \in Call, call'[k].op = "peek", call'[k].pc = "connect"
        PROVE call'[k] = call[k] /\ call[k].st # s
    BY <1>2, <2>2 DEF KeyReady, On, RequestPc
  <2>3. PeekHeld'
    BY <1>2, <2>2 DEF KeyReady, PeekHeld, Connected
  <2> QED
    BY <2>1, <2>3
<1>3. ASSUME \A t \in Station : link'[t] = "up" => link[t] = "up",
             encryption' \subseteq encryption,
             \A t \in encryption' : (link[t] = "up" => link'[t] = "up" \/ t \in loading')
                                    /\ (t \in loading => t \in loading'),
             \A k \in Call : call'[k] = call[k] \/ call'[k].pc # "connect"
      PROVE KeyHeld' /\ PeekHeld'
  <2>1. KeyHeld'
    BY <1>3 DEF KeyHeld
  <2>2. PeekHeld'
    <3>1. ASSUME NEW k \in Call, call'[k].op = "peek", call'[k].pc = "connect"
          PROVE ~Connected(call[k].st)'
      <4>1. call'[k] = call[k] /\ ~Connected(call[k].st) /\ call[k].st \in Station
        BY <1>3, <3>1 DEF PeekHeld, AllFit, Fits
      <4> QED
        BY <1>3, <4>1 DEF Connected
    <3> QED
      BY <3>1 DEF PeekHeld
  <2> QED
    BY <2>1, <2>2
<1>4. CASE SessionReconnect(s)
  BY <1>3, <1>4, DiallingKeepsUp DEF SessionReconnect
<1>5. CASE DialFails(s)
  BY <1>3, <1>5 DEF DialFails
<1>6. CASE LinkLost(s) \/ CloseEnd(s)
  <2>1. Ended(s) /\ UNCHANGED owners
    BY <1>6 DEF LinkLost, CloseEnd
  <2>2. /\ link'[s] # "up" /\ \A t \in Station \ {s} : link'[t] = link[t]
        /\ encryption' \subseteq encryption /\ (s \in encryption' => s \in loading)
        /\ \A k \in Call : call'[k] = call[k] \/ call'[k].pc # "connect"
    BY <2>1 DEF Ended
  <2> QED
    BY <1>3, <2>1, <2>2
<1>7. CASE SocketClosed(s)
  <2>1. /\ encryption' = encryption \ {s} /\ loading \subseteq loading' \cup {s}
        /\ link'[s] # "up" /\ \A t \in Station \ {s} : link'[t] = link[t]
        /\ \A k \in Call : call'[k] = call[k] \/ call'[k].pc # "connect"
    BY <1>7 DEF SocketClosed
  <2> QED
    BY <1>3, <2>1
<1>8. CASE StopLive(s) \/ FinishLive(s) \/ StopTimeout(s) \/ StopRefused(s)
  <2>1. UNCHANGED <<call, encryption, owners>> /\ (Close({s}) \/ UNCHANGED link)
    BY <1>8 DEF StopLive, FinishLive, StopTimeout, StopRefused, EndLive
  <2> QED
    BY <1>3, <2>1, ClosingKeepsUp
<1> QED
  BY <1>1, <1>2, <1>4, <1>5, <1>6, <1>7, <1>8 DEF SessionStep

LEMMA OtherKeepsKeys ==
    ASSUME TypeOK, AllFit, KeyHeld, PeekHeld, (\E c \in Camera : ExtraStep(c)) \/ LoadStep \/ CloseStep
    PROVE KeyHeld' /\ PeekHeld'
<1> USE DEF TypeOK, CallType, NoCall, session, owners
<1>1. ASSUME UNCHANGED <<link, encryption, loading, call>> PROVE KeyHeld' /\ PeekHeld'
  BY <1>1 DEF KeyHeld, PeekHeld, Connected
<1>2. ASSUME NEW S, Close(S), UNCHANGED encryption, loading \subseteq loading',
             \A k \in Call : call'[k] = call[k] \/ call'[k].pc # "connect"
      PROVE KeyHeld' /\ PeekHeld'
  <2>1. \A t \in Station : link'[t] = "up" <=> link[t] = "up"
    BY <1>2, ClosingKeepsUp
  <2>2. KeyHeld'
    BY <1>2, <2>1 DEF KeyHeld
  <2>3. ASSUME NEW k \in Call, call'[k].op = "peek", call'[k].pc = "connect"
        PROVE ~Connected(call[k].st)'
    BY <1>2, <2>1, <2>3 DEF PeekHeld, Connected
  <2> QED
    BY <2>2, <2>3 DEF PeekHeld
<1>3. ASSUME NEW c \in Camera, ExtraStep(c) PROVE KeyHeld' /\ PeekHeld'
  BY <1>1, <1>3 DEF ExtraStep, StopExtraLive, FinishExtraLive
<1>4. CASE LoadStep
  <2>1. PICK s : Dispose(s) /\ loading \subseteq loading'
    BY <1>4 DEF LoadStep, Load, LoadNext
  <2> QED
    BY <1>2, <2>1 DEF Dispose
<1>5. CASE CloseBegin
  <2>1. \A k \in Call : call'[k].pc # "connect"
    BY <1>5 DEF CloseBegin
  <2> QED
    BY <1>2, <1>5, <2>1 DEF CloseBegin
<1>6. CASE CloseStreams \/ CloseSessions
  BY <1>2, <1>6 DEF CloseStreams, CloseSessions
<1>7. CASE CloseStarts \/ CloseDone
  BY <1>1, <1>7 DEF CloseStarts, CloseDone
<1> QED
  BY <1>3, <1>4, <1>5, <1>6, <1>7 DEF CloseStep

-----------------------------------------------------------------------------
Cut(x) == x.op # "peek" /\ x.pc \in {"wait", "confirm", "transfer"}
Spared(s) ==
    /\ \A k \in Call : call'[k].st = s => ~Cut(call'[k])
    /\ lives'[s] # None => s \in stop'
Closes(s) == closing[s] = "no" /\ closing'[s] # "no" /\ s \notin disposing' /\ Connected(s)

(* The owner of a session is its only user.                                 *)
LEMMA OwnerAlone ==
    ASSUME Reserved, NEW s \in Station, NEW k \in Pending(s, ExclusiveOp)
    PROVE /\ lives[s] = None
          /\ \A j \in Call \ {k} : call[j].st = s => ~Cut(call[j])
<1>1. Ownership /\ AllFit /\ TypeOK
  BY DEF Reserved, Ownership
<1>2. lives[s] = None
  BY <1>1 DEF Ownership, OneOwner
<1>3. ASSUME NEW j \in Call \ {k}, call[j].st = s PROVE ~Cut(call[j])
  <2>1. call[j].op \notin ExclusiveOp
    BY <1>1, <1>3 DEF Ownership, OneOwner, Pending, On
  <2>2. call[j].op \in {"none", "peek", "extra"}
    BY <1>1, <2>1 DEF TypeOK, CallType, Op, ExclusiveOp
  <2> QED
    BY <1>1, <2>2 DEF AllFit, Fits, Cut, NoCall, ExtraPc
<1> QED
  BY <1>2, <1>3

(* A stream's session has no other user either.                             *)
LEMMA StreamAlone ==
    ASSUME Reserved, NEW s \in Station, Pending(s, ExclusiveOp) = {}
    PROVE \A j \in Call : call[j].st = s => ~Cut(call[j])
<1>1. AllFit /\ TypeOK
  BY DEF Reserved, Ownership
<1> SUFFICES ASSUME NEW j \in Call, call[j].st = s PROVE ~Cut(call[j])
  OBVIOUS
<1>2. call[j].op \notin ExclusiveOp
  BY DEF Pending, On
<1>3. call[j].op \in {"none", "peek", "extra"}
  BY <1>1, <1>2 DEF TypeOK, CallType, Op, ExclusiveOp
<1> QED
  BY <1>1, <1>3 DEF AllFit, Fits, Cut, NoCall, ExtraPc

(* A connected session's attempt is its owner's.                            *)
LEMMA LinkedOwns ==
    ASSUME Reserved, PeekHeld, NEW k \in Call, call[k].pc \in {"connect", "reconnect"},
           Connected(call[k].st)
    PROVE call[k].op \in ExclusiveOp
<1>1. Fits(call[k]) /\ call[k] \in CallType
  BY DEF Reserved, AllFit, Ownership, TypeOK
<1>2. call[k].op \notin {"none", "peek", "extra"}
  BY <1>1 DEF Fits, PeekHeld, ExtraPc, NoCall
<1> QED
  BY <1>1, <1>2 DEF CallType, Op, ExclusiveOp

LEMMA CallSpares ==
    ASSUME Reserved, PeekHeld, NEW k \in Call, CallStep(k), NEW s \in Station, Closes(s)
    PROVE Spared(s)
<1> USE OwnerAssumption DEF Goto, Return, NoCall, ExtraAt, session, Closes
<1>0. TypeOK /\ AllFit /\ Ownership
  BY DEF Reserved, Ownership
<1>1. ASSUME k \in Pending(s, ExclusiveOp), UNCHANGED lives, ~Cut(call'[k]),
             \A j \in Call \ {k} : call'[j] = call[j]
      PROVE Spared(s)
  BY <1>1, OwnerAlone DEF Spared
<1>2. ASSUME NEW t, Close({t}) PROVE t = s
  BY <1>2 DEF Close
<1>3. CASE \E c \in Camera : EnsureAborted(k, c)
  <2>1. PICK c \in Camera : EnsureAborted(k, c)
    BY <1>3
  <2>2. OwnerOf[c] = s
    BY <1>2, <2>1 DEF EnsureAborted
  <2>3. Pending(s, ExclusiveOp) = {} /\ lives[s] = None
    BY <1>0, <2>1, <2>2 DEF EnsureAborted, EnsureFree, StreamBusy, RecordingsBusy, Ownership,
       OwnersHeld, Pending, ExclusiveOp
  <2>4. \A j \in Call : call[j].st = s => ~Cut(call[j])
    BY <2>3, StreamAlone
  <2>5. ~Cut(call'[k]) /\ \A j \in Call \ {k} : call'[j] = call[j]
    BY <1>0, <2>1 DEF EnsureAborted, TypeOK, Cut
  <2> QED
    BY <2>1, <2>3, <2>4, <2>5 DEF Spared, EnsureAborted, streams
<1>4. CASE RequestFails(k) \/ TransferFails(k) \/ StopUnconfirmed(k)
           \/ (StopConfirmed(k) /\ call[k].op = "ensure")
  <2>1. Close({call[k].st}) /\ UNCHANGED lives /\ call[k].pc \in {"wait", "confirm", "transfer"}
        /\ (call[k].pc = "wait" => call[k].op \in {"guard", "preset"} \cup HistoryOp)
        /\ \E pc \in {"close", "renew"} : Goto(k, pc)
    BY <1>4 DEF RequestFails, TransferFails, StopUnconfirmed, StopConfirmed, streams
  <2>2. call[k].st = s
    BY <1>2, <2>1
  <2>3. call[k].op \in ExclusiveOp
    BY <1>0, <2>1 DEF AllFit, Fits, ExclusiveOp, CommandOp, HistoryOp
  <2>4. ~Cut(call'[k]) /\ \A j \in Call \ {k} : call'[j] = call[j]
    BY <1>0, <2>1 DEF TypeOK, CallType, Cut
  <2> QED
    BY <1>1, <2>1, <2>2, <2>3, <2>4 DEF Pending, On
<1>5. CASE ConnectFails(k)
  <2>1. call[k].st = s
    BY <1>2, <1>5 DEF ConnectFails
  <2>2. call[k].op \in ExclusiveOp
    BY <1>5, <2>1, LinkedOwns DEF ConnectFails
  <2>3. ~Cut(call'[k]) /\ \A j \in Call \ {k} : call'[j] = call[j]
    BY <1>0, <1>5 DEF ConnectFails, TypeOK, CallType, Cut
  <2> QED
    BY <1>1, <1>5, <2>1, <2>2, <2>3 DEF Pending, On, ConnectFails, streams
<1>6. ASSUME UNCHANGED closing PROVE FALSE
  BY <1>6
<1>7. CASE \E c \in Camera : StartLive(k, c) \/ EnsureLiveStopped(k, c) \/ StartExtraLive(k, c)
                             \/ ExtraStart(k, c)
  BY <1>6, <1>7 DEF StartLive, EnsureLiveStopped, StartExtraLive, ExtraStart, Begin
<1>8. CASE \E t \in Station, op \in Op : StartCommand(k, op, t) \/ StartHistory(k, op, t) \/ Peek(k, t)
  BY <1>6, <1>8 DEF StartCommand, StartHistory, Peek, Begin
<1>9. CASE Answered(k) \/ PresetRefused(k) \/ PeekReturns(k) \/ TransferStarts(k)
           \/ TransferCompletes(k) \/ DeafReturns(k) \/ LivestreamStart(k) \/ StartFails(k)
           \/ (StopConfirmed(k) /\ call[k].op # "ensure")
           \/ ExtraReady(k) \/ ExtraFails(k) \/ ExtraDisposed(k)
  BY <1>6, <1>9 DEF Answered, PresetRefused, PeekReturns, TransferStarts, TransferCompletes,
     DeafReturns, LivestreamStart, StartFails, StopConfirmed, ExtraReady, ExtraFails, ExtraDisposed
<1> QED
  BY <1>3, <1>4, <1>5, <1>7, <1>8, <1>9 DEF CallStep, Op, CommandOp

LEMMA SessionSpares ==
    ASSUME Reserved, PeekHeld, NEW t \in Station, SessionStep(t), NEW s \in Station, Closes(s)
    PROVE Spared(s)
<1> USE DEF NoCall, session, Closes
<1>0. TypeOK /\ AllFit /\ Ownership
  BY DEF Reserved, Ownership
<1>1. CASE SessionUp(t) \/ KeyReady(t) \/ SessionReconnect(t) \/ FinishLive(t)
           \/ CloseEnd(t) \/ SocketClosed(t)
  BY <1>0, <1>1 DEF SessionUp, KeyReady, SessionReconnect, FinishLive, CloseEnd, SocketClosed, TypeOK
<1>2. CASE DialFails(t)
  BY <1>0, <1>2 DEF DialFails, TypeOK, Connected
<1>3. CASE LinkLost(t)
  <2>1. t = s /\ Linked(s) \cup Failing(s) # {} /\ Ended(s)
    BY <1>0, <1>3 DEF LinkLost, TypeOK
  <2>2. PICK k \in Linked(s) \cup Failing(s) : k \in Pending(s, ExclusiveOp)
    <3>1. \A k \in Linked(s) : k \in Pending(s, ExclusiveOp)
      BY LinkedOwns DEF Linked, Pending, On
    <3>2. \A k \in Failing(s) : k \in Pending(s, ExclusiveOp)
      BY <1>0 DEF Failing, Pending, On, AllFit, Fits, TypeOK, CallType, Op, ExclusiveOp, ExtraPc
    <3> QED
      BY <2>1, <3>1, <3>2
  <2>3. \A j \in Call \ {k} : call[j].st = s => ~Cut(call[j])
    BY <2>2, OwnerAlone
  <2>4. \A j \in Call : call'[j].st = call[j].st /\ call'[j].op = call[j].op
    BY <1>0, <2>1 DEF Ended, TypeOK, CallType
  <2>5. \A j \in Call \ {k} : call[j].st = s => ~Cut(call'[j])
    BY <1>0, <2>1, <2>3, <2>4 DEF Ended, Stopping, Pending, On, Cut, TypeOK, CallType
  <2>6. ~Cut(call'[k])
    BY <1>0, <2>1, <2>2 DEF Ended, Linked, Failing, Stopping, Pending, On, Cut, TypeOK, CallType
  <2>7. lives'[s] = None
    BY <1>0, <2>1 DEF Ended, TypeOK
  <2> QED
    BY <2>4, <2>5, <2>6, <2>7 DEF Spared
<1>4. CASE StopLive(t) \/ StopTimeout(t) \/ StopRefused(t)
  <2>1. UNCHANGED call /\ lives[t] # None /\ (Close({t}) \/ UNCHANGED closing)
        /\ (lives'[t] = None \/ t \in stop')
    BY <1>0, <1>4 DEF StopLive, StopTimeout, StopRefused, EndLive, TypeOK
  <2>2. t = s
    BY <2>1 DEF Close
  <2>3. Pending(s, ExclusiveOp) = {}
    BY <1>0, <2>1, <2>2 DEF Ownership, OneOwner
  <2> QED
    BY <2>1, <2>2, <2>3, StreamAlone DEF Spared
<1> QED
  BY <1>1, <1>2, <1>3, <1>4 DEF SessionStep

LEMMA OtherSpares ==
    ASSUME Reserved, PeekHeld, (\E c \in Camera : ExtraStep(c)) \/ LoadStep \/ CloseStep,
           NEW s \in Station, Closes(s)
    PROVE Spared(s)
<1> USE DEF session, Closes
<1>0. TypeOK /\ AllFit /\ Ownership
  BY DEF Reserved, Ownership
<1>1. CASE (\E c \in Camera : ExtraStep(c)) \/ CloseStarts \/ CloseDone
  BY <1>1 DEF ExtraStep, StopExtraLive, FinishExtraLive, CloseStarts, CloseDone
<1>2. CASE LoadStep
  <2>1. PICK t : Dispose(t)
    BY <1>2 DEF LoadStep, Load, LoadNext
  <2> QED
    BY <2>1 DEF Dispose, Close
<1>3. CASE CloseSessions
  BY <1>3 DEF CloseSessions
<1>4. CASE CloseStreams
  <2>1. UNCHANGED <<call, lives>> /\ lives[s] # None /\ s \in stop'
    BY <1>4 DEF CloseStreams, Close
  <2>2. Pending(s, ExclusiveOp) = {}
    BY <1>0, <2>1 DEF Ownership, OneOwner
  <2> QED
    BY <2>1, <2>2, StreamAlone DEF Spared
<1>5. CASE CloseBegin
  <2> DEFINE linked == {k \in Call : call[k].pc \in {"connect", "reconnect"}}
             failing == {k \in Call : \/ call[k].pc = "wait"
                                          /\ call[k].op \in {"guard", "preset", "record"}
                                      \/ call[k].pc = "confirm" /\ call[k].op = "ensure"}
  <2>1. Close({call[k].st : k \in linked \cup failing})
    BY <1>5 DEF CloseBegin
  <2>2. PICK k \in linked \cup failing : call[k].st = s
    BY <2>1 DEF Close
  <2>3. k \in Pending(s, ExclusiveOp)
    <3>1. CASE k \in linked
      BY <2>2, <3>1, LinkedOwns DEF Pending, On
    <3>2. CASE k \in failing
      BY <2>2, <3>2 DEF Pending, On, ExclusiveOp, CommandOp, HistoryOp
    <3> QED
      BY <3>1, <3>2
  <2>4. lives[s] = None /\ \A j \in Call \ {k} : call[j].st = s => ~Cut(call[j])
    BY <2>3, OwnerAlone
  <2>5. ~Cut(call'[k])
    BY <1>0, <1>5, <2>2 DEF CloseBegin, Cut, NoCall, TypeOK, CallType
  <2>6. ASSUME NEW j \in Call \ {k}, call'[j].st = s PROVE ~Cut(call'[j])
    <3>1. call'[j] = NoCall \/ call[j].st = s
      BY <1>5, <2>6 DEF CloseBegin
    <3>2. call[j].st = s
      BY <2>6, <3>1, NoneAssumption DEF NoCall
    <3>3. ~Cut(call[j])
      BY <2>4, <3>2
    <3> QED
      BY <1>0, <1>5, <3>3 DEF CloseBegin, Cut, NoCall, TypeOK, CallType
  <2> QED
    BY <1>5, <2>4, <2>5, <2>6 DEF Spared, CloseBegin, streams
<1> QED
  BY <1>1, <1>2, <1>3, <1>4, <1>5 DEF CloseStep

SparesInv == CloseInv /\ KeyHeld /\ PeekHeld

LEMMA InitSpares == Init => SparesInv
BY InitClose DEF Init, SparesInv, KeyHeld, PeekHeld, NoCall

LEMMA StepSparesInv == SparesInv /\ [Next]_vars => SparesInv'
<1> SUFFICES ASSUME SparesInv, [Next]_vars PROVE SparesInv'
  OBVIOUS
<1>1. /\ CloseInv' /\ TypeOK /\ AllFit /\ WaitsUp /\ LoadsApart /\ KeyHeld /\ PeekHeld
  BY StepClose DEF SparesInv, CloseInv, Reserved, Ownership
<1>2. CASE Next
  <2>1. KeyHeld' /\ PeekHeld'
    BY <1>1, <1>2, CallKeepsKeys, KeepsKeysHeld, SessionKeepsKeys, OtherKeepsKeys DEF Next
  <2> QED
    BY <1>1, <2>1 DEF SparesInv
<1>3. CASE UNCHANGED vars
  BY <1>1, <1>3 DEF vars, session, owners, SparesInv, KeyHeld, PeekHeld, Connected
<1> QED
  BY <1>2, <1>3

LEMMA StepSpares ==
    SparesInv /\ [Next]_vars =>
        [\A s \in Station :
           closing[s] = "no" /\ closing'[s] # "no" /\ s \notin disposing' /\ Connected(s) =>
              /\ \A k \in Call : call'[k].st = s /\ call'[k].op # "peek" =>
                                  call'[k].pc \notin {"wait", "confirm", "transfer"}
              /\ lives'[s] # None => s \in stop']_vars
<1> SUFFICES ASSUME SparesInv, Next, NEW s \in Station, Closes(s) PROVE Spared(s)
  BY DEF Closes, Spared, Cut
<1>1. Reserved /\ PeekHeld
  BY DEF SparesInv, CloseInv
<1> QED
  BY <1>1, CallSpares, SessionSpares, OtherSpares DEF Next

(* A session close never cuts off another operation: the one that closes a  *)
(* connected session is its only user, because reservations are exact and   *)
(* a peek never waits for the key of a session that has one.                *)
THEOREM ClosesSpareOthers == Spec => CloseSparesOthers
BY InitSpares, StepSparesInv, StepSpares, PTL DEF Spec, CloseSparesOthers
===============================================================================
