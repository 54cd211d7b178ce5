-------------------------- MODULE DeviceTransport --------------------------
(***************************************************************************)
(* The owner of every local P2P session of the client: src/device-         *)
(* transport.ts, with the callers' half of recordings.ts and the session   *)
(* close / connect behaviour of the vendored fork that it relies on.       *)
(*                                                                         *)
(* Node runs one callback to completion, and the promise continuations it  *)
(* settles before the next callback.  An action is therefore one callback  *)
(* together with its continuations; an await on a device event, a timer or *)
(* a session close is where another action may come in between.            *)
(*                                                                         *)
(* A station's session has a link (down, opening, up), a command key once  *)
(* it is encrypted, and a close in progress: "end" while the END datagram  *)
(* is being sent on a link that is still up, "socket" while the UDP socket *)
(* closes.                                                                 *)
(***************************************************************************)
EXTENDS Naturals, FiniteSets

CONSTANTS
    Station,      \* stations with a primary session
    Camera,       \* cameras, also the keys of additional live sessions
    Call,         \* API calls that can be pending at the same time
    OwnerOf,      \* [Camera -> Station], the station that owns each camera
    Standalone,   \* stations that are a standalone camera
    LiveLimit,    \* maxLiveStreamsPerStation
    None          \* no station, no camera

ASSUME NoneAssumption == None \notin Station /\ None \notin Camera
ASSUME OwnerAssumption == OwnerOf \in [Camera -> Station]
ASSUME StandaloneAssumption == Standalone \subseteq Station
ASSUME LiveLimitAssumption == LiveLimit \in 1 .. 4

VARIABLES
    link,              \* the session's link, per station
    encryption,        \* stations whose session has its command key
    closing,           \* the session close in progress, per station
    reconnectTimeout,  \* stations with the vendored reconnect timer set
    connecting,        \* stations with a connection attempt
    lives,             \* the camera streaming on the primary session
    stop,              \* stations whose live has a STOP owner (live.stop)
    starting,          \* primary-session live starts in progress
    commands,          \* guard, preset and ensureLiveStopped owners
    operations,        \* recordings owners
    transfers,         \* downloads that handed out their handle
    extraLives,        \* cameras streaming on a session of their own
    extraStop,         \* extra lives with a STOP owner
    extraStarting,     \* extra live starts in progress
    call,              \* what each pending call does and where it waits
    loading,           \* stations the running load() still has to replace
    disposing,         \* stations whose dispose() is awaited
    lifetime           \* progress of close()

session == <<link, encryption, closing, reconnectTimeout>>
reservations == <<connecting, starting, commands, operations, transfers>>
streams == <<lives, stop>>
extras == <<extraLives, extraStop, extraStarting>>
owners == <<loading, disposing, lifetime>>
vars == <<session, reservations, streams, extras, call, owners>>

-----------------------------------------------------------------------------
(* Calls.  "peek" stands for connectStation, snapshot and                  *)
(* refreshStationState, which reserve nothing but the connection attempt.  *)

CommandOp == {"ensure", "guard", "preset"}
HistoryOp == {"record", "download"}
Op == CommandOp \cup HistoryOp \cup {"live", "extra", "peek"}

(* Where a call waits.                                                     *)
(*   connect, reconnect      connect(): awaiting 'encryption ready'        *)
(*   drop                    connect() failed, awaiting station.close()    *)
(*   wait                    the request is out, awaiting its event        *)
(*   confirm                 STOP is queued, awaiting its result           *)
(*   transfer                a download whose handle is with the caller    *)
(*   close                   the operation failed, awaiting station.close()*)
(*   renew                   ensureLiveStopped's close after its STOP      *)
(*   deaf, deafConnect       the station object was disposed under it      *)
(*   xconnect .. xdispose    the same stages on an additional session      *)
Linking == {"connect", "reconnect", "drop", "deafConnect"}
Pc == Linking \cup {"idle", "wait", "confirm", "transfer", "close", "renew", "deaf",
                    "xconnect", "xwait", "xconfirm", "xdispose"}

NoCall == [op |-> "none", st |-> None, cam |-> None, pc |-> "idle"]
Idle(k) == call[k] = NoCall
On(s) == {k \in Call : call[k].st = s}
Pending(s, ops) == {k \in On(s) : call[k].op \in ops}

Connected(s) == link[s] = "up" /\ s \in encryption
ExtraOf(s) == {c \in extraLives \cup extraStarting : OwnerOf[c] = s}
ExtraBusy(s) == ExtraOf(s) # {}
LiveCount(s) ==
    Cardinality(ExtraOf(s)) + (IF lives[s] # None \/ s \in starting THEN 1 ELSE 0)
(* recordings.busy(id) and the recordings owner's busy(id)                 *)
RecordingsBusy(s) == s \in operations
StreamBusy(s) == lives[s] # None \/ s \in starting

Init ==
    /\ link = [s \in Station |-> "down"]
    /\ encryption = {}
    /\ closing = [s \in Station |-> "no"]
    /\ reconnectTimeout = {}
    /\ connecting = {}
    /\ lives = [s \in Station |-> None]
    /\ stop = {}
    /\ starting = {}
    /\ commands = {}
    /\ operations = {}
    /\ transfers = {}
    /\ extraLives = {}
    /\ extraStop = {}
    /\ extraStarting = {}
    /\ call = [k \in Call |-> NoCall]
    /\ loading = {}
    /\ disposing = {}
    /\ lifetime = "open"

-----------------------------------------------------------------------------
(* Session steps that calls make.                                          *)

(* station.connect(): a no-op on a link that is up or opening.             *)
Dialled(s) == [link EXCEPT ![s] = IF @ = "down" THEN "opening" ELSE @]

(* station.close() and dispose() of every station in S: one shared close   *)
(* per session.  A link that is not up ends silently, before its socket.   *)
Close(S) ==
    /\ closing' = [s \in Station |->
                     IF s \notin S \/ closing[s] # "no" THEN closing[s]
                     ELSE IF link[s] = "up" THEN "end" ELSE "socket"]
    /\ link' = [s \in Station |->
                  IF s \in S /\ closing[s] = "no" /\ link[s] = "opening"
                  THEN "down" ELSE link[s]]
    /\ reconnectTimeout' = reconnectTimeout \ S

(* Mutant: the cleanup of a handed-out download does not give its station  *)
(* back.                                                                   *)
ReleaseQueriesOnly(K) ==
    LET ended(ops) == {call[k].st : k \in {j \in K : call[j].op \in ops}} IN
    /\ starting' = starting \ ended({"live"})
    /\ commands' = commands \ ended(CommandOp)
    /\ operations' = operations \ ended({"record"})
    /\ transfers' = transfers \ K

(* The reservations that end with the calls in K.                          *)
Release(K) ==
    LET ended(ops) == {call[k].st : k \in {j \in K : call[j].op \in ops}} IN
    /\ starting' = starting \ ended({"live"})
    /\ commands' = commands \ ended(CommandOp)
    /\ operations' = operations \ ended(HistoryOp)
    /\ transfers' = transfers \ K

Goto(k, pc) == call' = [call EXCEPT ![k].pc = pc]
Return(k) == call' = [call EXCEPT ![k] = NoCall]

(* The pc at which an operation issues its request on a connected session. *)
RequestPc(op) == IF op = "ensure" THEN "confirm" ELSE "wait"

(* The start of an operation up to its first await: connect() returns at   *)
(* once on a connected session, refuses while another attempt runs         *)
(* (connection_busy, the operation ends where it began) and dials          *)
(* otherwise.                                                              *)
Begin(k, op, s, c) ==
    /\ Idle(k)
    /\ \/ /\ Connected(s)
          /\ call' = [call EXCEPT ![k] = [op |-> op, st |-> s, cam |-> c,
                                          pc |-> RequestPc(op)]]
          /\ UNCHANGED <<link, connecting>>
       \/ /\ ~Connected(s)
          /\ s \notin connecting
          /\ call' = [call EXCEPT ![k] = [op |-> op, st |-> s, cam |-> c,
                                          pc |-> "connect"]]
          /\ connecting' = connecting \cup {s}
          /\ link' = Dialled(s)
    /\ UNCHANGED <<encryption, closing, reconnectTimeout, transfers, streams, extras, owners>>

(* client.ts admits calls through deviceTransport(), which waits for a     *)
(* running load and refuses a closed client.                               *)
Admitting == lifetime = "open" /\ loading = {}

-----------------------------------------------------------------------------
(* Operations.                                                             *)

(* Mutant: a live start that overlooks the recordings owner.               *)
StartLiveBesideRecordings(k, c) ==
    LET s == OwnerOf[c] IN
    /\ Admitting
    /\ LiveLimit = 1 \/ s \in Standalone
    /\ s \notin commands
    /\ ~StreamBusy(s)
    /\ starting' = starting \cup {s}
    /\ Begin(k, "live", s, c)
    /\ UNCHANGED <<commands, operations>>

(* startLive on the primary session. *)
StartLive(k, c) ==
    LET s == OwnerOf[c] IN
    /\ Admitting
    /\ LiveLimit = 1 \/ s \in Standalone
    /\ s \notin commands /\ ~RecordingsBusy(s)
    /\ ~StreamBusy(s)
    /\ starting' = starting \cup {s}
    /\ Begin(k, "live", s, c)
    /\ UNCHANGED <<commands, operations>>

(* startLive with concurrency: a session of its own, counted against the   *)
(* limit.  The primary session is not used.                                *)
StartExtraLive(k, c) ==
    LET s == OwnerOf[c] IN
    /\ Admitting
    /\ Idle(k)
    /\ LiveLimit > 1 /\ s \notin Standalone
    /\ s \notin commands /\ ~RecordingsBusy(s)
    /\ c \notin extraLives \cup extraStarting
    /\ LiveCount(s) < LiveLimit
    /\ extraStarting' = extraStarting \cup {c}
    /\ call' = [call EXCEPT ![k] = [op |-> "extra", st |-> s, cam |-> c, pc |-> "xconnect"]]
    /\ UNCHANGED <<session, reservations, streams, extraLives, extraStop, owners>>

(* ensureLiveStopped once no stream of its own camera is there to stop.    *)
(* client.ts calls it on the loaded transport directly, so a running load  *)
(* does not hold it back.                                                  *)
EnsureFree(s) ==
    /\ ~StreamBusy(s) /\ ~ExtraBusy(s)
    /\ s \notin commands /\ ~RecordingsBusy(s)

EnsureLiveStopped(k, c) ==
    LET s == OwnerOf[c] IN
    /\ lifetime = "open"
    /\ EnsureFree(s)
    /\ commands' = commands \cup {s}
    /\ Begin(k, "ensure", s, c)
    /\ UNCHANGED <<starting, operations>>

(* The same call after close() aborted the lifetime: every wait rejects at *)
(* once, and the call closes the session behind it.                        *)
EnsureAborted(k, c) ==
    LET s == OwnerOf[c] IN
    /\ lifetime \notin {"open", "closed"}
    /\ Idle(k)
    /\ EnsureFree(s)
    /\ Connected(s) \/ s \notin connecting
    /\ call' = [call EXCEPT ![k] = [op |-> "ensure", st |-> s, cam |-> c,
                                    pc |-> IF Connected(s) THEN "close" ELSE "drop"]]
    /\ commands' = commands \cup {s}
    /\ connecting' = IF Connected(s) THEN connecting ELSE connecting \cup {s}
    /\ Close({s})
    /\ UNCHANGED <<encryption, starting, operations, transfers, streams, extras, owners>>

(* Mutant: a command that overlooks the recordings owner.                  *)
StartCommandBesideRecordings(k, op, s) ==
    /\ Admitting
    /\ s \notin commands /\ ~StreamBusy(s)
    /\ commands' = commands \cup {s}
    /\ Begin(k, op, s, None)
    /\ UNCHANGED <<starting, operations>>

(* setGuardMode and moveToPreset: streams on sessions of their own do not  *)
(* hold them back.                                                         *)
StartCommand(k, op, s) ==
    /\ Admitting
    /\ s \notin commands /\ ~StreamBusy(s) /\ ~RecordingsBusy(s)
    /\ commands' = commands \cup {s}
    /\ Begin(k, op, s, None)
    /\ UNCHANGED <<starting, operations>>

(* Mutant: recordings that overlook streams on sessions of their own.      *)
StartHistoryBesideExtra(k, op, s) ==
    /\ Admitting
    /\ ~RecordingsBusy(s)
    /\ ~StreamBusy(s) /\ s \notin commands
    /\ operations' = operations \cup {s}
    /\ Begin(k, op, s, None)
    /\ UNCHANGED <<starting, commands>>

(* RecordingAccess.run and startDownload. *)
StartHistory(k, op, s) ==
    /\ Admitting
    /\ ~RecordingsBusy(s)
    /\ ~StreamBusy(s) /\ s \notin commands /\ ~ExtraBusy(s)
    /\ operations' = operations \cup {s}
    /\ Begin(k, op, s, None)
    /\ UNCHANGED <<starting, commands>>

(* connectStation, snapshot and refreshStationState. *)
Peek(k, s) ==
    /\ Admitting
    /\ Begin(k, "peek", s, None)
    /\ UNCHANGED <<starting, commands, operations>>

(* The device's answer that completes a command or a history query.        *)
Answered(k) ==
    LET s == call[k].st IN
    /\ call[k].pc = "wait"
    /\ call[k].op \in {"guard", "preset", "record"}
    /\ Connected(s) /\ closing[s] = "no"
    /\ Return(k)
    /\ Release({k})
    /\ UNCHANGED <<session, connecting, streams, extras, owners>>

(* A rejection, a timeout or a caller's cancellation.  Guard, recordings   *)
(* and downloads close the session; a preset move does only when no result *)
(* of it arrived.                                                          *)
RequestFails(k) ==
    /\ call[k].pc = "wait"
    /\ call[k].op \in {"guard", "preset"} \cup HistoryOp
    /\ Close({call[k].st})
    /\ Goto(k, "close")
    /\ UNCHANGED <<encryption, reservations, streams, extras, owners>>

PresetRefused(k) ==
    /\ call[k].pc = "wait"
    /\ call[k].op = "preset"
    /\ Return(k)
    /\ Release({k})
    /\ UNCHANGED <<session, connecting, streams, extras, owners>>

PeekReturns(k) ==
    /\ call[k].pc = "wait"
    /\ call[k].op = "peek"
    /\ Return(k)
    /\ UNCHANGED <<session, reservations, streams, extras, owners>>

(* downloadRecording resolves with its handle; its completion is awaited   *)
(* by the cleanup promise in `transfers`.                                  *)
TransferStarts(k) ==
    LET s == call[k].st IN
    /\ call[k].pc = "wait"
    /\ call[k].op = "download"
    /\ lifetime = "open"
    /\ Connected(s) /\ closing[s] = "no"
    /\ transfers' = transfers \cup {k}
    /\ Goto(k, "transfer")
    /\ UNCHANGED <<session, connecting, starting, commands, operations, streams, extras, owners>>

TransferCompletes(k) ==
    /\ call[k].pc = "transfer"
    /\ lifetime = "open"
    /\ Return(k)
    /\ Release({k})
    /\ UNCHANGED <<session, connecting, streams, extras, owners>>

(* Mutant: recordings.close() does not cancel the transfers it waits for.  *)
TransferFailsUnlessClosing(k) ==
    /\ call[k].pc = "transfer"
    /\ lifetime = "open"
    /\ Close({call[k].st})
    /\ Goto(k, "close")
    /\ UNCHANGED <<encryption, reservations, streams, extras, owners>>

(* Cancelled, too large, timed out or rejected: the session is closed      *)
(* before the station is free again.                                       *)
TransferFails(k) ==
    /\ call[k].pc = "transfer"
    /\ Close({call[k].st})
    /\ Goto(k, "close")
    /\ UNCHANGED <<encryption, reservations, streams, extras, owners>>

-----------------------------------------------------------------------------
(* connect().                                                              *)

SessionUp(s) ==
    /\ link[s] = "opening"
    /\ closing[s] # "socket"
    /\ link' = [link EXCEPT ![s] = "up"]
    /\ UNCHANGED <<encryption, closing, reconnectTimeout, reservations, streams, extras, call,
                   owners>>

(* 'encryption ready': the attempt ends and its owner issues its request.  *)
(* ensureLiveStopped's second connection completes the call.               *)
KeyReady(s) ==
    LET ready == {k \in On(s) : call[k].pc = "connect"}
        renewed == {k \in On(s) : call[k].pc = "reconnect"} IN
    /\ link[s] = "up" /\ s \notin encryption
    /\ encryption' = encryption \cup {s}
    /\ call' = [k \in Call |-> IF k \in renewed THEN NoCall
                              ELSE IF k \in ready
                              THEN [call[k] EXCEPT !.pc = RequestPc(call[k].op)]
                              ELSE call[k]]
    /\ connecting' = IF ready \cup renewed = {} THEN connecting ELSE connecting \ {s}
    /\ Release(renewed)
    /\ UNCHANGED <<link, closing, reconnectTimeout, streams, extras, owners>>

(* connect()'s 20 s timeout or its caller's cancellation.                  *)
ConnectFails(k) ==
    /\ call[k].pc \in {"connect", "reconnect"}
    /\ Close({call[k].st})
    /\ Goto(k, "drop")
    /\ UNCHANGED <<encryption, reservations, streams, extras, owners>>

(* The vendored reconnect timer.                                           *)
SessionReconnect(s) ==
    /\ s \in reconnectTimeout
    /\ reconnectTimeout' = reconnectTimeout \ {s}
    /\ link' = Dialled(s)
    /\ UNCHANGED <<encryption, closing, reservations, streams, extras, call, owners>>

(* The session's lookup gives up: 'connection error' rejects the attempt   *)
(* and a pending STOP; with no call to close it, the station retries.      *)
DialFails(s) ==
    LET linking == {k \in On(s) : call[k].pc \in {"connect", "reconnect"}}
        confirming == {k \in On(s) : call[k].pc = "confirm"}
        failing == linking \cup confirming IN
    /\ link[s] = "opening" /\ closing[s] = "no"
    /\ call' = [k \in Call |-> IF k \in linking THEN [call[k] EXCEPT !.pc = "drop"]
                              ELSE IF k \in confirming THEN [call[k] EXCEPT !.pc = "close"]
                              ELSE call[k]]
    /\ link' = [link EXCEPT ![s] = "down"]
    /\ closing' = [closing EXCEPT ![s] = IF failing = {} THEN "no" ELSE "socket"]
    /\ reconnectTimeout' = IF failing = {} THEN reconnectTimeout \cup {s}
                           ELSE reconnectTimeout \ {s}
    /\ UNCHANGED <<encryption, reservations, streams, extras, owners>>

-----------------------------------------------------------------------------
(* The 'close' event of a session that was up.  Each waiter rejects: an    *)
(* attempt and an operation go on to close the session, a live start still *)
(* owns a STOP and queues it (which dials), a peek is not held by it.      *)
(* finishLive reports the stream.  A disposed station has no listeners of  *)
(* the transport left, load() itself forgets its key.                      *)
Linked(s) == {k \in On(s) : call[k].pc \in {"connect", "reconnect"}}
Stopping(s) == {k \in Pending(s, {"live"}) : call[k].pc = "wait"}
Failing(s) ==
    {k \in On(s) : \/ call[k].pc \in {"confirm", "transfer"}
                   \/ call[k].pc = "wait" /\ call[k].op \notin {"live", "peek"}}

(* Mutant: the station's 'close' handler forgets finishLive.               *)
EndedKeepingLive(s) ==
    /\ call' = [k \in Call |->
                  IF k \in Linked(s) THEN [call[k] EXCEPT !.pc = "drop"]
                  ELSE IF k \in Stopping(s) THEN [call[k] EXCEPT !.pc = "confirm"]
                  ELSE IF k \in Failing(s) THEN [call[k] EXCEPT !.pc = "close"]
                  ELSE call[k]]
    /\ encryption' = IF s \in loading THEN encryption ELSE encryption \ {s}
    /\ UNCHANGED <<lives, stop>>
    /\ link' = [link EXCEPT ![s] = IF Stopping(s) = {} THEN "down" ELSE "opening"]

Ended(s) ==
    /\ call' = [k \in Call |->
                  IF k \in Linked(s) THEN [call[k] EXCEPT !.pc = "drop"]
                  ELSE IF k \in Stopping(s) THEN [call[k] EXCEPT !.pc = "confirm"]
                  ELSE IF k \in Failing(s) THEN [call[k] EXCEPT !.pc = "close"]
                  ELSE call[k]]
    /\ encryption' = IF s \in loading THEN encryption ELSE encryption \ {s}
    /\ lives' = [lives EXCEPT ![s] = None]
    /\ stop' = stop \ {s}
    /\ link' = [link EXCEPT ![s] = IF Stopping(s) = {} THEN "down" ELSE "opening"]

LinkLost(s) ==
    /\ link[s] = "up" /\ closing[s] = "no"
    /\ Ended(s)
    /\ IF Linked(s) \cup Failing(s) = {}
       THEN /\ reconnectTimeout' = reconnectTimeout \cup {s}
            /\ UNCHANGED closing
       ELSE /\ reconnectTimeout' = reconnectTimeout \ {s}
            /\ closing' = [closing EXCEPT ![s] = "socket"]
    /\ UNCHANGED <<reservations, extras, owners>>

(* END is on the wire: _disconnected() emits 'close', then the socket goes.*)
CloseEnd(s) ==
    /\ closing[s] = "end"
    /\ Ended(s)
    /\ closing' = [closing EXCEPT ![s] = "socket"]
    /\ UNCHANGED <<reconnectTimeout, reservations, extras, owners>>

(* The socket has closed.  Everyone who awaited station.close() goes on,   *)
(* and an attempt dialled on the closing socket fails with it: 'timeout'   *)
(* reaches its owner, whose own close then has nothing left to wait for,   *)
(* and sets the reconnect timer when no owner clears it.                   *)
SocketClosed(s) ==
    LET killed == link[s] = "opening"
        failed == IF killed
                  THEN {k \in On(s) : call[k].pc \in {"connect", "reconnect", "confirm"}}
                  ELSE {}
        ended == failed \cup {k \in On(s) : call[k].pc \in {"drop", "close"}}
        renewing == {k \in On(s) : call[k].pc = "renew"}
        linkers == {k \in ended : call[k].pc \in Linking} IN
    /\ closing[s] = "socket"
    /\ \E again \in SUBSET renewing :
         /\ again # {} => lifetime = "open" /\ (s \in connecting => linkers # {})
         /\ again # renewing => lifetime # "open" \/ s \in disposing \cup connecting
         /\ LET released == ended \cup (renewing \ again)
                pc == IF s \in disposing THEN "deafConnect" ELSE "reconnect" IN
            /\ call' = [k \in Call |-> IF k \in again THEN [call[k] EXCEPT !.pc = pc]
                                      ELSE IF k \in released THEN NoCall
                                      ELSE call[k]]
            /\ Release(released)
         /\ connecting' = IF again # {} THEN connecting \cup {s}
                          ELSE IF linkers # {} THEN connecting \ {s}
                          ELSE connecting
         /\ link' = [link EXCEPT ![s] = IF again # {} /\ s \notin disposing
                                        THEN "opening" ELSE "down"]
    /\ closing' = [closing EXCEPT ![s] = "no"]
    /\ reconnectTimeout' = IF ~killed THEN reconnectTimeout
                           ELSE IF failed = {} THEN reconnectTimeout \cup {s}
                           ELSE reconnectTimeout \ {s}
    /\ encryption' = encryption \ {s}
    /\ disposing' = disposing \ {s}
    /\ loading' = IF s \in disposing THEN loading \ {s} ELSE loading
    /\ UNCHANGED <<streams, extras, lifetime>>

(* A disposed station delivers nothing more to a call that was waiting on  *)
(* it: only its timeout or cancellation ends the call.                     *)
DeafReturns(k) ==
    /\ call[k].pc \in {"deaf", "deafConnect"}
    /\ connecting' = IF call[k].pc = "deafConnect" THEN connecting \ {call[k].st}
                     ELSE connecting
    /\ Return(k)
    /\ Release({k})
    /\ UNCHANGED <<session, streams, extras, owners>>

-----------------------------------------------------------------------------
(* The live stream of the primary session.                                 *)

LivestreamStart(k) ==
    LET s == call[k].st IN
    /\ call[k].pc = "wait" /\ call[k].op = "live"
    /\ Connected(s) /\ closing[s] = "no"
    /\ lives' = [lives EXCEPT ![s] = call[k].cam]
    /\ Return(k)
    /\ Release({k})
    /\ UNCHANGED <<session, connecting, stop, extras, owners>>

(* The start timed out or was cancelled after START was issued: the call   *)
(* still owns the device's stream and sends STOP for it.                   *)
StartFails(k) ==
    /\ call[k].pc = "wait" /\ call[k].op = "live"
    /\ Goto(k, "confirm")
    /\ UNCHANGED <<session, reservations, streams, extras, owners>>

(* confirmStop: the result of the STOP.  ensureLiveStopped then replaces   *)
(* the session.                                                            *)
StopConfirmed(k) ==
    LET s == call[k].st IN
    /\ call[k].pc = "confirm"
    /\ Connected(s) /\ closing[s] = "no"
    /\ IF call[k].op = "ensure"
       THEN /\ Close({s})
            /\ Goto(k, "renew")
            /\ UNCHANGED <<starting, commands, operations, transfers>>
       ELSE /\ Return(k)
            /\ Release({k})
            /\ UNCHANGED <<link, closing, reconnectTimeout>>
    /\ UNCHANGED <<encryption, connecting, streams, extras, owners>>

StopUnconfirmed(k) ==
    /\ call[k].pc = "confirm"
    /\ Close({call[k].st})
    /\ Goto(k, "close")
    /\ UNCHANGED <<encryption, reservations, streams, extras, owners>>

(* Mutant: the STOP owner is kept under the camera instead of its station. *)
StopLiveByCamera(s) ==
    /\ lives[s] # None /\ s \notin stop
    /\ stop' = stop \cup {lives[s]}
    /\ \/ UNCHANGED <<link, closing, reconnectTimeout>>
       \/ Close({s})
    /\ UNCHANGED <<encryption, reservations, lives, extras, call, owners>>

(* stopLive: by the handle, the bound timer, the caller's signal, a media  *)
(* error, ensureLiveStopped or close().  stopLivestream throws when the    *)
(* local stream has already ended; the session is closed then.             *)
StopLive(s) ==
    /\ lives[s] # None /\ s \notin stop
    /\ stop' = stop \cup {s}
    /\ \/ UNCHANGED <<link, closing, reconnectTimeout>>
       \/ Close({s})
    /\ UNCHANGED <<encryption, reservations, lives, extras, call, owners>>

(* finishLive after the STOP result and the local end, or on a media error.*)
FinishLive(s) ==
    /\ lives[s] # None
    /\ lives' = [lives EXCEPT ![s] = None]
    /\ stop' = stop \ {s}
    /\ UNCHANGED <<session, reservations, extras, call, owners>>

(* A STOP result other than 0, at any time, or no result within 8 s of the *)
(* owner's STOP: the stream is over for the caller, the session closes.    *)
EndLive(s) ==
    /\ lives[s] # None
    /\ Close({s})
    /\ lives' = [lives EXCEPT ![s] = None]
    /\ stop' = stop \ {s}
    /\ UNCHANGED <<encryption, reservations, extras, call, owners>>

StopTimeout(s) == s \in stop /\ EndLive(s)
StopRefused(s) == s \notin stop /\ EndLive(s)

-----------------------------------------------------------------------------
(* Streams on additional sessions.  Such a session has no other user: its  *)
(* link is folded into the stages of the call that opens it, and its       *)
(* disposal after a stream ended concerns nobody else.                     *)

ExtraAt(k, pc) == call[k].op = "extra" /\ call[k].pc = pc

ExtraReady(k) ==
    /\ ExtraAt(k, "xconnect")
    /\ Goto(k, "xwait")
    /\ UNCHANGED <<session, reservations, streams, extras, owners>>

ExtraStart(k, c) ==
    /\ ExtraAt(k, "xwait") /\ call[k].cam = c
    /\ extraLives' = extraLives \cup {c}
    /\ extraStarting' = extraStarting \ {c}
    /\ Return(k)
    /\ UNCHANGED <<session, reservations, streams, extraStop, owners>>

ExtraFails(k) ==
    /\ \/ ExtraAt(k, "xconnect") /\ Goto(k, "xdispose")
       \/ ExtraAt(k, "xwait") /\ Goto(k, "xconfirm")
       \/ ExtraAt(k, "xconfirm") /\ Goto(k, "xdispose")
    /\ UNCHANGED <<session, reservations, streams, extras, owners>>

ExtraDisposed(k) ==
    /\ ExtraAt(k, "xdispose")
    /\ extraStarting' = extraStarting \ {call[k].cam}
    /\ Return(k)
    /\ UNCHANGED <<session, reservations, streams, extraLives, extraStop, owners>>

StopExtraLive(c) ==
    /\ c \in extraLives \ extraStop
    /\ extraStop' = extraStop \cup {c}
    /\ UNCHANGED <<session, reservations, streams, extraLives, extraStarting, call, owners>>

(* finishExtraLive: STOP result, lost session, media error, stop timeout.  *)
FinishExtraLive(c) ==
    /\ c \in extraLives
    /\ extraLives' = extraLives \ {c}
    /\ extraStop' = extraStop \ {c}
    /\ UNCHANGED <<session, reservations, streams, extraStarting, call, owners>>

ExtraStopTimeout(c) == c \in extraStop /\ FinishExtraLive(c)

-----------------------------------------------------------------------------
(* load(): replaces the station objects whose inventory row changed, one   *)
(* after the other.  A call that waits on a disposed object is left deaf.  *)

Dispose(s) ==
    /\ disposing' = disposing \cup {s}
    /\ Close({s})
    /\ call' = [k \in Call |->
                  IF k \in Linked(s) THEN [call[k] EXCEPT !.pc = "deafConnect"]
                  ELSE IF k \in On(s) /\ call[k].pc = "confirm"
                  THEN [call[k] EXCEPT !.pc = "deaf"]
                  ELSE call[k]]
    /\ UNCHANGED <<encryption, reservations, streams, extras, lifetime>>

Load(S, s) ==
    /\ lifetime = "open" /\ loading = {}
    /\ \A t \in Station : lives[t] = None
    /\ starting = {} /\ commands = {} /\ operations = {} /\ connecting = {}
    /\ extraLives = {} /\ extraStarting = {}
    /\ s \in S
    /\ loading' = S
    /\ Dispose(s)

LoadNext(s) ==
    /\ lifetime = "open"
    /\ s \in loading /\ disposing = {}
    /\ Dispose(s)
    /\ UNCHANGED loading

-----------------------------------------------------------------------------
(* close(), after client.ts has waited for a running load.                 *)

(* lifetime.abort(): every abortable wait rejects in this step.            *)
CloseBegin ==
    LET linked == {k \in Call : call[k].pc \in {"connect", "reconnect"}}
        failing == {k \in Call : \/ call[k].pc = "wait"
                                     /\ call[k].op \in {"guard", "preset", "record"}
                                 \/ call[k].pc = "confirm" /\ call[k].op = "ensure"} IN
    /\ lifetime = "open" /\ loading = {}
    /\ lifetime' = "transfers"
    /\ call' = [k \in Call |->
          IF call[k].pc = "wait" /\ call[k].op = "peek" THEN NoCall
          ELSE [call[k] EXCEPT !.pc =
                  CASE k \in linked -> "drop"
                    [] k \in failing -> "close"
                    [] @ = "wait" /\ call[k].op = "live" -> "confirm"
                    [] @ = "xconnect" -> "xdispose"
                    [] @ = "xwait" -> "xconfirm"
                    [] OTHER -> @]]
    /\ Close({call[k].st : k \in linked \cup failing})
    /\ UNCHANGED <<encryption, reservations, streams, extras, loading, disposing>>

(* recordings.close() has seen every handed-out transfer settle.           *)
CloseStarts ==
    /\ lifetime = "transfers" /\ transfers = {}
    /\ lifetime' = "starts"
    /\ UNCHANGED <<session, reservations, streams, extras, call, loading, disposing>>

(* Mutant: close() does not wait for the pending starts.                   *)
CloseStreamsEarly ==
    /\ lifetime = "starts"
    /\ lifetime' = "streams"
    /\ stop' = {s \in Station : lives[s] # None}
    /\ extraStop' = extraLives
    /\ \E thrown \in SUBSET (stop' \ stop) : Close(thrown)
    /\ UNCHANGED <<encryption, reservations, lives, extraLives, extraStarting, call, loading,
                   disposing>>

(* The pending starts have settled; every stream is stopped.               *)
CloseStreams ==
    /\ lifetime = "starts"
    /\ \A k \in Call : call[k].op \notin {"live", "extra"}
    /\ lifetime' = "streams"
    /\ stop' = {s \in Station : lives[s] # None}
    /\ extraStop' = extraLives
    /\ \E thrown \in SUBSET (stop' \ stop) : Close(thrown)
    /\ UNCHANGED <<encryption, reservations, lives, extraLives, extraStarting, call, loading,
                   disposing>>

CloseSessions ==
    /\ lifetime = "streams"
    /\ \A s \in Station : lives[s] = None
    /\ extraLives = {}
    /\ lifetime' = "sessions"
    /\ disposing' = Station
    /\ Close(Station)
    /\ UNCHANGED <<encryption, reservations, streams, extras, call, loading>>

CloseDone ==
    /\ lifetime = "sessions" /\ disposing = {}
    /\ lifetime' = "closed"
    /\ UNCHANGED <<session, reservations, streams, extras, call, loading, disposing>>

-----------------------------------------------------------------------------
CallStep(k) ==
    \/ \E c \in Camera :
          \/ StartLive(k, c) \/ StartExtraLive(k, c)
          \/ EnsureLiveStopped(k, c) \/ EnsureAborted(k, c)
          \/ ExtraStart(k, c)
    \/ \E s \in Station :
          \/ (\E op \in {"guard", "preset"} : StartCommand(k, op, s))
          \/ (\E op \in HistoryOp : StartHistory(k, op, s))
          \/ Peek(k, s)
    \/ Answered(k) \/ RequestFails(k) \/ PresetRefused(k) \/ PeekReturns(k)
    \/ TransferStarts(k) \/ TransferCompletes(k) \/ TransferFails(k)
    \/ ConnectFails(k) \/ DeafReturns(k)
    \/ LivestreamStart(k) \/ StartFails(k) \/ StopConfirmed(k) \/ StopUnconfirmed(k)
    \/ ExtraReady(k) \/ ExtraFails(k) \/ ExtraDisposed(k)

SessionStep(s) ==
    \/ SessionUp(s) \/ KeyReady(s) \/ SessionReconnect(s) \/ DialFails(s)
    \/ LinkLost(s) \/ CloseEnd(s) \/ SocketClosed(s)
    \/ StopLive(s) \/ FinishLive(s) \/ StopTimeout(s) \/ StopRefused(s)

ExtraStep(c) == StopExtraLive(c) \/ FinishExtraLive(c)

LoadStep ==
    \/ \E S \in SUBSET Station : \E s \in S : Load(S, s)
    \/ \E s \in Station : LoadNext(s)

CloseStep == CloseBegin \/ CloseStarts \/ CloseStreams \/ CloseSessions \/ CloseDone

Next ==
    \/ \E k \in Call : CallStep(k)
    \/ \E s \in Station : SessionStep(s)
    \/ \E c \in Camera : ExtraStep(c)
    \/ LoadStep
    \/ CloseStep

(* What the code's own timers and the runtime guarantee: every wait has a  *)
(* timeout, a live has its bound and its STOP owner 8 s, socket and send   *)
(* callbacks arrive, close() takes its next step.  Nothing is assumed of   *)
(* the device, the network or the callers.                                 *)
Fairness ==
    /\ \A k \in Call :
         /\ WF_vars(ConnectFails(k)) /\ WF_vars(RequestFails(k)) /\ WF_vars(PeekReturns(k))
         /\ WF_vars(TransferFails(k)) /\ WF_vars(StartFails(k))
         /\ WF_vars(StopUnconfirmed(k)) /\ WF_vars(DeafReturns(k))
         /\ WF_vars(ExtraFails(k)) /\ WF_vars(ExtraDisposed(k))
    /\ \A s \in Station :
         /\ WF_vars(CloseEnd(s)) /\ WF_vars(SocketClosed(s))
         /\ WF_vars(StopLive(s)) /\ WF_vars(StopTimeout(s)) /\ WF_vars(LoadNext(s))
    /\ \A c \in Camera : WF_vars(StopExtraLive(c)) /\ WF_vars(ExtraStopTimeout(c))
    /\ WF_vars(CloseStarts) /\ WF_vars(CloseStreams) /\ WF_vars(CloseSessions)
    /\ WF_vars(CloseDone)

Spec == Init /\ [][Next]_vars
FairSpec == Spec /\ Fairness

-----------------------------------------------------------------------------
(* Every variable holds values of its kind. *)
CallType == [op : Op \cup {"none"}, st : Station \cup {None},
             cam : Camera \cup {None}, pc : Pc]

TypeOK ==
    /\ link \in [Station -> {"down", "opening", "up"}]
    /\ encryption \in SUBSET Station
    /\ closing \in [Station -> {"no", "end", "socket"}]
    /\ reconnectTimeout \in SUBSET Station
    /\ connecting \in SUBSET Station
    /\ lives \in [Station -> Camera \cup {None}]
    /\ stop \in SUBSET Station
    /\ starting \in SUBSET Station
    /\ commands \in SUBSET Station
    /\ operations \in SUBSET Station
    /\ transfers \in SUBSET Call
    /\ extraLives \in SUBSET Camera
    /\ extraStop \in SUBSET Camera
    /\ extraStarting \in SUBSET Camera
    /\ call \in [Call -> CallType]
    /\ loading \in SUBSET Station
    /\ disposing \in SUBSET Station
    /\ lifetime \in {"open", "transfers", "starts", "streams", "sessions", "closed"}

(* One owner: the primary session of a station serves one stream, one live *)
(* start, one command or one recordings operation, never two of them       *)
(* (station_busy in every admission).                                      *)
ExclusiveOp == CommandOp \cup HistoryOp \cup {"live"}

OneOwner ==
    \A s \in Station :
        /\ \A j, k \in Pending(s, ExclusiveOp) : j = k
        /\ lives[s] # None => Pending(s, ExclusiveOp) = {}

(* Every reservation entry belongs to exactly the call that took it: no    *)
(* failure path leaks one, and none deletes the entry of another call (the *)
(* finally blocks of connect, startLive, the commands and recordings).     *)
OwnersHeld ==
    \A s \in Station :
        /\ s \in starting <=> Pending(s, {"live"}) # {}
        /\ s \in commands <=> Pending(s, CommandOp) # {}
        /\ s \in operations <=> Pending(s, HistoryOp) # {}

Linkers(s) == {k \in On(s) : call[k].pc \in Linking}
LinkersHeld ==
    \A s \in Station :
        /\ s \in connecting <=> Linkers(s) # {}
        /\ \A j, k \in Linkers(s) : j = k

Opening(c) == {k \in Call : call[k].op = "extra" /\ call[k].cam = c}
ExtrasHeld ==
    /\ \A c \in Camera : /\ c \in extraStarting <=> Opening(c) # {}
                        /\ \A j, k \in Opening(c) : j = k
    /\ \A k \in transfers : call[k].op = "download"

ReservationsOwned == OwnersHeld /\ LinkersHeld /\ ExtrasHeld

(* A stream never outlives its session: a live entry is on an encrypted    *)
(* session that is up, so its STOP can still be sent.                      *)
LiveOnSession == \A s \in Station : lives[s] # None => Connected(s)

(* Streams of a station stay within maxLiveStreamsPerStation, one per      *)
(* camera, and recordings never run beside a stream.                       *)
StreamsBounded ==
    \A s \in Station :
        /\ LiveCount(s) <= LiveLimit
        /\ extraLives \cap extraStarting = {}
        /\ RecordingsBusy(s) => ~StreamBusy(s) /\ ~ExtraBusy(s)

(* Reservations are exact: nothing is held without its call, nothing is    *)
(* taken beyond a limit, on every path through startLive, startExtraLive,  *)
(* connect, run and their failures.                                        *)
ReservationsExact == ReservationsOwned /\ StreamsBounded

(* A session close that an operation starts never cuts another operation   *)
(* off: when it begins on an encrypted session, no request, transfer or    *)
(* STOP of another call is in flight there and a stream on it is already   *)
(* being stopped.  (A failed connection attempt, a failed command and a    *)
(* failed transfer all call station.close().)                              *)
CloseSparesOthers ==
    [][\A s \in Station :
         closing[s] = "no" /\ closing'[s] # "no" /\ s \notin disposing' /\ Connected(s) =>
            /\ \A k \in Call : call'[k].st = s /\ call'[k].op # "peek" =>
                                call'[k].pc \notin {"wait", "confirm", "transfer"}
            /\ lives'[s] # None => s \in stop']_vars

(* The same for a STOP whose session was lost and is being opened again:   *)
(* "Cancellation ends the caller's wait, but still owns device cleanup."   *)
(* (openLive).  Another call's connection attempt joins that dial, and its *)
(* failure or cancellation closes the session, with the STOP in its queue. *)
CleanupKeepsSession ==
    [][\A s \in Station :
         closing[s] = "no" /\ closing'[s] # "no" =>
            \A k \in Call : call'[k].st = s => call'[k].pc # "confirm"]_vars

(* "Never replace a transport in the middle of a device operation." (load) *)
ReplaceSparesOperations ==
    [][\A s \in Station :
         s \in disposing' \ disposing /\ lifetime' = "open" => On(s) = {}]_vars

(* When close() is done nothing is streaming and no start, transfer or     *)
(* recordings operation is left to use a disposed session.                 *)
ClosedIsQuiet ==
    lifetime = "closed" =>
        /\ \A s \in Station : lives[s] = None
        /\ starting = {} /\ operations = {} /\ transfers = {}
        /\ extraLives = {} /\ extraStarting = {}
        /\ \A k \in Call : Idle(k) \/ call[k].op = "ensure"

(* close() asks for the pending STOPs and cancellations before it takes    *)
(* the sessions away: "UDP stays available for pending device STOPs."      *)
(* (client.ts finishShutdown)                                              *)
DisposeAfterCleanup ==
    [][lifetime # "sessions" /\ lifetime' = "sessions" =>
         \A k \in Call : call[k].op = "download" => call[k].pc \notin {"wait", "transfer"}]_vars

(* Liveness: every call returns, every stream ends and close() completes,  *)
(* whatever the device and the network do.                                 *)
CallsReturn == \A k \in Call : ~Idle(k) ~> Idle(k)
LivesEnd ==
    /\ \A s \in Station : lives[s] # None ~> lives[s] = None
    /\ \A c \in Camera : c \in extraLives ~> c \notin extraLives
CloseCompletes == lifetime # "open" ~> lifetime = "closed"

(* The three together: nothing that a caller waits for stays open, in any   *)
(* order of failures, stops and close().                                   *)
Progress == CallsReturn /\ LivesEnd /\ CloseCompletes

(* The transport implements the admission promise.                         *)
User(s) ==
    IF StreamBusy(s) THEN "stream"
    ELSE IF s \in commands THEN "command"
    ELSE IF s \in operations THEN "history"
    ELSE "free"

A == INSTANCE StationAdmission WITH
        user <- [s \in Station |-> User(s)],
        extra <- [s \in Station |-> ExtraOf(s)]

Admission == A!Spec

=============================================================================
