# eufy-mega-client: specifications

TLA+ models of the parts of this client where order matters: who owns a
station's P2P session, a mower's TCP session, the cloud's request slot or the
session store; what happens to each when a call fails, is cancelled, is late or is
shut down; and what a consumer is told about it. Model-checked with TLC and, for
what everything else rests on, proved with TLAPS.

Paths are relative to the repository (`src/device-transport.ts` is the client's
own source, `vendor/` the fork of eufy-security-client it carries).

## The system

| Component | State | Operations | Hard because |
| --- | --- | --- | --- |
| `DeviceTransport` (`src/device-transport.ts`) | stations, cameras, key per session, `connecting`, `lives`, `starting`, `commands`, `extraLives`, `extraStarting`, `lifetime` | `connect`, `startLive`, `stopLive`, `ensureLiveStopped`, `setGuardMode`, `moveToPreset`, `snapshot`, `refreshStationState`, `load`, `close` | one UDP session per station is shared by every call; each call awaits device events, and each failure closes the session for all |
| `RecordingAccess`, `downloadRecording` (`src/recordings.ts`, `src/download.ts`) | `operations`, `transfers`, references, per-download flags | `list`, `calendar`, `thumbnail`, `probe`, `download`, `close` | answers do not name their request; a download outlives its call and is over only when device, local stream and sources agree |
| vendored P2P session and station (`vendor/src/p2p/session.ts`, `vendor/src/http/station.ts`) | link, key, command queue, stream state, shared close, reconnect timer | `connect`, `close`, `dispose`, `startLivestream`, `stopLivestream`, `sendCommand` | commands wait in a queue for acknowledgements; local events precede the device's answer |
| `EufyMegaClient` (`src/client.ts`) | `transportLoading`, `eventsOperation`, `authOperation`, `closed` | every public call, `shutdown` | single-flight load, shutdown order |
| `EventTransport` (`src/event-transport.ts`) | receiver, `connected`, registration, `saving` chain | `open`, `close`, receiver callbacks | callbacks run while `open` or `close` awaits; saves fail or are slow |
| `Detections` (`src/detections.ts`) | `pending`, `seen`, `lastPush` | `push`, `device`, timers, `exportSeen`, `restoreSeen`, `close` | one occurrence arrives on several paths, in any order, again after a reconnect |
| `MegaCloud`, `FileSessionStore` (`src/cloud.ts`, `src/session.ts`) | session, request slot, `writes` chain, the file | `connect`, `call`, `flush`, `close` | serialised requests with deadlines, refused identities, writes cut by a crash |
| `LocalMowerSession` (`src/mowers/local/session.ts`) | socket, session key, frame queue, `busy`, end reason | `connect`, `queryStatus`, `receiveReport`, `sendCommand`, `setSetting`, `setWorkParameter`, `disconnect` | answers carry no number that they are matched by; a write cannot be taken back when its read-back fails |
| map acquisition (`src/mowers/maps/acquisition.ts`, `lifetime.ts`, `session.ts`, `mqtt.ts`, `socket.ts`) | demand, lifetime, resources, stage, staged files | `acquire`, its stop, `disconnect`, `shutdown` | a stop comes in any stage, and the cancel may be lost |
| map stream (`src/mowers/maps/kcp.ts`, `framing.ts`) | receive window, fragments, file reader | `input`, `take`, `push` | reordering, duplication, arbitrary cuts |
| `MowerPathAccumulator` (`src/mowers/maps/history.ts`) | history | `merge`, `clear` | which points are confirmed depends on everything merged before |
| `EufyClient` mower module, `EufyHomeAdapter` (`src/eufy-client.ts`, `src/mowers/home.ts`) | lifecycle, authentication, session, bindings, local sessions | `connect`, `discover`, local sessions, cloud reads, map provisioning, `shutdown` | leases are used across awaits while sessions expire or are refused |
| stateless parts: discovery, profiles, telemetry decoding, geometry, crypto, types | none | | tables and arithmetic on data |

`PROJECT.json` lists every component with its status.

### How they interact

`EufyMegaClient` loads one `DeviceTransport` and passes every call to it.
The transport owns one vendored `Station` per station and one more per
additional live stream. A call on a station:

1. is admitted (`station_busy` unless the collections say the station is free),
2. adds its reservation,
3. `connect()`s: nothing on an encrypted session, otherwise an attempt of its
   own (`connection_busy` when another runs) on the station's shared session,
4. issues a request and awaits an event, any of *close*, *connection error*, a
   timer and an abort signal ending the wait early,
5. on failure usually closes the session, and gives its reservation back.

`startEvents` creates an `EventTransport`, whose receiver feeds `Detections` and
whose saves go through `MegaCloud` into the session store, which `MegaCloud` also
writes while it authenticates. `EufyClient` owns the mowers: an
`EufyHomeAdapter` for the account, a `LocalMowerSession` for each open mower and
a map acquisition with its own sockets, whose files become a `PathHistory`.
`shutdown()` cancels all of them first and waits for them afterwards.

## Modules

| Module | Models |
| --- | --- |
| `StationAdmission` | the promise: one user of a primary session at a time, recordings never beside a stream, additional streams within the limit |
| `DeviceTransport` | `device-transport.ts` with the transport half of `recordings.ts`, `download.ts`, `guard.ts`, `preset.ts` and `client.ts`, and the session behaviour they rely on |
| `LiveHandle` | the promise of one camera's live streams: each start is reported exactly once before the next begins |
| `LiveStop` | START and STOP as messages: `openLive`, `confirmStop`, `stopLive`, `finishLive` over the session's command queue and VIDEO stream |
| `Recordings` | one owner's operations (paged lists, references, transfers) over the three kinds of traffic of its session |
| `LocalSession` | `mowers/local/session.ts`: one TCP session with one mower |
| `Detections` | one detection per occurrence |
| `EventTransport` | `startEvents`, the event transport, its saves, shutdown and crash |
| `MegaCloud` | the request slot, login, call, session writes and crash |
| `MapSession` | a map demand, its lifetime, sockets, stages and cancel |
| `MapStream` | KCP receiver and file reader |
| `PathHistory` | merging of paths |
| `MowerHome` | the mower module on its account: sessions, leases, bindings, shutdown |
| `MCDeviceTransport`, `MCDetections`, `MCRecordings` | model values of the instances that TLC checks |
| `MCMapData` | composes `MapStream` and `PathHistory`: a transfer, then merges |
| `Subsequences` | what the filters of `Detections` and `PathHistory` keep, and the files of a stream in `MapStream` |
| `*Proofs` | theorems about the module they are named after; `MapProofs` about `MapSession`, `MapStream` and `PathHistory`, `EventProofs` about `EventTransport` and `Detections` |

The other instances (`LiveStop`, `LocalSession`, `EventTransport`, `MegaCloud`,
`MapSession`, `MowerHome`) need nothing but constants, which their `.cfg` gives.

How the modules fit together: `DeviceTransport` takes a START or a STOP, and a
list or a transfer, as one request with an outcome and looks at many calls;
`LiveStop` opens up the first at one camera and `Recordings` the second at one
owner. What these two assume of their surroundings (one start or one recording
operation at a time, a connected session when it begins) is what
`DeviceTransport` checks as `OneOwner` and `LiveOnSession`. `EventTransport`
keeps of `Detections` that a message waits, is reported and is then remembered;
`Detections` keeps of `EventTransport` that a restart restores some earlier set of
keys. `MegaCloud` has the writes of the login, `EventTransport` those of the
events; they share the store and one chain of writes, and neither looks at the
other's part of the session. `MowerHome` takes a local session as something that
closes when told to, which is `SessionEnds` of `LocalSession`. `MapSession` takes
a file as a value that `MapStream` delivers.

In all modules one action is one turn of Node's event loop: an event, a timer, an
abort or a public call up to its first await, with the promise continuations it
settles. Two actions meet only at an await. Every timeout may happen at any time
after its timer is set; durations are compared in `Detections` only.

### DeviceTransport

| State | In the code |
| --- | --- |
| `link`, `closing`, `reconnectTimeout` | the vendored session: `connected` / `connecting`, the shared `connectionClosing` promise (END on its way, then the socket), `Station.reconnectTimeout` |
| `encryption` | `DeviceTransport.encryption` |
| `connecting`, `starting`, `commands`, `extraStarting` | the collections of the same name |
| `operations`, `transfers` | those of `RecordingAccess` |
| `lives`, `extraLives` | the collections of the same name: the stream's camera |
| `stop`, `extraStop` | streams whose `live.stop` promise exists |
| `call` | each pending public call: operation, station, camera, and the await it is at (`pc`) |
| `loading`, `disposing`, `lifetime` | the running `load()`, awaited `dispose()` calls, the stages of `close()` |

A call's `pc` goes `connect` → `wait` → returned, with `drop` (failed attempt
awaiting `station.close()`), `confirm` (a STOP awaiting its result), `close`
(failed operation awaiting `station.close()`), `renew`/`reconnect`
(`ensureLiveStopped` replacing the session), `transfer` (a download whose handle
is out) and `deaf`/`deafConnect` (its station object was disposed, so no event
will reach it, only its timer).

What the model relies on from the vendored session, and checks nothing about:

- `connect()` on a link that is up or opening does nothing; two attempts share
  one dial;
- `close()` is shared, empties the send queue, and on a link that is up sends
  END, emits *close*, then closes the socket; on a link that is not up it is
  silent until the socket is closed;
- the socket's close event ends whatever was dialled meanwhile;
- a link lost without a close emits *close* and sets the reconnect timer, which
  `close()` and `dispose()` clear.

Simplifications, all of data or of a refused call:

- a call that is refused changes nothing and is not a step;
- an additional live session has no user but its stream, so its link is folded
  into the stages of the call that opens it (`xconnect` … `xdispose`), and its
  disposal after the stream is not tracked;
- `snapshot`, `refreshStationState` and `connectStation` are one operation
  (`peek`): they reserve nothing but the attempt;
- the window in `load()` between the disposal of a station and its re-creation
  in the second loop is merged with the disposal: calls are held back by
  `transportLoading` in it, and `ensureLiveStopped` on a missing station is
  refused or fails like one on a disconnected one;
- the 2 s snapshot refresh timer issues a query nobody awaits and is left out.

### LiveStop

| State | In the code |
| --- | --- |
| `link` | the session: connected, sending END (`closeConnection` awaits it), not connected |
| `queue` | `sendQueue` |
| `wire` | `messageStates`, in the order they were sent: first send finished, acknowledged, executed or refused by the device |
| `stream` | `currentMessageState[VIDEO]`: the start that turned it on (`n`), whether a result or a frame armed the stall timer, `p2pStreamNotStarted`, `invalidStream` |
| `attempt`, `pc`, `live` | the running `openLive` or the fields of its `ActiveLive` |
| `outcome` | the `live-stop` report of each attempt |
| `camera`, `acks` | outside the client: what the camera streams for, its STOP results with code 0 so far |

`pc` is `wait` from START to *livestream start*, `live` while the handle is out,
`confirm` and `close` while a failed start waits for a STOP result and for
`station.close()`.

- A message is sent when no other waits for its acknowledgement; its effect on
  the local stream (`SendEffect`) is a callback of its own, after `sendMessage`.
- Results are matched to messages by sequence number, so they may arrive in any
  order, before the acknowledgement or not at all; video is independent of them.
- The device executes messages in the order it received them and may refuse any.
  A message it received is acknowledged before its ten repetitions run out.
- `LinkUp` is a dial with the key request that goes before the queue.
- The transport sees of a STOP result only its channel, as in the code: this is
  where late results of older STOPs come in.
- Left out: the 120 s age limit of a queued message, the repetition after
  `ERROR_FAILED_TO_REQUEST`, streams of other channels, the BINARY stream.

A START can also outlive its attempt: it is still queued when the link is lost,
the queue survives `_disconnected`, and the next session sends it ahead of its
STOP. No property says that this should not happen; `TypeOK` and the invariants
hold in spite of it.

### LocalSession

| State | In the code |
| --- | --- |
| `socket` | `#socket`, `#socketConnected`, `#socketClosed`, `socket.destroyed` |
| `failure`, `readError`, `end`, `closed` | `#failure`, `#readError`, `#end`, the value of the `closed` promise |
| `key`, `lifetime` | a negotiated `#key`, the aborted signal of the owning module |
| `frames` | `#frames`: command, the operation it answers, what its document is worth, and its `observedAt` as seen from the write |
| `op` | `#busy` and the locals of the running `#operation`: where it awaits, aborted signals, read-back bound, skipped frames, reports |
| `last` | how the last operation came out, and what its outcome rests on |
| `owed`, `arrivals` | the mower: requests it has not answered, frames it has sent |

- `connect()`, `queryStatus` (and the two projections of it), `receiveReport`,
  the three writes and `disconnect` are calls; `op.kind` tells a command from a
  setting, whose evidence rules differ. A work parameter is a setting with a
  cloud reading before the query.
- The mower may answer each request once, at any time, with a usable, refused,
  undecodable or forged frame, or never. It reports on its own as it likes.
- The code takes the queued frames of one chunk without a break, the model
  leaves room for events between two of them: more behaviours, none fewer.
- Clocks are left out but for one comparison: a frame queued before the write
  was received in an earlier millisecond than the write (`stale`) or in the same
  one, the earlier frames first.
- Every write ends in the same read-back. The commands' two kinds of evidence,
  the control point and the activity or payload, are the bodies `control` and
  `value`; a setting knows only `value`.
- Left out: sent heartbeats (they change nothing), limits in bytes, nonces and
  erased buffers, calls made from inside `onProgress`.

### Recordings

| State | In the code |
| --- | --- |
| `op` | the entry of `operations` with the locals of `run`, `completeHistory`, `downloadRecording`: stage, page, rows of the page before, commands that were outstanding before and those the observation counted, handle, `stopping`, `localFinished`, `deviceComplete` |
| `session` | the owner's session |
| `wire`, `data`, `results` | what has been sent on it and not been taken: answers and notices (CONTROL), chunks (BINARY), the commands whose result is outstanding |
| `binary` | `expectedSeqNo` and `currentMessageState` of BINARY: the next number, `p2pStreaming`, whether `p2pStreamChannel` is the camera's, the first data of both kinds, whether the start was told |
| `streams` | the two sources of a transfer: the chunks put into them, waiting and read, by number, and whether each was read to its end |
| `references` | the references of the last lists, oldest first |
| `device` | the device: its rows, what it held at its last answer, its cap on an answer, its task, the chunks it sent, the transfers it finished |

- The session orders each kind of traffic by a sequence of its own and nothing between
  them (`session.ts:1836-1930`), so that the three are separate: the finish may be taken
  (`Receive`) while chunks sent before it are on their way, and results come at any time.
- A datagram that came early waits for those before it. `Chunk` is the next one in order,
  arriving or worked off; `endStream()` throws away the early ones with the gap before
  them and goes on after the last of them (`EndsStream`, whose `skip` is how many numbers
  that is, and never one alone: a number that is next has not come early). Without a
  stream, chunks are taken and dropped (`Dropped`).
- The streams end on the finish, on a cancel that is sent and when the session gives up
  on them (`SessionGivesUp`: no data for its time, or a gap that stays open), which also
  sends a cancel of its own.
- A result names the camera and the command and no transfer, so that one of an earlier
  transfer ends a later one (`TransferResult`).
- `Fails`: whatever is not a clean result closes the session before the owner is
  released; `Closed` is that close. A transfer that stops has first 5 s for its cancel.
- The widths of the pages are a constant, and so are the caps a device may put on its
  answers. A page shows any rows of the device, so that `previous` can be missed.
- One camera: a notice of another camera, or the `CMD_DOWNLOAD_VIDEO` of another channel
  that ends a running stream, needs a second operation on the same owner, which
  `operations` excludes. A broadcast of the converted size (channel 255) is modelled: it
  starts the stream and leaves the session without the camera's channel.
- Left out: why an operation failed or stopped and whether a stop was confirmed, row
  classes, time zones, the expiry of references by time (they may expire at any moment
  instead), the bytes of a thumbnail, the parsing of media.

### Detections

| State | In the code |
| --- | --- |
| `now` | `Date.now()`, advanced by `Tick` |
| `pending`, `seen`, `lastPush` | the fields of the same name, in insertion order |
| `known` | the inventory behind `known()` and `stranger` |
| `delivered` | what `deliver` was called with, with the pending entry it came from; `after` of an entry is the number of detections reported before it began to wait |
| `Live`, `Remembered`, `Newest` | the loops over `seen`, as the sequence they leave: a filter picks places, `Map.set` keeps the place of a key that is there, and the oldest keys are dropped last |

A message carries the fields the code reads and, beside them, the occurrence it is
about (`about`), which nothing in the code can see and only the properties use.
The reports of one occurrence arrive within `Spread`, in any order, any of them
again or never; `Restart` is `exportSeen`, `close`, a new object and
`restoreSeen`. A timer fires at its time or later.

### EventTransport

| State | In the code |
| --- | --- |
| `client` | `EufyMegaClient.closed`, the running `startEvents` and `shutdown` |
| `t` | the current `EventTransport`: where `open()` is, `closed`, `connected`, credential, delivery ids, `Detections` reduced to pending and seen keys, the connect handlers that register the token, the callers of `close()` with what they await |
| `link` | the receiver's connection |
| `saves`, `rest` | the `saving` chain of `t`, and those of the transports it replaced, each a chain of its own |
| `writes` | `MegaCloud.writes` |
| `session`, `store` | `session.events` in memory and in the file |
| `held` | the push server: what it will deliver again |

- A promise that another one waits for is a number: saves end in the order they
  were asked for, and a wait is over when `done` has reached it.
- A save copies its state when it is asked for and hands it to the cloud when the
  save before it has ended, well or badly.
- The chain of a replaced transport goes on: `close()` awaits the save that is the
  newest when it looks, and one that settles later may leave another. When its own save
  fails, `close()` returns at once and `startEvents` fails with it.
- `spent.late` counts how often a transport was closed to be replaced while one before
  it still had such saves. Then the older chain can overwrite the session with less
  than the next transport is to restore, and a message may be reported once more. It
  takes six messages: five that settle after the first `close()` has looked for the
  newest save, and the one that the second transport reports. The run's bounds have no
  such case (no behaviour in them reports twice); with these messages TLC finds it, and
  the theorems hold with `late` for any number.
- `Crash` keeps the store and the server, and nothing else.
- Left out: renewal of expired credentials, pushes over an open device session
  (they are in `Detections`).

### MegaCloud

| State | In the code |
| --- | --- |
| `session` | `MegaCloud.session`: phase, token, whether the domain is known, identity |
| `ops` | `connect()` and each `call()`: what they await and what they do after it |
| `queue`, `sent`, `cooling` | the `requests` chain: the head holds the slot; the interval between two requests |
| `writes`, `store` | the `writes` chain and the session file |
| `closed` | the aborted `lifetime` |
| `keys`, `code` | the cloud: identities it knows, whether a code was mailed for the open login |

`Post` is `post()`, `Raw` is `raw()` with `identity()` before it, `Persist` is
`persist()`; `then` says which continuation follows. `Cancel` is the caller's
signal or the deadline: both leave the request in the chain, marked as gone.
`WriteEnds` is the rename of the file store or its failure; a `Crash` comes before
or after it. Left out: what requests carry, and how long the interval is.

### MapSession

| State | In the code |
| --- | --- |
| `inputs`, `shutdown`, `revision` | `PortableMapAcquisition`: its provisioning, its `shutdown()`, the last snapshot |
| `d` | `active`, its `MapLifetime` (`reason`, hard abort) and the locals of `runMapSession`: stage, `accepted`, `requested`, staged and published files |
| `pending` | a negotiation step that `negotiating()` left behind and `close()` waits for |
| `sockets` | the MQTT socket and the carrier: open, destroyed, closed |
| `requests`, `replies`, `task` | the carrier and the mower |
| `result` | what the last `acquire()` resolved with |

`StepDone` and `StepFails` are the awaits of the negotiation, `Command` and `File`
the two kinds of message, `StopSeen` the loop's look at `owner.reason`,
`CancelExpires` the 5 s after a cancel, `Ends` the end of `MapLifetime.close()`,
with or without everything closed.

### MapStream and PathHistory

`next`, `ahead`, `fragments`, `messages` are the fields of `MapKcp` (`#receiveNext`,
`#pending`, `#fragments`, `#messages`), `reader` those of `MapFileReader`; the mower's window and its resends are external, and the
streams it sends are correct ones and wrong ones. `history` is
`MowerPathAccumulator.#history`, `outcome` what `merge()` returned. `MCMapData` merges once a transfer is over:
the bytes of the files and the decoder between the two are not modelled.

### MowerHome

| State | In the code |
| --- | --- |
| `lifecycle`, `state`, `connecting`, `locals` | `Mowers.#lifecycle`, `#state`, `#authentication`, `#localSessions` |
| `session`, `bindings`, `discovering` | `EufyHomeAdapter.#session`, `#bindings`, `#discovering` |
| `age` | how a session stands to its `expiresAt`: more than the map reserve away, within it, past it |
| `store`, `logins` | the session store and the sessions made so far |
| `calls` | each caller: what it called, which request it awaits, the session and bindings it leased, whether its lease was revoked |

An answer may refuse the session it was asked with (`Refused`). The code then clears the
session that is in use by that time, which may be another, and so does the model. A login
asks for the region in the settings only when the first answer has `user_info`: both ways
are taken. `Disconnected` and `Shutdown` revoke the leases.

## Runs

| Run | Checks | Shows |
| --- | --- | --- |
| `transport_primary` | `TypeOK`, `LiveOnSession`, `ClosedIsQuiet`, `CloseSparesOthers`, `Progress` | one HomeBase, two cameras, three calls, limit 1 |
| `transport_sessions` | `OneOwner`, `ReservationsExact`, `Admission` (refinement of `StationAdmission`) | a HomeBase with three cameras and a standalone camera, limit 2, two calls |
| `live_stop` | `StreamOwned`, `AcknowledgementsCover`, `Handle` (refinement of `LiveHandle`), `AttemptsEnd` | two starts, one other command |
| `live_confirmed` | `ConfirmedMeansStopped` is violated | a late result of an older STOP confirms the next attempt |
| `local_session` | `TypeOK`, `OwnAnswer`, `ClosedMeansReleased`, `SessionEnds` | connect and two operations, four frames, queue of two |
| `detections` | `DetectionsOK`, `NoRepeat`, `OnePerOccurrence` | three occurrences at a camera, four reports, a restart |
| `events` | `TransportOK`, `NoReplay`, `SavedInOrder`, `CallsEnd` | three starts, two connections, a message, a crash |
| `cloud` | `CloudOK`, `SentForCaller`, `NoSecondCode`, `CallsEnd` | two logins, two calls, one forgotten identity, one failed write, one crash |
| `map_session` | `SessionOK`, `PublishedInDemand`, `UnknownIsFinal`, `DemandEnds` | two demands, two files, one lost socket |
| `map_data` | `StreamOK`, `HistoryOK`, `PathSteps` | correct and wrong streams cut in three ways, then merges of paths |
| `recordings` | `OwnResults`, `WholeResults`, `OperationEnds` | two operations of any kind, three rows, two pages, three chunks |
| `home` | `HomeOK`, `LeaseIsCurrent`, `CallsEnd` | two callers, four calls, two sessions, map provisioning on |

Each `.cfg` has the bounds of its run. Some properties are conjunctions whose
parts have names and comments of their own in the module:
`Progress` (`CallsReturn`, `LivesEnd`, `CloseCompletes`), `ReservationsExact`
(`ReservationsOwned`, `StreamsBounded`), `StreamOwned` (`TypeOK`,
`LiveHasStream`, `CleanupHasStop`), `SessionEnds` (`OperationsEnd`,
`SessionReleased`), `DetectionsOK` (`DetectionsType`, `DistinctKept`), `TransportOK`
(`TypeOK`, `ClosedIsQuiet`, `ReportedOnce`), `CloudOK` (`TypeOK`,
`AnswerIsStored`), `SessionOK` (`TypeOK`, `EndsCancelled`, `ShutdownIsQuiet`),
`StreamOK` (`StreamType`, `FilesInOrder`, `AcknowledgedIsKept`), `PathSteps`
(`ConfirmedStays`, `RealtimeOnlyAdds`, `WholePathWins`), `OwnResults`
(`TypeOK`, `NothingStale`, `LeftByComplete`,
`CountsOwn`), `WholeResults` (`WholeTransfer`,
`WholeList`), `HomeOK` (`TypeOK`, `SessionIsSaved`, `ShutdownIsQuiet`).

### Bounds

- *Transport.* The interesting interleavings are between the owner of a session,
  one call that shares it without owning it, and a call that tries to be admitted:
  three calls on one station reach all of them. Cross-station behaviour is only in
  `load()` and `close()`; two stations, two calls and both kinds of stream cover
  it. `LiveLimit` 1 and 2 are the two branches of `startLive`; three cameras are
  the least that can exceed a limit of 2.
- *Live streams.* A leftover message of one attempt can only meet the next one, so
  two attempts show each interference; the other command makes the queue longer
  than START and STOP and holds them back.
- *Local session.* The first operation is `connect()`, so three operations give two
  that can confuse each other's frames; a queue of two and one kept report let every
  limit be reached with four frames: the handshake's and three more.
- *Detections.* The limits of `pending` and `seen` are 2 so that both are
  exceeded; times are in units that keep the order of the code's 500 ms, 1 s,
  1.5 s and 300 s. There is nothing to be live: `deliver` is called from a
  timer.
- *Events.* Three starts let the saves of two replaced transports meet those of the
  third; one message and two connections reach a redelivery after a reconnect, after a
  replaced transport and after a crash. Two messages (with two starts) were checked
  once and showed nothing else; the theorems cover the rest.
- *Cloud.* connect() and two calls are the holder of the slot, a request behind it
  and one that is cancelled between them.
- *Maps.* Two files are the least of which one can be missing; three sends allow a
  repeated file. The second demand shows what the first one left. The windows of
  `map_data` are 4, 2 and 5 for the code's 128, 16 and a mower that runs ahead of
  both, so that segments fall on either side of each.
- *Recordings.* The pages have one and three rows and the device up to three, so that it
  shows a short page, a full one and a repeated one; a cap is the width of the first page
  or lies between the two. One kept reference makes the second evict the first. Three
  chunks, two of video and one of audio, let the finish overtake one or two of them, a gap
  be skipped with what came after it, and a chunk be left to the next transfer; all three
  exceed the size of a transfer. Two operations are the least of which one can meet what
  the other left.
- *Home.* A connect, a discovery and two uses are what can meet; two sessions are a
  refused one and its successor.

### Fairness

Weak fairness on what the code's own timers and Node guarantee, and on nothing of
a device, a network, a service or a caller.

- `DeviceTransport`: every wait has a timeout, a stream has its bound and a STOP
  owner 8 s, socket callbacks arrive, `load()` and `close()` take their next step
  once what they await has settled. No answer, link or key need ever come.
- `LiveStop`: only the transport's timers (20 s, 8 s, the stream bound) and the end
  of `station.close()`: an attempt ends even if the session's queue never moves.
- `LocalSession`: the operation's deadline fires, an operation that has something to
  wake up for is woken, a destroyed socket emits *close*.
- `EventTransport`: promises go on, a write of the store ends, `open()` has its 30 s
  timer. The receiver and the registration need not.
- `MegaCloud`: the store is read, a write ends, every request has a deadline. That
  the slot is freed is not assumed: a caller leaves without it.
- `MapSession`: the stop is seen, the demand's and the cancel's timers fire, a
  destroyed socket is closed, `close()` has its timer. Mower and broker may fall
  silent in any step.
- `Recordings`: a connection attempt ends, the timer of a page, of a transfer or of its
  cancel fires, a session that is closed ends. There is one of these at any time of an
  operation; nothing that is sent need arrive.
- `MowerHome`: each caller's next step (every request has a timeout, the store
  answers) and local sessions that were told to close.

*Deadlock* is checked for `LiveStop`, whose link can always be dialled or lost, and
for no other module: a client that is shut down, or has used up a bound, has
nothing left to do.

## What disagrees with the documentation

Some comments and places of the documentation are stronger than the code. The first
is a run of its own. Each of the others is stated as a property whose
counterexample TLC prints when the `.cfg` named is given that property in the place
of its own (and `SPECIFICATION Spec` for an action property).

- `docs/API.md:404` "`confirmed: true` requires the device's STOP
  acknowledgement" (run `live_confirmed`). It does (`AcknowledgementsCover`: one
  acknowledgement per confirmation), but it may be that of an older STOP. A
  stream ends by *livestream error* with its STOP unanswered; the next start is
  cancelled; the old STOP's result, matched by channel, confirms it while its own
  START and STOP are not executed yet, and the camera streams on.
- `device-transport.ts:939` "Cancellation ends the caller's wait, but still owns
  device cleanup." (`MCTransportPrimary.cfg`, `PROPERTY CleanupKeepsSession`). A
  start is cancelled, the session is lost, its STOP waits in the queue of a new
  dial. Another call connects meanwhile, is cancelled, and its `station.close()`
  drops the queue.
- `device-transport.ts:210` "Never replace a transport in the middle of a device
  operation." (`MCTransportPrimary.cfg`, `PROPERTY ReplaceSparesOperations`). A
  snapshot or a state read on a connected session holds nothing that `load()` looks
  at.
- `download.ts:11` "Owns one device transfer until its real finish or cancel
  acknowledgement." (`MCTransportPrimary.cfg`, `PROPERTY DisposeAfterCleanup`).
  `RecordingAccess.close()` waits for downloads that handed out their handle only.
- `mowers/local/session.ts:300` "Frames queued before the write are kept as
  context but are not fresh evidence." (`MCLocalSession.cfg`, `INVARIANT
  FreshEvidence`). Freshness is `observedAt < sentAt` in milliseconds, and a report
  that shares a chunk with the query's answer is usually received in the
  millisecond of the write.
- `mowers/local/session.ts:667` "Typed refusals leave the session open: nothing
  was written." (`MCLocalSession.cfg`, `INVARIANT RefusalWroteNothing`). A report
  with a non-zero return code is such a refusal, also after the write.
- `docs/MOWER_COMMANDS.md:52` `rejected`: "The device answered the control frame
  with a description" (`MCLocalSession.cfg`, `INVARIANT ReplyIsOwn`). The reply may
  be the late one to an earlier write whose bound had passed.
- `client.ts:290` "Initialization cannot create new transports after closed is set"
  (`MCEventTransport.cfg`, `PROPERTY NothingNewAfterClosed`). `openEvents()` awaits
  the close of the transport it replaces (line 157) and then creates the next one
  without another look at `closed`. Its `open()` is what still ends it.
- `docs/API.md:467-468` "fixed caps [...] fail with unconfirmed history"
  (`MCRecordings.cfg`, `PROPERTY ListIsWhole`). A cap is noticed when two pages have the
  same number of rows; one between two widths makes the second page longer than the first
  and shorter than its limit, which is a complete list (`recordings.ts:79`). `WholeList`
  says what holds: a list that is returned is all that the device held, or its cap is not
  the width of a page and the list has as many rows as the cap.
- `download.ts:184` "Reset binary sequencing before admitting another transfer."
  (`MCRecordings.cfg`, `INVARIANT OnlyOwnChunks`). It is reset after a cancel. A transfer
  that is complete leaves the session open, with the chunks that the finish has overtaken
  still to come: the next transfer, whose start puts BINARY into its own streams, takes
  them for its own. Results that come late do the same. `LeftByComplete` says that
  nothing but a complete transfer leaves anything.

`docs/API.md:470` "Completion requires the HomeBase's finish message and drained source
streams" is what the code does, and it is less than a reader may expect. The finish comes
on CONTROL and the chunks on BINARY, each with a sequence of its own; a finish that
overtakes a lost or delayed datagram ends the streams, and `endStream()` throws away what
came after the gap. The transfer is then `complete: true` without these chunks, and
nothing the client keeps tells it so. `WholeTransfer` says what is left of "complete":
the device has finished, the caller has read all that was put into the streams, and what
it has read is one unbroken run of what came on BINARY.

One behaviour is against no text but surprises. A push that has neither identity nor
time opens an entry of its own; a device report of the same camera turns it into an
entry of a known type, which takes a redelivered push although its key already waits in another
entry, and both entries are reported. The run of `MCDetections.cfg` has such a push.
`NoRepeat` therefore speaks of detections that begin to wait after the key was
reported (`after`), and counts what pushes a key out of the full memory from the first
report that had it: the second one does not move it to the end.

## Proofs

`DeviceTransportProofs` proves for all stations, cameras, calls and limits:

- `TypeCorrect`: `Spec => []TypeOK`.
- `OneOwnerHolds`: `Spec => []OneOwner`. `OneOwner` alone is not inductive: an
  admission looks at `starting`, `commands` and `operations`, not at the pending
  calls, so a free set has to mean that no call owns the station. The inductive
  invariant `Ownership` adds exactly that (`OwnersHeld`). Three lemmas carry the
  steps: `KeepOwners` (nobody's ownership changes), `ReleaseOwners` (calls end
  and give back what they own) and `TakeOwner` (a call takes a free station);
  each action is an instance of one of them.
- `OwnersHeldHolds`: the other half of `Ownership`.

The assumptions are the named ones of `DeviceTransport` (`None` is no station
and no camera, `OwnerOf` maps cameras to stations, the limit is 1 to 4). TLC
evaluates them in every run.

The rest of the module proves from the same assumptions what rests on the
reservations being exact. It first fixes which operation can wait where (`Fits`); each
theorem then adds one invariant to the ones before it:

- `ReservationsHold`: `Spec => []ReservationsExact`. Additional starts need that the
  entry of a camera is one call's (`ExtrasHeld`) and that recordings, the one stream of
  a standalone station and additional streams exclude each other before the limit is
  counted (`Room`). Connection attempts (`LinkersHeld`) need `OneOwner`: only a STOP-only
  call dials twice, and its second attempt is the only one because it owns the station.
- `AdmissionHolds`: `Spec => Admission`, the refinement of `StationAdmission`. A release
  frees the station, and does not just take one user away, because the call was its only
  owner; an additional stream is added only to a free station because of `Room`.
- `LiveHolds`: `Spec => []LiveOnSession`. What makes it inductive is that a socket that
  closes carries no stream (`LiveKept`): a close begins with END while the link is up,
  and the END takes the stream with it.
- `ClosedHolds`: `Spec => []ClosedIsQuiet`, in three layers. A request that is out has its
  link, and a closing socket has none, so that no request outlasts the socket
  (`WaitsUp`). A load meets only STOP-only calls and waiting peeks, so that it leaves
  no other call deaf (`LoadsApart`). After `close()` has begun every other call is in
  its cleanup, `close()` waits for the starts and transfers among them, and the sockets
  it closes end the rest (`CloseOrder`).
- `ClosesSpareOthers`: `Spec => CloseSparesOthers`. The owner of a session is its only
  user (`OwnerAlone`), so what is left is a call that owns nothing: a peek whose attempt
  fails. It never waits for the key of a session that is connected (`PeekHeld`), which
  holds although `load()` lets a session keep its key while its link is down
  (`KeyHeld`), because no peek begins during a load.

`LiveStopProofs` proves for any number of attempts and commands:

- `HandleRefined`: `Spec => Handle`, that `LiveStop` implements `LiveHandle`. Each
  action either leaves the owner's state alone or is one of a handful of owner
  steps (`OwnerStep`), and each of these is a step of `LiveHandle`. That needs
  one invariant (`Unreported`, `UnreportedHolds`): attempts that have not begun
  and the running one carry no report, except a failed cleanup that is closing.
- `AcknowledgementsHold`: `Spec => []AcknowledgementsCover`. The invariant counts
  one more acknowledgement while a live stream holds one it has not reported
  (`Credit`): without it a stream could report a confirmation it no longer has
  an acknowledgement for.
- `StreamsAreOwned`: `Spec => []StreamOwned`. A live handle needs nothing more than
  `EndStream` reaching its owner. For a failed start it is followed through queue
  and wire that its STOP is still in one of them (`Has`): sending moves it
  (`PumpIs`), a result takes it away only together with the wait (`WithoutIs`), and a
  queue is emptied only by who ends that wait.

`LocalSessionProofs` proves for any number of operations and frames and any
limits:

- `TypeCorrect` and `ClosedReleases`, from one inductive invariant (`Base`): an
  ended session has no frame and no open socket, dialling belongs to `connect()`,
  the bound to a read-back.
- `AnswersAreOwn`: `Spec => []OwnAnswer`. By itself it says nothing of what is
  outstanding once an operation stops waiting. `OneQuery` does: at most one query
  is outstanding, owed or queued and never both, and none while no operation
  awaits an answer. Every way out of that wait takes the answer or ends the
  session, which is why a deadline has to end it.

`MowerHomeProofs` proves for any callers, calls and sessions, with and without map
provisioning:

- `HomeHolds`: `Spec => []HomeOK`, and `LeasesAreCurrent`: `Spec => LeaseIsCurrent`.
  Neither is inductive: that a saved session is installed only into an empty
  adapter has to be known of a connect that is still on its way, and that bindings
  are of the present session of a discovery. `HomeInv` adds that there is one connect
  and one discovery at most (`OneOfEach`), that a connect has cleared session and
  leases (`Cleared`, `Unconnected`), and a discovery the bindings
  (`Undiscovered`), and what kind of call can be at which request (`KindAt`). The
  actions are classified by their effect: `MovesInv` (a caller goes on),
  `EndsInv` (it ends), `ClearsInv` (session and leases go), `IssueInv` (it starts), and
  each action is an instance of these.

`MapProofs` proves of `MapSession`, for any number of demands, sends, lost sockets and
any revisions and files:

- `SessionHolds`: `Spec => []SessionOK`, `PublicationsInDemand`:
  `Spec => PublishedInDemand` and `UnknownStays`: `Spec => UnknownIsFinal`. That a
  demand which ends as asked has stopped the mower is not inductive: what the mower
  will still do depends on the requests it has not read. `CancelIsLast` says that the
  cancel is the last request of its session and that there is an answer to it only
  once the mower has read it; `DemandOK` what a demand in each stage has asked for,
  and `EndOK` what is left when it is over. The actions are classified by whether the
  demand goes on, throws, or ends.

of `MapStream`, for any segments a mower sends, in any order and however often, and any
limits (`MapStreamAssumption`: the streams are sequences of segments, the limits numbers):

- `StreamHolds`: `StreamSpec => []StreamOK`. That the files come whole, once and in
  order is not inductive: a file is put out chunk by chunk, and a message may end inside
  one. `Fits` says what the reader is after the first n segments of the stream: what it
  has put out are the files that end within them, and the file it holds is the chunks
  behind the last of these, numbered one after the other, none of them the last
  (`Holds`, `Partial`). `PieceOK` carries this over one piece, whatever the piece
  is; `ReadAllOK` over all pieces of a call, from the first one that would break it. `InStep`
  ties the two classes together: the reader has read up to the message that the receiver
  gathers, whose pieces are the segments before the next one (`Gathered`), never more
  than 7 because they count down to a 0 that is not among them (`FewPieces`). The order of
  arrival is in none of these: `RunEndIs` and `PartsAre` say that what is taken is always
  the run of segments up to the first gap.

and of `PathHistory`, for any sequence of inputs that passed `normalize()` and any
limit (`PathHistoryAssumption`, which TLC evaluates of the inputs of `map_data`):

- `HistoryHolds`: `HistorySpec => []HistoryOK`, and `MergesKeepTheirWord`:
  `HistorySpec => PathSteps`. `HistoryInv` adds to the tiling that any two segments are in
  order, which is what makes the segments that start before a cut the first ones
  (`BeforeIsFirst`); the last of them reaches the cut, so that the new segment follows
  without a gap (`CoverGrows`). `MergeStep` states what a merge may do to the history, and there is a
  lemma for each way to merge. What two paths have in common is the longest common
  prefix, a choice among prefixes: that there is one at all is proved from the
  least element of a set of numbers (`Greatest`, `CommonPrefixIs`).

`MegaCloudProofs` proves for any calls, crashes and failures:

- `SentIsAwaited`: `Spec => SentForCaller`. An answer is taken by the operation that
  its request names, so two live requests of one operation would be a request
  without a caller as soon as the first is answered. `CloudInv` says that there is
  one live request at most per operation (`OneLive`), and one write (`OneWrite`), that
  who has one waits for it (`Waits`, `Saving`), and that only `connect()` asks for the
  domain (`Fits`). Every step starts with an operation that has neither (`Free`)
  and leaves it at most one (`Moved`, `MovedInv`).
- `CloudHolds`: `Spec => []CloudOK`, and `OneCode`: `Spec => NoSecondCode`. What
  `connect()` tells its caller is the phase of a session that other operations save at
  the same time, in a queue of writes that may fail. `StoryInv` says that a queued write
  with no write of `connect()` behind it has the session's phase, and so has the store
  while `connect()` saves nothing and no write has failed (`Follows`, `Stored`); that a
  captcha or a code is asked for only in the phase for it (`Leads`); and that from the
  mailing of a code on the session, the store and every queued write say
  "verification", so that after a crash too `connect()` asks for the code and not for
  another mail (`CodeSafe`). Requests carry what their callers wait for (`Carries`) and
  whoever waits has one (`Present`). An operation other than `connect()` leaves the
  phase alone (`CallMoves`); the moves of `connect()` are `AuthMoves`.

The assumption is `MegaCloudDistinct` of `MegaCloud`: "no session" is none, and
`connect()` is not one of the calls.

`RecordingsProofs` proves for any recordings, page widths, caps, chunks and bounds:

- `OperationsReadTheirOwn`: `Spec => []OwnResults`, with the bound on the references
  that are kept (`KeptIs`). Answers name no question, so that what waits on CONTROL
  belongs to the operation that reads it follows only from the session being `Clean`
  when nobody uses it. A query is over when its one answer is taken (`WaitsFor`); a
  transfer may be complete only when the finish, the last that a device sends on CONTROL
  for it, was taken (`Transfers`); every other end closes the session. BINARY and the
  results have no such end: `LeftBy` says that what waits there is of this transfer or of
  one that was complete (`Rests` between the operations, `Placed` during one). `EndsInv`,
  `FailsInv` and `GoesOnInv` carry the steps of the operation, `SameInv` those around it.
- `CompleteIsWhole`: `Spec => WholeTransfer`. `Streaming` says of the two streams that what
  was put into them is what was counted and what waits in them, that it is one unbroken
  run, up to the session's next number as long as chunks are taken, and that a stream
  that was read to its end is empty and stays so. `PutStreaming` keeps it when a chunk is put in, `EndsStreaming` when the streams
  end and numbers are skipped (nothing is put in after that) and `ReadWhole` gives the
  theorem from it.
- `ResultsAreWhole`: `Spec => WholeResults`, with no hypothesis on the caps. The invariant
  says of an answer that waits what the device gives (`Shows`: all it holds, or as many
  rows as the page or its cap allows), and of the page before that it was as full as it
  is wide and no wider than the cap (`Before`). `PageIsWhole` is the rule of
  `completeHistory` from there: a page that is not full and has more rows than the page
  before is all that the device holds, or capped at no page's width. That the widths
  grow is the assumption `PagesWiden`.

`EventProofs` proves of `EventTransport`, for any messages, starts, connections and
crashes:

- `TransportSafe`: `Spec => []TransportOK`. The types and the chains of saves (`Base`) are
  inductive by themselves: a chain that is not over has exactly one write, that of its
  first save (`Owned`). That a message is reported once is not: the transport that
  reported it may be gone. `Once` says that a message which has used up its report is
  *safe* (`Safe`): its key or its delivery id is where the next delivery is checked, or
  the server no longer holds it. While a transport is being replaced that place moves,
  from the transport to the session that the next one restores, once `close()` has
  awaited its own save; `Handing` says that every save from that one on is safe.
- `StoredNotReplayed`: `Spec => NoReplay`. A key in the store, or on its way there, is of
  no message that waits to be reported (`Noted` in `Once`).
- `SavesInOrder`: `Spec => SavedInOrder`, from `Order`: each save has the keys of the saves
  before it, and those that the store or a replaced transport already has. A report adds
  a key that was not `Noted`, which is why this needs `Once`.

and of `Detections`, for any cameras, messages, device events and times and all
limits (`DetectionsAssumption`: the limits are numbers, and messages are of cameras):

- `DetectionsHold`: `DetectionsSpec => []DetectionsOK`. The types and limits are inductive
  with what an entry is (`Entries`): a device entry has no key and no format yet, which
  is why merging a push into it, or into a push of another format, brings at most one
  key in each format (`MergedEntryIs`).
- `NothingRepeats`: `DetectionsSpec => []NoRepeat`. The memory is full of holes: keys
  expire, the oldest are dropped, and a key that is set again keeps its old place. Three
  facts make it inductive. What was reported is remembered for long enough, or forgotten
  (`Recalled`); behind the place of a key are only keys that were reported in or after a
  report of that key (`Placed`), so that a key that is dropped has more than `SeenLimit`
  different ones behind it (`KeysBehind`, `RecalledNewest`); and a key that waits was
  reported before its entry began to wait only if it is forgotten (`Waits`), because a
  push is looked up when it arrives. The lemmas `LiveIs`, `NewestIs` and `RememberedIs`
  say what the memory's loops leave, from one lemma on filters (`PickedIs`); that every
  rank among the picked places is taken is shown by the least one that is not
  (`RankedIs`), for induction is out of the prover's reach.

Only model-checked: `OnePerOccurrence` of `Detections`, and all liveness under fairness
(`Progress`, `AttemptsEnd`, `SessionEnds`, `DemandEnds`, `OperationEnds` and the three
`CallsEnd`), which the prover cannot do. `OnePerOccurrence` rests on when the reports of
one occurrence arrive (`InTime`, `Replayed`), on the values of the messages and on the
order of the durations, which the instance fixes; it is not true of all constants.

## Not modelled

- *Tables and decoding* (`discovery.ts`, `device-profiles.ts`,
  `device-state.ts`, `mowers/telemetry/`, `mowers/protocol.ts`,
  `mowers/work-parameters.ts`, `mowers/local/commands.ts`, `settings.ts`): pure
  functions of one input. Where their verdict steers a protocol it is an accepted or
  a refused input of a module.
- *Map geometry* (`mowers/maps/geometry.ts`): floating-point, outside what TLC
  evaluates.
- *Byte codecs* (`wire.ts`, `protobuf.ts`, the MQTT packets, `frame.ts`) and
  *cryptography*: library calls and layouts. A frame or a file is usable, refused or
  damaged.
- *The vendored library* beyond the session and station behaviour listed above: its
  HTTP API, device classes, push client and media decoding.
- *Diagnostics*: the standalone push counter, the observations of live starts and
  frames; nothing reads them.
- *The security module of `EufyClient`*: it passes its calls to `EufyMegaClient`.

## What is left

1. `DeviceTransport` with the session's command queue of `LiveStop` in it, in place of one
   request with an outcome.
2. Renewal of the push credentials in `EventTransport`.
