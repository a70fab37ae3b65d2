# A verification of the LiveKit Rust SDK

This directory models the parts of the SDK that are hardest to test: what happens
when the connection to the server breaks, comes back, breaks again while it is
being repaired, or is closed in the middle of all that, and what the protocols on
top of it (negotiation, reliable data, data tracks, data streams, RPC) make of
lost, repeated, late and abandoned messages. TLC checks the models on small
instances, and TLAPS proves most of their safety properties for every size. Paths
below are relative to the repository (`src/`).

## 1. The system and its parts

| part | code | state | who runs it | module |
|---|---|---|---|---|
| reconnect engine | `livekit/src/rtc_engine/mod.rs` | `EngineHandle` under a `RwLock`, `reconnecting_lock`, `close_notifier` | one `engine_task` per session, one reconnect task per episode, callers of `close()` and of the API | `RtcEngine`, `Lifecycle` |
| room | `livekit/src/room/mod.rs` | `ConnectionState` | `room_task`, republish tasks, `close()` | `Room` |
| signalling client | `livekit-api/src/signal_client/mod.rs` | `stream` (async RwLock), `queue` (async mutex), `reconnecting` flag | every sender, `signal_task`, the engine's `restart()` | `SignalClient` |
| negotiation | `rtc_session.rs`, `peer_transport.rs`, `utils/debouncer.rs` | `NegotiationQueue`, pending offer and candidates, `renegotiate` | callers, a negotiation task, the debouncer, the signal task | `Negotiation` |
| reliable data | `rtc_session.rs`, `utils/tx_queue.rs`, `utils/ttl_map.rs` | send queue, retry queue, receive sequence numbers | `data_channel_task`, `publish_data()` | `ReliableChannel` |
| frames of a data track | `local/packetizer.rs`, `dc_sender.rs`, `remote/depacketizer.rs` | counters, drop-oldest queue, partial frames | sender task, receiving task | `DataTrackPath` |
| local data tracks | `livekit-datatrack/src/local/{manager,mod}.rs` | descriptors by handle | the manager, a task per track | `LocalTracks` |
| remote data tracks | `livekit-datatrack/src/remote/{manager,mod}.rs` | descriptors by SID, index of subscriber handles | the manager, a task per subscription | `RemoteTracks` |
| data streams | `livekit-data-stream/src/{outgoing,incoming}.rs` | chunk index, open streams | writers, tasks of the room | `DataStream` |
| RPC | `livekit/src/room/rpc` | pending acks and responses, handlers | a future per call, a task per request | `Rpc` |
| regions, room data, E2EE, P2P, bindings, media, server API | see `PROJECT.json` | | | none (section 6) |

How they interact: a session reports its end as `SessionEvent::Close` to its
`engine_task`, which calls `reconnection_needed()` or `close()`. The reconnect
task resumes the session (`SignalClient::restart`, SyncState by the Room,
publisher re-offer, wait for the peer connections, `set_reconnected`) or replaces
it by a new one, and tells the Room about it through `engine_tx` with oneshot
channels that it awaits. A resume makes the publisher restart ICE (`Negotiation`)
and retry reliable packets (`ReliableChannel`); a full reconnect makes the
managers of data tracks publish and subscribe again (`LocalTracks`,
`RemoteTracks`). Data streams and RPC run over the reliable channel and meet the
faults it leaves.

What makes it hard: the same handle is taken apart by two tasks and three callers
of `close()`; a `select!` may drop a task at any await; failures arrive while a
failure is being handled; flags are loaded before an await and used after it;
bounded channels fill up; identifiers are reassigned while requests that name
them are under way. `PROJECT.json` lists these hazards one by one, at their lines.

## 2. Modules

**`RtcEngine`** models the reconnect engine. `EngineHandle`'s fields are variables of the
same names; sessions are numbers in the order of their creation, and of a session
the model keeps what the engine can observe: `status` (open, closed, dropped
without `close()`), `link` (the WebSocket slot), `gate` (`SignalInner.reconnecting`),
`pc_up`, its queued Close `events`, and whether its `engine_task` runs. `pc` is the
control point of the reconnect task; a step is what it does between two awaits:

| code | actions |
|---|---|
| `on_session_event(Close)`, `reconnection_needed` | `OnCloseReconnect`, `OnCloseDisconnect`, `ReconnectionNeeded` |
| the spawned task and its `select!` | `AcquireLock`, `Failed`, `FailedClosed`, `Finish`, `Cancelled` |
| `reconnect_task` | `LoopClosed`, `LoopRestart`, `LoopResume`, `RestartDone`, `ResumeDone`, `Backoff`, `Terminal`, `TerminalClosed` |
| `rx.await` on an answer of the Room | `Acknowledged` |
| `try_restart_connection` | `RestartTakes`, `RestartClosesOld`, `RestartConnects`, `RestartConnectFails`, `RestartRejected`, `RestartWaitFails`, `RestartInstalls` |
| `try_resume_connection`, `resume_finalize` | `ResumeClosesLink`, `ResumeConnects`, `ResumeConnectFails`, `ResumeRejected`, `ResumeWaits`, `ResumeWaitFails`, `ResumeFinalize`, `ResumeSevered` |
| `close` | `CloseBegins`, `CloseClosesSession`, `CloseEmits`, `CloseNotifies`, for each of the callers `room`, `server`, `task` |
| `wait_reconnection` and the API calls | `ApiBegins`, `ApiEnds` |
| the network and the server | `LinkDies`, `SignalLost`, `PcFails`, `ServerLeaves` |

Cancellation follows tokio: `close_receiver` is polled with the task, so after
`notify_waiters` the task takes at most the step that was ready in the same poll
(`cancel` goes from `notified` to `late`) and is then dropped at its next await.
`resume_finalize` is the exception: `is_connected()` and `set_reconnected()` may both
be ready at once.

An API call holds the read guard of `reconnecting_lock` from `ApiBegins` to `ApiEnds`, and the
reconnect task begins with the write guard. `add_track` and `create_sender` return by themselves;
`publish_data` returns only when the transport drains or its session is gone. `Held` names the
state in which such a call keeps the reconnect task from the lock for good.

**`Lifecycle`** is the abstract specification: phase, whether a full reconnect is required,
whether a new session still has to be announced, and the last event the Room was
told, with the order in which events may follow one another. `RtcEngine`
implements it through the mapping at `L == INSTANCE Lifecycle WITH ...`; after
`closed` is set the mapping shows a closed connection, because late events of a
task that is being cancelled may still follow `Disconnected`.

**`Room`** composes the engine with the Room's handlers of the lifecycle events. Each
handler is `RoomReceives` of `RtcEngine` (take the event, answer it, or start
`close()`) together with its effect on the `ConnectionState`. The task that
`handle_restarted` spawns publishes the tracks again, through API calls that take the reconnection
lock (`Republish`), and only then reports Connected (`Republished`).

**`SignalClient`** models `SignalInner`: one process per call of `send()`, the engine
(`restart()`, `set_reconnected()`) and `signal_task`, which also sends the pings. Its steps are
those between awaits on the queue mutex and on the fair stream lock; a sender whose write failed
keeps its read guard while it waits for the queue, and closing the stream awaits the tasks of the
connection under the write guard. A signal is a number;
`PassThrough` are those that `is_pass_through` accepts, `Pings` those of `signal_task`. `delivered`,
`lost`, `silent`, `breaks` and `earlier` are history.

**`Negotiation`** models how the publisher's offers come about. `publisher_negotiation_needed`
is two steps (load `waiting_for_answer`; act under the lock of `state`), the task of
`execute_negotiation_with_retry` one step per lock or await, the debouncer a state of
its own; with them run the ICE restart of a resume and the signal task. Of an SDP
the model keeps how many needs it covers: `wanted` counts the needs, `accepted` what
`create_and_send_offer` took on, `offered` and `answered` what the last offer and the
last applied answer cover. `crossed` records that an answer was applied to another offer than its own.

| code | actions |
|---|---|
| `publisher_negotiation_needed`, `queue_negotiation` | `Need`, `MarkRetry`, `QueueNegotiation`, `Debounce` |
| `execute_negotiation_with_retry` | `StartWaiting`, `TaskOffer`, `AwaitAnswer`, `StopWaiting`, `CheckRetry`, `TaskExit` |
| `Debouncer` | `DebouncerStep` |
| `PeerTransport` | `CreateAndSendOffer`, `FailToOffer` (an error at any of its awaits), `SetRemoteDescription`, `AddIceCandidate`, `Close` |
| answers, candidates, resume | `OnAnswer`, `OnAnswerFails` (the description or a candidate is refused: `RefuseDescription`, `RefuseCandidate`), `OnAnswerRenegotiate`, `OnAnswerNotify`, `OnTrickle`, `RestartPublisher` |

**`ReliableChannel`** follows reliable packets from `publish_data()` through
`data_channel_task` (each passes its event channel twice: encoded, then sent) to the
SFU and on to a receiving session, with `RetryFrom` after a resume and
`update_packet_rx_state`. A packet counts one byte.

**`DataTrackPath`** follows the frames of one track: `Packetizer`, `DataTrackSendQueue`,
`DataChannelSender`, an unordered channel, then the receiving side: the manager's bounded queue of
packets, the track task with its `Depacketizer`, and the broadcast stream that overwrites its oldest
frame. Sequence and frame numbers wrap (`SeqMod`, `FrameMod`); payloads are what tells frames apart,
which lets `FrameIntegrity` compare what comes out with what went in. `hit` records the frames of which a
packet was refused, lost or dropped, and `shuffled` that the channel repeated or reordered.

**`LocalTracks`** and **`RemoteTracks`** are the two managers of data tracks as actors: one
event at a time from a bounded channel, each handler one action, the track
tasks and the application's calls as processes of their own, and an SFU that answers, refuses,
unpublishes and forgets a session. Their output is bounded too (`OutCap`): a handler that has no room for
what it sends waits. `shutdown()` is several steps, because it awaits the track tasks. In
`LocalTracks` an answer to an active publication is checked in one step (`AnswerActive`) and published to
the watchers in a later one (`SendPublished`), because the code gives up its borrow in between;
`unpublish()` may be called again and keeps the track (`Unpublish`), dropping it does not (`DropTrack`),
and `wait_for_unpublish()` is a process of its own (`watched`). In `RemoteTracks` a track object is named by the SID it was created
with, so that a reassigned SID shows as a descriptor under another SID; `reassigned`, `renumbered` and `lost`
record that a SID was reassigned, that a full reconnect made the SFU count handles anew, and that an event found the channel full.

**`DataStream`** composes the writers of a `RawStream` with the `IncomingStreamManager`. A
future dropped at its await (`cancels`) leaves its packet in the queue and the state
as it was; a `RawStream` dropped without a close sends its trailer if there is a runtime to do it
(`abandoned` otherwise); the channel may lose, repeat and reorder.

**`Rpc`** composes `perform_rpc`, `RpcClientManager` and `RpcServerManager`, for v1 packets and
v2 streams. Each task of the server is a record that goes through `ack`, `read`,
`invoke`, `running`, `respond`; `invoked` and `skipped` count the tasks that called the handler and those that
answered without. The recipient may leave the room at any moment, and its tasks with it.

The modules ending in `Proofs` hold the theorems; the `MC...` modules are the ones TLC runs on.

Definitions named "mutant" change one definition the way a plausible bug would.
They are used by no specification; replacing the definition they stand next to
by one of them makes TLC report the property it is listed with in `PROJECT.json`.

## 3. Runs

| run | bounds | checks |
|---|---|---|
| `Room` | 2 sessions, 3 attempts, 2 failures, tracks to republish | `ApiUsesLatest`, `InstalledServed`, `ResumesServedSession`, `RoomAgrees`, `EscalationSticks`, the refinement `ImplementsLifecycle`; `ReconnectionEnds`, `ClosedIsTold`, `RoomNotStuck` |
| `SignalClient` | 3 signals (a queueable one, a pass-through one, a ping), 2 restarts | `Accounted`, `PassThroughNeverQueued`; `SendReturns`, `RestartEnds` |
| `NegotiationLive` | 2 needs of one caller, 2 tasks, 1 ICE restart, 1 candidate, 1 fault | `OneNegotiationTask`, `DeferredKept`; `AcceptedIsAnswered`, `CandidateApplied` |
| `ReliableChannel` | 3 packets, threshold 0, 1 fault | `OrderedUntilResume`, `ReplayCovers`; `PublishReturns` |
| `DataTrackPath` | 3 frames of 0 to 3 packets, numbers modulo 4 and 3, buffer of 2, threshold 1, queues of 1 frame and 2 packets, 1 fault, a channel that may open late | `NeverOvercommitted`, `FrameIntegrity`, `InOrder`, `IntactIsDelivered` |
| `LocalTracks` | 2 calls, 1 handle, channels of 3 events and 2 requests, 2 faults | `AnswerComing`, `PublishedOrAsked`; `PublishReturns`, `EndedIsUnpublished` |
| `RemoteTracks` | 2 subscribers, 2 calls, 2 tracks, 2 SIDs, 2 handles, channels of 2, 1 packet, repeated update or full reconnect | `RoutingSound`, `PendingRequested`, `CatalogAgrees`, `DeadPipelineReleased`, `CallsOwed` |
| `DataStream` | 3 writes, length unknown, 0 or 2, 1 future dropped, 1 fault | `ReadInOrder`, `LengthKept`, `NormalEndIsWhole`; `ReaderEnds` |
| `Rpc` | 1 call, 2 faults | `Released`, `RunAsTold`, `TimeoutMeansNoAnswer` |

Properties after a semicolon are liveness properties, checked under fairness. The runs
keep to the properties that say most. The modules define further ones, which hold and
can be named in the configurations: the type invariants, `IInv` and
`NoStuckGate` of `RtcEngine`, `DrainHasStream`, `DeferredAwaitsAnswer`, `BufferedExact`, `NumberedOnce`,
`PartialsBounded` and `OncePerDelivery`; and the liveness properties `RevokedIsClosed`,
`GivingUpDisconnects`, `TaskEnds`, `QueueMoves` (`FairSpec`, 2 frames), `ShutdownEndsOrFills` and `CallReturns` (the last with `FairSpec`
of `Rpc`). `ShutdownEnds` and `UnpublishEndsStreams` of `RemoteTracks` hold under `FairSpec` with one track;
with two that takes too long. The `Room` run also passes with three sessions, attempts and
failures (721,000 states, ten minutes). Section 4 says which properties are proved.

Some properties make an exception for a state the code can really get into, and name it: `Held`
(`RtcEngine`), `LockCycle` (`SignalClient`), `Stuck` (both managers of data tracks), `reassigned`, `renumbered` and `lost`
(`RemoteTracks`), `abandoned` (`DataStream`), `crossed` (`Negotiation`). What happens there, and
which line of the source it contradicts, is in section 5.

Why the bounds are enough for the interesting cases: two sessions give a full reconnect and
a restart that finds no further one; three attempts
give a resume that escalates and a restart that is retried; two failures give
one that starts an episode and one inside it or at its end. Exhaustion,
cancellation, API calls that hold the lock and all three callers of `close()` occur. In the signal
client the three kinds of signal meet as one that is queued, one that fails and one that is new. Two
needs give an offer in flight and one that is deferred, and two task identities show whether
a second task could start beside the first. Three packets fill the channel, the queue and the
event channel at once; with threshold 0 every packet waits for the one before.
Three frames give one in flight, one in the queue and one that evicts it;
the second sequence number of the last frame has wrapped; every queue is small enough to overflow. With two calls and one
handle `LocalTracks` meets the limit of handles and a handle that is used again. Two
SIDs give two tracks at once, a reassigned SID or a track that is published anew, a channel
of two fills up, and two handles let a full reconnect give out a handle again. A
dropped write followed by another one is what a repeated chunk index takes. Two faults
give an RPC a lost message and a repeated one; calls share nothing but the maps they
are keys of.
`CHECK_DEADLOCK FALSE` is used throughout: every one of these systems may come to
rest (closed, or with nobody calling).

Fairness. Every task that can go on does so (weak fairness of each spawned task and each
future that was entered): tokio polls a woken task. A dead link is noticed
(`SignalLost`), because `signal_task` has a ping timeout; closing a broken connection ends, because TCP
gives up on it; a timer fires (`Rpc`, `AwaitAnswer`). The channel of `ReliableChannel` and `DataTrackPath` sends what it
holds. The server answers in `Negotiation` and `LocalTracks`, which is what their liveness is about;
in `RemoteTracks` requests leave `event_out` (a task forwards them), and nothing is assumed of what the SFU does about them.
Nothing obliges the network to fail, the application to call, publish, close or send, or
`publish_data` to return while the transport is down (`ApiEnds` has
fairness, and its guard says when it can return). With bounded failures a run's
liveness says: once failures stop, recovery or an end follows.

Three runs show a violation, each of a line `PROJECT.json` quotes:

* `RtcEngineLostLink` (`LostLinkRecovers`): a failure reported while the reconnect task is
  ending (it awaits the answer to Resumed or Restarted, or is about to clear
  `reconnecting`) sets `full_reconnect` and starts nothing.
* `RtcEngineLock` (`ReconnectTaskRuns`): a `publish_data` that waits for a data channel to drain holds the
  read guard the reconnect task waits for, and the channel drains only after the reconnection.
* `ReliableRetry` (`RetryComplete`): when the channel reports what it has sent, the retry queue is
  trimmed to that amount, so that packets sent earlier, and lost with the link, are
  not there when the resume asks for them. Three packets and two faults show it.

## 4. Proofs

All theorems hold for every value of the constants; the named `ASSUME` of each module is
all that is assumed.

**`RtcEngineProofs`**: `Invariance` (`Spec => []IInv`), from it `TypeCorrect`, `ApiSafe`
(`ApiUsesLatest`), `Served` (`InstalledServed`), `GateLifted` (`NoStuckGate`), `ResumeSafe`
(`ResumesServedSession`), the action property `Escalates` (`EscalationSticks`), and
`Implements` (`ImplementsLifecycle`). `IInv` adds to the types:

* `LockInv`: `reconnecting` is true exactly while the task exists, and an API call
  holding the guard keeps the task before `AcquireLock` and uses the installed session;
* `OwnInv`: who owns a session. While `engine_task` is in place the installed session is open,
  served, and in nobody else's hands; the task's new session is open and not
  the installed one. This is what makes `RestartInstalls` change the session
  (`EscalationSticks`) and keeps a concurrent `close()` from closing a session that
  is in use;
* `CloseInv`: everything `close()` does, and every cancellation, comes after `closed`;
* `ServedInv`: until `closed`, the task leaves the session without `engine_task`, or
  gated, only where `full_reconnect` forces a restart or the loop ends in `close()`;
* `ToldInv`: the last event sent says where the task is, which is what the
  refinement needs.

There is one lemma per conjunct (`...Step`): every step preserves it, by cases on the
groups of actions. `LifecycleStep` maps each step to a step of `Lifecycle` or a
stutter; `ClosedStep` isolates `CloseBegins` as the only step that closes.

The theorems about `Room` are in the same module: every step of the composition is a step of the
engine or leaves it alone, so `IInv` carries over. `RoomInAgreement` (`RoomAgrees`) and `RoomTypes` rest on
`RoomCatchesUp`: the last event in the queue is the one the engine last told, and one that ends a
reconnection has made the Room Connected or left a republish task (`Republishing`) that will.

**`SignalClientProofs`**: `SignalTypes`, `DrainKeepsStream` (`DrainHasStream`), `PassThroughPasses`
(`PassThroughNeverQueued`) and `SignalsAccounted` (`Accounted`). `SignalInv` adds `LocksInv` (the
mutex and the guards say where each process is), `PushInv` (only a queueable signal
is about to be queued), `AccountInv` (a signal is in one place at most) and `SilentInv` (a connection that is
about to swallow a signal without a line in the log is a broken one that has not done so yet).

**`NegotiationProofs`**: `OneTaskOnly`, `DeferredNotLost`, `DeferredIsSeen`, `NegotiationTypes`. The
three properties with the types are nearly inductive; `Trickled` (a candidate on the wire is there once,
and neither buffered nor applied) is what the types need.

**`LocalTracksProofs`**: `AnswersCome` (`AnswerComing`), `PublishedIsOnSfu` (`PublishedOrAsked`),
`LocalTypes`. `LocalInv` adds `AnswersTrue`, a positive answer still in the channel is true of the SFU or
something that ends the publication follows it there, and `PublishedOrEnds`, which says of a publication that
is Published, or that the manager has checked and is about to call so (`Claimed`), that it is on the SFU or its end is in the channel.

**`RemoteTracksProofs`**: `RoutesAreSound` (`RoutingSound`), `CatalogIsTrue` (`CatalogAgrees`),
`PendingIsAsked` (`PendingRequested`), `RemoteTypes`, all from `RemoteInvariance` (`Spec => []RemoteInv`).
`RemoteInv` adds to the types, while the manager runs:

* `Catalog`, `Once`: a described track is published, reads the SID it is described under, and is
  described once. Without `Once` a reassigned SID could leave two descriptors behind one handle;
* `Idle`: a track object without descriptor has no subscription, so that an index entry never
  outlives its descriptor;
* `Routes`: every entry of the index leads to its active subscription, the first half of `RoutingSound`;
* `Distinct`, `Carried`, `Routed`, until a full reconnect makes the SFU count handles anew: the handles in the channel come
  once each, that of an active subscription never again, and it is in the index. `Routed` is the second half of
  `RoutingSound`; without the other two, a handle that comes twice would take over another track's entry;
* `Announced`: an update in the channel names a SID the SFU has given to that track;
* `Told`: the last update of a track in the channel says what the SFU has, or there is none and the
  catalogue does. It is lost with an event that does not fit the channel, and so is claimed only until then;
* `Asked`: a pending subscription has its request, its handle, or an event that repeats the request
  on the way. A reassigned SID is the hard case: the request goes out under the old SID, and it is
  the update in the channel that has it sent again.

`UpdateCases` reduces the handler of publication updates to the four things it can do for a track
(publish, leave, reassign, end); each conjunct has its lemma for each group of actions.

**`DataStreamProofs`**: `ReadsInOrder`, `LengthIsKept`, `StreamTypes`, `NormalEndsAreWhole`
(`NormalEndIsWhole`). The argument for the order:
a chunk's index never exceeds the number of its write, and of two chunks anywhere (queued, under
way or read) the one with the higher index is of the later write (`LaterWrite`), also when a dropped write
has left a chunk under an index that is used again; a reader takes indices in order. A normal end is
whole because, as long as the channel has not failed (`WholeInv`), the header opens the one reader before anything else
comes (`Opening`), no trailer is sent before `close()` (`Untrailed`), and a chunk whose write returned before
the first trailer was queued is in the channel ahead of every trailer, or was read (`Carried`).

**`RpcProofs`**: `NothingLeft` (`Released`), `NoAnswerMissed` (`TimeoutMeansNoAnswer`),
`ResultTellsTheRun` (`RunAsTold`), `CalledOncePerDelivery` (`OncePerDelivery`), `RpcTypes`. `Maps` says
which entries the maps have at each stage of a call; `Flow` that every message, reader and task
carries an answer that is true of the handler: one that follows from its run only if it has run, one of a task that did not call it
only if a task has skipped it. `Counts` is an account per call: requests delivered, in the channel
and still to be sent are at most one more than the replays; calls of the handler, tasks that skipped it and tasks that will
still do either are at most the requests delivered. So without a replay a handler that was skipped was not and will not be
called, which is the harder half of `RunAsTold`. The account needs what removing and repeating a place
of the channel does to the number of a call's requests (`OfBelow`, `OfAppended`, `OfRemoved`), and finitely many
tasks and faults (`RpcAssumption`).

**`ReliableChannelProofs`**: `OrderKeptUntilResume` (`OrderedUntilResume`), `NothingIsMissed`
(`ReplayCovers`), `AccountIsExact` (`BufferedExact`), `NumbersAreUnique` (`NumberedOnce`) and `ReliableTypes`, from `ReliableInvariance`
(`Spec => []ReliableInv`). `ReliableInv` adds to the types and the account of the channel:

* `Numbering`: calls get their numbers in the order in which they queued their packets, and a call without
  a number has its packet still in `dc_events`. With the count of numbered calls it also says that
  the numbers never run past the calls, which the types need;
* `InLine`: until a resume there are three numbers that separate the packets at the SFU, in the channel, in
  `reliable_queue` and in `dc_events`; each part rises. One step moves one packet over one
  of the borders, wherever the other parts stand;
* `NoRetry`: until then no `RetryFrom` is queued;
* `Replays`: a packet on its way to the receiver has all earlier ones before it on the link, or they were
  passed on, as was everything up to `rx_state`. So a replay from `rx_state` may cut the link anywhere.

`ExactStep` counts the reports in `dc_events` through every operation on the queue. What this proof and
that of `Rpc` use about the size of finite sets is `Counting`; it comes from the library's `FiniteSetTheorems`
(`CountingHolds`), which is taken in behind the lemmas because they are checked much faster without it.

Only model-checked: all liveness properties (fairness is out of the prover's reach); `DeadPipelineReleased` and `CallsOwed` of
`RemoteTracks`; `DataTrackPath`; and the violations. `FrameIntegrity`, `InOrder` and `IntactIsDelivered` of `DataTrackPath` are
true of the instance and not of every value of the constants: frame and sequence numbers wrap, and once a full turn of
them fits between two packets a late one passes for a new one. `NeverOvercommitted` is the account that
`AccountIsExact` proves for the reliable channel, kept by another sender; it is left to TLC.

## 5. Known disagreements

Besides the three runs above, these properties state what a comment or a document says, or what a caller would
expect, and the code does not keep. Each is defined, with a comment, in its module; naming it in
place of the properties of the run's configuration, with the change given, makes TLC
show the behaviour.

| property | run, change | what happens | where |
|---|---|---|---|
| `ReconnectionEnds`, `RoomNotStuck` without `Held` | `Room` | as in `RtcEngineLock`: the Room stays in Reconnecting | `tests/reconnection_test.rs:168` "it must NOT stay stuck in Reconnecting" |
| `TeardownComplete` | `Room` | `close()` cancels the reconnect task with a session in its hands that nobody closes | `rtc_engine/mod.rs:904` "must be canncellation safe" |
| `DisconnectedIsFinal` | `Room` | a republish task reports Connected after Disconnected | `specs/signalling-reconnection.allium:165` "closed : terminal" |
| `NoLockCycle` | `SignalClient` | a sender holds the stream lock and waits for the queue, another the reverse, and a waiting writer keeps both from going on | `signal_client/mod.rs:490` |
| `QueueableNotLost` | `SignalClient` | a signal whose write errs is dropped | `signal_client/mod.rs:296` |
| `OrderPreserved` | `SignalClient` | a signal that is put back is overtaken | `signal_client/mod.rs:584` |
| `ReconnectedDrains` | `SignalClient` | a signal that loaded the gate too early stays in the queue | `signal_client/mod.rs:552` |
| `MarkedRetryRuns` | `NegotiationLive` | a retry marked between the task's last look and its clearing `task_running` starts nothing | `rtc_session.rs:2225` "marking for retry" |
| `NeedIsAnswered` | `NegotiationLive` | a `call()` that the debouncer accepts while its future runs is not negotiated | `rtc_session.rs:2298` |
| `AnswersMatch` | `NegotiationLive` | the answer of an offer that an ICE restart has cancelled is applied to the new offer | `peer_transport.rs:482` |
| `DuplicatesIgnored` | `ReliableChannel` | a repeated packet is reported as ignored and passed on all the same | `rtc_session.rs:1262` "Ignoring duplicate/out-of-order" |
| `PublishReturns` without `failed` | `ReliableChannel` | packets the channel refused stay in `buffered_amount`, and enough of them stop the queue | `rtc_session.rs:1201` |
| `QueueDrains` | `DataTrackPath`, `FairSpec`, 2 frames | the same in the sender of data tracks: what was refused before the channel is open is never subtracted, and it never sends again | `dc_sender.rs:139`, `:215` |
| `ShutdownEnds` | `LocalTracks` | the tasks that `shutdown()` awaits fill the channel it no longer empties | `local/manager.rs:87` |
| `GivenUpIsUnpublished` | `LocalTracks` | an answer that comes after its caller has gone, but before that shows, publishes a track nobody holds | `local/manager.rs:194` |
| `RunningIsKnown` | `LocalTracks` | a refusal of a republication, or a second answer to it, drops the descriptor of a track whose task runs on | `local/manager.rs:209` |
| `UnpublishedIsFinal` | `LocalTracks` | a full reconnect or an answer overwrites Unpublished before the track task has seen it | `local/manager.rs:290` |
| `WaitersReturn` | `LocalTracks` | a waiter that missed Unpublished, or whose publication lost its descriptor, waits on | `track.rs:56` "If the track is already unpublished, this method returns immediately" |
| `DeadPipelineEnds` | `RemoteTracks`, `FairSpec`, 1 track | an UnsubscribeRequest with a SID that was reassigned finds no descriptor; later subscribers join a subscription without a task | `remote/mod.rs:64` |
| `RoutesSurvive` | `RemoteTracks` | after a full reconnect one track's new handle is another's old one, and the removal of the old one deletes the new route | `remote/manager.rs:329` |
| `ShutdownHasRoom` | `RemoteTracks` | `shutdown()` awaits a task that waits for room in the channel | `remote/manager.rs:429` |
| `CatalogAgrees`, `PendingRequested` without `lost` | `RemoteTracks` | an event that finds the channel full is dropped, and nothing repeats it | `remote/manager.rs:555` |
| `DropCloses` | `DataStream` | an `open()` dropped half way, or a `RawStream` dropped without a runtime, sends no trailer | `outgoing.rs:238` "Close stream normally if not already closed" |
| `NormalEndIsWhole` without `faults = 0` | `DataStream` | a stream of unknown length whose last chunk was lost ends normally: nothing in the trailer tells; the same goes for the trailer `Drop` sends after a failed write | `outgoing.rs:243` |
| `NoAnswerDiscarded` | `Rpc` | a response whose ack was lost is thrown away with ConnectionTimeout | `rpc/client.rs:129` |
| `AlwaysReleased` | `Rpc` | a dropped `perform_rpc()` leaves its entries in both maps | `rpc/client.rs:91` |
| `OldServerRefused` | `Rpc`, `ServerInfos = {"old"}` | the version is only looked at when it is empty | `rpc/mod.rs:266` "RPC not supported by server" |

## 6. Not modelled

Time: backoff, ping, ICE and RPC timeouts are nondeterministic choices; `retry_now` only shortens
the backoff and is left out; an entry of `TtlMap` may expire at any moment. The
contents of events other than the ones named above. Reasons of disconnection. The first
`connect()` with its retries happens before `Init`. The inside of `SignalStream` (its tasks are the three
states of `stream`). The rewriting of SDP, encryption of packets and frames, UTF-8 chunking, the texts
of errors: conversions of data that no property here depends on.

Whole parts: the region cache and its HTTP requests; the room's bookkeeping of participants and
publications, done by one task in the order of one channel; E2EE, P2P calls, `libwebrtc` and the
vendored codecs, whose state is native; bindings, which translate calls and keep a table of handles;
the server API and tokens, which are stateless; generated protocol code. They are most of the
lines of the repository, and none has a protocol of its own that a model could add to.
