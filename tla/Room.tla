-------------------------------- MODULE Room --------------------------------
(***************************************************************************)
(* The Room (livekit/src/room/mod.rs) composed with the engine it listens  *)
(* to: its handlers of the engine's lifecycle events, the connection state *)
(* the application sees, and the republish tasks that handle_restarted     *)
(* spawns and that outlive the reconnection.  Each handler takes one event *)
(* of RtcEngine's engine_rx, with what RoomReceives does there (answer it, *)
(* or close the engine after a Disconnected), and is one atomic step: none *)
(* of them awaits.  The task in which handle_signal_resumed sends the      *)
(* SyncState before it answers touches none of this state and is part of   *)
(* its step.                                                               *)
(***************************************************************************)
EXTENDS RtcEngine

CONSTANT HasTracks   \* whether there are local tracks to republish

ASSUME RoomAssumption == HasTracks \in BOOLEAN

VARIABLES
  state,     \* ConnectionState of the Room
  waiting,   \* republish tasks about to make each call of publish_track
  ready      \* republish tasks about to report Connected

roomVars == <<state, waiting, ready>>
allVars == <<vars, roomVars>>

NoTasks == [c \in TrackCalls |-> 0]

RoomInit == Init /\ state = "Connected" /\ waiting = NoTasks /\ ready = 0

RoomTypeOK ==
  /\ TypeOK
  /\ state \in {"Connected", "Reconnecting", "Disconnected"}
  /\ waiting \in [TrackCalls -> Nat] /\ ready \in Nat

HandleResuming ==
  /\ RoomReceives("Resuming")
  /\ state' = "Reconnecting" /\ UNCHANGED <<waiting, ready>>

HandleResumed ==
  /\ RoomReceives("Resumed")
  /\ state' = "Connected" /\ UNCHANGED <<waiting, ready>>

HandleSignalResumed == RoomReceives("SignalResumed") /\ UNCHANGED roomVars

HandleRestarting ==
  /\ RoomReceives("Restarting")
  /\ state' = "Reconnecting" /\ UNCHANGED <<waiting, ready>>

\* A mutant: the tracks are republished before the engine is answered.
HandleRestartedInline ==
  /\ HasTracks => pc = "idle"
  /\ RoomReceives("Restarted")
  /\ waiting' = [waiting EXCEPT !["add_track"] = @ + 1] /\ UNCHANGED <<state, ready>>

\* answers first, then spawns the republish task
HandleRestarted ==
  /\ RoomReceives("Restarted")
  /\ waiting' = [waiting EXCEPT !["add_track"] = @ + 1] /\ UNCHANGED <<state, ready>>

HandleSignalRestarted == RoomReceives("SignalRestarted") /\ UNCHANGED roomVars

HandleDisconnected ==
  /\ RoomReceives("Disconnected")
  /\ state' = "Disconnected" /\ UNCHANGED <<waiting, ready>>

\* The republish task: publish_track calls add_track, then create_sender, each
\* under the engine's read guard
RepublishCalls(c) ==
  /\ waiting[c] > 0 /\ HasTracks
  /\ ApiBegins(c)
  /\ waiting' = [waiting EXCEPT ![c] = @ - 1]
  /\ UNCHANGED <<state, ready>>

\* ... which returns; add_track may also fail, which ends publish_track
RepublishReturns(c) ==
  /\ ApiEnds(c)
  /\ \/ /\ c = "add_track"
        /\ waiting' = [waiting EXCEPT !["create_sender"] = @ + 1]
        /\ UNCHANGED ready
     \/ ready' = ready + 1 /\ UNCHANGED waiting
  /\ UNCHANGED state

\* ... a closed engine grants the guard too and refuses the call; without tracks
\* no call is made
RepublishSkips(c) ==
  /\ waiting[c] > 0
  /\ HasTracks => pc = "idle" /\ closed
  /\ waiting' = [waiting EXCEPT ![c] = @ - 1] /\ ready' = ready + 1
  /\ UNCHANGED <<vars, state>>

\* A mutant: the republish task forgets the connection state.
RepublishedSilent ==
  /\ ready > 0
  /\ ready' = ready - 1
  /\ UNCHANGED <<vars, state, waiting>>

\* ... then reports Connected whatever happened meanwhile
Republished ==
  /\ ready > 0
  /\ ready' = ready - 1
  /\ state' = "Connected"
  /\ UNCHANGED <<vars, waiting>>

RoomTask ==
  \/ HandleResuming \/ HandleResumed \/ HandleSignalResumed \/ HandleRestarting
  \/ HandleRestarted \/ HandleSignalRestarted \/ HandleDisconnected

Republish(c) == RepublishCalls(c) \/ RepublishReturns(c) \/ RepublishSkips(c)

RoomNext ==
  \/ EngineNext /\ UNCHANGED roomVars
  \/ RoomTask \/ Republished
  \/ \E c \in TrackCalls : Republish(c)

RoomSpec == RoomInit /\ [][RoomNext]_allVars

\* The engine's fairness, and that of the Room's own tasks.
RoomFairSpec ==
  /\ RoomSpec /\ EngineFairness
  /\ WF_allVars(RoomTask) /\ WF_allVars(Republished)
  /\ \A c \in TrackCalls : WF_allVars(Republish(c))

-----------------------------------------------------------------------------
\* A republish task has not reported Connected yet.
Republishing == waiting # NoTasks \/ ready > 0 \/ \E c \in TrackCalls : api[c] # 0

\* When the engine is open and at rest and the Room has caught up with it, the
\* application sees Connected: no recovery path forgets to report itself.
RoomAgrees ==
  ~closed /\ ~reconnecting /\ engine_rx = <<>> /\ ~Republishing => state = "Connected"

\* The application never sees Reconnecting for ever: every reconnection, one that
\* gives up included, brings the Room an event that ends it, as long as the
\* application does not stop the Room and no publish_data caught by a failure holds
\* the reconnection lock (tests/reconnection_test.rs:168: "it must NOT stay stuck in
\* Reconnecting").
RoomNotStuck ==
  (<>[]Held) \/ (state = "Reconnecting" ~> (state # "Reconnecting" \/ ~room_alive))

\* A reconnect task that gives up (exhausted, or told to stop) brings the Room to
\* Disconnected.
GivingUpDisconnects == cpc["task"] = "begin" ~> (state = "Disconnected" \/ ~room_alive)

\* Disconnected is final ("closed : terminal", signalling-reconnection.allium:165).
DisconnectedIsFinal == [][state = "Disconnected" => state' = "Disconnected"]_allVars
=============================================================================
