------------------------------ MODULE RtcEngine ------------------------------
(***************************************************************************)
(* The reconnect engine of livekit/src/rtc_engine/mod.rs: one EngineHandle *)
(* shared under a lock by                                                  *)
(*   - the engine_task of each RtcSession, which turns session events into *)
(*     reconnection_needed() or close();                                   *)
(*   - the reconnect task reconnection_needed() spawns, which resumes the  *)
(*     session or replaces it by a new one, attempt after attempt;         *)
(*   - the calls of close(): by the Room, on a server Leave, and by the    *)
(*     reconnect task itself;                                              *)
(*   - the API calls that hold the reconnection lock for reading.          *)
(* Sessions are numbered in the order they are created.  What happens      *)
(* inside a session is kept to what the engine can see of it: whether its  *)
(* WebSocket and its PeerConnections work, whether its SignalClient is     *)
(* still gated, and the Close events it queues for the engine.             *)
(***************************************************************************)
EXTENDS Naturals, Sequences

CONSTANTS
  MaxSessions,   \* bound on the RtcSessions the engine creates
  MaxAttempts,   \* RECONNECT_ATTEMPTS
  MaxFaults      \* bound on the failures of links, peers and attempts

ASSUME EngineAssumption ==
  /\ MaxSessions \in Nat \ {0}
  /\ MaxAttempts \in Nat \ {0}
  /\ MaxFaults \in Nat

Sessions == 1 .. MaxSessions

\* The callers of EngineInner::close: RoomSession::close, the task spawned for
\* a server Leave{Disconnect}, and the reconnect task.
Closers == {"room", "server", "task"}

\* The API calls that hold the reconnection lock for reading while they await:
\* the application's publish_data, and the calls of publish_track.
TrackCalls == {"add_track", "create_sender"}
Callers == {"publish_data"} \cup TrackCalls

VARIABLES
  session, closed, reconnecting, can_reconnect, full_reconnect,
  engine_task,   \* whether EngineHandle.engine_task is Some
  opened,        \* number of sessions created
  status,        \* of a session: absent, open, closed, or dropped without close
  link,          \* its WebSocket: none (slot empty), up, or dead but unnoticed
  gate,          \* SignalInner.reconnecting
  pc_up,         \* whether its PeerConnections are connected
  events,        \* SessionEvent::Close actions queued for its engine_task
  running,       \* sessions whose engine_task runs
  pc,            \* where the reconnect task is
  attempt,       \* its loop index i
  emitted,       \* resuming_emitted and restarting_emitted
  hand,          \* session it owns: the old one it closes or the new one, or 0
  cancel,        \* close_notifier: no, notified, or late (see Stepped)
  ack,           \* the oneshot answered by the Room
  cpc,           \* where each close() call is
  chand,         \* session each close() call took, or 0
  api,           \* session each API call uses under the read guard, or 0
  engine_rx,     \* EngineEvents on their way to the Room
  room_alive,    \* whether room_task still takes them
  told,          \* last lifecycle event sent to the Room
  faults         \* failures so far

handle == <<session, closed, reconnecting, can_reconnect, full_reconnect, engine_task>>
sess == <<opened, status, link, gate, pc_up, events, running>>
task == <<attempt, emitted, hand>>
closing == <<cpc, chand>>
room == <<engine_rx, room_alive, told>>
vars == <<handle, sess, pc, task, cancel, ack, closing, api, room, faults>>

\* Control points of the reconnect task at which it awaits and the top-level
\* select may therefore drop it.
Awaiting == {"ack_restarting", "ack_resuming", "r_close", "r_connect",
             "ack_signal_restarted", "r_wait", "ack_restarted", "resume",
             "s_connect", "ack_signal_resumed", "s_wait", "s_final",
             "ack_resumed", "backoff", "t_close"}
\* All control points inside the select on close_receiver.
InSelect == Awaiting \cup {"top", "restart", "restarted", "resumed", "terminal"}
Points == InSelect \cup {"idle", "lock", "err", "e_close", "ok"}

LifecycleEvents == {"Resuming", "Resumed", "SignalResumed", "Restarting",
                    "Restarted", "SignalRestarted", "Disconnected"}
Actions == {"Resume", "Reconnect", "Disconnect"}

Init ==
  /\ session = 1 /\ opened = 1
  /\ closed = FALSE /\ reconnecting = FALSE
  /\ can_reconnect = TRUE /\ full_reconnect = FALSE /\ engine_task = TRUE
  /\ status = [s \in Sessions |-> IF s = 1 THEN "open" ELSE "absent"]
  /\ link = [s \in Sessions |-> IF s = 1 THEN "up" ELSE "none"]
  /\ gate = [s \in Sessions |-> FALSE]
  /\ pc_up = [s \in Sessions |-> s = 1]
  /\ events = [s \in Sessions |-> <<>>]
  /\ running = {1}
  /\ pc = "idle" /\ attempt = 0 /\ emitted = {} /\ hand = 0
  /\ cancel = "no" /\ ack = FALSE
  /\ cpc = [c \in Closers |-> "idle"]
  /\ chand = [c \in Closers |-> 0]
  /\ api = [c \in Callers |-> 0] /\ engine_rx = <<>> /\ room_alive = TRUE /\ told = "Connected"
  /\ faults = 0

HandleOK ==
  /\ session \in Sessions /\ opened \in Sessions
  /\ closed \in BOOLEAN /\ reconnecting \in BOOLEAN
  /\ can_reconnect \in BOOLEAN /\ full_reconnect \in BOOLEAN
  /\ engine_task \in BOOLEAN

SessionsOK ==
  /\ status \in [Sessions -> {"absent", "open", "closed", "dropped"}]
  /\ link \in [Sessions -> {"none", "up", "dead"}]
  /\ gate \in [Sessions -> BOOLEAN]
  /\ pc_up \in [Sessions -> BOOLEAN]
  /\ events \in [Sessions -> Seq(Actions)]
  /\ running \in SUBSET Sessions

TaskOK ==
  /\ pc \in Points /\ attempt \in 0 .. MaxAttempts
  /\ emitted \in SUBSET {"Resuming", "Restarting"}
  /\ hand \in 0 .. MaxSessions
  /\ cancel \in {"no", "notified", "late"} /\ ack \in BOOLEAN

CloseOK ==
  /\ cpc \in [Closers -> {"idle", "begin", "closing", "emit", "notify", "done"}]
  /\ chand \in [Closers -> 0 .. MaxSessions]

RoomOK ==
  /\ engine_rx \in Seq(LifecycleEvents) /\ room_alive \in BOOLEAN
  /\ told \in LifecycleEvents \cup {"Connected"}
  /\ api \in [Callers -> 0 .. MaxSessions] /\ faults \in 0 .. MaxFaults

\* The type invariant.
TypeOK == HandleOK /\ SessionsOK /\ TaskOK /\ CloseOK /\ RoomOK

-----------------------------------------------------------------------------
(***************************************************************************)
(* Helpers.                                                                *)
(***************************************************************************)
\* engine_tx.send(e); without a receiver the event is dropped
Emit(e) ==
  /\ engine_rx' = IF room_alive THEN Append(engine_rx, e) ELSE engine_rx
  /\ told' = e
  /\ UNCHANGED room_alive

\* engine_tx.send(e(tx)), then `rx.await` at control point p, which returns at
\* once when tx was dropped
EmitAndAwait(e, p) ==
  /\ Emit(e)
  /\ ack' = ~room_alive
  /\ pc' = p

\* on_session_disconnected: a Close event for the engine_task of s
Report(s, action) == events' = [events EXCEPT ![s] = Append(@, action)]

\* RtcSession::close: the tasks end, the link and the peer connections close
CloseRtcSession(s) ==
  /\ status' = [status EXCEPT ![s] = "closed"]
  /\ link' = [link EXCEPT ![s] = "none"]
  /\ pc_up' = [pc_up EXCEPT ![s] = FALSE]

Fault == faults < MaxFaults /\ faults' = faults + 1

\* A step of the reconnect task.  close_receiver is polled whenever the task is
\* at an await, so once notified it takes at most the step that was ready in the
\* same poll and is dropped at the next await that is not immediately ready.
Stepped ==
  /\ (pc \in Awaiting \ {"s_final"}) => cancel # "late"
  /\ cancel' = IF cancel = "no" THEN "no" ELSE "late"

-----------------------------------------------------------------------------
(***************************************************************************)
(* engine_task: session events.                                            *)
(***************************************************************************)
\* A mutant: a new episode forgets an escalation that came too late for the last.
ReconnectionNeededForgets(full) ==
  \/ ~can_reconnect /\ UNCHANGED <<reconnecting, full_reconnect, pc>>
  \/ can_reconnect /\ reconnecting /\ full_reconnect' = TRUE /\ UNCHANGED <<reconnecting, pc>>
  \/ can_reconnect /\ ~reconnecting /\ reconnecting' = TRUE /\ full_reconnect' = full
       /\ pc' = "lock"

ReconnectionNeeded(full) ==
  \/ /\ ~can_reconnect
     /\ UNCHANGED <<reconnecting, full_reconnect, pc>>
  \/ /\ can_reconnect /\ reconnecting
     /\ full_reconnect' = TRUE
     /\ UNCHANGED <<reconnecting, pc>>
  \/ /\ can_reconnect /\ ~reconnecting
     /\ reconnecting' = TRUE
     /\ full_reconnect' = (full_reconnect \/ full)
     /\ pc' = "lock"

\* on_session_event, SessionEvent::Close with Resume or Reconnect
OnCloseReconnect(s) ==
  /\ s \in running /\ events[s] # <<>>
  /\ Head(events[s]) \in {"Resume", "Reconnect"}
  /\ events' = [events EXCEPT ![s] = Tail(@)]
  /\ ReconnectionNeeded(Head(events[s]) = "Reconnect")
  /\ UNCHANGED <<session, closed, can_reconnect, engine_task, opened, status, link,
                 gate, pc_up, running, task, cancel, ack, closing, api, room, faults>>

\* on_session_event, SessionEvent::Close with Disconnect
OnCloseDisconnect(s) ==
  /\ s \in running /\ events[s] # <<>>
  /\ Head(events[s]) = "Disconnect"
  /\ events' = [events EXCEPT ![s] = Tail(@)]
  /\ can_reconnect' = FALSE
  /\ cpc' = [cpc EXCEPT !["server"] = "begin"]
  /\ UNCHANGED <<session, closed, reconnecting, full_reconnect, engine_task, opened,
                 status, link, gate, pc_up, running, pc, task, cancel, ack, chand,
                 api, room, faults>>

-----------------------------------------------------------------------------
(***************************************************************************)
(* The reconnect task.                                                     *)
(***************************************************************************)
\* A mutant: the task does not wait for the API calls.
AcquireLockAtOnce ==
  /\ pc = "lock"
  /\ pc' = "top" /\ attempt' = 1 /\ emitted' = {}
  /\ cancel' = "no"
  /\ UNCHANGED <<handle, sess, hand, ack, closing, api, room, faults>>

\* reconnecting_lock.write(), then close_notifier.notified()
AcquireLock ==
  /\ pc = "lock" /\ \A c \in Callers : api[c] = 0
  /\ pc' = "top" /\ attempt' = 1 /\ emitted' = {}
  /\ cancel' = "no"
  /\ UNCHANGED <<handle, sess, hand, ack, closing, api, room, faults>>

\* the head of the attempt loop
LoopClosed ==
  /\ pc = "top" /\ closed
  /\ pc' = "err" /\ Stepped
  /\ UNCHANGED <<handle, sess, task, ack, closing, api, room, faults>>

\* A mutant: one flag for both announcements, so that a resume which turns into
\* a full reconnect is not announced as one.
LoopRestartOneFlag ==
  /\ pc = "top" /\ ~closed /\ full_reconnect /\ Stepped
  /\ emitted' = emitted \cup {"Restarting"}
  /\ IF emitted # {}
     THEN pc' = "restart" /\ UNCHANGED <<ack, room>>
     ELSE EmitAndAwait("Restarting", "ack_restarting")
  /\ UNCHANGED <<handle, sess, attempt, hand, closing, api, faults>>

LoopRestart ==
  /\ pc = "top" /\ ~closed /\ full_reconnect /\ Stepped
  /\ emitted' = emitted \cup {"Restarting"}
  /\ IF "Restarting" \in emitted
     THEN pc' = "restart" /\ UNCHANGED <<ack, room>>
     ELSE EmitAndAwait("Restarting", "ack_restarting")
  /\ UNCHANGED <<handle, sess, attempt, hand, closing, api, faults>>

LoopResume ==
  /\ pc = "top" /\ ~closed /\ ~full_reconnect /\ Stepped
  /\ emitted' = emitted \cup {"Resuming"}
  /\ IF "Resuming" \in emitted
     THEN pc' = "resume" /\ UNCHANGED <<ack, room>>
     ELSE EmitAndAwait("Resuming", "ack_resuming")
  /\ UNCHANGED <<handle, sess, attempt, hand, closing, api, faults>>

\* where the task goes on once the Room has answered
AfterAck == [ack_restarting |-> "restart", ack_resuming |-> "resume",
             ack_signal_restarted |-> "r_wait", ack_signal_resumed |-> "s_wait",
             ack_restarted |-> "ok", ack_resumed |-> "ok"]

Acknowledged ==
  /\ pc \in DOMAIN AfterAck /\ ack /\ Stepped
  /\ pc' = AfterAck[pc]
  /\ UNCHANGED <<handle, sess, task, ack, closing, api, room, faults>>

\* A mutant: full_reconnect is cleared when the restart begins.
RestartTakesClears ==
  /\ pc = "restart" /\ Stepped
  /\ engine_task' = FALSE /\ full_reconnect' = FALSE
  /\ hand' = IF engine_task THEN session ELSE 0
  /\ pc' = IF engine_task THEN "r_close" ELSE "r_connect"
  /\ UNCHANGED <<session, closed, reconnecting, can_reconnect, sess, attempt, emitted, ack,
                 closing, api, room, faults>>

\* try_restart_connection: engine_task.take()
RestartTakes ==
  /\ pc = "restart" /\ Stepped
  /\ engine_task' = FALSE
  /\ hand' = IF engine_task THEN session ELSE 0
  /\ pc' = IF engine_task THEN "r_close" ELSE "r_connect"
  /\ UNCHANGED <<session, closed, reconnecting, can_reconnect, full_reconnect, sess,
                 attempt, emitted, ack, closing, api, room, faults>>

\* session.close(..).await, close_tx.send(()), engine_task.await
RestartClosesOld ==
  /\ pc = "r_close" /\ Stepped
  /\ CloseRtcSession(hand)
  /\ running' = running \ {hand}
  /\ hand' = 0
  /\ pc' = "r_connect"
  /\ UNCHANGED <<handle, opened, gate, events, attempt, emitted, ack, closing, api,
                 room, faults>>

\* RtcSession::connect succeeds; SignalRestarted is sent
RestartConnects ==
  /\ pc = "r_connect" /\ opened < MaxSessions /\ Stepped
  /\ opened' = opened + 1
  /\ hand' = opened + 1
  /\ status' = [status EXCEPT ![opened + 1] = "open"]
  /\ link' = [link EXCEPT ![opened + 1] = "up"]
  /\ EmitAndAwait("SignalRestarted", "ack_signal_restarted")
  /\ UNCHANGED <<handle, gate, pc_up, events, running, attempt, emitted, closing, api,
                 faults>>

\* RtcSession::connect fails; past MaxSessions it always does
RestartConnectFails ==
  /\ pc = "r_connect" /\ Stepped
  /\ Fault \/ (opened = MaxSessions /\ UNCHANGED faults)
  /\ pc' = "backoff"
  /\ UNCHANGED <<handle, sess, task, ack, closing, api, room>>

\* ... with 401 or 403
RestartRejected ==
  /\ pc = "r_connect" /\ Stepped /\ Fault
  /\ pc' = "terminal"
  /\ UNCHANGED <<handle, sess, task, ack, closing, api, room>>

\* wait_pc_connection times out and the new session is dropped
RestartWaitFails ==
  /\ pc = "r_wait" /\ Stepped /\ Fault
  /\ status' = [status EXCEPT ![hand] = "dropped"]
  /\ hand' = 0
  /\ pc' = "backoff"
  /\ UNCHANGED <<handle, opened, link, gate, pc_up, events, running, attempt, emitted,
                 ack, closing, api, room>>

\* wait_pc_connection succeeds and the new session replaces the old one
RestartInstalls ==
  /\ pc = "r_wait" /\ Stepped
  /\ pc_up' = [pc_up EXCEPT ![hand] = TRUE]
  /\ session' = hand
  /\ full_reconnect' = FALSE
  /\ engine_task' = TRUE
  /\ running' = running \cup {hand}
  /\ hand' = 0
  /\ pc' = "restarted"
  /\ UNCHANGED <<closed, reconnecting, can_reconnect, opened, status, link, gate, events,
                 attempt, emitted, ack, closing, api, room, faults>>

RestartDone ==
  /\ pc = "restarted" /\ Stepped
  /\ EmitAndAwait("Restarted", "ack_restarted")
  /\ UNCHANGED <<handle, sess, task, closing, api, faults>>

\* try_resume_connection, session.restart(): SignalInner::restart closes the
\* link; when it was still open the SignalClient reports its own close.
ResumeClosesLink ==
  /\ pc = "resume" /\ Stepped
  /\ gate' = [gate EXCEPT ![session] = TRUE]
  /\ link' = [link EXCEPT ![session] = "none"]
  /\ \/ /\ link[session] # "none" /\ status[session] = "open"
        /\ Report(session, "Resume")
     \/ /\ link[session] = "none" \/ status[session] # "open"
        /\ UNCHANGED events
  /\ pc' = "s_connect"
  /\ UNCHANGED <<handle, opened, status, pc_up, running, task, ack, closing, api, room,
                 faults>>

\* ... which then reconnects it and receives the ReconnectResponse
ResumeConnects ==
  /\ pc = "s_connect" /\ Stepped
  /\ link' = [link EXCEPT ![session] = "up"]
  /\ EmitAndAwait("SignalResumed", "ack_signal_resumed")
  /\ UNCHANGED <<handle, opened, status, gate, pc_up, events, running, task, closing,
                 api, faults>>

\* ... or fails, which lifts the gate
ResumeConnectFails ==
  /\ pc = "s_connect" /\ Stepped /\ Fault
  /\ gate' = [gate EXCEPT ![session] = FALSE]
  /\ full_reconnect' = TRUE
  /\ pc' = "backoff"
  /\ UNCHANGED <<session, closed, reconnecting, can_reconnect, engine_task, opened, status,
                 link, pc_up, events, running, task, ack, closing, api, room>>

\* ... or is answered with Leave{Disconnect}
ResumeRejected ==
  /\ pc = "s_connect" /\ Stepped /\ Fault
  /\ gate' = [gate EXCEPT ![session] = FALSE]
  /\ pc' = "terminal"
  /\ UNCHANGED <<handle, opened, status, link, pc_up, events, running, task, ack, closing,
                 api, room>>

\* restart_publisher and wait_pc_reconnected
ResumeWaits ==
  /\ pc = "s_wait" /\ Stepped /\ status[session] = "open"
  /\ pc_up' = [pc_up EXCEPT ![session] = TRUE]
  /\ pc' = "s_final"
  /\ UNCHANGED <<handle, opened, status, link, gate, events, running, task, ack, closing,
                 api, room, faults>>

\* ... fails by timeout, or because the session was closed meanwhile
ResumeWaitFails ==
  /\ pc = "s_wait" /\ Stepped
  /\ Fault \/ (status[session] # "open" /\ UNCHANGED faults)
  /\ full_reconnect' = TRUE
  /\ pc' = "backoff"
  /\ UNCHANGED <<session, closed, reconnecting, can_reconnect, engine_task, sess, task,
                 ack, closing, api, room>>

\* resume_finalize: is_connected() only sees that the stream slot is filled
ResumeFinalize ==
  /\ pc = "s_final" /\ Stepped
  /\ link[session] # "none"
  /\ gate' = [gate EXCEPT ![session] = FALSE]
  /\ pc' = "resumed"
  /\ UNCHANGED <<handle, opened, status, link, pc_up, events, running, task, ack, closing,
                 api, room, faults>>

ResumeSevered ==
  /\ pc = "s_final" /\ Stepped
  /\ link[session] = "none"
  /\ full_reconnect' = TRUE
  /\ pc' = "backoff"
  /\ UNCHANGED <<session, closed, reconnecting, can_reconnect, engine_task, sess, task,
                 ack, closing, api, room, faults>>

ResumeDone ==
  /\ pc = "resumed" /\ Stepped
  /\ EmitAndAwait("Resumed", "ack_resumed")
  /\ UNCHANGED <<handle, sess, task, closing, api, faults>>

\* the wait between two attempts, and the end of the loop
Backoff ==
  /\ pc = "backoff" /\ Stepped
  /\ \/ /\ attempt < MaxAttempts
        /\ attempt' = attempt + 1 /\ pc' = "top"
     \/ /\ attempt = MaxAttempts
        /\ pc' = "err" /\ UNCHANGED attempt
  /\ UNCHANGED <<handle, sess, emitted, hand, ack, closing, api, room, faults>>

\* the server ended the session: can_reconnect = false, then close()
Terminal ==
  /\ pc = "terminal" /\ Stepped
  /\ can_reconnect' = FALSE
  /\ cpc' = [cpc EXCEPT !["task"] = "begin"]
  /\ pc' = "t_close"
  /\ UNCHANGED <<session, closed, reconnecting, full_reconnect, engine_task, sess, task,
                 ack, chand, api, room, faults>>

TerminalClosed ==
  /\ pc = "t_close" /\ cpc["task"] = "done"
  /\ cancel' = "late"
  /\ pc' = "err"
  /\ UNCHANGED <<handle, sess, task, ack, closing, api, room, faults>>

\* A mutant: a reconnection that failed ends like one that succeeded.
FailedStaysOpen ==
  /\ pc = "err"
  /\ pc' = "ok"
  /\ UNCHANGED <<handle, sess, task, cancel, ack, closing, api, room, faults>>

\* the select's handler of Err: close unless already closed
Failed ==
  /\ pc = "err"
  /\ \/ /\ closed
        /\ pc' = "ok" /\ UNCHANGED cpc
     \/ /\ ~closed
        /\ cpc' = [cpc EXCEPT !["task"] = "begin"]
        /\ pc' = "e_close"
  /\ UNCHANGED <<handle, sess, task, cancel, ack, chand, api, room, faults>>

FailedClosed ==
  /\ pc = "e_close" /\ cpc["task"] = "done"
  /\ pc' = "ok"
  /\ UNCHANGED <<handle, sess, task, cancel, ack, closing, api, room, faults>>

\* reconnecting = false; the write guard is dropped
Finish ==
  /\ pc = "ok"
  /\ reconnecting' = FALSE
  /\ pc' = "idle"
  /\ UNCHANGED <<session, closed, can_reconnect, full_reconnect, engine_task, sess, task,
                 cancel, ack, closing, api, room, faults>>

\* A mutant: only the branch of reconnect_task() resets reconnecting.
CancelledKeepsFlag ==
  /\ cancel # "no" /\ pc \in Awaiting
  /\ pc = "t_close" => cpc["task"] = "closing"
  /\ LET dropped == {hand} \cup (IF pc = "t_close" THEN {chand["task"]} ELSE {})
     IN  /\ status' = [s \in Sessions |-> IF s \in dropped THEN "dropped" ELSE status[s]]
         /\ running' = running \ dropped
  /\ hand' = 0
  /\ cpc' = IF pc = "t_close" THEN [cpc EXCEPT !["task"] = "done"] ELSE cpc
  /\ pc' = "idle"
  /\ UNCHANGED <<session, closed, reconnecting, can_reconnect, full_reconnect, engine_task,
                 opened, link, gate, pc_up, events, attempt, emitted, cancel, ack, chand, api,
                 room, faults>>

\* the select takes close_receiver: reconnect_task() is dropped where it awaits,
\* with the session it owns and with its own call of close()
Cancelled ==
  /\ cancel # "no" /\ pc \in Awaiting
  /\ pc = "t_close" => cpc["task"] = "closing"
  /\ LET dropped == {hand} \cup (IF pc = "t_close" THEN {chand["task"]} ELSE {})
     IN  /\ status' = [s \in Sessions |-> IF s \in dropped THEN "dropped" ELSE status[s]]
         /\ running' = running \ dropped
  /\ hand' = 0
  /\ cpc' = IF pc = "t_close" THEN [cpc EXCEPT !["task"] = "done"] ELSE cpc
  /\ reconnecting' = FALSE
  /\ pc' = "idle"
  /\ UNCHANGED <<session, closed, can_reconnect, full_reconnect, engine_task, opened, link,
                 gate, pc_up, events, attempt, emitted, cancel, ack, chand, api, room,
                 faults>>

-----------------------------------------------------------------------------
(***************************************************************************)
(* close().                                                                *)
(***************************************************************************)
\* A mutant: Disconnected is only sent by the caller that found engine_task.
CloseBeginsSilent(c) ==
  /\ cpc[c] = "begin"
  /\ closed' = TRUE
  /\ engine_task' = FALSE
  /\ chand' = [chand EXCEPT ![c] = IF engine_task THEN session ELSE 0]
  /\ cpc' = [cpc EXCEPT ![c] = IF engine_task THEN "closing" ELSE "notify"]
  /\ UNCHANGED <<session, reconnecting, can_reconnect, full_reconnect, sess, pc, task,
                 cancel, ack, api, room, faults>>

CloseBegins(c) ==
  /\ cpc[c] = "begin"
  /\ closed' = TRUE
  /\ engine_task' = FALSE
  /\ chand' = [chand EXCEPT ![c] = IF engine_task THEN session ELSE 0]
  /\ cpc' = [cpc EXCEPT ![c] = IF engine_task THEN "closing" ELSE "emit"]
  /\ UNCHANGED <<session, reconnecting, can_reconnect, full_reconnect, sess, pc, task,
                 cancel, ack, api, room, faults>>

CloseClosesSession(c) ==
  /\ cpc[c] = "closing"
  /\ CloseRtcSession(chand[c])
  /\ running' = running \ {chand[c]}
  /\ cpc' = [cpc EXCEPT ![c] = "emit"]
  /\ UNCHANGED <<handle, opened, gate, events, pc, task, cancel, ack, chand, api, room,
                 faults>>

CloseEmits(c) ==
  /\ cpc[c] = "emit"
  /\ Emit("Disconnected")
  /\ cpc' = [cpc EXCEPT ![c] = "notify"]
  /\ UNCHANGED <<handle, sess, pc, task, cancel, ack, chand, api, faults>>

CloseNotifies(c) ==
  /\ cpc[c] = "notify"
  /\ cancel' = IF cancel = "no" /\ pc \in InSelect THEN "notified" ELSE cancel
  /\ cpc' = [cpc EXCEPT ![c] = "done"]
  /\ UNCHANGED <<handle, sess, pc, task, ack, chand, api, room, faults>>

-----------------------------------------------------------------------------
(***************************************************************************)
(* The Room: its task takes the engine's events and answers them; it       *)
(* closes the engine once, when the application asks for it or after a     *)
(* Disconnected it did not cause.                                          *)
(***************************************************************************)
RoomReceives(e) ==
  /\ room_alive /\ engine_rx # <<>> /\ Head(engine_rx) = e
  /\ engine_rx' = Tail(engine_rx)
  /\ ack' = (ack \/ e # "Disconnected")
  /\ cpc' = IF e = "Disconnected" /\ cpc["room"] = "idle"
            THEN [cpc EXCEPT !["room"] = "begin"] ELSE cpc
  /\ UNCHANGED <<handle, sess, pc, task, cancel, chand, api, room_alive, told, faults>>

\* RoomSession::close; unpublish_track, which it calls first for every track, takes
\* no guard (remove_track is synchronous, the renegotiation is spawned) and changes
\* nothing of this state
RoomCloses ==
  /\ cpc["room"] = "idle"
  /\ cpc' = [cpc EXCEPT !["room"] = "begin"]
  /\ UNCHANGED <<handle, sess, pc, task, cancel, ack, chand, api, room, faults>>

\* RoomSession::close stops room_task once engine.close() has returned; the
\* events not taken by then are dropped, and with them their oneshots
RoomStops ==
  /\ room_alive /\ cpc["room"] = "done"
  /\ room_alive' = FALSE
  /\ engine_rx' = <<>>
  /\ ack' = TRUE
  /\ UNCHANGED <<handle, sess, pc, task, cancel, closing, api, told, faults>>

-----------------------------------------------------------------------------
(***************************************************************************)
(* API calls take the read guard in wait_reconnection and keep it while    *)
(* they use the session.  The lock is fair: a waiting writer keeps new     *)
(* readers out.                                                            *)
(***************************************************************************)
ApiBegins(c) ==
  /\ api[c] = 0 /\ pc = "idle" /\ ~closed
  /\ api' = [api EXCEPT ![c] = session]
  /\ UNCHANGED <<handle, sess, pc, task, cancel, ack, closing, room, faults>>

\* publish_data returns once the data channel has taken the packet, for which
\* the transport must drain, or once the session's data channel task is gone;
\* add_track and create_sender return by themselves, if only by a timeout.
ApiEnds(c) ==
  /\ api[c] # 0
  /\ c = "publish_data" => pc_up[api[c]] \/ status[api[c]] # "open"
  /\ api' = [api EXCEPT ![c] = 0]
  /\ UNCHANGED <<handle, sess, pc, task, cancel, ack, closing, room, faults>>

-----------------------------------------------------------------------------
(***************************************************************************)
(* The network and the server, as an open session sees them.               *)
(***************************************************************************)
LinkDies(s) ==
  /\ status[s] = "open" /\ link[s] = "up" /\ Fault
  /\ link' = [link EXCEPT ![s] = "dead"]
  /\ UNCHANGED <<handle, opened, status, gate, pc_up, events, running, pc, task, cancel,
                 ack, closing, api, room>>

\* SignalEvent::Close reaches the session's signal_task
SignalLost(s) ==
  /\ status[s] = "open" /\ link[s] = "dead"
  /\ link' = [link EXCEPT ![s] = "none"]
  /\ Report(s, "Resume")
  /\ UNCHANGED <<handle, opened, status, gate, pc_up, running, pc, task, cancel, ack,
                 closing, api, room, faults>>

\* PeerConnectionState::Failed reaches the session's on_rtc_event
PcFails(s) ==
  /\ status[s] = "open" /\ pc_up[s] /\ Fault
  /\ pc_up' = [pc_up EXCEPT ![s] = FALSE]
  /\ Report(s, "Resume")
  /\ UNCHANGED <<handle, opened, status, link, gate, running, pc, task, cancel, ack,
                 closing, api, room>>

\* A Leave reaches the session's on_signal_event; at most one asks to disconnect
ServerLeaves(s, action) ==
  /\ status[s] = "open" /\ link[s] = "up" /\ Fault
  /\ action = "Disconnect" =>
       /\ cpc["server"] = "idle"
       /\ \A t \in Sessions : \A i \in 1 .. Len(events[t]) : events[t][i] # "Disconnect"
  /\ Report(s, action)
  /\ UNCHANGED <<handle, opened, status, link, gate, pc_up, running, pc, task, cancel,
                 ack, closing, api, room>>
-----------------------------------------------------------------------------
EngineTask(s) == OnCloseReconnect(s) \/ OnCloseDisconnect(s)

Attempt == AcquireLock \/ LoopClosed \/ LoopRestart \/ LoopResume \/ Acknowledged

Restart ==
  \/ RestartTakes \/ RestartClosesOld \/ RestartConnects \/ RestartConnectFails
  \/ RestartRejected \/ RestartWaitFails \/ RestartInstalls \/ RestartDone

Resume ==
  \/ ResumeClosesLink \/ ResumeConnects \/ ResumeConnectFails \/ ResumeRejected
  \/ ResumeWaits \/ ResumeWaitFails \/ ResumeFinalize \/ ResumeSevered \/ ResumeDone

Ending ==
  \/ Backoff \/ Terminal \/ TerminalClosed \/ Failed \/ FailedClosed \/ Finish \/ Cancelled

ReconnectTask == Attempt \/ Restart \/ Resume \/ Ending

Close(c) == CloseBegins(c) \/ CloseClosesSession(c) \/ CloseEmits(c) \/ CloseNotifies(c)

Api(c) == ApiBegins(c) \/ ApiEnds(c)

Environment(s) ==
  \/ LinkDies(s) \/ SignalLost(s) \/ PcFails(s)
  \/ \E action \in Actions : ServerLeaves(s, action)

\* Everything but the Room's handlers of lifecycle events and its republishing.
EngineNext ==
  \/ \E s \in Sessions : EngineTask(s) \/ Environment(s)
  \/ ReconnectTask
  \/ \E c \in Closers : Close(c)
  \/ RoomCloses \/ RoomStops \/ Api("publish_data")

Next ==
  \/ EngineNext
  \/ \E c \in TrackCalls : Api(c)
  \/ \E e \in LifecycleEvents : RoomReceives(e)

Spec == Init /\ [][Next]_vars

(***************************************************************************)
(* Every spawned task and every call that can go on does so; a dead link   *)
(* is noticed (ping timeout); nothing forces a failure, a call of close()  *)
(* by the application, or an API call.  publish_data goes on only when the *)
(* transport drains, so nothing forces it to return while it is down.      *)
(***************************************************************************)
EngineFairness ==
  /\ \A s \in Sessions : WF_vars(EngineTask(s)) /\ WF_vars(SignalLost(s))
  /\ WF_vars(ReconnectTask)
  /\ \A c \in Closers : WF_vars(Close(c))
  /\ WF_vars(RoomStops)
  /\ \A c \in Callers : WF_vars(ApiEnds(c))

FairSpec == Spec /\ EngineFairness /\ WF_vars(\E e \in LifecycleEvents : RoomReceives(e))

-----------------------------------------------------------------------------
(***************************************************************************)
(* Safety.                                                                 *)
(***************************************************************************)
\* An API call that got past wait_reconnection uses the latest session for as
\* long as it holds the read guard: no reconnection replaces the session under
\* it ("it ensures we're always using the latest session", mod.rs:787).
ApiUsesLatest == \A c \in Callers : api[c] # 0 => api[c] = session

\* When no reconnection is running and the engine is open, the installed session
\* is open and an engine_task serves its events: every failed try_restart_connection,
\* which takes engine_task away, ends in a new session or in close().
InstalledServed ==
  ~closed /\ ~reconnecting =>
    engine_task /\ session \in running /\ status[session] = "open"

\* The SignalClient of an open engine is never left gated, queueing mutations for
\* ever, once the reconnection is over: not by a resume that failed after
\* SignalInner::restart, nor by one that escalated.
NoStuckGate == ~closed /\ ~reconnecting => ~gate[session]

\* A session that a restart attempt has begun to tear down is never resumed:
\* try_resume_connection only runs while engine_task is in place, unless close()
\* took it.
ResumesServedSession ==
  pc \in {"ack_resuming", "resume", "s_connect", "ack_signal_resumed", "s_wait", "s_final",
          "resumed", "ack_resumed"}
    => closed \/ (engine_task /\ status[session] = "open")

\* A full reconnect once required is carried out: full_reconnect only falls when
\* a new session is installed, across attempts, episodes and late failures
\* ("It's cleared only once a full reconnect installs a fresh session", mod.rs:829).
EscalationSticks == [][full_reconnect /\ ~full_reconnect' => session' # session]_vars

L == INSTANCE Lifecycle WITH
  phase <- IF closed THEN "closed" ELSE IF reconnecting THEN "reconnecting" ELSE "connected",
  full  <- ~closed /\ full_reconnect,
  fresh <- ~closed /\ pc = "restarted",
  told  <- IF closed THEN "Disconnected" ELSE told

\* The engine keeps the promise of Lifecycle until it is closed: the Room hears
\* of every recovery before it ends, in an order that names the mode it is in.
ImplementsLifecycle == L!Spec

-----------------------------------------------------------------------------
(***************************************************************************)
(* The inductive invariant behind these.                                   *)
(***************************************************************************)
\* The reconnection lock: an API call that holds it for reading keeps the
\* reconnect task waiting, and uses the session the task has not touched.
LockInv ==
  /\ reconnecting <=> pc # "idle"
  /\ \A c \in Callers : api[c] # 0 => pc \in {"idle", "lock"} /\ api[c] = session

\* Who owns a session: the engine (engine_task is in place), the reconnect task
\* or one close() call; a new session belongs to the task until it is installed.
OwnInv ==
  /\ session <= opened /\ hand <= opened
  /\ \A c \in Closers : chand[c] <= opened
  /\ \A s \in Sessions : s > opened => ~gate[s]
  /\ hand # 0 <=> pc \in {"r_close", "ack_signal_restarted", "r_wait"}
  /\ pc \in {"ack_signal_restarted", "r_wait"} =>
       /\ status[hand] = "open" /\ hand # session /\ ~gate[hand]
       /\ \A c \in Closers : chand[c] # hand
  /\ engine_task =>
       /\ session \in running /\ status[session] = "open" /\ hand # session
       /\ \A c \in Closers : chand[c] # session

\* Whatever close() has done, closed was set first.
CloseInv ==
  /\ \A c \in Closers : cpc[c] \in {"closing", "emit", "notify", "done"} => closed
  /\ \A c \in Closers : cpc[c] = "closing" => chand[c] # 0
  /\ pc \in {"t_close", "e_close"} => cpc["task"] # "idle"
  /\ cancel # "no" => closed

\* Until the engine is closed, the task leaves the session without engine_task,
\* or gated, only where a full reconnect or close() must follow.
ServedInv ==
  ~closed =>
    /\ pc \in {"idle", "lock", "ok", "ack_resuming", "resume", "s_connect",
               "ack_signal_resumed", "s_wait", "s_final", "resumed", "ack_resumed",
               "restarted", "ack_restarted"}
         => engine_task
    /\ pc \in {"idle", "lock", "ok", "ack_resuming", "resume", "resumed", "ack_resumed",
               "restarted", "ack_restarted"}
         => ~gate[session]
    /\ pc \in {"top", "backoff"} => full_reconnect \/ (engine_task /\ ~gate[session])

\* Until the engine is closed, what the Room was last told says where the task is.
ToldInv ==
  ~closed =>
    /\ pc \in {"idle", "lock", "ok", "ack_resumed", "ack_restarted"} => told \in L!Settled
    /\ pc \in {"ack_resuming", "resume", "s_connect"} =>
         told = "Resuming" /\ "Restarting" \notin emitted
    /\ pc \in {"ack_signal_resumed", "s_wait", "s_final", "resumed"} =>
         told = "SignalResumed" /\ "Restarting" \notin emitted
    /\ pc = "ack_restarting" => told = "Restarting"
    /\ pc \in {"ack_restarting", "restart", "r_close", "r_connect"} =>
         told \in {"Restarting", "SignalRestarted"}
    /\ pc \in {"ack_signal_restarted", "r_wait", "restarted"} => told = "SignalRestarted"
    /\ pc \in {"ack_restarting", "restart", "r_close", "r_connect", "ack_signal_restarted",
               "r_wait"}
         => full_reconnect /\ "Restarting" \in emitted
    /\ pc \in {"top", "backoff"} =>
         \/ pc = "top" /\ emitted = {} /\ told \in L!Settled
         \/ full_reconnect /\ "Restarting" \notin emitted
              /\ told \in {"Resuming", "SignalResumed"}
         \/ full_reconnect /\ "Restarting" \in emitted
              /\ told \in {"Restarting", "SignalRestarted"}

\* All of it, as TLC checks it and the proofs use it.
IInv == TypeOK /\ LockInv /\ OwnInv /\ CloseInv /\ ServedInv /\ ToldInv

-----------------------------------------------------------------------------
(***************************************************************************)
(* Liveness.                                                               *)
(***************************************************************************)
\* The reconnect task waits for a publish_data that waits for the transport the
\* task is to bring back.
Held ==
  LET s == api["publish_data"]
  IN  pc = "lock" /\ s # 0 /\ status[s] = "open" /\ ~pc_up[s]

\* A reconnection ends, by recovery, exhaustion or close(), unless a publish_data
\* caught by the failure holds the lock for ever.
ReconnectionEnds == (<>[]Held) \/ (reconnecting ~> ~reconnecting)

\* reconnect_task gets to run for every loss the engine acts on ("Runned every time
\* the PeerConnection or the SignalClient is closed", mod.rs:902): the spawned task
\* gets past the reconnection lock.
ReconnectTaskRuns == pc = "lock" ~> pc # "lock"

\* Once the server has ended the session for good the engine gets closed, also
\* when a reconnection is in flight.
RevokedIsClosed == ~can_reconnect ~> closed

\* Whoever calls close(), and whoever took engine_task before it, the Room is
\* sent Disconnected ("Always emit Disconnected", mod.rs:772).
ClosedIsTold == \A c \in Closers : cpc[c] = "begin" ~> told = "Disconnected"

\* An open engine whose signalling link is gone gets it back or is closed, unless
\* a publish_data holds the lock for ever.
LostLinkRecovers ==
  (<>[]Held) \/ ((~closed /\ link[session] = "none") ~> (closed \/ link[session] = "up"))

-----------------------------------------------------------------------------
(***************************************************************************)
(* What a comment of the code says of close().                             *)
(***************************************************************************)
\* Once every close() has returned and no reconnect task is left, no session
\* still holds a connection.
TeardownComplete ==
  closed /\ pc = "idle" /\ (\A c \in Closers : cpc[c] \in {"idle", "done"})
    => \A s \in Sessions : status[s] \in {"absent", "closed"} /\ link[s] = "none"
=============================================================================
