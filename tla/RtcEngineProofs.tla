-------------------------- MODULE RtcEngineProofs --------------------------
(***************************************************************************)
(* For any number of sessions, attempts and failures, IInv is an inductive *)
(* invariant of RtcEngine, and with it the safety properties and the       *)
(* refinement of Lifecycle that TLC checks on small instances.  One lemma  *)
(* per conjunct of IInv shows that every step preserves it, with one step  *)
(* per group of actions, split further where the group is too much for one *)
(* leaf.                                                                   *)
(***************************************************************************)
EXTENDS Room, TLAPS

-----------------------------------------------------------------------------
(***************************************************************************)
(* Sequences, and the helpers that change them.                            *)
(***************************************************************************)
\* What the operations on the event queues return.
LEMMA QueueTypes ==
  ASSUME NEW S, NEW q \in Seq(S)
  PROVE  /\ <<>> \in Seq(S)
         /\ \A e \in S : Append(q, e) \in Seq(S)
         /\ q # <<>> => Head(q) \in S /\ Tail(q) \in Seq(S)
  OBVIOUS

\* on_session_disconnected keeps the session event queues well typed.
LEMMA ReportType ==
  ASSUME SessionsOK, NEW s \in Sessions, NEW a \in Actions, Report(s, a)
  PROVE  events' \in [Sessions -> Seq(Actions)]
  BY Zenon, QueueTypes DEF SessionsOK, Report

\* Sending a lifecycle event keeps the Room's queue well typed.
LEMMA EmitType ==
  ASSUME RoomOK, NEW e \in LifecycleEvents, Emit(e)
  PROVE  /\ engine_rx' \in Seq(LifecycleEvents) /\ room_alive' \in BOOLEAN
         /\ told' \in LifecycleEvents
  BY Zenon, QueueTypes DEF RoomOK, Emit

\* Changing one value of a function keeps its type.
LEMMA FunctionType ==
  ASSUME NEW S, NEW T, NEW f \in [S -> T], NEW x \in S, NEW y \in T
  PROVE  [f EXCEPT ![x] = y] \in [S -> T]
  OBVIOUS

\* The lifecycle events and the control points by name.
LEMMA Names ==
  /\ {"Resuming", "Resumed", "SignalResumed", "Restarting", "Restarted",
      "SignalRestarted", "Disconnected"} \subseteq LifecycleEvents
  /\ {"ack_restarting", "ack_resuming", "r_close", "r_connect", "ack_signal_restarted",
      "r_wait", "ack_restarted", "resume", "s_connect", "ack_signal_resumed", "s_wait",
      "s_final", "ack_resumed", "backoff", "t_close", "top", "restart", "restarted",
      "resumed", "terminal", "idle", "lock", "err", "e_close", "ok"} \subseteq Points
  BY ZenonT(40) DEF LifecycleEvents, Points, InSelect, Awaiting

\* The API calls by name.
LEMMA CallersNamed == "publish_data" \in Callers /\ TrackCalls \subseteq Callers
  BY Zenon DEF Callers

\* An API call changes nothing but who holds the lock.
LEMMA ApiChanges ==
  ASSUME NEW c \in Callers, Api(c)
  PROVE  UNCHANGED <<handle, sess, pc, task, cancel, ack, closing, room, faults>>
  BY Zenon DEF Api, ApiBegins, ApiEnds

\* The session the reconnect task owns is one of the sessions.
LEMMA HandIsSession ==
  ASSUME IInv PROVE pc \in {"r_close", "ack_signal_restarted", "r_wait"} => hand \in Sessions
  BY EngineAssumption DEF IInv, OwnInv, TypeOK, TaskOK, Sessions

-----------------------------------------------------------------------------
(***************************************************************************)
(* The type invariant.                                                     *)
(***************************************************************************)
\* Where an acknowledged task goes on.
LEMMA AckPoints ==
  ASSUME Acknowledged
  PROVE  \/ pc = "ack_restarting" /\ pc' = "restart"
         \/ pc = "ack_resuming" /\ pc' = "resume"
         \/ pc = "ack_signal_restarted" /\ pc' = "r_wait"
         \/ pc = "ack_signal_resumed" /\ pc' = "s_wait"
         \/ pc \in {"ack_restarted", "ack_resumed"} /\ pc' = "ok"
  BY DEF Acknowledged, AfterAck

\* EngineHandle stays well typed.
LEMMA HandleOKStep == ASSUME IInv, [Next]_vars PROVE HandleOK'
  <1> USE EngineAssumption DEF IInv, TypeOK, HandleOK, Sessions
  <1>1. ASSUME NEW s \in Sessions, EngineTask(s) PROVE HandleOK'
    BY Zenon, <1>1 DEF EngineTask, OnCloseReconnect, OnCloseDisconnect, ReconnectionNeeded, TaskOK,
        OwnInv
  <1>2. CASE Attempt
    BY ZenonT(40), <1>2 DEF Attempt, AcquireLock, LoopClosed, LoopRestart, LoopResume,
        Acknowledged, handle,
        sess
  <1>3. CASE Restart
    <2>1. CASE RestartInstalls
      BY Zenon, <2>1, HandIsSession DEF RestartInstalls
    <2>2. CASE RestartConnects
      BY <2>2 DEF RestartConnects, handle
    <2>3. CASE RestartTakes
      BY Zenon, <2>3 DEF RestartTakes, sess
    <2>4. CASE UNCHANGED <<handle, opened>>
      BY Zenon, <2>4 DEF handle
    <2> QED
      BY Zenon, <1>3, <2>1, <2>2, <2>3, <2>4
      DEF Restart, RestartClosesOld, RestartConnectFails, RestartRejected, RestartWaitFails,
          RestartDone, sess
  <1>4. CASE Resume
    BY ZenonT(40), <1>4 DEF Resume, ResumeClosesLink, ResumeConnects, ResumeConnectFails,
        ResumeRejected,
        ResumeWaits, ResumeWaitFails, ResumeFinalize, ResumeSevered, ResumeDone, handle,
        sess, TaskOK, OwnInv
  <1>5. CASE Ending
    BY Zenon, <1>5 DEF Ending, Backoff, Terminal, TerminalClosed, Failed, FailedClosed, Finish,
        Cancelled, handle, sess, TaskOK, OwnInv
  <1>6. ASSUME NEW c \in Closers, Close(c) PROVE HandleOK'
    BY ZenonT(40), <1>6 DEF Close, CloseBegins, CloseClosesSession, CloseEmits, CloseNotifies,
        sess, handle,
        TaskOK, OwnInv
  <1>7. CASE RoomCloses \/ RoomStops
    BY Zenon, <1>7 DEF RoomCloses, RoomStops, handle, sess
  <1>8. ASSUME NEW e \in LifecycleEvents, RoomReceives(e) PROVE HandleOK'
    BY Zenon, <1>8 DEF RoomReceives, handle, sess
  <1>9. CASE \E c \in Callers : Api(c)
    BY Zenon, <1>9 DEF Api, ApiBegins, ApiEnds, handle, sess
  <1>10. ASSUME NEW s \in Sessions, Environment(s) PROVE HandleOK'
    BY ZenonT(40), <1>10 DEF Environment, LinkDies, SignalLost, PcFails, ServerLeaves, handle
  <1>11. CASE UNCHANGED vars
    BY Zenon, <1>11 DEF vars, handle, sess, task, closing, room
  <1> QED
    BY Zenon, <1>1, <1>2, <1>3, <1>4, <1>5, <1>6, <1>7, <1>8, <1>9, <1>10, <1>11,
       CallersNamed
    DEF Next, EngineNext, ReconnectTask

\* What the engine sees of its sessions stays well typed.
LEMMA SessionsOKStep == ASSUME IInv, [Next]_vars PROVE SessionsOK'
  <1> USE EngineAssumption DEF IInv, TypeOK, SessionsOK
  <1>1. ASSUME NEW s \in Sessions, EngineTask(s) PROVE SessionsOK'
    <2>1. CASE OnCloseReconnect(s)
      BY Zenon, <2>1, <1>1, QueueTypes DEF OnCloseReconnect
    <2>2. CASE OnCloseDisconnect(s)
      BY Zenon, <2>2, <1>1, QueueTypes DEF OnCloseDisconnect
    <2> QED
      BY Zenon, <1>1, <2>1, <2>2 DEF EngineTask
  <1>2. CASE Attempt
    BY Zenon, <1>2 DEF Attempt, AcquireLock, LoopClosed, LoopRestart, LoopResume, Acknowledged,
        handle,
        sess
  <1>3. CASE Restart
    <2>1. CASE RestartTakes
      BY Zenon, <2>1 DEF RestartTakes, sess
    <2>2. CASE RestartClosesOld
      BY Zenon, <2>2, HandIsSession DEF RestartClosesOld, CloseRtcSession, HandleOK, TaskOK, CloseOK,
          OwnInv, CloseInv
    <2>3. CASE RestartConnects
      BY Zenon, <2>3 DEF RestartConnects, HandleOK, Sessions
    <2>4. CASE RestartConnectFails
      BY Zenon, <2>4 DEF RestartConnectFails, sess
    <2>5. CASE RestartRejected
      BY Zenon, <2>5 DEF RestartRejected, sess
    <2>6. CASE RestartWaitFails
      BY Zenon, <2>6, HandIsSession DEF RestartWaitFails, HandleOK, TaskOK, CloseOK, OwnInv, CloseInv
    <2>7. CASE RestartInstalls
      BY Zenon, <2>7, HandIsSession DEF RestartInstalls, HandleOK, TaskOK, CloseOK, OwnInv, CloseInv
    <2>8. CASE RestartDone
      BY Zenon, <2>8 DEF RestartDone, sess
    <2> QED
      BY Zenon, <1>3, <2>1, <2>2, <2>3, <2>4, <2>5, <2>6, <2>7, <2>8 DEF Restart
  <1>4. CASE Resume
    <2>1. CASE ResumeClosesLink
      <3>1. "Resume" \in Actions
        BY Zenon DEF Actions
      <3>2. events' \in [Sessions -> Seq(Actions)]
        BY Zenon, <2>1, <3>1, ReportType DEF ResumeClosesLink, HandleOK
      <3> QED
        BY Zenon, <2>1, <3>2 DEF ResumeClosesLink, HandleOK
    <2>2. CASE ResumeConnects
      BY Zenon, <2>2 DEF ResumeConnects, HandleOK, TaskOK, CloseOK, OwnInv, CloseInv
    <2>3. CASE ResumeConnectFails
      BY Zenon, <2>3 DEF ResumeConnectFails, HandleOK, TaskOK, CloseOK, OwnInv, CloseInv
    <2>4. CASE ResumeRejected
      BY Zenon, <2>4 DEF ResumeRejected, HandleOK, TaskOK, CloseOK, OwnInv, CloseInv
    <2>5. CASE ResumeWaits
      BY Zenon, <2>5 DEF ResumeWaits, HandleOK, TaskOK, CloseOK, OwnInv, CloseInv
    <2>6. CASE ResumeWaitFails
      BY Zenon, <2>6 DEF ResumeWaitFails, sess
    <2>7. CASE ResumeFinalize
      BY Zenon, <2>7 DEF ResumeFinalize, HandleOK, TaskOK, CloseOK, OwnInv, CloseInv
    <2>8. CASE ResumeSevered
      BY Zenon, <2>8 DEF ResumeSevered, sess
    <2>9. CASE ResumeDone
      BY Zenon, <2>9 DEF ResumeDone, sess
    <2> QED
      BY Zenon, <1>4, <2>1, <2>2, <2>3, <2>4, <2>5, <2>6, <2>7, <2>8, <2>9 DEF Resume
  <1>5. CASE Ending
    <2>1. CASE Backoff
      BY Zenon, <2>1 DEF Backoff, sess
    <2>2. CASE Terminal
      BY Zenon, <2>2 DEF Terminal, sess
    <2>3. CASE TerminalClosed
      BY Zenon, <2>3 DEF TerminalClosed, sess
    <2>4. CASE Failed
      BY Zenon, <2>4 DEF Failed, sess
    <2>5. CASE FailedClosed
      BY Zenon, <2>5 DEF FailedClosed, sess
    <2>6. CASE Finish
      BY Zenon, <2>6 DEF Finish, sess
    <2>7. CASE Cancelled
      BY Zenon, <2>7 DEF Cancelled, HandleOK, TaskOK, CloseOK, OwnInv, CloseInv
    <2> QED
      BY Zenon, <1>5, <2>1, <2>2, <2>3, <2>4, <2>5, <2>6, <2>7 DEF Ending
  <1>6. ASSUME NEW c \in Closers, Close(c) PROVE SessionsOK'
    <2>1. CASE CloseBegins(c)
      BY Zenon, <2>1, <1>6 DEF CloseBegins, sess, HandleOK, TaskOK, CloseOK, OwnInv, CloseInv
    <2>2. CASE CloseClosesSession(c)
      BY Zenon, <2>2, <1>6 DEF CloseClosesSession, CloseRtcSession
    <2>3. CASE CloseEmits(c)
      BY Zenon, <2>3, <1>6 DEF CloseEmits, sess
    <2>4. CASE CloseNotifies(c)
      BY Zenon, <2>4, <1>6 DEF CloseNotifies, sess
    <2> QED
      BY Zenon, <1>6, <2>1, <2>2, <2>3, <2>4 DEF Close
  <1>7. CASE RoomCloses \/ RoomStops
    BY Zenon, <1>7 DEF RoomCloses, RoomStops, handle, sess
  <1>8. ASSUME NEW e \in LifecycleEvents, RoomReceives(e) PROVE SessionsOK'
    BY Zenon, <1>8 DEF RoomReceives, handle, sess
  <1>9. CASE \E c \in Callers : Api(c)
    BY Zenon, <1>9 DEF Api, ApiBegins, ApiEnds, handle, sess
  <1>10. ASSUME NEW s \in Sessions, Environment(s) PROVE SessionsOK'
    <2>1. CASE LinkDies(s)
      BY Zenon, <2>1, <1>10 DEF LinkDies, HandleOK, TaskOK, CloseOK, OwnInv, CloseInv
    <2>2. CASE SignalLost(s)
      <3>1. "Resume" \in Actions
        BY Zenon DEF Actions
      <3> QED
        BY Zenon, <2>2, <3>1, ReportType DEF SignalLost
    <2>3. CASE PcFails(s)
      <3>1. "Resume" \in Actions
        BY Zenon DEF Actions
      <3> QED
        BY Zenon, <2>3, <3>1, ReportType DEF PcFails
    <2>4. ASSUME NEW action \in Actions, ServerLeaves(s, action) PROVE SessionsOK'
      BY Zenon, <2>4, ReportType DEF ServerLeaves
    <2> QED
      BY Zenon, <1>10, <2>1, <2>2, <2>3, <2>4 DEF Environment
  <1>11. CASE UNCHANGED vars
    BY ZenonT(40), <1>11 DEF vars, handle, sess, task, closing, room
  <1> QED
    BY Zenon, <1>1, <1>2, <1>3, <1>4, <1>5, <1>6, <1>7, <1>8, <1>9, <1>10, <1>11,
       CallersNamed
    DEF Next, EngineNext, ReconnectTask

\* The state of the reconnect task stays well typed.
LEMMA TaskOKStep == ASSUME IInv, [Next]_vars PROVE TaskOK'
  <1> USE EngineAssumption DEF IInv, TypeOK, TaskOK
  <1>1. ASSUME NEW s \in Sessions, EngineTask(s) PROVE TaskOK'
    <2>1. CASE OnCloseReconnect(s)
      BY ZenonT(40), <2>1, <1>1 DEF OnCloseReconnect, ReconnectionNeeded, task, Points, InSelect,
          Awaiting,
          Sessions, HandleOK
    <2>2. CASE OnCloseDisconnect(s)
      BY Zenon, <2>2, <1>1 DEF OnCloseDisconnect, task
    <2> QED
      BY Zenon, <1>1, <2>1, <2>2 DEF EngineTask
  <1>2. CASE Attempt
    <2>1. CASE AcquireLock
      BY <2>1 DEF AcquireLock, Points, InSelect, Awaiting, Sessions, HandleOK
    <2>2. CASE LoopClosed
      BY Zenon, <2>2 DEF LoopClosed, Stepped, Awaiting, task, Points, InSelect, Sessions, HandleOK
    <2>3. CASE LoopRestart
      BY Zenon, <2>3 DEF LoopRestart, EmitAndAwait, Stepped, Awaiting, Points, InSelect, Sessions,
          HandleOK
    <2>4. CASE LoopResume
      BY Zenon, <2>4 DEF LoopResume, EmitAndAwait, Stepped, Awaiting, Points, InSelect, Sessions,
          HandleOK
    <2>5. CASE Acknowledged
      BY Zenon, <2>5, AckPoints DEF Stepped, Awaiting, task, Points, InSelect, Sessions, HandleOK,
          Acknowledged
    <2> QED
      BY Zenon, <1>2, <2>1, <2>2, <2>3, <2>4, <2>5 DEF Attempt
  <1>3. CASE Restart
    <2>1. CASE RestartTakes
      BY <2>1 DEF RestartTakes, Stepped, Awaiting, Points, InSelect, Sessions, HandleOK
    <2>2. CASE RestartClosesOld
      BY <2>2 DEF RestartClosesOld, CloseRtcSession, Stepped, Awaiting, Points, InSelect,
          Sessions, HandleOK
    <2>3. CASE RestartConnects
      BY <2>3 DEF RestartConnects, EmitAndAwait, Stepped, Awaiting, Points, InSelect, Sessions,
          HandleOK
    <2>4. CASE RestartConnectFails
      BY Zenon, <2>4 DEF RestartConnectFails, Stepped, Awaiting, task, Points, InSelect, Sessions,
          HandleOK
    <2>5. CASE RestartRejected
      BY Zenon, <2>5 DEF RestartRejected, Stepped, Awaiting, task, Points, InSelect, Sessions,
          HandleOK
    <2>6. CASE RestartWaitFails
      BY <2>6 DEF RestartWaitFails, Stepped, Awaiting, Points, InSelect, Sessions, HandleOK
    <2>7. CASE RestartInstalls
      BY <2>7 DEF RestartInstalls, Stepped, Awaiting, Points, InSelect, Sessions, HandleOK
    <2>8. CASE RestartDone
      BY Zenon, <2>8 DEF RestartDone, EmitAndAwait, Stepped, Awaiting, task, Points, InSelect,
          Sessions,
          HandleOK
    <2> QED
      BY Zenon, <1>3, <2>1, <2>2, <2>3, <2>4, <2>5, <2>6, <2>7, <2>8 DEF Restart
  <1>4. CASE Resume
    <2>1. CASE ResumeClosesLink
      BY Zenon, <2>1 DEF ResumeClosesLink, Stepped, Awaiting, task, Points, InSelect, Sessions,
          HandleOK
    <2>2. CASE ResumeConnects
      BY Zenon, <2>2 DEF ResumeConnects, EmitAndAwait, Stepped, Awaiting, task, Points, InSelect,
          Sessions, HandleOK
    <2>3. CASE ResumeConnectFails
      BY Zenon, <2>3 DEF ResumeConnectFails, Stepped, Awaiting, task, Points, InSelect, Sessions,
          HandleOK
    <2>4. CASE ResumeRejected
      BY Zenon, <2>4 DEF ResumeRejected, Stepped, Awaiting, task, Points, InSelect, Sessions, HandleOK
    <2>5. CASE ResumeWaits
      BY Zenon, <2>5 DEF ResumeWaits, Stepped, Awaiting, task, Points, InSelect, Sessions, HandleOK
    <2>6. CASE ResumeWaitFails
      BY Zenon, <2>6 DEF ResumeWaitFails, Stepped, Awaiting, task, Points, InSelect, Sessions,
          HandleOK
    <2>7. CASE ResumeFinalize
      BY Zenon, <2>7 DEF ResumeFinalize, Stepped, Awaiting, task, Points, InSelect, Sessions, HandleOK
    <2>8. CASE ResumeSevered
      BY Zenon, <2>8 DEF ResumeSevered, Stepped, Awaiting, task, Points, InSelect, Sessions, HandleOK
    <2>9. CASE ResumeDone
      BY Zenon, <2>9 DEF ResumeDone, EmitAndAwait, Stepped, Awaiting, task, Points, InSelect,
          Sessions,
          HandleOK
    <2> QED
      BY Zenon, <1>4, <2>1, <2>2, <2>3, <2>4, <2>5, <2>6, <2>7, <2>8, <2>9 DEF Resume
  <1>5. CASE Ending
    <2>1. CASE Backoff
      BY <2>1 DEF Backoff, Stepped, Awaiting, Points, InSelect, Sessions, HandleOK
    <2>2. CASE Terminal
      BY Zenon, <2>2 DEF Terminal, Stepped, Awaiting, task, Points, InSelect, Sessions, HandleOK
    <2>3. CASE TerminalClosed
      BY Zenon, <2>3 DEF TerminalClosed, task, Points, InSelect, Awaiting, Sessions, HandleOK
    <2>4. CASE Failed
      BY Zenon, <2>4 DEF Failed, task, Points, InSelect, Awaiting, Sessions, HandleOK
    <2>5. CASE FailedClosed
      BY Zenon, <2>5 DEF FailedClosed, task, Points, InSelect, Awaiting, Sessions, HandleOK
    <2>6. CASE Finish
      BY ZenonT(40), <2>6 DEF Finish, task, Points, InSelect, Awaiting, Sessions, HandleOK
    <2>7. CASE Cancelled
      BY <2>7 DEF Cancelled, task, Awaiting, Sessions, Points, InSelect, HandleOK
    <2> QED
      BY Zenon, <1>5, <2>1, <2>2, <2>3, <2>4, <2>5, <2>6, <2>7 DEF Ending
  <1>6. ASSUME NEW c \in Closers, Close(c) PROVE TaskOK'
    <2>1. CASE CloseBegins(c)
      BY Zenon, <2>1, <1>6 DEF CloseBegins, task
    <2>2. CASE CloseClosesSession(c)
      BY Zenon, <2>2, <1>6 DEF CloseClosesSession, task
    <2>3. CASE CloseEmits(c)
      BY Zenon, <2>3, <1>6 DEF CloseEmits, task
    <2>4. CASE CloseNotifies(c)
      BY Zenon, <2>4, <1>6 DEF CloseNotifies, task, InSelect, Awaiting, Points, Sessions, HandleOK
    <2> QED
      BY Zenon, <1>6, <2>1, <2>2, <2>3, <2>4 DEF Close
  <1>7. CASE RoomCloses \/ RoomStops
    <2>1. CASE RoomCloses
      BY Zenon, <2>1 DEF RoomCloses, task
    <2>2. CASE RoomStops
      BY ZenonT(40), <2>2 DEF RoomStops, task, Points, InSelect, Awaiting, Sessions, HandleOK
    <2> QED
      BY Zenon, <1>7, <2>1, <2>2
  <1>8. ASSUME NEW e \in LifecycleEvents, RoomReceives(e) PROVE TaskOK'
    BY Zenon, <1>8 DEF RoomReceives, task
  <1>9. CASE \E c \in Callers : Api(c)
    BY Zenon, <1>9 DEF Api, ApiBegins, ApiEnds, task
  <1>10. ASSUME NEW s \in Sessions, Environment(s) PROVE TaskOK'
    BY Zenon, <1>10 DEF Environment, LinkDies, SignalLost, PcFails, ServerLeaves, task
  <1>11. CASE UNCHANGED vars
    BY Zenon, <1>11 DEF vars, handle, sess, task, closing, room
  <1> QED
    BY Zenon, <1>1, <1>2, <1>3, <1>4, <1>5, <1>6, <1>7, <1>8, <1>9, <1>10, <1>11,
       CallersNamed
    DEF Next, EngineNext, ReconnectTask

\* The state of the close() calls stays well typed.
LEMMA CloseOKStep == ASSUME IInv, [Next]_vars PROVE CloseOK'
  <1> USE EngineAssumption DEF IInv, TypeOK, CloseOK, Sessions, Closers
  <1>1. ASSUME NEW s \in Sessions, EngineTask(s) PROVE CloseOK'
    BY ZenonT(40), <1>1 DEF EngineTask, OnCloseReconnect, OnCloseDisconnect, closing, HandleOK
  <1>2. CASE Attempt
    BY Zenon, <1>2 DEF Attempt, AcquireLock, LoopClosed, LoopRestart, LoopResume, Acknowledged,
        closing
  <1>3. CASE Restart
    BY Zenon, <1>3 DEF Restart, RestartTakes, RestartClosesOld, RestartConnects, RestartConnectFails,
        RestartRejected, RestartWaitFails, RestartInstalls, RestartDone, closing
  <1>4. CASE Resume
    BY Zenon, <1>4 DEF Resume, ResumeClosesLink, ResumeConnects, ResumeConnectFails, ResumeRejected,
        ResumeWaits, ResumeWaitFails, ResumeFinalize, ResumeSevered, ResumeDone, closing
  <1>5. CASE Ending
    <2>1. CASE Backoff \/ TerminalClosed \/ FailedClosed \/ Finish
      BY Zenon, <2>1 DEF Backoff, TerminalClosed, FailedClosed, Finish, closing
    <2>2. CASE Terminal \/ Failed \/ Cancelled
      BY ZenonT(40), <2>2 DEF Terminal, Failed, Cancelled
    <2> QED
      BY Zenon, <1>5, <2>1, <2>2 DEF Ending
  <1>6. ASSUME NEW c \in Closers, Close(c) PROVE CloseOK'
    <2>1. CASE CloseBegins(c)
      BY SMTT(30), <2>1 DEF CloseBegins, HandleOK
    <2>2. CASE CloseClosesSession(c)
      BY ZenonT(40), <2>2 DEF CloseClosesSession
    <2>3. CASE CloseEmits(c)
      BY ZenonT(40), <2>3 DEF CloseEmits
    <2>4. CASE CloseNotifies(c)
      BY ZenonT(40), <2>4 DEF CloseNotifies
    <2> QED
      BY Zenon, <1>6, <2>1, <2>2, <2>3, <2>4 DEF Close
  <1>7. CASE RoomCloses \/ RoomStops
    BY Zenon, <1>7 DEF RoomCloses, RoomStops, closing, HandleOK
  <1>8. ASSUME NEW e \in LifecycleEvents, RoomReceives(e) PROVE CloseOK'
    BY Zenon, <1>8 DEF RoomReceives, HandleOK
  <1>9. CASE \E c \in Callers : Api(c)
    BY Zenon, <1>9 DEF Api, ApiBegins, ApiEnds, closing
  <1>10. ASSUME NEW s \in Sessions, Environment(s) PROVE CloseOK'
    BY Zenon, <1>10 DEF Environment, LinkDies, SignalLost, PcFails, ServerLeaves, closing
  <1>11. CASE UNCHANGED vars
    BY Zenon, <1>11 DEF vars, handle, sess, task, closing, room
  <1> QED
    BY Zenon, <1>1, <1>2, <1>3, <1>4, <1>5, <1>6, <1>7, <1>8, <1>9, <1>10, <1>11,
       CallersNamed
    DEF Next, EngineNext, ReconnectTask

\* The events on their way to the Room, and the API call, stay well typed.
LEMMA RoomOKStep == ASSUME IInv, [Next]_vars PROVE RoomOK'
  <1> USE EngineAssumption DEF IInv, TypeOK, RoomOK, Sessions
  <1>1. ASSUME NEW s \in Sessions, EngineTask(s) PROVE RoomOK'
    BY Zenon, <1>1 DEF EngineTask, OnCloseReconnect, OnCloseDisconnect, room
  <1>2. CASE Attempt
    BY Zenon, <1>2, Names, EmitType, QueueTypes DEF Attempt, AcquireLock, LoopClosed, LoopRestart,
        LoopResume, Acknowledged, room,
        EmitAndAwait, HandleOK
  <1>3. CASE Restart
    <2>1. CASE RestartConnects \/ RestartDone
      <3>1. Emit("SignalRestarted") \/ Emit("Restarted")
        BY Zenon, <2>1 DEF RestartConnects, RestartDone, EmitAndAwait
      <3> QED
        BY Zenon, <2>1, <3>1, Names, EmitType DEF RestartConnects, RestartDone
    <2>2. CASE UNCHANGED <<room, api>> /\ (Fault \/ UNCHANGED faults)
      BY <2>2 DEF room, Fault
    <2> QED
      BY Zenon, <1>3, <2>1, <2>2
      DEF Restart, RestartTakes, RestartClosesOld, RestartConnectFails, RestartRejected,
          RestartWaitFails, RestartInstalls
  <1>4. CASE Resume
    <2>1. CASE ResumeConnects \/ ResumeDone
      <3>1. Emit("SignalResumed") \/ Emit("Resumed")
        BY Zenon, <2>1 DEF ResumeConnects, ResumeDone, EmitAndAwait
      <3> QED
        BY Zenon, <2>1, <3>1, Names, EmitType DEF ResumeConnects, ResumeDone
    <2>2. CASE UNCHANGED <<room, api>> /\ (Fault \/ UNCHANGED faults)
      BY <2>2 DEF room, Fault
    <2> QED
      BY Zenon, <1>4, <2>1, <2>2
      DEF Resume, ResumeClosesLink, ResumeConnectFails, ResumeRejected, ResumeWaits,
          ResumeWaitFails, ResumeFinalize, ResumeSevered
  <1>5. CASE Ending
    BY Zenon, <1>5 DEF Ending, Backoff, Terminal, TerminalClosed, Failed, FailedClosed, Finish,
        Cancelled, room
  <1>6. ASSUME NEW c \in Closers, Close(c) PROVE RoomOK'
    BY Zenon, <1>6, Names, EmitType, QueueTypes DEF Close, CloseBegins, CloseClosesSession,
        CloseEmits,
        CloseNotifies, room, HandleOK
  <1>7. CASE RoomCloses \/ RoomStops
    BY Zenon, <1>7, Names, EmitType, QueueTypes DEF RoomCloses, RoomStops, room, HandleOK
  <1>8. ASSUME NEW e \in LifecycleEvents, RoomReceives(e) PROVE RoomOK'
    BY Zenon, <1>8, Names, EmitType, QueueTypes DEF RoomReceives, room, HandleOK
  <1>9. CASE \E c \in Callers : Api(c)
    <2>1. api' \in [Callers -> 0 .. MaxSessions]
      <3>1. session \in 0 .. MaxSessions /\ 0 \in 0 .. MaxSessions
        BY DEF HandleOK
      <3> QED
        BY Zenon, <1>9, <3>1, FunctionType DEF Api, ApiBegins, ApiEnds
    <2> QED
      BY Zenon, <1>9, <2>1 DEF Api, ApiBegins, ApiEnds, room
  <1>10. ASSUME NEW s \in Sessions, Environment(s) PROVE RoomOK'
    <2>1. UNCHANGED <<engine_rx, room_alive, told, api>>
      BY Zenon, <1>10 DEF Environment, LinkDies, SignalLost, PcFails, ServerLeaves, room
    <2>2. faults' = faults \/ Fault
      BY Zenon, <1>10 DEF Environment, LinkDies, SignalLost, PcFails, ServerLeaves
    <2> QED
      BY SMTT(30), <2>1, <2>2 DEF Fault
  <1>11. CASE UNCHANGED vars
    BY Zenon, <1>11 DEF vars, handle, sess, task, closing, room
  <1> QED
    BY Zenon, <1>1, <1>2, <1>3, <1>4, <1>5, <1>6, <1>7, <1>8, <1>9, <1>10, <1>11,
       CallersNamed
    DEF Next, EngineNext, ReconnectTask

-----------------------------------------------------------------------------
(***************************************************************************)
(* The other conjuncts.                                                    *)
(***************************************************************************)
\* reconnecting follows the task, and no reconnection overtakes an API call.
LEMMA LockInvStep == ASSUME IInv, [Next]_vars PROVE LockInv'
  <1> USE EngineAssumption DEF IInv, TypeOK, LockInv
  <1>1. ASSUME NEW s \in Sessions, EngineTask(s) PROVE LockInv'
    <2>1. CASE OnCloseReconnect(s)
      BY SMTT(30), <2>1 DEF OnCloseReconnect, ReconnectionNeeded
    <2>2. CASE OnCloseDisconnect(s)
      BY Zenon, <2>2 DEF OnCloseDisconnect
    <2> QED
      BY Zenon, <1>1, <2>1, <2>2 DEF EngineTask
  <1>2. CASE Attempt
    <2>1. CASE AcquireLock
      BY Zenon, <2>1 DEF AcquireLock, handle, sess, closing, room, HandleOK, TaskOK
    <2>2. CASE LoopClosed
      BY Zenon, <2>2 DEF LoopClosed, Stepped, Awaiting, handle, sess, task, closing, room, HandleOK,
          TaskOK
    <2>3. CASE LoopRestart
      BY Zenon, <2>3 DEF LoopRestart, EmitAndAwait, Emit, Stepped, Awaiting, handle, sess,
          closing, room,
          HandleOK, TaskOK
    <2>4. CASE LoopResume
      BY Zenon, <2>4 DEF LoopResume, EmitAndAwait, Emit, Stepped, Awaiting, handle, sess,
          closing, room,
          HandleOK, TaskOK
    <2>5. CASE Acknowledged
      BY Zenon, <2>5, AckPoints DEF Stepped, Awaiting, handle, sess, task, closing, room, HandleOK,
          TaskOK,
          Acknowledged
    <2> QED
      BY Zenon, <1>2, <2>1, <2>2, <2>3, <2>4, <2>5 DEF Attempt
  <1>3. CASE Restart
    BY Zenon, <1>3 DEF Restart, RestartTakes, RestartClosesOld, RestartConnects, RestartConnectFails,
        RestartRejected, RestartWaitFails, RestartInstalls, RestartDone, Stepped,
        Awaiting, sess, room, handle, EmitAndAwait, task, HandleOK, TaskOK
  <1>4. CASE Resume
    BY Zenon, <1>4 DEF Resume, ResumeClosesLink, ResumeConnects, ResumeConnectFails, ResumeRejected,
        ResumeWaits, ResumeWaitFails, ResumeFinalize, ResumeSevered, ResumeDone, Stepped,
        Awaiting, handle, task, room, EmitAndAwait, sess, HandleOK, TaskOK
  <1>5. CASE Ending
    BY Zenon, <1>5 DEF Ending, Backoff, Terminal, TerminalClosed, Failed, FailedClosed, Finish,
        Cancelled, Stepped, Awaiting, handle, sess, room, task, Sessions, HandleOK, TaskOK
  <1>6. ASSUME NEW c \in Closers, Close(c) PROVE LockInv'
    <2>1. UNCHANGED <<reconnecting, session, api, pc>>
      BY Zenon, <1>6 DEF Close, CloseBegins, CloseClosesSession, CloseEmits, CloseNotifies, handle
    <2> QED
      BY Zenon, <2>1
  <1>7. CASE RoomCloses \/ RoomStops
    BY <1>7 DEF RoomCloses, RoomStops, handle
  <1>8. ASSUME NEW e \in LifecycleEvents, RoomReceives(e) PROVE LockInv'
    BY Zenon, <1>8 DEF RoomReceives, handle
  <1>9. CASE \E c \in Callers : Api(c)
    <2>1. PICK c \in Callers : Api(c)
      BY Zenon, <1>9
    <2>2. UNCHANGED <<reconnecting, session, pc>>
      BY Zenon, <2>1 DEF Api, ApiBegins, ApiEnds, handle
    <2>3. \/ pc = "idle" /\ api' = [api EXCEPT ![c] = session]
          \/ api' = [api EXCEPT ![c] = 0]
      BY Zenon, <2>1 DEF Api, ApiBegins, ApiEnds
    <2>4. \A d \in Callers : api'[d] = api[d] \/ api'[d] = 0 \/ (pc = "idle" /\ api'[d] = session)
      BY Zenon, <2>3 DEF RoomOK
    <2> QED
      BY Zenon, <2>2, <2>4
  <1>10. ASSUME NEW s \in Sessions, Environment(s) PROVE LockInv'
    <2>1. UNCHANGED <<reconnecting, session, api, pc>>
      BY ZenonT(40), <1>10 DEF Environment, LinkDies, SignalLost, PcFails, ServerLeaves, handle
    <2> QED
      BY Zenon, <2>1
  <1>11. CASE UNCHANGED vars
    BY Zenon, <1>11 DEF vars, handle, sess, task, closing, room
  <1> QED
    BY Zenon, <1>1, <1>2, <1>3, <1>4, <1>5, <1>6, <1>7, <1>8, <1>9, <1>10, <1>11,
       CallersNamed
    DEF Next, EngineNext, ReconnectTask

\* No two owners of a session: what one of them closes or drops is not the
\* installed session and not the new one.
LEMMA OwnInvStep == ASSUME IInv, [Next]_vars PROVE OwnInv'
  <1> USE EngineAssumption DEF IInv, TypeOK, OwnInv, Sessions, Closers
  <1>1. ASSUME NEW s \in Sessions, EngineTask(s) PROVE OwnInv'
    <2>1. CASE OnCloseReconnect(s)
      BY Zenon, <2>1, <1>1 DEF OnCloseReconnect, ReconnectionNeeded, task, closing, room, HandleOK,
          SessionsOK,
          TaskOK, CloseOK, LockInv
    <2>2. CASE OnCloseDisconnect(s)
      BY Zenon, <2>2, <1>1 DEF OnCloseDisconnect, task
    <2> QED
      BY Zenon, <1>1, <2>1, <2>2 DEF EngineTask
  <1>2. CASE Attempt
    <2>1. CASE AcquireLock
      BY Zenon, <2>1 DEF AcquireLock, handle, sess, closing, room, HandleOK, SessionsOK, TaskOK,
          CloseOK
    <2>2. CASE LoopClosed
      BY Zenon, <2>2 DEF LoopClosed, Stepped, handle, sess, task, closing, room, HandleOK, SessionsOK,
          TaskOK, CloseOK
    <2>3. CASE LoopRestart
      BY Zenon, <2>3 DEF LoopRestart, EmitAndAwait, Stepped, handle, sess, closing, room, HandleOK,
          SessionsOK, TaskOK, CloseOK
    <2>4. CASE LoopResume
      BY Zenon, <2>4 DEF LoopResume, EmitAndAwait, Stepped, handle, sess, closing, room, HandleOK,
          SessionsOK, TaskOK, CloseOK
    <2>5. CASE Acknowledged
      BY Zenon, <2>5, AckPoints DEF Stepped, handle, sess, task, closing, room, HandleOK, SessionsOK,
          TaskOK,
          CloseOK, Acknowledged
    <2> QED
      BY Zenon, <1>2, <2>1, <2>2, <2>3, <2>4, <2>5 DEF Attempt
  <1>3. CASE Restart
    <2>1. CASE RestartTakes
      BY Zenon, <2>1 DEF RestartTakes, Stepped, sess, closing, room, HandleOK, SessionsOK, TaskOK,
          CloseOK
    <2>2. CASE RestartClosesOld
      <3>1. /\ UNCHANGED <<session, opened, engine_task, chand, gate>>
            /\ hand' = 0 /\ pc' = "r_connect"
        BY Zenon, <2>2 DEF RestartClosesOld, handle, closing
      <3>2. \A s \in Sessions : s # hand
               => status'[s] = status[s] /\ (s \in running => s \in running')
        BY Zenon, <2>2 DEF RestartClosesOld, CloseRtcSession, SessionsOK
      <3> QED
        BY SMTT(30), <3>1, <3>2 DEF HandleOK
    <2>3. CASE RestartConnects
      <3>1. /\ UNCHANGED <<session, engine_task, chand, gate, running>>
            /\ opened' = opened + 1 /\ hand' = opened + 1 /\ hand' \in Sessions
            /\ pc' = "ack_signal_restarted"
        BY SMTT(30), <2>3 DEF RestartConnects, EmitAndAwait, handle, closing, HandleOK
      <3>2. /\ status'[opened + 1] = "open"
            /\ \A s \in Sessions : s # opened + 1 => status'[s] = status[s]
        BY Zenon, <2>3, <3>1 DEF RestartConnects, SessionsOK
      <3>3. opened \in Nat /\ session \in Nat /\ \A c \in Closers : chand[c] \in Nat
        BY DEF HandleOK, CloseOK
      <3> QED
        BY SMTT(30), <3>1, <3>2, <3>3 DEF HandleOK
    <2>4. CASE RestartConnectFails
      BY ZenonT(40), <2>4 DEF RestartConnectFails, Fault, Stepped, handle, sess, task, closing, room,
          HandleOK, SessionsOK, TaskOK, CloseOK
    <2>5. CASE RestartRejected
      BY Zenon, <2>5 DEF RestartRejected, Fault, Stepped, handle, sess, task, closing, room, HandleOK,
          SessionsOK, TaskOK, CloseOK
    <2>6. CASE RestartWaitFails
      <3>1. /\ UNCHANGED <<session, opened, engine_task, chand, gate, running>>
            /\ hand' = 0 /\ pc' = "backoff"
        BY Zenon, <2>6 DEF RestartWaitFails, handle, closing
      <3>2. \A s \in Sessions : s # hand => status'[s] = status[s]
        BY Zenon, <2>6 DEF RestartWaitFails, SessionsOK
      <3> QED
        BY SMTT(30), <3>1, <3>2 DEF HandleOK
    <2>7. CASE RestartInstalls
      <3>1. /\ session' = hand /\ hand' = 0 /\ pc' = "restarted" /\ pc = "r_wait"
            /\ UNCHANGED <<opened, chand, gate, status>>
        BY Zenon, <2>7 DEF RestartInstalls, closing
      <3>2. hand \in running'
        BY Zenon, <2>7 DEF RestartInstalls
      <3> QED
        BY SMTT(30), <3>1, <3>2, HandIsSession DEF HandleOK
    <2>8. CASE RestartDone
      BY Zenon, <2>8 DEF RestartDone, EmitAndAwait, Stepped, handle, sess, task, closing, HandleOK,
          SessionsOK, TaskOK, CloseOK
    <2> QED
      BY ZenonT(40), <1>3, <2>1, <2>2, <2>3, <2>4, <2>5, <2>6, <2>7, <2>8 DEF Restart
  <1>4. CASE Resume
    <2>1. CASE ResumeClosesLink
      <3>1. /\ UNCHANGED <<session, opened, engine_task, hand, chand, status, running>>
            /\ pc = "resume" /\ pc' = "s_connect"
        BY Zenon, <2>1 DEF ResumeClosesLink, handle, task, closing
      <3>2. \A s \in Sessions : s # session => gate'[s] = gate[s]
        BY Zenon, <2>1 DEF ResumeClosesLink, SessionsOK
      <3> QED
        BY SMTT(30), <3>1, <3>2 DEF HandleOK
    <2>2. CASE ResumeConnects
      BY Zenon, <2>2 DEF ResumeConnects, EmitAndAwait, Stepped, handle, task, closing, HandleOK,
          SessionsOK, TaskOK, CloseOK
    <2>3. CASE ResumeConnectFails
      BY Zenon, <2>3 DEF ResumeConnectFails, Fault, Stepped, task, closing, room, HandleOK,
          SessionsOK,
          TaskOK, CloseOK
    <2>4. CASE ResumeRejected
      BY Zenon, <2>4 DEF ResumeRejected, Fault, Stepped, handle, task, closing, room, HandleOK,
          SessionsOK, TaskOK, CloseOK
    <2>5. CASE ResumeWaits
      BY Zenon, <2>5 DEF ResumeWaits, Stepped, handle, task, closing, room, HandleOK, SessionsOK,
          TaskOK,
          CloseOK
    <2>6. CASE ResumeWaitFails
      BY Zenon, <2>6 DEF ResumeWaitFails, Fault, Stepped, sess, task, closing, room, HandleOK,
          SessionsOK, TaskOK, CloseOK
    <2>7. CASE ResumeFinalize
      BY Zenon, <2>7 DEF ResumeFinalize, Stepped, handle, task, closing, room, HandleOK, SessionsOK,
          TaskOK, CloseOK
    <2>8. CASE ResumeSevered
      BY Zenon, <2>8 DEF ResumeSevered, Stepped, sess, task, closing, room, HandleOK, SessionsOK,
          TaskOK,
          CloseOK
    <2>9. CASE ResumeDone
      BY Zenon, <2>9 DEF ResumeDone, EmitAndAwait, Stepped, handle, sess, task, closing, HandleOK,
          SessionsOK, TaskOK, CloseOK
    <2> QED
      BY ZenonT(40), <1>4, <2>1, <2>2, <2>3, <2>4, <2>5, <2>6, <2>7, <2>8, <2>9 DEF Resume
  <1>5. CASE Ending
    <2>1. CASE Backoff
      BY Zenon, <2>1 DEF Backoff, Stepped, handle, sess, closing, room, HandleOK, SessionsOK, TaskOK,
          CloseOK
    <2>2. CASE Terminal
      BY Zenon, <2>2 DEF Terminal, Stepped, sess, task, room, HandleOK, SessionsOK, TaskOK, CloseOK
    <2>3. CASE TerminalClosed
      BY ZenonT(40), <2>3 DEF TerminalClosed, handle, sess, task, closing, room, HandleOK,
          SessionsOK, TaskOK,
          CloseOK
    <2>4. CASE Failed
      BY Zenon, <2>4 DEF Failed, handle, sess, task, room, HandleOK, SessionsOK, TaskOK, CloseOK
    <2>5. CASE FailedClosed
      BY Zenon, <2>5 DEF FailedClosed, handle, sess, task, closing, room, HandleOK, SessionsOK,
          TaskOK,
          CloseOK
    <2>6. CASE Finish
      BY Zenon, <2>6 DEF Finish, sess, task, closing, room, HandleOK, SessionsOK, TaskOK, CloseOK
    <2>7. CASE Cancelled
      <3>1. /\ UNCHANGED <<session, opened, engine_task, chand, gate>>
            /\ hand' = 0 /\ pc' = "idle"
        BY Zenon, <2>7 DEF Cancelled
      <3>2. engine_task => session \in running' /\ status'[session] = "open"
        BY Zenon, <2>7 DEF Cancelled, HandleOK, SessionsOK
      <3> QED
        BY SMTT(30), <3>1, <3>2 DEF HandleOK
    <2> QED
      BY Zenon, <1>5, <2>1, <2>2, <2>3, <2>4, <2>5, <2>6, <2>7 DEF Ending
  <1>6. ASSUME NEW c \in Closers, Close(c) PROVE OwnInv'
    <2>1. CASE CloseBegins(c)
      <3>1. UNCHANGED <<session, opened, hand, gate, pc, status, running>> /\ ~engine_task'
        BY Zenon, <2>1 DEF CloseBegins, sess, task
      <3>2. \A d \in Closers : chand'[d] \in {chand[d], session, 0}
        BY Zenon, <2>1, <1>6 DEF CloseBegins, CloseOK
      <3> QED
        <4>1. \A d \in Closers : chand'[d] <= opened'
          BY SMTT(30), <3>1, <3>2 DEF HandleOK
        <4>2. pc' \in {"ack_signal_restarted", "r_wait"} =>
                /\ status'[hand'] = "open" /\ hand' # session' /\ ~gate'[hand']
                /\ \A d \in Closers : chand'[d] # hand'
          BY Zenon, <3>1, <3>2, HandIsSession
        <4> QED
          BY Zenon, <3>1, <4>1, <4>2
    <2>2. CASE CloseClosesSession(c)
      <3>1. UNCHANGED <<session, opened, engine_task, hand, chand, gate, pc>>
        BY Zenon, <2>2 DEF CloseClosesSession, handle, task
      <3>2. ASSUME NEW s \in Sessions, s # chand[c]
            PROVE  status'[s] = status[s] /\ (s \in running => s \in running')
        BY Zenon, <2>2, <3>2 DEF CloseClosesSession, CloseRtcSession, SessionsOK
      <3> QED
        BY Zenon, <1>6, <3>1, <3>2, HandIsSession DEF HandleOK
    <2>3. CASE CloseEmits(c)
      BY Zenon, <2>3, <1>6 DEF CloseEmits, handle, sess, task
    <2>4. CASE CloseNotifies(c)
      BY Zenon, <2>4, <1>6 DEF CloseNotifies, handle, sess, task
    <2> QED
      BY Zenon, <1>6, <2>1, <2>2, <2>3, <2>4 DEF Close
  <1>7. CASE RoomCloses \/ RoomStops
    <2>1. UNCHANGED <<session, opened, engine_task, hand, chand, gate, pc, status, running>>
      BY Zenon, <1>7 DEF RoomCloses, RoomStops, handle, sess, task, closing
    <2> QED
      BY Zenon, <2>1
  <1>8. ASSUME NEW e \in LifecycleEvents, RoomReceives(e) PROVE OwnInv'
    BY Zenon, <1>8 DEF RoomReceives, handle, sess, task
  <1>9. CASE \E c \in Callers : Api(c)
    <2>1. UNCHANGED <<session, opened, engine_task, hand, chand, gate, pc, status, running>>
      BY Zenon, <1>9 DEF Api, ApiBegins, ApiEnds, handle, sess, task, closing
    <2> QED
      BY Zenon, <2>1
  <1>10. ASSUME NEW s \in Sessions, Environment(s) PROVE OwnInv'
    <2>1. CASE LinkDies(s)
      BY Zenon, <2>1, <1>10 DEF LinkDies, handle, task, closing
    <2>2. CASE SignalLost(s)
      BY ZenonT(40), <2>2, <1>10 DEF SignalLost, handle, task, closing
    <2>3. CASE PcFails(s)
      BY Zenon, <2>3, <1>10 DEF PcFails, handle, task, closing
    <2>4. ASSUME NEW action \in Actions, ServerLeaves(s, action) PROVE OwnInv'
      BY ZenonT(40), <2>4, <1>10 DEF ServerLeaves, handle, task, closing
    <2> QED
      BY ZenonT(40), <1>10, <2>1, <2>2, <2>3, <2>4 DEF Environment
  <1>11. CASE UNCHANGED vars
    BY ZenonT(40), <1>11 DEF vars, handle, sess, task, closing, room
  <1> QED
    BY ZenonT(40), <1>1, <1>2, <1>3, <1>4, <1>5, <1>6, <1>7, <1>8, <1>9, <1>10, <1>11,
       CallersNamed
    DEF Next, EngineNext, ReconnectTask

\* closed is set before anything else close() does is seen.
LEMMA CloseInvStep == ASSUME IInv, [Next]_vars PROVE CloseInv'
  <1> USE EngineAssumption DEF IInv, TypeOK, CloseInv, Sessions, Closers
  <1>1. ASSUME NEW s \in Sessions, EngineTask(s) PROVE CloseInv'
    BY ZenonT(40), <1>1 DEF EngineTask, OnCloseReconnect, OnCloseDisconnect, ReconnectionNeeded, task,
        closing, room, Awaiting, HandleOK, TaskOK, CloseOK
  <1>2. CASE Attempt
    <2>1. CASE AcquireLock
      BY Zenon, <2>1 DEF AcquireLock, handle, sess, closing, room, Awaiting, HandleOK, TaskOK, CloseOK
    <2>2. CASE LoopClosed
      BY Zenon, <2>2 DEF LoopClosed, Stepped, Awaiting, handle, sess, task, closing, room, HandleOK,
          TaskOK, CloseOK
    <2>3. CASE LoopRestart
      BY ZenonT(40), <2>3 DEF LoopRestart, EmitAndAwait, Emit, Stepped, Awaiting, handle, sess,
          closing, room,
          HandleOK, TaskOK, CloseOK
    <2>4. CASE LoopResume
      BY Zenon, <2>4 DEF LoopResume, EmitAndAwait, Emit, Stepped, Awaiting, handle, sess,
          closing, room,
          HandleOK, TaskOK, CloseOK
    <2>5. CASE Acknowledged
      BY Zenon, <2>5, AckPoints DEF Stepped, Awaiting, handle, sess, task, closing, room, HandleOK,
          TaskOK, CloseOK,
          Acknowledged
    <2> QED
      BY Zenon, <1>2, <2>1, <2>2, <2>3, <2>4, <2>5 DEF Attempt
  <1>3. CASE Restart
    BY Zenon, <1>3 DEF Restart, RestartTakes, RestartClosesOld, RestartConnects, RestartConnectFails,
        RestartRejected, RestartWaitFails, RestartInstalls, RestartDone, Stepped,
        Awaiting, sess, closing, room, CloseRtcSession, handle, EmitAndAwait, Emit, Fault,
        task, HandleOK, TaskOK, CloseOK
  <1>4. CASE Resume
    BY Zenon, <1>4 DEF Resume, ResumeClosesLink, ResumeConnects, ResumeConnectFails, ResumeRejected,
        ResumeWaits, ResumeWaitFails, ResumeFinalize, ResumeSevered, ResumeDone, Report,
        Stepped, Awaiting, handle, task, closing, room, EmitAndAwait, Emit, Fault, sess,
        HandleOK, TaskOK, CloseOK
  <1>5. CASE Ending
    BY ZenonT(40), <1>5 DEF Ending, Backoff, Terminal, TerminalClosed, Failed, FailedClosed, Finish,
        Cancelled, Stepped, Awaiting, handle, sess, closing, room, task, HandleOK, TaskOK,
        CloseOK
  <1>6. ASSUME NEW c \in Closers, Close(c) PROVE CloseInv'
    <2>1. CASE CloseBegins(c)
      <3>1. closed' /\ UNCHANGED <<pc, cancel>>
        BY Zenon, <2>1 DEF CloseBegins
      <3>2. /\ \A d \in Closers : d # c => cpc'[d] = cpc[d] /\ chand'[d] = chand[d]
            /\ cpc'[c] \in {"closing", "emit"} /\ (cpc'[c] = "closing" => chand'[c] = session)
        BY Zenon, <2>1, <1>6 DEF CloseBegins, CloseOK
      <3> QED
        BY SMTT(30), <3>1, <3>2, <1>6 DEF HandleOK
    <2>2. CASE CloseClosesSession(c)
      BY Zenon, <2>2, <1>6 DEF CloseClosesSession, CloseRtcSession, handle, task, closing, room,
          Awaiting,
          HandleOK, TaskOK, CloseOK
    <2>3. CASE CloseEmits(c)
      BY Zenon, <2>3, <1>6 DEF CloseEmits, Emit, handle, sess, task, Awaiting, HandleOK, TaskOK,
          CloseOK
    <2>4. CASE CloseNotifies(c)
      BY Zenon, <2>4, <1>6 DEF CloseNotifies, handle, sess, task, room, InSelect, Awaiting, HandleOK,
          TaskOK,
          CloseOK
    <2> QED
      BY Zenon, <1>6, <2>1, <2>2, <2>3, <2>4 DEF Close
  <1>7. CASE RoomCloses \/ RoomStops
    BY ZenonT(40), <1>7 DEF RoomCloses, RoomStops, handle, sess, task, room, closing, Awaiting,
        HandleOK,
        TaskOK, CloseOK
  <1>8. ASSUME NEW e \in LifecycleEvents, RoomReceives(e) PROVE CloseInv'
    BY Zenon, <1>8 DEF RoomReceives, handle, sess, task, room, Awaiting, HandleOK, TaskOK, CloseOK
  <1>9. CASE \E c \in Callers : Api(c)
    <2>1. UNCHANGED <<handle, pc, cancel, closing>>
      BY Zenon, <1>9, ApiChanges
    <2> QED
      BY Zenon, <2>1 DEF handle, closing
  <1>10. ASSUME NEW s \in Sessions, Environment(s) PROVE CloseInv'
    BY ZenonT(40), <1>10 DEF Environment, LinkDies, SignalLost, PcFails, ServerLeaves, handle, closing
  <1>11. CASE UNCHANGED vars
    BY ZenonT(40), <1>11 DEF vars, handle, sess, task, closing, room
  <1> QED
    BY Zenon, <1>1, <1>2, <1>3, <1>4, <1>5, <1>6, <1>7, <1>8, <1>9, <1>10, <1>11,
       CallersNamed
    DEF Next, EngineNext, ReconnectTask

\* The task leaves the session unserved or gated only on the way to a new one.
LEMMA ServedInvStep == ASSUME IInv, [Next]_vars PROVE ServedInv'
  <1> USE EngineAssumption DEF IInv, TypeOK, ServedInv, Sessions, Closers
  <1>1. ASSUME NEW s \in Sessions, EngineTask(s) PROVE ServedInv'
    BY ZenonT(40), <1>1 DEF EngineTask, OnCloseReconnect, OnCloseDisconnect, ReconnectionNeeded, task,
        closing, room, Awaiting, HandleOK, SessionsOK, TaskOK, LockInv, OwnInv, CloseInv,
        ToldInv
  <1>2. CASE Attempt
    <2>1. CASE AcquireLock
      BY Zenon, <2>1 DEF AcquireLock, handle, sess, closing, room, Awaiting, HandleOK, SessionsOK,
          TaskOK, LockInv, OwnInv, CloseInv, ToldInv
    <2>2. CASE LoopClosed
      BY Zenon, <2>2 DEF LoopClosed, Stepped, Awaiting, handle, sess, task, closing, room, HandleOK,
          SessionsOK, TaskOK, LockInv, OwnInv, CloseInv, ToldInv
    <2>3. CASE LoopRestart
      BY Zenon, <2>3 DEF LoopRestart, EmitAndAwait, Emit, Stepped, Awaiting, handle, sess,
          closing, room,
          HandleOK, SessionsOK, TaskOK, LockInv, OwnInv, CloseInv, ToldInv
    <2>4. CASE LoopResume
      BY Zenon, <2>4 DEF LoopResume, EmitAndAwait, Emit, Stepped, Awaiting, handle, sess,
          closing, room,
          HandleOK, SessionsOK, TaskOK, LockInv, OwnInv, CloseInv, ToldInv
    <2>5. CASE Acknowledged
      BY ZenonT(40), <2>5, AckPoints DEF Stepped, Awaiting, handle, sess, task, closing, room,
          HandleOK,
          SessionsOK,
          TaskOK, LockInv, OwnInv, CloseInv, ToldInv, Acknowledged
    <2> QED
      BY Zenon, <1>2, <2>1, <2>2, <2>3, <2>4, <2>5 DEF Attempt
  <1>3. CASE Restart
    <2>1. CASE RestartTakes
      BY Zenon, <2>1 DEF RestartTakes, Stepped, Awaiting, sess, closing, room, HandleOK, SessionsOK,
          TaskOK, LockInv, OwnInv, CloseInv, ToldInv
    <2>2. CASE RestartClosesOld
      BY Zenon, <2>2 DEF RestartClosesOld, CloseRtcSession, Stepped, Awaiting, handle, closing, room,
          HandleOK, SessionsOK, TaskOK, LockInv, OwnInv, CloseInv, ToldInv
    <2>3. CASE RestartConnects
      BY Zenon, <2>3 DEF RestartConnects, EmitAndAwait, Emit, Stepped, Awaiting, handle, closing,
          HandleOK, SessionsOK, TaskOK, LockInv, OwnInv, CloseInv, ToldInv
    <2>4. CASE RestartConnectFails
      BY Zenon, <2>4 DEF RestartConnectFails, Fault, Stepped, Awaiting, handle, sess, task, closing,
          room, HandleOK, SessionsOK, TaskOK, LockInv, OwnInv, CloseInv, ToldInv
    <2>5. CASE RestartRejected
      BY Zenon, <2>5 DEF RestartRejected, Fault, Stepped, Awaiting, handle, sess, task, closing, room,
          HandleOK, SessionsOK, TaskOK, LockInv, OwnInv, CloseInv, ToldInv
    <2>6. CASE RestartWaitFails
      BY Zenon, <2>6 DEF RestartWaitFails, Fault, Stepped, Awaiting, handle, closing, room, HandleOK,
          SessionsOK, TaskOK, LockInv, OwnInv, CloseInv, ToldInv
    <2>7. CASE RestartInstalls
      BY Zenon, <2>7 DEF RestartInstalls, Stepped, Awaiting, closing, room, HandleOK, SessionsOK,
          TaskOK,
          LockInv, OwnInv, CloseInv, ToldInv
    <2>8. CASE RestartDone
      BY Zenon, <2>8 DEF RestartDone, EmitAndAwait, Emit, Stepped, Awaiting, handle, sess, task,
          closing,
          HandleOK, SessionsOK, TaskOK, LockInv, OwnInv, CloseInv, ToldInv
    <2> QED
      BY Zenon, <1>3, <2>1, <2>2, <2>3, <2>4, <2>5, <2>6, <2>7, <2>8 DEF Restart
  <1>4. CASE Resume
    <2>1. CASE ResumeClosesLink
      BY Zenon, <2>1 DEF ResumeClosesLink, Report, Stepped, Awaiting, handle, task, closing, room,
          HandleOK, SessionsOK, TaskOK, LockInv, OwnInv, CloseInv, ToldInv
    <2>2. CASE ResumeConnects
      BY Zenon, <2>2 DEF ResumeConnects, EmitAndAwait, Emit, Stepped, Awaiting, handle, task, closing,
          HandleOK, SessionsOK, TaskOK, LockInv, OwnInv, CloseInv, ToldInv
    <2>3. CASE ResumeConnectFails
      BY Zenon, <2>3 DEF ResumeConnectFails, Fault, Stepped, Awaiting, task, closing, room, HandleOK,
          SessionsOK, TaskOK, LockInv, OwnInv, CloseInv, ToldInv
    <2>4. CASE ResumeRejected
      BY Zenon, <2>4 DEF ResumeRejected, Fault, Stepped, Awaiting, handle, task, closing, room,
          HandleOK,
          SessionsOK, TaskOK, LockInv, OwnInv, CloseInv, ToldInv
    <2>5. CASE ResumeWaits
      BY Zenon, <2>5 DEF ResumeWaits, Stepped, Awaiting, handle, task, closing, room, HandleOK,
          SessionsOK, TaskOK, LockInv, OwnInv, CloseInv, ToldInv
    <2>6. CASE ResumeWaitFails
      BY Zenon, <2>6 DEF ResumeWaitFails, Fault, Stepped, Awaiting, sess, task, closing, room,
          HandleOK,
          SessionsOK, TaskOK, LockInv, OwnInv, CloseInv, ToldInv
    <2>7. CASE ResumeFinalize
      BY Zenon, <2>7 DEF ResumeFinalize, Stepped, Awaiting, handle, task, closing, room, HandleOK,
          SessionsOK, TaskOK, LockInv, OwnInv, CloseInv, ToldInv
    <2>8. CASE ResumeSevered
      BY Zenon, <2>8 DEF ResumeSevered, Stepped, Awaiting, sess, task, closing, room, HandleOK,
          SessionsOK, TaskOK, LockInv, OwnInv, CloseInv, ToldInv
    <2>9. CASE ResumeDone
      BY Zenon, <2>9 DEF ResumeDone, EmitAndAwait, Emit, Stepped, Awaiting, handle, sess, task,
          closing,
          HandleOK, SessionsOK, TaskOK, LockInv, OwnInv, CloseInv, ToldInv
    <2> QED
      BY Zenon, <1>4, <2>1, <2>2, <2>3, <2>4, <2>5, <2>6, <2>7, <2>8, <2>9 DEF Resume
  <1>5. CASE Ending
    BY ZenonT(40), <1>5 DEF Ending, Backoff, Terminal, TerminalClosed, Failed, FailedClosed, Finish,
        Cancelled, Stepped, Awaiting, handle, sess, closing, room, task, HandleOK,
        SessionsOK, TaskOK, LockInv, OwnInv, CloseInv, ToldInv
  <1>6. ASSUME NEW c \in Closers, Close(c) PROVE ServedInv'
    BY Zenon, <1>6 DEF Close, CloseBegins, CloseClosesSession, CloseEmits, CloseNotifies, sess, task,
        closing, room, CloseRtcSession, handle, Emit, InSelect, Awaiting, HandleOK,
        SessionsOK, TaskOK, LockInv, OwnInv, CloseInv, ToldInv
  <1>7. CASE RoomCloses \/ RoomStops
    BY ZenonT(40), <1>7 DEF RoomCloses, RoomStops, handle, sess
  <1>8. ASSUME NEW e \in LifecycleEvents, RoomReceives(e) PROVE ServedInv'
    BY Zenon, <1>8 DEF RoomReceives, handle, sess
  <1>9. CASE \E c \in Callers : Api(c)
    <2>1. UNCHANGED <<handle, sess, pc>>
      BY Zenon, <1>9, ApiChanges
    <2> QED
      BY ZenonT(40), <2>1 DEF handle, sess
  <1>10. ASSUME NEW s \in Sessions, Environment(s) PROVE ServedInv'
    BY Zenon, <1>10 DEF Environment, LinkDies, SignalLost, PcFails, ServerLeaves, handle
  <1>11. CASE UNCHANGED vars
    BY Zenon, <1>11 DEF vars, handle, sess, task, closing, room
  <1> QED
    BY Zenon, <1>1, <1>2, <1>3, <1>4, <1>5, <1>6, <1>7, <1>8, <1>9, <1>10, <1>11,
       CallersNamed
    DEF Next, EngineNext, ReconnectTask

\* What the Room was told follows the task.
LEMMA ToldInvStep == ASSUME IInv, [Next]_vars PROVE ToldInv'
  <1> USE EngineAssumption DEF IInv, TypeOK, ToldInv, Closers
  <1>1. ASSUME NEW s \in Sessions, EngineTask(s) PROVE ToldInv'
    BY ZenonT(40), <1>1 DEF EngineTask, OnCloseReconnect, OnCloseDisconnect, ReconnectionNeeded, task,
        closing, room, L!Settled, Awaiting, HandleOK, TaskOK, RoomOK, LockInv, CloseInv
  <1>2. CASE Attempt
    <2>1. CASE AcquireLock
      BY Zenon, <2>1 DEF AcquireLock, handle, sess, closing, room, L!Settled, Awaiting, HandleOK,
          TaskOK,
          RoomOK, LockInv, CloseInv
    <2>2. CASE LoopClosed
      BY Zenon, <2>2 DEF LoopClosed, Stepped, Awaiting, handle, sess, task, closing, room, L!Settled,
          HandleOK, TaskOK, RoomOK, LockInv, CloseInv
    <2>3. CASE LoopRestart
      BY Zenon, <2>3 DEF LoopRestart, EmitAndAwait, Emit, Stepped, Awaiting, handle, sess,
          closing, room,
          L!Settled, HandleOK, TaskOK, RoomOK, LockInv, CloseInv
    <2>4. CASE LoopResume
      BY Zenon, <2>4 DEF LoopResume, EmitAndAwait, Emit, Stepped, Awaiting, handle, sess,
          closing, room,
          L!Settled, HandleOK, TaskOK, RoomOK, LockInv, CloseInv
    <2>5. CASE Acknowledged
      BY ZenonT(40), <2>5, AckPoints DEF Stepped, Awaiting, handle, sess, task, closing, room,
          L!Settled,
          HandleOK,
          TaskOK, RoomOK, LockInv, CloseInv, Acknowledged
    <2> QED
      BY Zenon, <1>2, <2>1, <2>2, <2>3, <2>4, <2>5 DEF Attempt
  <1>3. CASE Restart
    <2>1. CASE RestartTakes \/ RestartClosesOld
      BY Zenon, <2>1 DEF RestartTakes, RestartClosesOld,
          EmitAndAwait, Emit, handle, task, room, L!Settled, HandleOK, TaskOK, LockInv
    <2>2. CASE RestartConnects
      BY Zenon, <2>2 DEF RestartConnects,
          EmitAndAwait, Emit, handle, task, room, L!Settled, HandleOK, TaskOK, LockInv
    <2>3. CASE RestartConnectFails \/ RestartRejected \/ RestartWaitFails
      BY Zenon, <2>3 DEF RestartConnectFails, RestartRejected, RestartWaitFails,
          EmitAndAwait, Emit, handle, task, room, L!Settled, HandleOK, TaskOK, LockInv
    <2>4. CASE RestartInstalls
      BY ZenonT(40), <2>4 DEF RestartInstalls,
          EmitAndAwait, Emit, handle, task, room, L!Settled, HandleOK, TaskOK, LockInv
    <2>5. CASE RestartDone
      BY Zenon, <2>5 DEF RestartDone,
          EmitAndAwait, Emit, handle, task, room, L!Settled, HandleOK, TaskOK, LockInv
    <2> QED
      BY Zenon, <1>3, <2>1, <2>2, <2>3, <2>4, <2>5 DEF Restart
  <1>4. CASE Resume
    <2>1. CASE ResumeClosesLink
      BY Zenon, <2>1 DEF ResumeClosesLink,
          EmitAndAwait, Emit, handle, task, room, L!Settled, HandleOK, TaskOK, LockInv
    <2>2. CASE ResumeConnects
      BY Zenon, <2>2 DEF ResumeConnects,
          EmitAndAwait, Emit, handle, task, room, L!Settled, HandleOK, TaskOK, LockInv
    <2>3. CASE ResumeConnectFails \/ ResumeWaitFails \/ ResumeSevered
      BY Zenon, <2>3 DEF ResumeConnectFails, ResumeWaitFails, ResumeSevered,
          EmitAndAwait, Emit, handle, task, room, L!Settled, HandleOK, TaskOK, LockInv
    <2>4. CASE ResumeRejected \/ ResumeWaits
      BY Zenon, <2>4 DEF ResumeRejected, ResumeWaits,
          EmitAndAwait, Emit, handle, task, room, L!Settled, HandleOK, TaskOK, LockInv
    <2>5. CASE ResumeFinalize
      BY ZenonT(40), <2>5 DEF ResumeFinalize,
          EmitAndAwait, Emit, handle, task, room, L!Settled, HandleOK, TaskOK, LockInv
    <2>6. CASE ResumeDone
      BY Zenon, <2>6 DEF ResumeDone,
          EmitAndAwait, Emit, handle, task, room, L!Settled, HandleOK, TaskOK, LockInv
    <2> QED
      BY Zenon, <1>4, <2>1, <2>2, <2>3, <2>4, <2>5, <2>6 DEF Resume
  <1>5. CASE Ending
    BY ZenonT(40), <1>5 DEF Ending, Backoff, Terminal, TerminalClosed, Failed, FailedClosed, Finish,
        Cancelled, Stepped, Awaiting, handle, sess, closing, room, task, Sessions,
        L!Settled, HandleOK, TaskOK, RoomOK, LockInv, CloseInv
  <1>6. ASSUME NEW c \in Closers, Close(c) PROVE ToldInv'
    BY Zenon, <1>6 DEF Close, CloseBegins, CloseClosesSession, CloseEmits, CloseNotifies, sess, task,
        closing, room, CloseRtcSession, handle, Emit, InSelect, Awaiting, L!Settled,
        HandleOK, TaskOK, RoomOK, LockInv, CloseInv
  <1>7. CASE RoomCloses \/ RoomStops
    BY Zenon, <1>7 DEF RoomCloses, RoomStops, handle, task, room, L!Settled
  <1>8. ASSUME NEW e \in LifecycleEvents, RoomReceives(e) PROVE ToldInv'
    BY Zenon, <1>8 DEF RoomReceives, handle, task, room, L!Settled
  <1>9. CASE \E c \in Callers : Api(c)
    <2>1. UNCHANGED <<handle, pc, task, room>>
      BY Zenon, <1>9, ApiChanges
    <2> QED
      BY ZenonT(40), <2>1 DEF handle, task, room, L!Settled
  <1>10. ASSUME NEW s \in Sessions, Environment(s) PROVE ToldInv'
    BY ZenonT(40), <1>10 DEF Environment, LinkDies, SignalLost, PcFails, ServerLeaves, handle,
        task, room,
        L!Settled
  <1>11. CASE UNCHANGED vars
    BY Zenon, <1>11 DEF vars, handle, sess, task, closing, room, L!Settled
  <1> QED
    BY ZenonT(40), <1>1, <1>2, <1>3, <1>4, <1>5, <1>6, <1>7, <1>8, <1>9, <1>10, <1>11,
       CallersNamed
    DEF Next, EngineNext, ReconnectTask
-----------------------------------------------------------------------------
(***************************************************************************)
(* The invariant, and the properties that follow from it.                  *)
(***************************************************************************)
\* The state connect() leaves satisfies the invariant.
LEMMA InitInv == Init => IInv
  <1> SUFFICES ASSUME Init PROVE IInv
    BY Zenon
  <1>0. /\ 1 \in Sessions /\ 0 \in 0 .. MaxAttempts /\ 0 \in 0 .. MaxSessions
        /\ 0 \in 0 .. MaxFaults
    BY EngineAssumption DEF Sessions
  <1>1. HandleOK
    BY <1>0, Zenon DEF HandleOK, Init
  <1>2. TaskOK
    BY ZenonT(40), <1>0, Names DEF TaskOK, Init
  <1> USE EngineAssumption DEF Init, Sessions, Closers
  <1>3. SessionsOK
    BY SMTT(30), QueueTypes DEF SessionsOK
  <1>4. CloseOK
    BY SMTT(30) DEF CloseOK
  <1>5. RoomOK
    BY SMTT(30), QueueTypes DEF RoomOK
  <1>6. LockInv /\ OwnInv /\ CloseInv
    BY SMTT(30) DEF LockInv, OwnInv, CloseInv
  <1>7. ServedInv /\ ToldInv
    <2>1. ServedInv
      BY SMTT(30) DEF ServedInv
    <2>2. ToldInv
      BY Zenon DEF ToldInv, L!Settled
    <2> QED
      BY Zenon, <2>1, <2>2
  <1> QED
    BY Zenon, <1>1, <1>2, <1>3, <1>4, <1>5, <1>6, <1>7 DEF IInv, TypeOK

\* Every step preserves it.
LEMMA NextInv == IInv /\ [Next]_vars => IInv'
  BY Zenon, HandleOKStep, SessionsOKStep, TaskOKStep, CloseOKStep, RoomOKStep, LockInvStep,
     OwnInvStep, CloseInvStep, ServedInvStep, ToldInvStep DEF IInv, TypeOK

\* IInv holds in every state the engine can reach.
THEOREM Invariance == Spec => []IInv
  BY InitInv, NextInv, PTL DEF Spec

\* Every variable keeps its type: no attempt, session or failure past its bound.
THEOREM TypeCorrect == Spec => []TypeOK
  <1>1. IInv => TypeOK
    BY Zenon DEF IInv
  <1> QED
    BY <1>1, Invariance, PTL

\* No reconnection replaces the session under an API call that got past
\* wait_reconnection.
THEOREM ApiSafe == Spec => []ApiUsesLatest
  <1>1. IInv => ApiUsesLatest
    BY Zenon DEF IInv, LockInv, ApiUsesLatest
  <1> QED
    BY <1>1, Invariance, PTL

\* An open engine that is not reconnecting has an open session with a running
\* engine_task, however many restart attempts took the old one apart.
THEOREM Served == Spec => []InstalledServed
  <1>1. IInv => InstalledServed
    BY Zenon DEF IInv, LockInv, OwnInv, ServedInv, InstalledServed
  <1> QED
    BY <1>1, Invariance, PTL

\* An open engine that is not reconnecting does not hold back signals.
THEOREM GateLifted == Spec => []NoStuckGate
  <1>1. IInv => NoStuckGate
    BY ZenonT(40) DEF IInv, LockInv, ServedInv, NoStuckGate
  <1> QED
    BY <1>1, Invariance, PTL

\* try_resume_connection never works on a session that a restart tore down.
THEOREM ResumeSafe == Spec => []ResumesServedSession
  <1>1. IInv => ResumesServedSession
    BY Zenon DEF IInv, OwnInv, ServedInv, ResumesServedSession
  <1> QED
    BY <1>1, Invariance, PTL

\* full_reconnect falls only in the step that installs a session, and that
\* session is not the one it replaces.
LEMMA EscalationStep ==
  ASSUME IInv, [Next]_vars PROVE full_reconnect /\ ~full_reconnect' => session' # session
  <1>1. CASE RestartInstalls
    BY Zenon, <1>1 DEF RestartInstalls, IInv, OwnInv
  <1>2. ASSUME NEW s \in Sessions, EngineTask(s)
        PROVE  full_reconnect => full_reconnect'
    BY Zenon, <1>2 DEF EngineTask, OnCloseReconnect, OnCloseDisconnect, ReconnectionNeeded
  <1>3. CASE Restart /\ ~RestartInstalls
    BY Zenon, <1>3
    DEF Restart, RestartTakes, RestartClosesOld, RestartConnects, RestartConnectFails,
        RestartRejected, RestartWaitFails, RestartDone, handle
  <1>4. CASE Resume
    BY Zenon, <1>4
    DEF Resume, ResumeClosesLink, ResumeConnects, ResumeConnectFails, ResumeRejected,
        ResumeWaits, ResumeWaitFails, ResumeFinalize, ResumeSevered, ResumeDone, handle
  <1>5. CASE Attempt \/ Ending
    BY Zenon, <1>5
    DEF Attempt, AcquireLock, LoopClosed, LoopRestart, LoopResume, Acknowledged, Ending,
        Backoff, Terminal, TerminalClosed, Failed, FailedClosed, Finish, Cancelled, handle
  <1>6. ASSUME NEW c \in Closers, Close(c) PROVE UNCHANGED full_reconnect
    BY Zenon, <1>6 DEF Close, CloseBegins, CloseClosesSession, CloseEmits, CloseNotifies, handle
  <1>7. ASSUME NEW s \in Sessions, Environment(s) PROVE UNCHANGED full_reconnect
    BY Zenon, <1>7 DEF Environment, LinkDies, SignalLost, PcFails, ServerLeaves, handle
  <1>8. CASE \/ RoomCloses \/ RoomStops \/ \E c \in Callers : Api(c)
             \/ \E e \in LifecycleEvents : RoomReceives(e)
    BY Zenon, <1>8 DEF RoomCloses, RoomStops, Api, ApiBegins, ApiEnds, RoomReceives, handle
  <1>9. CASE UNCHANGED vars
    BY Zenon, <1>9 DEF vars, handle
  <1> QED
    BY ZenonT(40), <1>1, <1>2, <1>3, <1>4, <1>5, <1>6, <1>7, <1>8, <1>9, CallersNamed
    DEF Next, EngineNext, ReconnectTask

\* A full reconnect once required is carried out.
THEOREM Escalates == Spec => EscalationSticks
  <1>1. IInv /\ [Next]_vars => [full_reconnect /\ ~full_reconnect' => session' # session]_vars
    BY ZenonT(40), EscalationStep
  <1> QED
    BY <1>1, Invariance, PTL DEF Spec, EscalationSticks
-----------------------------------------------------------------------------
(***************************************************************************)
(* The refinement of Lifecycle.                                            *)
(***************************************************************************)
\* Only close() sets closed, and nothing resets it.
LEMMA ClosedStep ==
  ASSUME [Next]_vars, closed' # closed
  PROVE  closed' /\ \E c \in Closers : CloseBegins(c)
  <1>1. CASE \E c \in Closers : Close(c)
    BY Zenon, <1>1 DEF Close, CloseBegins, CloseClosesSession, CloseEmits, CloseNotifies, handle
  <1>2. CASE \E s \in Sessions : EngineTask(s) \/ Environment(s)
    BY ZenonT(40), <1>2
    DEF EngineTask, OnCloseReconnect, OnCloseDisconnect, Environment, LinkDies, SignalLost,
        PcFails, ServerLeaves, handle
  <1>3. CASE Attempt \/ Ending
    BY Zenon, <1>3
    DEF Attempt, AcquireLock, LoopClosed, LoopRestart, LoopResume, Acknowledged, Ending,
        Backoff, Terminal, TerminalClosed, Failed, FailedClosed, Finish, Cancelled, handle
  <1>4. CASE Restart \/ Resume
    BY Zenon, <1>4
    DEF Restart, RestartTakes, RestartClosesOld, RestartConnects, RestartConnectFails,
        RestartRejected, RestartWaitFails, RestartInstalls, RestartDone, Resume,
        ResumeClosesLink, ResumeConnects, ResumeConnectFails, ResumeRejected, ResumeWaits,
        ResumeWaitFails, ResumeFinalize, ResumeSevered, ResumeDone, handle
  <1>5. CASE \/ RoomCloses \/ RoomStops \/ \E c \in Callers : Api(c)
             \/ \E e \in LifecycleEvents : RoomReceives(e)
    BY Zenon, <1>5 DEF RoomCloses, RoomStops, Api, ApiBegins, ApiEnds, RoomReceives, handle
  <1>6. CASE UNCHANGED vars
    BY Zenon, <1>6 DEF vars, handle
  <1> QED
    BY Zenon, <1>1, <1>2, <1>3, <1>4, <1>5, <1>6, CallersNamed
    DEF Next, EngineNext, ReconnectTask

\* Every step of the engine is a step of Lifecycle or leaves its state alone.
LEMMA LifecycleStep ==
  ASSUME IInv, [Next]_vars PROVE L!Next \/ UNCHANGED L!vars
  <1> USE DEF L!vars, L!Next
  <1>1. CASE closed' # closed
    BY Zenon, <1>1, ClosedStep DEF L!Close
  <1>2. CASE closed /\ closed'
    BY Zenon, <1>2
  <1>3. CASE ~closed /\ ~closed'
    <2> USE <1>3
    <2> DEFINE Same == UNCHANGED <<reconnecting, full_reconnect, told>>
                         /\ (pc = "restarted" <=> pc' = "restarted")
    <2>0. Same => UNCHANGED L!vars
      OBVIOUS
    <2> HIDE DEF Same
    <2>1. ASSUME NEW s \in Sessions, EngineTask(s) PROVE L!Next \/ UNCHANGED L!vars
      <3>1. CASE ~(can_reconnect /\ OnCloseReconnect(s))
        BY ZenonT(40), <2>0, <2>1, <3>1
        DEF Same, EngineTask, OnCloseReconnect, OnCloseDisconnect, ReconnectionNeeded, room
      <3>2. CASE can_reconnect /\ OnCloseReconnect(s) /\ reconnecting
        BY Zenon, <3>2 DEF OnCloseReconnect, ReconnectionNeeded, room, L!Escalate
      <3>3. CASE can_reconnect /\ OnCloseReconnect(s) /\ ~reconnecting
        BY Zenon, <3>3
        DEF OnCloseReconnect, ReconnectionNeeded, room, L!Fail, IInv, TypeOK, HandleOK, LockInv
      <3> QED
        BY Zenon, <3>1, <3>2, <3>3, <2>1 DEF IInv, TypeOK, HandleOK
    <2>2. CASE Attempt
      <3>1. CASE AcquireLock \/ LoopClosed
        BY ZenonT(40), <3>1, <2>0 DEF Same, AcquireLock, LoopClosed, handle, room
      <3>2. CASE LoopRestart
        BY Zenon, <2>0, <3>2
        DEF Same, LoopRestart, EmitAndAwait, Emit, handle, room, L!Announce, L!Follows,
            L!Settled, IInv, ToldInv, LockInv
      <3>3. CASE LoopResume
        BY Zenon, <2>0, <3>3
        DEF Same, LoopResume, EmitAndAwait, Emit, handle, room, L!Announce, L!Follows,
            L!Settled, IInv, ToldInv, LockInv
      <3>4. CASE Acknowledged
        BY Zenon, <3>4, <2>0, AckPoints DEF Same, Acknowledged, handle, room
      <3> QED
        BY ZenonT(40), <2>2, <3>1, <3>2, <3>3, <3>4 DEF Attempt
    <2>3. CASE Restart
      <3>1. CASE RestartConnects
        BY Zenon, <3>1
        DEF RestartConnects, EmitAndAwait, Emit, handle, L!Announce, L!Follows, IInv, ToldInv,
            LockInv
      <3>2. CASE RestartInstalls
        BY Zenon, <3>2 DEF RestartInstalls, room, L!Replace, IInv, ToldInv, LockInv
      <3>3. CASE RestartDone
        BY Zenon, <3>3
        DEF RestartDone, EmitAndAwait, Emit, handle, L!AnnounceRestarted, IInv, LockInv
      <3>4. CASE Same
        BY Zenon, <3>4, <2>0
      <3> QED
        BY Zenon, <2>3, <3>1, <3>2, <3>3, <3>4
        DEF Same, Restart, RestartTakes, RestartClosesOld, RestartConnectFails,
            RestartRejected, RestartWaitFails, handle, room
    <2>4. CASE Resume
      <3>1. CASE ResumeConnects
        BY Zenon, <3>1
        DEF ResumeConnects, EmitAndAwait, Emit, handle, L!Announce, L!Follows, IInv, ToldInv,
            LockInv
      <3>2. CASE ResumeDone
        BY Zenon, <3>2
        DEF ResumeDone, EmitAndAwait, Emit, handle, L!Announce, L!Follows, IInv, ToldInv,
            LockInv
      <3>3. CASE ResumeConnectFails \/ ResumeWaitFails \/ ResumeSevered
        BY Zenon, <3>3
        DEF ResumeConnectFails, ResumeWaitFails, ResumeSevered, room, L!Escalate, IInv, LockInv
      <3>4. CASE Same
        BY ZenonT(40), <3>4, <2>0
      <3> QED
        BY Zenon, <2>4, <3>1, <3>2, <3>3, <3>4
        DEF Same, Resume, ResumeClosesLink, ResumeRejected, ResumeWaits, ResumeFinalize,
            handle, room
    <2>5. CASE Ending
      <3>1. CASE Finish
        BY Zenon, <3>1 DEF Finish, room, L!Recover, IInv, ToldInv, LockInv
      <3>2. CASE Cancelled
        BY Zenon, <3>2 DEF Cancelled, IInv, CloseInv
      <3>3. CASE Same
        BY Zenon, <3>3, <2>0
      <3> QED
        BY Zenon, <2>5, <3>1, <3>2, <3>3
        DEF Same, Ending, Backoff, Terminal, TerminalClosed, Failed, FailedClosed, handle, room
    <2>6. ASSUME NEW c \in Closers, Close(c) PROVE Same
      BY Zenon, <2>6
      DEF Same, Close, CloseBegins, CloseClosesSession, CloseEmits, CloseNotifies, handle,
          room, IInv, CloseInv
    <2>7. ASSUME NEW s \in Sessions, Environment(s) PROVE Same
      BY Zenon, <2>7
      DEF Same, Environment, LinkDies, SignalLost, PcFails, ServerLeaves, handle, room
    <2>8. CASE \/ RoomCloses \/ RoomStops \/ \E c \in Callers : Api(c)
               \/ \E e \in LifecycleEvents : RoomReceives(e)
      BY Zenon, <2>8, <2>0
      DEF Same, RoomCloses, RoomStops, Api, ApiBegins, ApiEnds, RoomReceives, handle, room
    <2>9. CASE UNCHANGED vars
      BY Zenon, <2>9, <2>0 DEF Same, vars, handle, room
    <2> HIDE DEF L!Next, L!vars
    <2> QED
      BY ZenonT(40), <2>0, <2>1, <2>2, <2>3, <2>4, <2>5, <2>6, <2>7, <2>8, <2>9, CallersNamed
      DEF Next, EngineNext, ReconnectTask
  <1> QED
    <2>1. closed \in BOOLEAN /\ closed' \in BOOLEAN
      BY Zenon, HandleOKStep DEF IInv, TypeOK, HandleOK
    <2> HIDE DEF L!Next, L!vars
    <2> QED
      BY Zenon, <1>1, <1>2, <1>3, <2>1

\* The engine implements Lifecycle: the Room is told of every recovery, and of
\* the mode it is in, in an order from which it can rebuild the engine's state.
THEOREM Implements == Spec => ImplementsLifecycle
  <1>1. Init => L!Init
    BY Zenon DEF Init, L!Init
  <1>2. IInv /\ [Next]_vars => [L!Next]_(L!vars)
    BY Zenon, LifecycleStep
  <1> QED
    BY <1>1, <1>2, Invariance, PTL DEF Spec, ImplementsLifecycle, L!Spec

-----------------------------------------------------------------------------
(***************************************************************************)
(* The Room agrees with the engine whenever it has caught up with it.  The *)
(* engine's own inductive invariant says that an engine at rest last told  *)
(* the Room of a settled state; what is added here is that the last event  *)
(* in the Room's queue is what it was last told, and what a drained queue  *)
(* left behind.                                                            *)
(***************************************************************************)
\* The types of the Room's own variables.
RoomVarsOK ==
  /\ state \in {"Connected", "Reconnecting", "Disconnected"}
  /\ waiting \in [TrackCalls -> Nat] /\ ready \in Nat

\* Until the engine is closed its events reach the Room; the last of them is the
\* one it was last told, and a settled one that was handled made the Room
\* Connected or left a republish task that will.
RoomCatchesUp ==
  ~closed =>
    /\ room_alive
    /\ engine_rx # <<>> => engine_rx[Len(engine_rx)] = told
    /\ engine_rx = <<>> /\ told \in L!Settled /\ ~Republishing => state = "Connected"

RoomInv == IInv /\ RoomVarsOK /\ RoomCatchesUp

-----------------------------------------------------------------------------
\* Sending an event makes it the last of the queue.
LEMMA AppendedLast ==
  ASSUME NEW e \in LifecycleEvents, NEW q \in Seq(LifecycleEvents)
  PROVE  Append(q, e) # <<>> /\ Append(q, e)[Len(Append(q, e))] = e
  OBVIOUS

\* Taking an event leaves the last one in place, unless it is the last one.
LEMMA TailLast ==
  ASSUME NEW q \in Seq(LifecycleEvents), q # <<>>
  PROVE  IF Tail(q) = <<>> THEN Head(q) = q[Len(q)]
                           ELSE Tail(q)[Len(Tail(q))] = q[Len(q)]
  <1>1. /\ Len(q) \in Nat /\ Len(q) # 0 /\ Head(q) = q[1]
        /\ Tail(q) \in Seq(LifecycleEvents) /\ Len(Tail(q)) = Len(q) - 1
        /\ \A i \in 1 .. Len(Tail(q)) : Tail(q)[i] = q[i + 1]
    OBVIOUS
  <1>2. Tail(q) = <<>> <=> Len(Tail(q)) = 0
    BY <1>1
  <1> QED
    BY <1>1, <1>2

\* An engine step leaves the Room's queue alone or puts an event in it; only a
\* Room that closed the engine stops listening.
LEMMA EngineSends ==
  ASSUME IInv, EngineNext
  PROVE  UNCHANGED room \/ (\E e \in LifecycleEvents : Emit(e)) \/ closed
  <1>1. CASE \E s \in Sessions : EngineTask(s) \/ Environment(s)
    BY ZenonT(40), <1>1
    DEF EngineTask, OnCloseReconnect, OnCloseDisconnect, Environment, LinkDies, SignalLost,
        PcFails, ServerLeaves, room
  <1>2. CASE Attempt
    BY Zenon, <1>2, Names
    DEF Attempt, AcquireLock, LoopClosed, LoopRestart, LoopResume, Acknowledged, EmitAndAwait
  <1>3. CASE Restart
    BY ZenonT(40), <1>3, Names
    DEF Restart, RestartTakes, RestartClosesOld, RestartConnects, RestartConnectFails,
        RestartRejected, RestartWaitFails, RestartInstalls, RestartDone, EmitAndAwait
  <1>4. CASE Resume
    BY ZenonT(40), <1>4, Names
    DEF Resume, ResumeClosesLink, ResumeConnects, ResumeConnectFails, ResumeRejected,
        ResumeWaits, ResumeWaitFails, ResumeFinalize, ResumeSevered, ResumeDone, EmitAndAwait
  <1>5. CASE Ending
    BY ZenonT(40), <1>5
    DEF Ending, Backoff, Terminal, TerminalClosed, Failed, FailedClosed, Finish, Cancelled
  <1>6. CASE \E c \in Closers : Close(c)
    BY Zenon, <1>6, Names
    DEF Close, CloseBegins, CloseClosesSession, CloseEmits, CloseNotifies
  <1>7. CASE RoomCloses \/ Api("publish_data")
    BY Zenon, <1>7 DEF RoomCloses, Api, ApiBegins, ApiEnds
  <1>8. CASE RoomStops
    BY Zenon, <1>8 DEF RoomStops, IInv, CloseInv, Closers
  <1> QED
    BY Zenon, <1>1, <1>2, <1>3, <1>4, <1>5, <1>6, <1>7, <1>8 DEF EngineNext, ReconnectTask

\* An engine step makes or ends no call of publish_track.
LEMMA EngineCalls ==
  ASSUME IInv, EngineNext PROVE \A c \in TrackCalls : api'[c] = api[c]
  <1>1. CASE \E s \in Sessions : EngineTask(s) \/ Environment(s)
    BY ZenonT(40), <1>1
    DEF EngineTask, OnCloseReconnect, OnCloseDisconnect, Environment, LinkDies, SignalLost,
        PcFails, ServerLeaves
  <1>2. CASE Attempt
    BY Zenon, <1>2 DEF Attempt, AcquireLock, LoopClosed, LoopRestart, LoopResume, Acknowledged
  <1>3. CASE Restart
    BY Zenon, <1>3
    DEF Restart, RestartTakes, RestartClosesOld, RestartConnects, RestartConnectFails,
        RestartRejected, RestartWaitFails, RestartInstalls, RestartDone
  <1>4. CASE Resume
    BY Zenon, <1>4
    DEF Resume, ResumeClosesLink, ResumeConnects, ResumeConnectFails, ResumeRejected,
        ResumeWaits, ResumeWaitFails, ResumeFinalize, ResumeSevered, ResumeDone
  <1>5. CASE Ending
    BY Zenon, <1>5
    DEF Ending, Backoff, Terminal, TerminalClosed, Failed, FailedClosed, Finish, Cancelled
  <1>6. CASE \E c \in Closers : Close(c)
    BY Zenon, <1>6 DEF Close, CloseBegins, CloseClosesSession, CloseEmits, CloseNotifies
  <1>7. CASE RoomCloses \/ RoomStops
    BY Zenon, <1>7 DEF RoomCloses, RoomStops
  <1>8. CASE Api("publish_data")
    <2>1. "publish_data" \notin TrackCalls
      BY DEF TrackCalls
    <2> QED
      BY Zenon, <1>8, <2>1, CallersNamed DEF Api, ApiBegins, ApiEnds, IInv, TypeOK, RoomOK
  <1> QED
    BY Zenon, <1>1, <1>2, <1>3, <1>4, <1>5, <1>6, <1>7, <1>8 DEF EngineNext, ReconnectTask

\* A republish task that makes a step is not through yet.
LEMMA RepublishStep ==
  ASSUME RoomInv, NEW c \in TrackCalls, Republish(c)
  PROVE  RoomVarsOK' /\ Republishing' /\ UNCHANGED <<handle, room>>
  <1>1. /\ waiting \in [TrackCalls -> Nat] /\ ready \in Nat
        /\ state \in {"Connected", "Reconnecting", "Disconnected"}
        /\ api \in [Callers -> 0 .. MaxSessions] /\ session \in Sessions
    BY Zenon DEF RoomInv, RoomVarsOK, IInv, TypeOK, RoomOK, HandleOK
  <1>2. /\ ready + 1 \in Nat /\ ready + 1 > 0 /\ session # 0
        /\ \A d \in TrackCalls : waiting[d] + 1 \in Nat /\ waiting[d] + 1 # 0
        /\ waiting[c] > 0 => waiting[c] - 1 \in Nat
    BY <1>1 DEF Sessions
  <1>3. CASE RepublishCalls(c)
    BY Zenon, <1>1, <1>2, <1>3, CallersNamed, FunctionType
    DEF RepublishCalls, ApiBegins, RoomVarsOK, Republishing
  <1>4. CASE RepublishReturns(c)
    <2>1. UNCHANGED <<handle, room, state>>
      BY Zenon, <1>4 DEF RepublishReturns, ApiEnds
    <2>2. CASE waiting' = [waiting EXCEPT !["create_sender"] = @ + 1] /\ UNCHANGED ready
      <3>1. "create_sender" \in TrackCalls
        BY DEF TrackCalls
      <3>2. waiting' \in [TrackCalls -> Nat] /\ waiting'["create_sender"] # 0
        BY Zenon, <1>1, <1>2, <2>2, <3>1, FunctionType
      <3>3. waiting' # NoTasks
        BY Zenon, <3>1, <3>2 DEF NoTasks
      <3> QED
        BY Zenon, <1>1, <2>1, <2>2, <3>2, <3>3 DEF RoomVarsOK, Republishing
    <2>3. CASE ready' = ready + 1 /\ UNCHANGED waiting
      BY Zenon, <1>1, <1>2, <2>1, <2>3 DEF RoomVarsOK, Republishing
    <2> QED
      BY Zenon, <1>4, <2>2, <2>3 DEF RepublishReturns
  <1>5. CASE RepublishSkips(c)
    BY Zenon, <1>1, <1>2, <1>5, FunctionType DEF RepublishSkips, vars, RoomVarsOK, Republishing
  <1> QED
    BY Zenon, <1>3, <1>4, <1>5 DEF Republish

\* Every step of the composition is a step of the engine or leaves it alone.
LEMMA EngineSteps == ASSUME [RoomNext]_allVars PROVE [Next]_vars
  <1>1. ASSUME RoomTask PROVE \E e \in LifecycleEvents : RoomReceives(e)
    BY Zenon, <1>1, Names
    DEF RoomTask, HandleResuming, HandleResumed, HandleSignalResumed, HandleRestarting,
        HandleRestarted, HandleSignalRestarted, HandleDisconnected
  <1> QED
    BY Zenon, <1>1
    DEF RoomNext, Next, Api, Republish, RepublishCalls, RepublishReturns, RepublishSkips,
        Republished, allVars

\* What the Room's handlers do to the queue.
LEMMA Received ==
  ASSUME RoomInv, NEW e \in LifecycleEvents, RoomReceives(e), ~closed'
  PROVE  /\ ~closed /\ room_alive' /\ told' = told
         /\ engine_rx' # <<>> => engine_rx'[Len(engine_rx')] = told'
         /\ engine_rx' = <<>> => e = told'
  <1>1. /\ ~closed /\ room_alive' = room_alive /\ told' = told
        /\ engine_rx # <<>> /\ Head(engine_rx) = e /\ engine_rx' = Tail(engine_rx)
    BY Zenon DEF RoomReceives, handle
  <1>2. engine_rx \in Seq(LifecycleEvents)
    BY Zenon DEF RoomInv, IInv, TypeOK, RoomOK
  <1>3. engine_rx[Len(engine_rx)] = told /\ room_alive
    BY ZenonT(40), <1>1 DEF RoomInv, RoomCatchesUp
  <1> QED
    BY Zenon, <1>1, <1>2, <1>3, TailLast

LEMMA RoomStep == ASSUME RoomInv, [RoomNext]_allVars PROVE RoomVarsOK' /\ RoomCatchesUp'
  <1> USE DEF RoomVarsOK, roomVars
  <1>1. CASE EngineNext /\ UNCHANGED roomVars
    <2>1. RoomVarsOK'
      BY Zenon, <1>1 DEF RoomInv
    <2>2. SUFFICES ASSUME ~closed' PROVE RoomCatchesUp'
      BY Zenon, <2>1 DEF RoomCatchesUp
    <2>3. ~closed
      <3>1. [Next]_vars
        BY Zenon, <1>1 DEF Next
      <3> QED
        BY Zenon, <2>2, <3>1, ClosedStep
    <2>0. Republishing' <=> Republishing
      BY Zenon, <1>1, EngineCalls DEF RoomInv, Republishing
    <2>4. CASE UNCHANGED room
      BY Zenon, <1>1, <2>0, <2>3, <2>4 DEF room, RoomInv, RoomCatchesUp
    <2>5. ASSUME NEW e \in LifecycleEvents, Emit(e) PROVE RoomCatchesUp'
      <3>1. engine_rx \in Seq(LifecycleEvents) /\ room_alive
        BY ZenonT(40), <2>3 DEF RoomInv, RoomCatchesUp, IInv, TypeOK, RoomOK
      <3>2. engine_rx' = Append(engine_rx, e) /\ told' = e /\ room_alive'
        BY Zenon, <2>5, <3>1 DEF Emit
      <3> QED
        BY Zenon, <3>1, <3>2, AppendedLast DEF RoomCatchesUp
    <2> QED
      BY Zenon, <1>1, <2>3, <2>4, <2>5, EngineSends DEF RoomInv
  <1>2. CASE HandleResuming \/ HandleRestarting
    BY Zenon, <1>2, Names, Received
    DEF HandleResuming, HandleRestarting, RoomInv, RoomCatchesUp, L!Settled
  <1>3. CASE HandleResumed
    BY Zenon, <1>3, Names, Received DEF HandleResumed, RoomInv, RoomCatchesUp
  <1>4. CASE HandleSignalResumed \/ HandleSignalRestarted
    BY Zenon, <1>4, Names, Received
    DEF HandleSignalResumed, HandleSignalRestarted, RoomInv, RoomCatchesUp, L!Settled
  <1>5. CASE HandleRestarted
    <2>1. "add_track" \in TrackCalls
      BY DEF TrackCalls
    <2>2. waiting["add_track"] + 1 \in Nat /\ waiting["add_track"] + 1 # 0
      BY <2>1 DEF RoomInv
    <2>3. waiting' \in [TrackCalls -> Nat] /\ waiting'["add_track"] # 0
      BY Zenon, <1>5, <2>1, <2>2, FunctionType DEF HandleRestarted, RoomInv
    <2>4. Republishing'
      BY Zenon, <2>1, <2>3 DEF NoTasks, Republishing
    <2> QED
      BY Zenon, <1>5, <2>3, <2>4, Names, Received DEF HandleRestarted, RoomInv, RoomCatchesUp
  <1>6. CASE HandleDisconnected
    BY Zenon, <1>6, Names, Received DEF HandleDisconnected, RoomInv, RoomCatchesUp, L!Settled
  <1>7. ASSUME NEW c \in TrackCalls, Republish(c) PROVE RoomVarsOK' /\ RoomCatchesUp'
    BY Zenon, <1>7, RepublishStep DEF handle, room, RoomInv, RoomCatchesUp
  <1>8. CASE Republished
    <2>1. ready - 1 \in Nat
      BY <1>8 DEF Republished, RoomInv
    <2> QED
      BY Zenon, <1>8, <2>1 DEF Republished, vars, handle, room, RoomInv, RoomCatchesUp
  <1>9. CASE UNCHANGED allVars
    BY Zenon, <1>9 DEF allVars, vars, handle, room, RoomInv, RoomCatchesUp, Republishing
  <1> QED
    BY Zenon, <1>1, <1>2, <1>3, <1>4, <1>5, <1>6, <1>7, <1>8, <1>9 DEF RoomNext, RoomTask

\* The engine's invariant and the Room's hold in every state of the composition.
THEOREM RoomInvariant == RoomSpec => []RoomInv
  <1>1. RoomInit => RoomInv
    <2>1. ASSUME RoomInit PROVE IInv
      BY Zenon, <2>1, InitInv DEF RoomInit
    <2>2. ASSUME RoomInit PROVE RoomVarsOK /\ RoomCatchesUp
      <3>1. 0 \in Nat
        OBVIOUS
      <3> QED
        BY Zenon, <2>2, <3>1 DEF RoomInit, Init, NoTasks, RoomVarsOK, RoomCatchesUp
    <2> QED
      BY Zenon, <2>1, <2>2 DEF RoomInv
  <1>2. RoomInv /\ [RoomNext]_allVars => RoomInv'
    BY Zenon, EngineSteps, NextInv, RoomStep DEF RoomInv
  <1> QED
    BY <1>1, <1>2, PTL DEF RoomSpec

\* Once the Room has handled what the engine told it and its republish tasks are
\* through, an open engine at rest shows as Connected.
THEOREM RoomInAgreement == RoomSpec => []RoomAgrees
  <1>1. RoomInv => RoomAgrees
    BY Zenon DEF RoomInv, RoomAgrees, RoomCatchesUp, IInv, LockInv, ToldInv
  <1> QED
    BY <1>1, RoomInvariant, PTL

\* The engine's variables and the Room's keep their types.
THEOREM RoomTypes == RoomSpec => []RoomTypeOK
  <1>1. RoomInv => RoomTypeOK
    BY Zenon DEF RoomInv, RoomTypeOK, RoomVarsOK, IInv
  <1> QED
    BY <1>1, RoomInvariant, PTL
=============================================================================
