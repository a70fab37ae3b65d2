---------------------------- MODULE SignalClient ----------------------------
(***************************************************************************)
(* SignalInner of livekit-api/src/signal_client/mod.rs: concurrent calls   *)
(* of send(), the queue that holds signals back during a resume, and the   *)
(* stream slot that restart() empties and refills.  The steps are those    *)
(* between two awaits on the two tokio locks:                              *)
(*   - `queue`, a mutex, held by flush_queue() over the whole drain;       *)
(*   - `stream`, a fair RwLock, held for reading while a signal is written *)
(*     AND while send() then waits for the queue to put it back (the guard *)
(*     is a temporary of the `if let`), for writing by close() and over    *)
(*     the whole reconnection by restart().  A waiting writer keeps new    *)
(*     readers out.                                                        *)
(* Sender m makes the one call send(m); the pings are sent by signal_task, *)
(* which does nothing else meanwhile.  Process 0 is the engine, which      *)
(* calls restart() and set_reconnected(); signal_task notices the end of   *)
(* a stream and closes it.  Closing a stream awaits its two tasks, under   *)
(* the write guard.                                                        *)
(***************************************************************************)
EXTENDS Naturals, Sequences, Functions

CONSTANTS
  NumSignals,    \* signals sent, each by a call of its own
  PassThrough,   \* the signals is_pass_through accepts
  Pings,         \* the signals that signal_task sends
  MaxRestarts    \* bound on the calls of restart()

ASSUME SignalAssumption ==
  /\ NumSignals \in Nat
  /\ PassThrough \in SUBSET (1 .. NumSignals)
  /\ Pings \in SUBSET ((1 .. NumSignals) \ PassThrough)
  /\ MaxRestarts \in Nat

Signals == 1 .. NumSignals
Procs == 0 .. NumSignals
Queueable == Signals \ PassThrough
Writers == {"engine", "signal_task"}

VARIABLES
  stream,     \* none; up; failing (the next write errs); ended (write_task is gone)
  gate,       \* SignalInner.reconnecting
  queue,      \* the queued signals
  qlock,      \* the process holding the queue mutex, or Free
  readers,    \* processes holding the stream lock for reading
  wwait,      \* writers waiting for it
  whold,      \* whether restart() or a close() holds it
  pc,         \* where each process is
  tpc,        \* signal_task: running; closing (it wants the guard), awaiting; ended
  earlier,    \* the calls that had returned when each send() was made
  delivered,  \* signals written to the server, in order
  lost,       \* signals dropped
  restarts,   \* calls of restart() so far
  breaks,     \* connections that failed so far
  silent      \* signals dropped without a line in the log

vars == <<stream, gate, queue, qlock, readers, wwait, whold, pc, tpc, earlier,
          delivered, lost, restarts, breaks, silent>>
locks == <<qlock, readers, wwait, whold>>

Free == NumSignals + 1

Init ==
  /\ stream = "up" /\ gate = FALSE /\ queue = <<>>
  /\ qlock = Free /\ readers = {} /\ wwait = {} /\ whold = FALSE
  /\ pc = [p \in Procs |-> "idle"] /\ tpc = "running"
  /\ earlier = [m \in Signals |-> {}]
  /\ delivered = <<>> /\ lost = {} /\ restarts = 0
  /\ breaks = 0 /\ silent = 0

SenderPoints == {"idle", "push", "flush", "drain", "draining", "write", "writing",
                 "push_held", "done"}
EnginePoints == {"idle", "close", "closing", "join", "gate", "want", "restart", "connect",
                 "gated", "flush", "drain", "draining", "abandoned"}

TypeOK ==
  /\ stream \in {"none", "up", "failing", "ended"} /\ gate \in BOOLEAN
  /\ queue \in Seq(Signals) /\ delivered \in Seq(Signals) /\ lost \in SUBSET Signals
  /\ qlock \in Procs \cup {Free} /\ readers \in SUBSET Procs
  /\ wwait \in SUBSET Writers /\ whold \in BOOLEAN
  /\ \A p \in Procs : pc[p] \in IF p = 0 THEN EnginePoints ELSE SenderPoints
  /\ tpc \in {"running", "closing", "awaiting", "ended"}
  /\ earlier \in [Signals -> SUBSET Signals]
  /\ restarts \in 0 .. MaxRestarts /\ breaks \in Nat /\ silent \in Nat

Goto(p, point) == pc' = [pc EXCEPT ![p] = point]

CanRead == ~whold /\ wwait = {}
CanWrite == ~whold /\ readers = {}

-----------------------------------------------------------------------------
(***************************************************************************)
(* flush_queue(), called by send() and by set_reconnected().               *)
(***************************************************************************)
AfterFlush(p) == IF p = 0 THEN "idle" ELSE "write"

FlushLocks(p) ==
  /\ pc[p] = "flush" /\ qlock = Free
  /\ IF queue = <<>> THEN Goto(p, AfterFlush(p)) /\ UNCHANGED qlock
                     ELSE Goto(p, "drain") /\ qlock' = p
  /\ UNCHANGED <<stream, gate, queue, readers, wwait, whold, tpc, earlier,
                 delivered, lost, restarts, breaks, silent>>

FlushReads(p) ==
  /\ pc[p] = "drain" /\ CanRead
  /\ \/ /\ stream = "none"
        /\ Goto(p, AfterFlush(p)) /\ qlock' = Free /\ UNCHANGED readers
     \/ /\ stream # "none"
        /\ Goto(p, "draining") /\ readers' = readers \cup {p} /\ UNCHANGED qlock
  /\ UNCHANGED <<stream, gate, queue, wwait, whold, tpc, earlier, delivered, lost,
                 restarts, breaks, silent>>

\* one round of queue.drain(..): the signal leaves the queue, whether or not the
\* stream takes it; an error of the first write ends write_task
FlushSends(p) ==
  /\ pc[p] = "draining" /\ queue # <<>>
  /\ queue' = Tail(queue)
  /\ \/ /\ stream = "up"
        /\ delivered' = Append(delivered, Head(queue)) /\ UNCHANGED <<lost, stream>>
     \/ /\ stream \in {"failing", "ended"}
        /\ stream' = "ended"
        /\ lost' = lost \cup {Head(queue)} /\ UNCHANGED delivered
  /\ UNCHANGED <<gate, locks, pc, tpc, earlier, restarts, breaks, silent>>

FlushEnds(p) ==
  /\ pc[p] = "draining" /\ queue = <<>>
  /\ Goto(p, AfterFlush(p))
  /\ qlock' = Free /\ readers' = readers \ {p}
  /\ UNCHANGED <<stream, gate, queue, wwait, whold, tpc, earlier, delivered, lost,
                 restarts, breaks, silent>>

-----------------------------------------------------------------------------
(***************************************************************************)
(* send(m).                                                                *)
(***************************************************************************)
\* signal_task is not in the middle of a ping
NoPing == \A m \in Pings : pc[m] \in {"idle", "done"}

\* A mutant: every signal is held back behind the gate.
SendBeginsQueues(m) ==
  /\ pc[m] = "idle" /\ (m \in Pings => tpc = "running" /\ NoPing)
  /\ earlier' = [earlier EXCEPT ![m] = {n \in Signals : pc[n] = "done"}]
  /\ Goto(m, IF ~gate THEN "flush" ELSE "push")
  /\ UNCHANGED <<stream, gate, queue, locks, tpc, delivered, lost, restarts, breaks,
                 silent>>

SendBegins(m) ==
  /\ pc[m] = "idle" /\ (m \in Pings => tpc = "running" /\ NoPing)
  /\ earlier' = [earlier EXCEPT ![m] = {n \in Signals : pc[n] = "done"}]
  /\ Goto(m, IF ~gate THEN "flush" ELSE IF m \in PassThrough THEN "write" ELSE "push")
  /\ UNCHANGED <<stream, gate, queue, locks, tpc, delivered, lost, restarts, breaks,
                 silent>>

\* gated and queueable
SendQueues(m) ==
  /\ pc[m] = "push" /\ qlock = Free
  /\ queue' = Append(queue, m)
  /\ Goto(m, "done")
  /\ UNCHANGED <<stream, gate, locks, tpc, earlier, delivered, lost, restarts,
                 breaks, silent>>

SendReads(m) ==
  /\ pc[m] = "write" /\ CanRead
  /\ readers' = readers \cup {m}
  /\ Goto(m, "writing")
  /\ UNCHANGED <<stream, gate, queue, qlock, wwait, whold, tpc, earlier, delivered,
                 lost, restarts, breaks, silent>>

\* SignalStream::send returns Ok, or the error of the write itself, which send()
\* neither logs nor returns: it matches SendError only.  write_task is gone then
SendWrites(m) ==
  /\ pc[m] = "writing"
  /\ \/ /\ stream = "up"
        /\ delivered' = Append(delivered, m) /\ UNCHANGED <<lost, stream, silent>>
     \/ /\ stream = "failing"
        /\ stream' = "ended" /\ lost' = lost \cup {m} /\ silent' = silent + 1
        /\ UNCHANGED delivered
  /\ readers' = readers \ {m}
  /\ Goto(m, "done")
  /\ UNCHANGED <<gate, queue, qlock, wwait, whold, tpc, earlier, restarts, breaks>>

\* A mutant: a signal that finds no stream is forgotten.
SendFailsSilently(m) ==
  /\ pc[m] = "writing" /\ stream \in {"ended", "none"}
  /\ Goto(m, "done") /\ readers' = readers \ {m}
  /\ UNCHANGED <<stream, gate, queue, qlock, wwait, whold, tpc, earlier, delivered,
                 lost, restarts, breaks, silent>>

\* SendError, or no stream: a queueable signal goes (back) to the queue, under
\* the read guard; a pass-through one is dropped
SendFails(m) ==
  /\ pc[m] = "writing" /\ stream \in {"ended", "none"}
  /\ \/ /\ m \in Queueable
        /\ Goto(m, "push_held") /\ UNCHANGED <<readers, lost>>
     \/ /\ m \in PassThrough
        /\ Goto(m, "done") /\ readers' = readers \ {m} /\ lost' = lost \cup {m}
  /\ UNCHANGED <<stream, gate, queue, qlock, wwait, whold, tpc, earlier, delivered,
                 restarts, breaks, silent>>

SendRequeues(m) ==
  /\ pc[m] = "push_held" /\ qlock = Free
  /\ queue' = Append(queue, m)
  /\ readers' = readers \ {m}
  /\ Goto(m, "done")
  /\ UNCHANGED <<stream, gate, qlock, wwait, whold, tpc, earlier, delivered, lost,
                 restarts, breaks, silent>>

-----------------------------------------------------------------------------
(***************************************************************************)
(* The engine: SignalClient::restart(), then set_reconnected().  A resume  *)
(* that fails after restart() abandons this client for a new session.      *)
(***************************************************************************)
\* SignalClient::close: stream.write() is requested
RestartBegins ==
  /\ pc[0] = "idle" /\ restarts < MaxRestarts
  /\ restarts' = restarts + 1
  /\ wwait' = wwait \cup {"engine"}
  /\ Goto(0, "close")
  /\ UNCHANGED <<stream, gate, queue, qlock, readers, whold, tpc, earlier,
                 delivered, lost, breaks, silent>>

\* ... the stream is taken and closed; SignalStream::close awaits its tasks
RestartCloses ==
  /\ pc[0] = "close" /\ CanWrite
  /\ wwait' = wwait \ {"engine"}
  /\ \/ stream = "none" /\ Goto(0, "join") /\ UNCHANGED <<stream, whold>>
     \/ stream # "none" /\ Goto(0, "closing") /\ stream' = "none" /\ whold' = TRUE
  /\ UNCHANGED <<gate, queue, qlock, readers, tpc, earlier, delivered, lost, restarts,
                 breaks, silent>>

RestartClosed ==
  /\ pc[0] = "closing"
  /\ whold' = FALSE
  /\ Goto(0, "join")
  /\ UNCHANGED <<stream, gate, queue, qlock, readers, wwait, tpc, earlier, delivered,
                 lost, restarts, breaks, silent>>

\* ... signal_task.await
RestartJoins ==
  /\ pc[0] = "join" /\ tpc = "ended"
  /\ Goto(0, "gate")
  /\ UNCHANGED <<stream, gate, queue, locks, tpc, earlier, delivered, lost,
                 restarts, breaks, silent>>

\* SignalInner::restart: reconnecting = true
RestartGates ==
  /\ pc[0] = "gate"
  /\ gate' = TRUE
  /\ Goto(0, "want")
  /\ UNCHANGED <<stream, queue, locks, tpc, earlier, delivered, lost, restarts,
                 breaks, silent>>

RestartWants ==
  /\ pc[0] = "want"
  /\ wwait' = wwait \cup {"engine"}
  /\ Goto(0, "restart")
  /\ UNCHANGED <<stream, gate, queue, qlock, readers, whold, tpc, earlier,
                 delivered, lost, restarts, breaks, silent>>

RestartLocks ==
  /\ pc[0] = "restart" /\ CanWrite
  /\ wwait' = wwait \ {"engine"} /\ whold' = TRUE
  /\ stream' = "none"
  /\ Goto(0, "connect")
  /\ UNCHANGED <<gate, queue, qlock, readers, tpc, earlier, delivered, lost,
                 restarts, breaks, silent>>

\* A mutant: the write guard outlives restart().
RestartConnectsHolding ==
  /\ pc[0] = "connect"
  /\ stream' = "up" /\ UNCHANGED whold
  /\ tpc' = "running"
  /\ Goto(0, "gated")
  /\ UNCHANGED <<gate, queue, qlock, readers, wwait, earlier, delivered, lost,
                 restarts, breaks, silent>>

RestartConnects ==
  /\ pc[0] = "connect"
  /\ stream' = "up" /\ whold' = FALSE
  /\ tpc' = "running"
  /\ Goto(0, "gated")
  /\ UNCHANGED <<gate, queue, qlock, readers, wwait, earlier, delivered, lost,
                 restarts, breaks, silent>>

RestartFails ==
  /\ pc[0] = "connect"
  /\ whold' = FALSE /\ gate' = FALSE
  /\ Goto(0, "abandoned")
  /\ UNCHANGED <<stream, queue, qlock, readers, wwait, tpc, earlier, delivered,
                 lost, restarts, breaks, silent>>

SetReconnected ==
  /\ pc[0] = "gated"
  /\ gate' = FALSE
  /\ Goto(0, "flush")
  /\ UNCHANGED <<stream, queue, locks, tpc, earlier, delivered, lost, restarts,
                 breaks, silent>>

ResumeAbandoned ==
  /\ pc[0] = "gated"
  /\ Goto(0, "abandoned")
  /\ UNCHANGED <<stream, gate, queue, locks, tpc, earlier, delivered, lost,
                 restarts, breaks, silent>>

-----------------------------------------------------------------------------
(***************************************************************************)
(* signal_task, and the network.                                           *)
(***************************************************************************)
TaskWants ==
  /\ tpc = "running" /\ NoPing
  /\ tpc' = "closing"
  /\ wwait' = wwait \cup {"signal_task"}
  /\ UNCHANGED <<stream, gate, queue, qlock, readers, whold, pc, earlier, delivered,
                 lost, restarts, breaks, silent>>

\* A mutant: signal_task only notices a connection that broke, not a closed one.
TaskNoticesBreaks == stream \in {"failing", "ended"} /\ TaskWants

\* the stream's events end
TaskNotices == stream # "up" /\ TaskWants

\* no pong within the configured window
TaskTimesOut == stream = "up" /\ TaskWants

TaskCloses ==
  /\ tpc = "closing" /\ CanWrite
  /\ wwait' = wwait \ {"signal_task"}
  /\ \/ stream = "none" /\ tpc' = "ended" /\ UNCHANGED <<stream, whold>>
     \/ stream # "none" /\ tpc' = "awaiting" /\ stream' = "none" /\ whold' = TRUE
  /\ UNCHANGED <<gate, queue, qlock, readers, pc, earlier, delivered, lost, restarts,
                 breaks, silent>>

TaskClosed ==
  /\ tpc = "awaiting"
  /\ whold' = FALSE
  /\ tpc' = "ended"
  /\ UNCHANGED <<stream, gate, queue, qlock, readers, wwait, pc, earlier, delivered,
                 lost, restarts, breaks, silent>>

\* The connection fails under a write, or the server closes it
LinkBreaks ==
  /\ stream = "up"
  /\ stream' \in {"failing", "ended"} /\ breaks' = breaks + 1
  /\ UNCHANGED <<gate, queue, locks, pc, tpc, earlier, delivered, lost, restarts,
                 silent>>

-----------------------------------------------------------------------------
Flush(p) == FlushLocks(p) \/ FlushReads(p) \/ FlushSends(p) \/ FlushEnds(p)

Send(m) ==
  \/ SendQueues(m) \/ Flush(m) \/ SendReads(m) \/ SendWrites(m) \/ SendFails(m)
  \/ SendRequeues(m)

Resume ==
  \/ RestartCloses \/ RestartClosed \/ RestartJoins \/ RestartGates \/ RestartWants
  \/ RestartLocks \/ RestartConnects \/ RestartFails \/ SetReconnected \/ ResumeAbandoned
  \/ Flush(0)

SignalTask == TaskNotices \/ TaskCloses \/ TaskClosed

Next ==
  \/ \E m \in Signals : SendBegins(m) \/ Send(m)
  \/ RestartBegins \/ Resume \/ SignalTask \/ TaskTimesOut \/ LinkBreaks

Spec == Init /\ [][Next]_vars

\* The tasks run, and a connection that is being closed ends: the close frame is
\* answered, or TCP gives up on it.  Nobody has to send, to ping, to restart or to
\* break the link, and no pong has to be late.
FairSpec ==
  /\ Spec
  /\ \A m \in Signals : WF_vars(Send(m))
  /\ WF_vars(Resume) /\ WF_vars(SignalTask)

-----------------------------------------------------------------------------
\* send() never duplicates a signal and never forgets one: a signal is at most
\* once in the queue and on the wire, also when a failed write and a drain meet,
\* and after send() returned it is in the queue, on the wire, or lost.  Of the lost
\* ones at most one for each broken connection, the one whose write found it
\* broken, goes without a line in the log; later writes get a SendError.
Accounted ==
  LET all == delivered \o queue
  IN  /\ \A i, j \in 1 .. Len(all) : all[i] = all[j] => i = j
      /\ Range(all) \cap lost = {}
      /\ \A m \in Signals : pc[m] = "done" <=> m \in Range(all) \cup lost
      /\ silent <= breaks

\* A pass-through signal never waits in the queue ("Buffering these would
\* deadlock the resume", mod.rs:704), whatever the gate did after it was loaded.
PassThroughNeverQueued == Range(queue) \cap PassThrough = {}

\* A drain never runs into an emptied slot: while flush_queue writes, the stream
\* it took the read guard of stays in place.
DrainHasStream == \A p \in Procs : pc[p] = "draining" => stream # "none" /\ qlock = p

\* A sender holds the stream lock and waits for the queue to put its signal back,
\* another holds the queue and waits for the stream lock to drain it, and a writer
\* that waits for the first keeps the second out: none of them can go on.
LockCycle ==
  /\ \E m \in Signals : pc[m] = "push_held"
  /\ \E p \in Procs : pc[p] = "drain"
  /\ wwait # {}

\* Every call of send() returns, also one that meets a restart, a close or a ping,
\* unless the senders run into a lock cycle.  Each process makes one call, so all
\* of them return if there is always a later moment at which none is under way.
SendReturns == (<>[]LockCycle) \/ []<>(\A m \in Signals : pc[m] \in {"idle", "done"})

\* Every call of SignalClient::restart() ends, likewise: the close of the old stream, the
\* join of its signal_task, which may be in the middle of a ping, and the senders'
\* read guards do not block it for ever.
RestartEnds == (<>[]LockCycle) \/ (pc[0] = "close" ~> pc[0] \in {"idle", "abandoned"})

-----------------------------------------------------------------------------
(***************************************************************************)
(* What the comments and the specification say, and does not hold.         *)
(***************************************************************************)
\* "concurrent senders block on the read side until the new stream is in place"
\* (mod.rs:490), and no longer: no lock cycle comes about.
NoLockCycle == ~LockCycle

\* "A failed queueable send re-queues" (signalling-reconnection.allium:351), "this
\* will automatically queue the message if the connection fails" (mod.rs:296)
QueueableNotLost == lost \subseteq PassThrough

\* "preserving the original send order" (mod.rs:584): of two signals of which one
\* was sent after the other's send() had returned, the later is not written first.
OrderPreserved ==
  \A i, j \in 1 .. Len(delivered) :
    i < j /\ {delivered[i], delivered[j]} \subseteq Queueable
      => delivered[j] \notin earlier[delivered[i]]

\* "we don't have queueable sends sneaking back into the queue while we're trying
\* to drain it" (mod.rs:552): once set_reconnected() and all send() have returned
\* and the link is up, nothing is left in the queue.
ReconnectedDrains ==
  /\ stream = "up" /\ ~gate /\ pc[0] = "idle"
  /\ \A m \in Signals : pc[m] \in {"idle", "done"}
  => queue = <<>>
=============================================================================
