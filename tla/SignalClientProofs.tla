------------------------- MODULE SignalClientProofs -------------------------
(***************************************************************************)
(* For any number of signals, senders and restarts: a drain keeps its      *)
(* stream, no pass-through signal waits in the queue, and every signal is  *)
(* accounted for exactly once.  The first rests on what holding the two    *)
(* locks means for each process, the last on what each sender still has in *)
(* hand.                                                                   *)
(***************************************************************************)
EXTENDS SignalClient, TLAPS

\* The mutex and the two kinds of guards say where the processes are.
LocksInv ==
    /\ pc \in [Procs -> SenderPoints \cup EnginePoints]
    /\ \A p \in Procs : pc[p] \in {"drain", "draining"} <=> qlock = p
    /\ \A p \in Procs : pc[p] \in {"draining", "writing", "push_held"} => p \in readers
    /\ whold => readers = {}
    /\ stream = "none" => \A p \in Procs : pc[p] # "draining"

\* Only a queueable signal is about to be queued.
PushInv ==
    /\ \A m \in Signals : pc[m] \in {"push", "push_held"} => m \notin PassThrough
    /\ PassThroughNeverQueued

Injective(s) == \A i, j \in 1..Len(s) : s[i] = s[j] => i = j

\* A signal is in one place at most, and in one exactly if its send() is done.
AccountInv ==
    /\ Injective(delivered) /\ Injective(queue)
    /\ Range(delivered) \cap Range(queue) = {}
    /\ (Range(delivered) \cup Range(queue)) \cap lost = {}
    /\ \A m \in Signals : pc[m] = "done" <=> m \in Range(delivered) \cup Range(queue) \cup lost

\* A write that errs without a line in the log takes a connection that failed.
SilentInv == silent <= breaks /\ (stream = "failing" => silent + 1 <= breaks)

SignalInv == TypeOK /\ LocksInv /\ PushInv /\ AccountInv /\ SilentInv

-----------------------------------------------------------------------------
(* Sequences of signals.                                                   *)

LEMMA AppendFacts ==
  ASSUME NEW S, NEW q \in Seq(S), NEW e \in S
  PROVE  /\ Append(q, e) \in Seq(S)
         /\ Range(Append(q, e)) = Range(q) \cup {e}
         /\ Injective(q) /\ e \notin Range(q) => Injective(Append(q, e))
<1>1. Append(q, e) \in Seq(S) /\ Len(Append(q, e)) = Len(q) + 1 /\ Len(q) \in Nat
  OBVIOUS
<1>2. \A i \in 1..(Len(q) + 1) : Append(q, e)[i] = IF i <= Len(q) THEN q[i] ELSE e
  OBVIOUS
<1>3. Range(Append(q, e)) = Range(q) \cup {e}
  <2>1. DOMAIN Append(q, e) = 1..(Len(q) + 1) /\ DOMAIN q = 1..Len(q)
    BY <1>1
  <2>2. Append(q, e)[Len(q) + 1] = e
    BY <1>1, <1>2
  <2>3. QED
    BY <1>1, <1>2, <2>1, <2>2 DEF Range
<1>4. Injective(q) /\ e \notin Range(q) => Injective(Append(q, e))
  BY <1>1, <1>2 DEF Injective, Range
<1>5. QED
  BY Zenon, <1>1, <1>3, <1>4

LEMMA TailFacts ==
  ASSUME NEW S, NEW q \in Seq(S), q # <<>>
  PROVE  /\ Head(q) \in S /\ Head(q) \in Range(q) /\ Tail(q) \in Seq(S)
         /\ Range(q) = Range(Tail(q)) \cup {Head(q)}
         /\ Injective(q) => Injective(Tail(q)) /\ Head(q) \notin Range(Tail(q))
<1>1. /\ Tail(q) \in Seq(S) /\ Len(Tail(q)) = Len(q) - 1 /\ Len(q) \in Nat \ {0}
      /\ Head(q) = q[1]
  OBVIOUS
<1>2. \A i \in 1..(Len(q) - 1) : Tail(q)[i] = q[i + 1]
  BY <1>1
<1>3. DOMAIN q = 1..Len(q) /\ DOMAIN Tail(q) = 1..(Len(q) - 1)
  BY <1>1
<1>4. Range(q) = Range(Tail(q)) \cup {Head(q)}
  <2>1. \A i \in 1..Len(q) : i = 1 \/ (i - 1 \in 1..(Len(q) - 1) /\ q[i] = Tail(q)[i - 1])
    BY <1>1, <1>2
  <2>2. Range(q) \subseteq Range(Tail(q)) \cup {Head(q)}
    <3> SUFFICES ASSUME NEW i \in 1..Len(q) PROVE q[i] \in Range(Tail(q)) \cup {Head(q)}
      BY Zenon, <1>3 DEF Range
    <3>1. CASE i = 1
      BY Zenon, <1>1, <3>1
    <3>2. CASE i - 1 \in 1..(Len(q) - 1) /\ q[i] = Tail(q)[i - 1]
      BY Zenon, <1>3, <3>2 DEF Range
    <3>3. QED
      BY Zenon, <2>1, <3>1, <3>2
  <2>3. Range(Tail(q)) \subseteq Range(q)
    <3>1. \A i \in 1..(Len(q) - 1) : i + 1 \in 1..Len(q) /\ Tail(q)[i] = q[i + 1]
      BY <1>1, <1>2
    <3>2. QED
      BY Zenon, <1>3, <3>1 DEF Range
  <2>4. Head(q) \in Range(q)
    BY <1>1, <1>3 DEF Range
  <2>5. QED
    BY Zenon, <2>2, <2>3, <2>4
<1>5. ASSUME Injective(q) PROVE Injective(Tail(q)) /\ Head(q) \notin Range(Tail(q))
  <2>1. Injective(Tail(q))
    BY <1>1, <1>2, <1>5 DEF Injective
  <2>2. ASSUME NEW i \in 1..(Len(q) - 1), Tail(q)[i] = Head(q) PROVE FALSE
    BY <1>1, <1>2, <1>5, <2>2 DEF Injective
  <2>3. QED
    BY Zenon, <1>3, <2>1, <2>2 DEF Range
<1>6. QED
  BY <1>1, <1>4, <1>5

\* Two disjoint sequences without repetition have none together.
LEMMA ConcatFacts ==
  ASSUME NEW S, NEW q \in Seq(S), NEW r \in Seq(S)
  PROVE  /\ Range(q \o r) = Range(q) \cup Range(r)
         /\ Injective(q) /\ Injective(r) /\ Range(q) \cap Range(r) = {} => Injective(q \o r)
<1>1. /\ q \o r \in Seq(S) /\ Len(q \o r) = Len(q) + Len(r) /\ Len(q) \in Nat /\ Len(r) \in Nat
      /\ \A i \in 1..(Len(q) + Len(r)) :
            (q \o r)[i] = IF i <= Len(q) THEN q[i] ELSE r[i - Len(q)]
  OBVIOUS
<1>2. DOMAIN (q \o r) = 1..(Len(q) + Len(r)) /\ DOMAIN q = 1..Len(q) /\ DOMAIN r = 1..Len(r)
  BY <1>1
<1>3. Range(q \o r) \subseteq Range(q) \cup Range(r)
  BY <1>1, <1>2 DEF Range
<1>4. Range(q) \subseteq Range(q \o r)
  BY <1>1, <1>2 DEF Range
<1>5. Range(r) \subseteq Range(q \o r)
  <2>1. \A j \in 1..Len(r) : /\ Len(q) + j \in 1..(Len(q) + Len(r))
                             /\ (q \o r)[Len(q) + j] = r[j]
    BY <1>1
  <2>2. QED
    BY Zenon, <1>2, <2>1 DEF Range
<1>6. ASSUME Injective(q), Injective(r), Range(q) \cap Range(r) = {},
             NEW i \in 1..(Len(q) + Len(r)), NEW j \in 1..(Len(q) + Len(r)),
             (q \o r)[i] = (q \o r)[j]
      PROVE  i = j
  <2>1. CASE i <= Len(q) /\ j <= Len(q)
    BY <1>1, <1>6, <2>1 DEF Injective
  <2>2. CASE i > Len(q) /\ j > Len(q)
    <3>1. i - Len(q) \in 1..Len(r) /\ j - Len(q) \in 1..Len(r)
      BY <1>1, <2>2
    <3>2. r[i - Len(q)] = r[j - Len(q)]
      BY <1>1, <1>6, <2>2
    <3>3. i - Len(q) = j - Len(q)
      BY Zenon, <1>6, <3>1, <3>2 DEF Injective
    <3>4. QED
      BY <1>1, <3>3
  <2>3. CASE i <= Len(q) /\ j > Len(q)
    <3>1. i \in 1..Len(q) /\ j - Len(q) \in 1..Len(r) /\ q[i] = r[j - Len(q)]
      BY <1>1, <1>6, <2>3
    <3>2. QED
      BY Zenon, <1>2, <1>6, <3>1 DEF Range
  <2>4. CASE i > Len(q) /\ j <= Len(q)
    <3>1. j \in 1..Len(q) /\ i - Len(q) \in 1..Len(r) /\ q[j] = r[i - Len(q)]
      BY <1>1, <1>6, <2>4
    <3>2. QED
      BY Zenon, <1>2, <1>6, <3>1 DEF Range
  <2>5. QED
    BY <1>1, <2>1, <2>2, <2>3, <2>4
<1>7. QED
  BY Zenon, <1>1, <1>3, <1>4, <1>5, <1>6 DEF Injective
-----------------------------------------------------------------------------
(* The steps, grouped by what they do.                                     *)

\* The steps of a restart, of signal_task and of the link, but for the drain.
Engine ==
    \/ RestartBegins \/ RestartCloses \/ RestartClosed \/ RestartJoins \/ RestartGates
    \/ RestartWants \/ RestartLocks \/ RestartConnects \/ RestartFails \/ SetReconnected
    \/ ResumeAbandoned

LEMMA PointNames ==
  /\ {"idle", "push", "flush", "drain", "draining", "write", "writing", "push_held", "done"}
        = SenderPoints
  /\ {"idle", "close", "closing", "join", "gate", "want", "restart", "connect", "gated", "flush",
      "drain", "draining", "abandoned"} = EnginePoints
  BY Zenon DEF SenderPoints, EnginePoints

LEMMA ProcNames == 0 \in Procs /\ Signals \subseteq Procs /\ 0 \notin Signals
                   /\ Free \notin Procs /\ Procs = {0} \cup Signals
  BY SignalAssumption DEF Procs, Signals, Free

\* A process p moves from one point to another.
LEMMA GotoTypes ==
  ASSUME TypeOK, LocksInv, NEW p \in Procs, NEW to, Goto(p, to),
         to \in IF p = 0 THEN EnginePoints ELSE SenderPoints
  PROVE  /\ pc' \in [Procs -> SenderPoints \cup EnginePoints]
         /\ \A q \in Procs : pc'[q] \in IF q = 0 THEN EnginePoints ELSE SenderPoints
         /\ \A q \in Procs : pc'[q] = IF q = p THEN to ELSE pc[q]
  BY Zenon DEF TypeOK, LocksInv, Goto

LEMMA AfterFlushPoint ==
  ASSUME NEW p \in Procs
  PROVE  /\ AfterFlush(p) \in IF p = 0 THEN EnginePoints ELSE SenderPoints
         /\ AfterFlush(p) \in {"idle", "write"} /\ (p \in Signals => AfterFlush(p) = "write")
  BY Zenon, PointNames, ProcNames DEF AfterFlush

\* flush_queue(): types and locks.
LEMMA FlushLocksInv ==
  ASSUME TypeOK, LocksInv, NEW p \in Procs, Flush(p)
  PROVE  TypeOK' /\ LocksInv'
<1>1. CASE FlushLocks(p)
  <2>1. \E to \in {"drain", AfterFlush(p)} : Goto(p, to)
    BY Zenon, <1>1 DEF FlushLocks
  <2>2. PICK to \in {"drain", AfterFlush(p)} : Goto(p, to)
    BY Zenon, <2>1
  <2>3. /\ pc' \in [Procs -> SenderPoints \cup EnginePoints]
        /\ \A q \in Procs : pc'[q] \in IF q = 0 THEN EnginePoints ELSE SenderPoints
    BY Zenon, <2>2, GotoTypes, AfterFlushPoint, PointNames
  <2>4. TypeOK'
    BY Zenon, <1>1, <2>3, ProcNames DEF FlushLocks, TypeOK
  <2>5. QED
    BY <1>1, <2>3, <2>4, AfterFlushPoint, ProcNames DEF FlushLocks, TypeOK, LocksInv, Goto
<1>2. CASE FlushReads(p)
  <2>1. PICK to \in {"draining", AfterFlush(p)} : Goto(p, to)
    BY Zenon, <1>2 DEF FlushReads
  <2>3. /\ pc' \in [Procs -> SenderPoints \cup EnginePoints]
        /\ \A q \in Procs : pc'[q] \in IF q = 0 THEN EnginePoints ELSE SenderPoints
    BY Zenon, <2>1, GotoTypes, AfterFlushPoint, PointNames
  <2>4. TypeOK'
    BY Zenon, <1>2, <2>3, ProcNames DEF FlushReads, TypeOK
  <2>5. QED
    BY <1>2, <2>3, <2>4, AfterFlushPoint, ProcNames DEF FlushReads, CanRead, TypeOK, LocksInv, Goto
<1>3. CASE FlushSends(p)
  <2>1. Head(queue) \in Signals /\ Tail(queue) \in Seq(Signals)
    BY Zenon, <1>3, TailFacts DEF FlushSends, TypeOK
  <2>2. Append(delivered, Head(queue)) \in Seq(Signals)
    BY Zenon, <2>1, AppendFacts DEF TypeOK
  <2>3. TypeOK'
    BY Zenon, <1>3, <2>1, <2>2 DEF FlushSends, TypeOK, locks
  <2>4. QED
    BY Zenon, <1>3, <2>3 DEF FlushSends, LocksInv, locks
<1>4. CASE FlushEnds(p)
  <2>1. /\ pc' \in [Procs -> SenderPoints \cup EnginePoints]
        /\ \A q \in Procs : pc'[q] \in IF q = 0 THEN EnginePoints ELSE SenderPoints
    BY Zenon, <1>4, GotoTypes, AfterFlushPoint DEF FlushEnds
  <2>2. TypeOK'
    BY Zenon, <1>4, <2>1 DEF FlushEnds, TypeOK
  <2>3. QED
    BY <1>4, <2>1, <2>2, AfterFlushPoint, ProcNames DEF FlushEnds, TypeOK, LocksInv, Goto
<1>5. QED
  BY Zenon, <1>1, <1>2, <1>3, <1>4 DEF Flush

\* send(m): types and locks.
LEMMA SendLocksInv ==
  ASSUME TypeOK, LocksInv, PushInv, NEW m \in Signals,
         SendBegins(m) \/ SendQueues(m) \/ SendReads(m) \/ SendWrites(m) \/ SendFails(m)
            \/ SendRequeues(m)
  PROVE  TypeOK' /\ LocksInv'
<1>1. m \in Procs /\ m # 0
  BY Zenon, ProcNames
<1>2. PICK to \in SenderPoints :
        /\ Goto(m, to) /\ to \notin {"drain", "draining"} /\ pc[m] \notin {"drain", "draining"}
  BY Zenon, PointNames
  DEF SendBegins, SendQueues, SendReads, SendWrites, SendFails, SendRequeues
<1>3. /\ pc' \in [Procs -> SenderPoints \cup EnginePoints]
      /\ \A q \in Procs : pc'[q] \in IF q = 0 THEN EnginePoints ELSE SenderPoints
      /\ \A q \in Procs : pc'[q] = IF q = m THEN to ELSE pc[q]
  BY Zenon, <1>1, <1>2, GotoTypes
<1>4. Append(queue, m) \in Seq(Signals) /\ Append(delivered, m) \in Seq(Signals)
  BY Zenon, AppendFacts DEF TypeOK
<1>5. CASE SendBegins(m)
  <2>1. TypeOK'
    BY Zenon, <1>3, <1>5 DEF SendBegins, TypeOK, locks
  <2>2. to \notin {"draining", "writing", "push_held"}
    BY Zenon, <1>1, <1>3, <1>5 DEF SendBegins, Goto, LocksInv
  <2>3. QED
    BY Zenon, <1>2, <1>3, <1>5, <2>1, <2>2 DEF SendBegins, LocksInv, locks
<1>6. CASE SendQueues(m)
  <2>1. TypeOK'
    BY Zenon, <1>3, <1>4, <1>6 DEF SendQueues, TypeOK, locks
  <2>2. to = "done"
    BY Zenon, <1>1, <1>3, <1>6 DEF SendQueues, Goto, LocksInv
  <2>3. QED
    BY Zenon, <1>2, <1>3, <1>6, <2>1, <2>2 DEF SendQueues, LocksInv, locks
<1>7. CASE SendReads(m)
  <2>1. TypeOK'
    BY Zenon, <1>1, <1>3, <1>7 DEF SendReads, TypeOK
  <2>2. QED
    BY Zenon, <1>1, <1>2, <1>3, <1>7, <2>1 DEF SendReads, CanRead, LocksInv
<1>8. CASE SendWrites(m)
  <2>0. silent' \in Nat
    BY <1>8 DEF SendWrites, TypeOK
  <2>1. TypeOK'
    BY Zenon, <1>3, <1>4, <1>8, <2>0 DEF SendWrites, TypeOK
  <2>2. to = "done" /\ stream' # "none" /\ readers' = readers \ {m}
    BY Zenon, <1>1, <1>3, <1>8 DEF SendWrites, Goto, LocksInv
  <2>3. QED
    BY Zenon, <1>1, <1>2, <1>3, <1>8, <2>1, <2>2 DEF SendWrites, LocksInv
<1>9. CASE SendFails(m)
  <2>1. TypeOK'
    BY Zenon, <1>3, <1>9 DEF SendFails, TypeOK
  <2>2. \/ to = "push_held" /\ readers' = readers
        \/ to = "done" /\ readers' = readers \ {m}
    BY Zenon, <1>1, <1>3, <1>9 DEF SendFails, Goto, LocksInv
  <2>3. QED
    BY Zenon, <1>1, <1>2, <1>3, <1>9, <2>1, <2>2 DEF SendFails, LocksInv
<1>10. CASE SendRequeues(m)
  <2>1. TypeOK'
    BY Zenon, <1>3, <1>4, <1>10 DEF SendRequeues, TypeOK
  <2>2. to = "done"
    BY Zenon, <1>1, <1>3, <1>10 DEF SendRequeues, Goto, LocksInv
  <2>3. QED
    BY Zenon, <1>1, <1>2, <1>3, <1>10, <2>1, <2>2 DEF SendRequeues, LocksInv
<1>11. QED
  BY Zenon, <1>5, <1>6, <1>7, <1>8, <1>9, <1>10

\* A restart takes the stream away only when nobody reads.
LEMMA EngineLocksInv ==
  ASSUME TypeOK, LocksInv, Engine
  PROVE  TypeOK' /\ LocksInv'
<1>1. PICK to \in EnginePoints :
        /\ Goto(0, to) /\ to \notin {"drain", "draining"} /\ pc[0] \notin {"drain", "draining"}
  BY Zenon, PointNames
  DEF Engine, RestartBegins, RestartCloses, RestartClosed, RestartJoins, RestartGates, RestartWants,
      RestartLocks, RestartConnects, RestartFails, SetReconnected, ResumeAbandoned
<1>2. /\ pc' \in [Procs -> SenderPoints \cup EnginePoints]
      /\ \A q \in Procs : pc'[q] \in IF q = 0 THEN EnginePoints ELSE SenderPoints
      /\ \A q \in Procs : pc'[q] = IF q = 0 THEN to ELSE pc[q]
  BY Zenon, <1>1, ProcNames, GotoTypes
<1>3. "engine" \in Writers
  BY Zenon DEF Writers
<1>4. to \notin {"writing", "push_held"}
  BY Zenon, <1>1, PointNames
<1>5. CASE RestartBegins \/ RestartWants
  <2>1. TypeOK'
    BY <1>2, <1>3, <1>5, SignalAssumption DEF RestartBegins, RestartWants, TypeOK
  <2>2. QED
    BY <1>1, <1>2, <1>4, <1>5, <2>1 DEF RestartBegins, RestartWants, LocksInv
<1>6. CASE RestartCloses \/ RestartLocks
  <2>1. TypeOK'
    BY Zenon, <1>2, <1>6 DEF RestartCloses, RestartLocks, TypeOK
  <2>2. readers = {} /\ readers' = {} /\ qlock' = qlock
    BY Zenon, <1>6 DEF RestartCloses, RestartLocks, CanWrite
  <2>3. QED
    BY Zenon, <1>1, <1>2, <1>4, <2>1, <2>2 DEF LocksInv
<1>7. CASE RestartJoins \/ RestartGates \/ SetReconnected \/ ResumeAbandoned
  <2>1. TypeOK'
    BY Zenon, <1>2, <1>7 DEF RestartJoins, RestartGates, SetReconnected, ResumeAbandoned, TypeOK,
        locks
  <2>2. UNCHANGED <<stream, locks>>
    BY Zenon, <1>7 DEF RestartJoins, RestartGates, SetReconnected, ResumeAbandoned
  <2>3. QED
    BY Zenon, <1>1, <1>2, <1>4, <2>1, <2>2 DEF LocksInv, locks
<1>8. CASE RestartConnects \/ RestartFails \/ RestartClosed
  <2>1. TypeOK'
    BY Zenon, <1>2, <1>8 DEF RestartConnects, RestartFails, RestartClosed, TypeOK
  <2>2. ~whold' /\ UNCHANGED <<readers, qlock>> /\ stream' \in {stream, "up"}
    BY Zenon, <1>8 DEF RestartConnects, RestartFails, RestartClosed
  <2>3. QED
    BY Zenon, <1>1, <1>2, <1>4, <2>1, <2>2 DEF LocksInv
<1>9. QED
  BY Zenon, <1>5, <1>6, <1>7, <1>8 DEF Engine

\* The steps of signal_task and of the link.
Task == TaskNotices \/ TaskTimesOut \/ TaskCloses \/ TaskClosed \/ LinkBreaks

LEMMA TaskLocksInv ==
  ASSUME TypeOK, LocksInv, Task
  PROVE  TypeOK' /\ LocksInv'
<1>1. "signal_task" \in Writers
  BY Zenon DEF Writers
<1>2. CASE TaskNotices \/ TaskTimesOut
  <2>1. TaskWants
    BY Zenon, <1>2 DEF TaskNotices, TaskTimesOut
  <2>2. TypeOK'
    BY Zenon, <1>1, <2>1 DEF TaskWants, TypeOK
  <2>3. QED
    BY Zenon, <2>1, <2>2 DEF TaskWants, LocksInv
<1>3. CASE TaskCloses
  <2>1. TypeOK'
    BY Zenon, <1>3 DEF TaskCloses, TypeOK
  <2>2. QED
    BY Zenon, <1>3, <2>1 DEF TaskCloses, CanWrite, LocksInv
<1>4. CASE TaskClosed
  <2>1. TypeOK'
    BY Zenon, <1>4 DEF TaskClosed, TypeOK
  <2>2. QED
    BY Zenon, <1>4, <2>1 DEF TaskClosed, LocksInv
<1>5. CASE LinkBreaks
  <2>1. breaks' \in Nat
    BY <1>5 DEF LinkBreaks, TypeOK
  <2>2. TypeOK'
    BY Zenon, <1>5, <2>1 DEF LinkBreaks, TypeOK, locks
  <2>3. QED
    BY Zenon, <1>5, <2>2 DEF LinkBreaks, LocksInv, locks
<1>6. QED
  BY Zenon, <1>2, <1>3, <1>4, <1>5 DEF Task

LEMMA SilentStep ==
  ASSUME TypeOK, SilentInv, [Next]_vars
  PROVE  SilentInv'
<1>1. breaks \in Nat /\ silent \in Nat
  BY Zenon DEF TypeOK
<1>2. \/ UNCHANGED <<breaks, silent>> /\ (stream' = "failing" => stream = "failing")
      \/ breaks' = breaks + 1 /\ silent' = silent
      \/ /\ stream = "failing" /\ stream' = "ended"
         /\ silent' = silent + 1 /\ breaks' = breaks
  <2>1. ASSUME NEW p \in Procs, Flush(p)
        PROVE  UNCHANGED <<breaks, silent>> /\ (stream' = "failing" => stream = "failing")
    BY Zenon, <2>1 DEF Flush, FlushLocks, FlushReads, FlushSends, FlushEnds
  <2>2. ASSUME NEW m \in Signals,
               SendBegins(m) \/ SendQueues(m) \/ SendReads(m) \/ SendFails(m)
                  \/ SendRequeues(m)
        PROVE  UNCHANGED <<breaks, silent, stream>>
    BY Zenon, <2>2 DEF SendBegins, SendQueues, SendReads, SendFails, SendRequeues
  <2>3. ASSUME NEW m \in Signals, SendWrites(m)
        PROVE  \/ UNCHANGED <<breaks, silent, stream>>
               \/ /\ stream = "failing" /\ stream' = "ended"
                  /\ silent' = silent + 1 /\ breaks' = breaks
    BY Zenon, <2>3 DEF SendWrites
  <2>4. CASE Engine
    BY Zenon, <2>4
    DEF Engine, RestartBegins, RestartCloses, RestartClosed, RestartJoins, RestartGates,
        RestartWants, RestartLocks, RestartConnects, RestartFails, SetReconnected,
        ResumeAbandoned
  <2>5. CASE Task
    BY Zenon, <2>5 DEF Task, TaskNotices, TaskTimesOut, TaskWants, TaskCloses, TaskClosed,
        LinkBreaks
  <2>6. QED
    BY Zenon, <2>1, <2>2, <2>3, <2>4, <2>5, ProcNames
    DEF Next, Send, Resume, SignalTask, Engine, Task, vars
<1>3. QED
  BY <1>1, <1>2 DEF SilentInv

-----------------------------------------------------------------------------
(* The signals.                                                            *)

\* A step that neither queues nor writes a signal, and neither ends nor
\* begins a send(), accounts for nothing new.
LEMMA AccountKept ==
  ASSUME AccountInv, UNCHANGED <<delivered, queue, lost>>,
         \A m \in Signals : pc'[m] = "done" <=> pc[m] = "done"
  PROVE  AccountInv'
  BY ZenonT(40) DEF AccountInv, Injective

\* The books after one signal m, in no place before, got into one.
LEMMA AccountAdds ==
  ASSUME AccountInv, NEW m \in Signals, pc[m] # "done",
         \A n \in Signals : pc'[n] = IF n = m THEN "done" ELSE pc[n],
         Injective(delivered'), Injective(queue'),
         \/ /\ Range(delivered') = Range(delivered) \cup {m}
            /\ Range(queue') = Range(queue) /\ lost' = lost
         \/ /\ Range(queue') = Range(queue) \cup {m}
            /\ Range(delivered') = Range(delivered) /\ lost' = lost
         \/ /\ lost' = lost \cup {m}
            /\ Range(delivered') = Range(delivered) /\ Range(queue') = Range(queue)
  PROVE  AccountInv'
<1>1. m \notin Range(delivered) \cup Range(queue) \cup lost
  BY Zenon DEF AccountInv
<1>2. /\ Range(delivered') \cap Range(queue') = {}
      /\ (Range(delivered') \cup Range(queue')) \cap lost' = {}
  BY <1>1 DEF AccountInv
<1>3. Range(delivered') \cup Range(queue') \cup lost'
        = Range(delivered) \cup Range(queue) \cup lost \cup {m}
  BY Zenon
<1>4. \A n \in Signals : pc'[n] = "done" <=> n \in Range(delivered') \cup Range(queue') \cup lost'
  BY Zenon, <1>3 DEF AccountInv
<1>5. QED
  BY Zenon, <1>2, <1>4 DEF AccountInv

LEMMA PushKept ==
  ASSUME PushInv, UNCHANGED queue,
         \A m \in Signals : pc'[m] \in {"push", "push_held"} =>
                                pc[m] \in {"push", "push_held"} \/ m \notin PassThrough
  PROVE  PushInv'
  BY Zenon DEF PushInv, PassThroughNeverQueued

LEMMA FlushAccounts ==
  ASSUME SignalInv, NEW p \in Procs, Flush(p)
  PROVE  PushInv' /\ AccountInv'
<1> USE DEF SignalInv
<1>1. CASE FlushLocks(p) \/ FlushReads(p) \/ FlushEnds(p)
  <2>1. PICK to \in {"drain", "draining", "idle", "write"} : pc' = [pc EXCEPT ![p] = to]
    BY Zenon, <1>1, AfterFlushPoint DEF FlushLocks, FlushReads, FlushEnds, Goto
  <2>2. pc[p] # "done" /\ UNCHANGED <<delivered, queue, lost>>
    BY Zenon, <1>1 DEF FlushLocks, FlushReads, FlushEnds
  <2>3. \A m \in Signals : pc'[m] = IF m = p THEN to ELSE pc[m]
    BY Zenon, <2>1, ProcNames DEF LocksInv
  <2>4. QED
    BY Zenon, <2>2, <2>3, AccountKept, PushKept
<1>2. CASE FlushSends(p)
  <2>1. /\ pc' = pc /\ queue' = Tail(queue) /\ queue # <<>>
        /\ \/ delivered' = Append(delivered, Head(queue)) /\ lost' = lost
           \/ delivered' = delivered /\ lost' = lost \cup {Head(queue)}
    BY Zenon, <1>2 DEF FlushSends
  <2>2. /\ queue \in Seq(Signals) /\ delivered \in Seq(Signals)
        /\ Injective(queue) /\ Injective(delivered)
        /\ Range(delivered) \cap Range(queue) = {}
        /\ (Range(delivered) \cup Range(queue)) \cap lost = {}
    BY Zenon DEF TypeOK, AccountInv
  <2>3. /\ Head(queue) \in Signals /\ Range(queue) = Range(Tail(queue)) \cup {Head(queue)}
        /\ Injective(Tail(queue)) /\ Head(queue) \notin Range(Tail(queue))
    BY Zenon, <2>1, <2>2, TailFacts
  <2>4. /\ Range(Append(delivered, Head(queue))) = Range(delivered) \cup {Head(queue)}
        /\ Injective(Append(delivered, Head(queue)))
    BY <2>2, <2>3, AppendFacts
  <2>5. PushInv'
    BY Zenon, <2>1, <2>3 DEF PushInv, PassThroughNeverQueued
  <2>6. CASE delivered' = Append(delivered, Head(queue)) /\ lost' = lost
    <3>1. /\ Injective(delivered)' /\ Injective(queue)'
          /\ Range(delivered') \cap Range(queue') = {}
          /\ (Range(delivered') \cup Range(queue')) \cap lost' = {}
          /\ Range(delivered') \cup Range(queue') \cup lost'
                = Range(delivered) \cup Range(queue) \cup lost
      BY <2>1, <2>2, <2>3, <2>4, <2>6 DEF Injective
    <3>2. QED
      BY Zenon, <2>1, <2>5, <3>1 DEF AccountInv
  <2>7. CASE delivered' = delivered /\ lost' = lost \cup {Head(queue)}
    <3>1. /\ Injective(delivered)' /\ Injective(queue)'
          /\ Range(delivered') \cap Range(queue') = {}
          /\ (Range(delivered') \cup Range(queue')) \cap lost' = {}
          /\ Range(delivered') \cup Range(queue') \cup lost'
                = Range(delivered) \cup Range(queue) \cup lost
      BY ZenonT(40), <2>1, <2>2, <2>3, <2>7 DEF Injective
    <3>2. QED
      BY Zenon, <2>1, <2>5, <3>1 DEF AccountInv
  <2>8. QED
    BY Zenon, <2>1, <2>6, <2>7
<1>3. QED
  BY Zenon, <1>1, <1>2 DEF Flush

\* A send() that ends puts its signal into exactly one place.
LEMMA SendAccounts ==
  ASSUME SignalInv, NEW m \in Signals,
         SendBegins(m) \/ SendQueues(m) \/ SendReads(m) \/ SendWrites(m) \/ SendFails(m)
            \/ SendRequeues(m)
  PROVE  PushInv' /\ AccountInv'
<1> USE DEF SignalInv
<1>1. PICK to \in SenderPoints : pc' = [pc EXCEPT ![m] = to]
  BY Zenon, PointNames
  DEF SendBegins, SendQueues, SendReads, SendWrites, SendFails, SendRequeues, Goto
<1>2. \A n \in Signals : pc'[n] = IF n = m THEN to ELSE pc[n]
  BY Zenon, <1>1, ProcNames DEF LocksInv
<1>3. pc[m] # "done"
  BY Zenon DEF SendBegins, SendQueues, SendReads, SendWrites, SendFails, SendRequeues
<1>4. /\ m \notin Range(delivered) /\ m \notin Range(queue) /\ m \notin lost
      /\ queue \in Seq(Signals) /\ delivered \in Seq(Signals)
      /\ Injective(queue) /\ Injective(delivered)
  BY Zenon, <1>3 DEF AccountInv, TypeOK
<1>5. /\ Range(Append(queue, m)) = Range(queue) \cup {m} /\ Injective(Append(queue, m))
      /\ Range(Append(delivered, m)) = Range(delivered) \cup {m}
      /\ Injective(Append(delivered, m))
  BY <1>4, AppendFacts
<1>6. CASE SendBegins(m)
  <2>1. to = "push" => m \notin PassThrough
    BY Zenon, <1>2, <1>6, ProcNames DEF SendBegins, Goto, LocksInv
  <2>2. to # "done" /\ to # "push_held"
    BY Zenon, <1>2, <1>6, ProcNames DEF SendBegins, Goto, LocksInv
  <2>3. UNCHANGED <<delivered, queue, lost>>
    BY Zenon, <1>6 DEF SendBegins
  <2>4. QED
    BY Zenon, <1>2, <1>3, <2>1, <2>2, <2>3, AccountKept, PushKept
<1>7. CASE SendQueues(m) \/ SendRequeues(m)
  <2>1. queue' = Append(queue, m) /\ UNCHANGED <<delivered, lost>>
    BY Zenon, <1>7 DEF SendQueues, SendRequeues
  <2>2. to = "done"
    BY Zenon, <1>1, <1>2, <1>7, ProcNames DEF SendQueues, SendRequeues, Goto, LocksInv
  <2>3. m \notin PassThrough
    BY Zenon, <1>7 DEF SendQueues, SendRequeues, PushInv
  <2>4. PushInv'
    BY Zenon, <1>2, <1>5, <2>1, <2>2, <2>3 DEF PushInv, PassThroughNeverQueued
  <2>5. QED
    BY Zenon, <1>2, <1>3, <1>4, <1>5, <2>1, <2>2, <2>4, AccountAdds
<1>8. CASE SendReads(m)
  <2>1. to = "writing" /\ UNCHANGED <<delivered, queue, lost>>
    BY Zenon, <1>2, <1>8, ProcNames DEF SendReads, Goto, LocksInv
  <2>2. QED
    BY Zenon, <1>2, <1>3, <2>1, AccountKept, PushKept
<1>9. CASE SendWrites(m)
  <2>1. /\ to = "done" /\ UNCHANGED queue
        /\ \/ delivered' = Append(delivered, m) /\ UNCHANGED lost
           \/ delivered' = delivered /\ lost' = lost \cup {m}
    BY Zenon, <1>2, <1>9, ProcNames DEF SendWrites, Goto, LocksInv
  <2>2. PushInv'
    BY Zenon, <1>2, <2>1, PushKept
  <2>3. CASE delivered' = Append(delivered, m) /\ UNCHANGED lost
    BY Zenon, <1>2, <1>3, <1>4, <1>5, <2>1, <2>2, <2>3, AccountAdds
  <2>4. CASE delivered' = delivered /\ lost' = lost \cup {m}
    BY Zenon, <1>2, <1>3, <1>4, <2>1, <2>2, <2>4, AccountAdds
  <2>5. QED
    BY Zenon, <2>1, <2>3, <2>4
<1>10. CASE SendFails(m)
  <2>1. /\ UNCHANGED <<queue, delivered>>
        /\ \/ to = "push_held" /\ m \notin PassThrough /\ UNCHANGED lost
           \/ to = "done" /\ lost' = lost \cup {m}
    BY Zenon, <1>2, <1>10, ProcNames DEF SendFails, Queueable, Goto, LocksInv
  <2>2. PushInv'
    BY Zenon, <1>2, <2>1, PushKept
  <2>3. CASE to = "push_held"
    BY Zenon, <1>2, <1>3, <2>1, <2>2, <2>3, AccountKept
  <2>4. CASE to = "done"
    BY Zenon, <1>2, <1>3, <1>4, <2>1, <2>2, <2>4, AccountAdds
  <2>5. QED
    BY Zenon, <2>1, <2>3, <2>4
<1>11. QED
  BY Zenon, <1>6, <1>7, <1>8, <1>9, <1>10

-----------------------------------------------------------------------------
(* The theorems.                                                           *)

LEMMA SignalInit == Init => SignalInv
<1> SUFFICES ASSUME Init PROVE SignalInv
  BY Zenon
<1>1. TypeOK /\ LocksInv
  <2>1. "idle" \in SenderPoints /\ "idle" \in EnginePoints
    BY Zenon, PointNames
  <2>2. \A p \in Procs : pc[p] = "idle" /\ qlock # p
    BY Zenon, ProcNames DEF Init
  <2>3. LocksInv
    BY Zenon, <2>1, <2>2 DEF Init, LocksInv
  <2>4. /\ restarts \in 0 .. MaxRestarts /\ breaks \in Nat /\ silent \in Nat
        /\ queue \in Seq(Signals) /\ delivered \in Seq(Signals)
    BY SignalAssumption DEF Init
  <2>5. TypeOK
    BY Zenon, <2>1, <2>2, <2>4 DEF Init, TypeOK
  <2>6. QED
    BY Zenon, <2>3, <2>5
<1>2. Range(<<>>) = {}
  BY DEF Range
<1>3. PushInv /\ AccountInv
  BY <1>2, ProcNames DEF Init, PushInv, PassThroughNeverQueued, AccountInv, Injective
<1>4. SilentInv
  BY DEF Init, SilentInv
<1>5. QED
  BY Zenon, <1>1, <1>3, <1>4 DEF SignalInv

LEMMA SignalStep == SignalInv /\ [Next]_vars => SignalInv'
<1> SUFFICES ASSUME SignalInv, [Next]_vars PROVE SignalInv'
  BY Zenon
<1>0. SilentInv'
  BY Zenon, SilentStep DEF SignalInv
<1>1. CASE \E p \in Procs : Flush(p)
  BY Zenon, <1>0, <1>1, FlushLocksInv, FlushAccounts DEF SignalInv
<1>2. ASSUME NEW m \in Signals,
             SendBegins(m) \/ SendQueues(m) \/ SendReads(m) \/ SendWrites(m) \/ SendFails(m)
                \/ SendRequeues(m)
      PROVE  SignalInv'
  BY Zenon, <1>0, <1>2, SendLocksInv, SendAccounts DEF SignalInv
<1>3. CASE Engine
  <2>1. TypeOK' /\ LocksInv'
    BY Zenon, <1>3, EngineLocksInv DEF SignalInv
  <2>2. UNCHANGED <<delivered, queue, lost>> /\ \E to : Goto(0, to)
    BY Zenon, <1>3
    DEF Engine, RestartBegins, RestartCloses, RestartClosed, RestartJoins, RestartGates, RestartWants,
        RestartLocks, RestartConnects, RestartFails, SetReconnected, ResumeAbandoned
  <2>3. \A m \in Signals : pc'[m] = pc[m]
    BY Zenon, <2>2, ProcNames DEF Goto, SignalInv, LocksInv
  <2>4. QED
    BY Zenon, <1>0, <2>1, <2>2, <2>3, AccountKept, PushKept DEF SignalInv
<1>4. CASE Task
  <2>1. TypeOK' /\ LocksInv'
    BY Zenon, <1>4, TaskLocksInv DEF SignalInv
  <2>2. UNCHANGED <<delivered, queue, lost, pc>>
    BY Zenon, <1>4 DEF Task, TaskNotices, TaskTimesOut, TaskWants, TaskCloses, TaskClosed,
        LinkBreaks
  <2>3. QED
    BY Zenon, <1>0, <2>1, <2>2, AccountKept, PushKept DEF SignalInv
<1>5. CASE UNCHANGED vars
  <2> USE <1>5 DEF vars
  <2>1. TypeOK' /\ LocksInv'
    BY Zenon DEF SignalInv, TypeOK, LocksInv
  <2>2. QED
    BY Zenon, <1>0, <2>1, AccountKept, PushKept DEF SignalInv
<1>6. QED
  BY Zenon, <1>1, <1>2, <1>3, <1>4, <1>5, ProcNames DEF Next, Send, Resume, SignalTask, Engine, Task

\* SignalInv holds in every reachable state.
THEOREM SignalInvariant == Spec => []SignalInv
  BY SignalInit, SignalStep, PTL DEF Spec

\* The types, with restarts within its bound.
THEOREM SignalTypes == Spec => []TypeOK
<1>1. SignalInv => TypeOK
  BY Zenon DEF SignalInv
<1>2. QED
  BY <1>1, SignalInvariant, PTL

\* flush_queue() never finds the slot emptied under its read guard, and holds
\* the queue mutex as long as it drains.
THEOREM DrainKeepsStream == Spec => []DrainHasStream
<1>1. SignalInv => DrainHasStream
  BY Zenon DEF SignalInv, LocksInv, DrainHasStream
<1>2. QED
  BY <1>1, SignalInvariant, PTL

\* No pass-through signal is ever queued, whatever the gate does meanwhile.
THEOREM PassThroughPasses == Spec => []PassThroughNeverQueued
<1>1. SignalInv => PassThroughNeverQueued
  BY Zenon DEF SignalInv, PushInv
<1>2. QED
  BY <1>1, SignalInvariant, PTL

\* Every signal whose send() returned is in the queue, on the wire or lost,
\* in exactly one of them and once, and at most one for each connection that
\* failed is lost without a line in the log.
THEOREM SignalsAccounted == Spec => []Accounted
<1>1. SignalInv => Accounted
  <2> SUFFICES ASSUME SignalInv PROVE Accounted
    BY Zenon
  <2>1. /\ Range(delivered \o queue) = Range(delivered) \cup Range(queue)
        /\ Injective(delivered \o queue)
    BY ConcatFacts DEF SignalInv, TypeOK, AccountInv
  <2>2. QED
    BY Zenon, <2>1 DEF SignalInv, AccountInv, SilentInv, Accounted, Injective
<1>2. QED
  BY <1>1, SignalInvariant, PTL
=============================================================================
