--------------------------- MODULE ReliableChannel ---------------------------
(***************************************************************************)
(* Reliable data packets: publish_data(), data_channel_task with its queue *)
(* of events, the send and the retry queue, the data channel, the SFU that *)
(* tells on a resume which sequence number it has seen last, and the       *)
(* receiving session with its packet_rx_state.                             *)
(*                                                                         *)
(* A packet is known by its sequence number and counts one unit of         *)
(* buffered_amount.  Lossy packets take the same way without the retry     *)
(* queue, in queues of their own.                                          *)
(***************************************************************************)
EXTENDS Integers, FiniteSets, Sequences, Functions

CONSTANTS MaxPackets,  \* bound: calls of publish_data()
          Threshold,   \* reliable_dc_buffered_amount_low_threshold
          MaxFaults    \* bound: refused packets, resumes, replays, expiries

ASSUME ReliableChannelAssumption ==
    MaxPackets \in Nat /\ Threshold \in Nat /\ MaxFaults \in Nat

Calls == 1..MaxPackets
None == 0

VARIABLES
    call,             \* [Calls -> "new", "waiting", "ok", "error"]
    asked,            \* the calls in the order in which they queued their packet
    dc_events,
    next_packet_sequence,
    sequence_of,      \* [Calls -> sequence number], None before it has one
    reliable_queue, retry_queue, buffered_amount,
    buffer, failed,   \* the data channel: its buffer, what it has refused
    resuming,         \* last_message_seq of the resume under way, or -1
    resumed, faults,
    arrived,          \* packets at the SFU
    link,             \* packets between the SFU and the receiving session
    rx_state, received

task == <<dc_events, next_packet_sequence, sequence_of, reliable_queue, retry_queue,
          buffered_amount, buffer, failed>>
resume == <<resuming, resumed>>
receiver == <<rx_state, received>>
vars == <<call, asked, task, resume, faults, arrived, link, receiver>>

PublishPacket(c, big) == [type |-> "PublishPacket", call |-> c, big |-> big]
PublishData(seq, c) == [type |-> "PublishData", seq |-> seq, call |-> c]
BufferedAmountChange(sent) == [type |-> "BufferedAmountChange", sent |-> sent]
RetryFrom(last) == [type |-> "RetryFrom", last |-> last]

Sequences0 == 0..MaxPackets
Requests == [seq : 1..MaxPackets, call : Calls \cup {None}]
Events == {PublishPacket(c, big) : c \in Calls, big \in BOOLEAN}
    \cup {PublishData(seq, c) : seq \in 1..MaxPackets, c \in Calls \cup {None}}
    \cup {BufferedAmountChange(1)} \cup {RetryFrom(last) : last \in Sequences0}

\* The types of the sender's and the receiver's state.
TypeOK ==
    /\ call \in [Calls -> {"new", "waiting", "ok", "error"}] /\ asked \in Seq(Calls)
    /\ dc_events \in Seq(Events)
    /\ next_packet_sequence \in 1..MaxPackets + 1
    /\ sequence_of \in [Calls -> Sequences0]
    /\ reliable_queue \in Seq(Requests)
    /\ retry_queue \in Seq(1..MaxPackets)
    /\ buffered_amount \in Nat /\ failed \in Nat
    /\ buffer \in Seq(1..MaxPackets) /\ arrived \in Seq(1..MaxPackets)
    /\ resuming \in Sequences0 \cup {-1} /\ resumed \in BOOLEAN
    /\ faults \in 0..MaxFaults
    /\ link \in Seq(1..MaxPackets) /\ received \in Seq(1..MaxPackets)
    /\ rx_state \in Sequences0

Init ==
    /\ call = [c \in Calls |-> "new"] /\ asked = <<>>
    /\ dc_events = <<>> /\ next_packet_sequence = 1
    /\ sequence_of = [c \in Calls |-> None]
    /\ reliable_queue = <<>> /\ retry_queue = <<>> /\ buffered_amount = 0
    /\ buffer = <<>> /\ failed = 0 /\ resuming = -1 /\ resumed = FALSE /\ faults = 0
    /\ arrived = <<>> /\ link = <<>> /\ rx_state = 0 /\ received = <<>>

Fault == faults < MaxFaults /\ faults' = faults + 1

----------------------------------------------------------------------------
(* publish_data(): queues the packet and awaits its completion.            *)

Publish(c, big) ==
    /\ call[c] = "new"
    /\ call' = [call EXCEPT ![c] = "waiting"] /\ asked' = Append(asked, c)
    /\ dc_events' = Append(dc_events, PublishPacket(c, big))
    /\ UNCHANGED <<next_packet_sequence, sequence_of, reliable_queue, retry_queue,
                   buffered_amount, buffer, failed, resume, faults, arrived, link, receiver>>

----------------------------------------------------------------------------
(* data_channel_task.                                                      *)

Take(type) == dc_events # <<>> /\ Head(dc_events).type = type

\* The number is used up even if the packet is too large for the channel.
OnPublishPacket ==
    LET c == Head(dc_events).call
    IN  /\ Take("PublishPacket")
        /\ next_packet_sequence' = next_packet_sequence + 1
        /\ sequence_of' = [sequence_of EXCEPT ![c] = next_packet_sequence]
        /\ IF Head(dc_events).big
             THEN call' = [call EXCEPT ![c] = "error"] /\ dc_events' = Tail(dc_events)
             ELSE /\ dc_events' = Append(Tail(dc_events), PublishData(next_packet_sequence, c))
                  /\ UNCHANGED call
        /\ UNCHANGED <<asked, reliable_queue, retry_queue, buffered_amount, buffer, failed,
                       resume, faults, arrived, link, receiver>>

\* TxQueue::trim, then the newest `size` packets are left.
Trim(q, size) == IF Len(q) > size THEN SubSeq(q, Len(q) - size + 1, Len(q)) ELSE q

\* _send_until_threshold, and what its caller trims the retry queue to; `taken`
\* says whether the channel takes the packets.
SendUntilThreshold(queue, buffered, size, taken) ==
    LET room == IF buffered <= Threshold THEN Threshold + 1 - buffered ELSE 0
        n == IF Len(queue) < room THEN Len(queue) ELSE room
        sent == [i \in 1..n |-> queue[i].seq]
        done == {queue[i].call : i \in 1..n}
    IN  /\ reliable_queue' = SubSeq(queue, n + 1, Len(queue))
        /\ buffered_amount' = buffered + n
        /\ retry_queue' = Trim(retry_queue \o sent, size)
        /\ call' = [c \in Calls |-> IF c \in done THEN (IF taken THEN "ok" ELSE "error")
                                    ELSE call[c]]
        /\ IF taken THEN buffer' = buffer \o sent /\ UNCHANGED <<failed, faults>>
           ELSE n > 0 /\ Fault /\ failed' = failed + n /\ UNCHANGED buffer

All == Len(retry_queue) + Len(reliable_queue) + 1

\* Mutant: a request goes to the front of the queue.
PublishDataFirst(taken) ==
    /\ Take("PublishData") /\ dc_events' = Tail(dc_events)
    /\ SendUntilThreshold(<<[seq |-> Head(dc_events).seq, call |-> Head(dc_events).call]>>
                             \o reliable_queue, buffered_amount, All, taken)
    /\ UNCHANGED <<asked, next_packet_sequence, sequence_of, resume, arrived, link, receiver>>

OnPublishData(taken) ==
    /\ Take("PublishData") /\ dc_events' = Tail(dc_events)
    /\ SendUntilThreshold(Append(reliable_queue, [seq |-> Head(dc_events).seq,
                                                  call |-> Head(dc_events).call]),
                          buffered_amount, All, taken)
    /\ UNCHANGED <<asked, next_packet_sequence, sequence_of, resume, arrived, link, receiver>>

\* Mutant: nothing more is sent.
ChangeSendsNothing(taken) ==
    /\ Take("BufferedAmountChange") /\ dc_events' = Tail(dc_events) /\ taken
    /\ buffered_amount' = buffered_amount - Head(dc_events).sent
    /\ UNCHANGED <<call, asked, next_packet_sequence, sequence_of, reliable_queue, retry_queue,
                   buffer, failed, faults, resume, arrived, link, receiver>>

\* The retry queue is trimmed to as much as was sent.
OnBufferedAmountChange(taken) ==
    LET sent == Head(dc_events).sent
    IN  /\ Take("BufferedAmountChange") /\ dc_events' = Tail(dc_events)
        /\ SendUntilThreshold(reliable_queue,
                              IF buffered_amount < sent THEN 0 ELSE buffered_amount - sent,
                              sent, taken)
        /\ UNCHANGED <<asked, next_packet_sequence, sequence_of, resume, arrived, link,
                       receiver>>

\* The places in S from the first to the last: a loop that skips the others.
InOrder(S) ==
    {at \in [1..Cardinality(S) -> S] :
        \A i, j \in 1..Cardinality(S) : i < j => at[i] < at[j]}
After(q, seq) == {i \in DOMAIN q : q[i] > seq}

\* _enqueue_for_retry_from: the later ones go to the end of dc_events.
OnRetryFrom ==
    LET last == Head(dc_events).last
    IN  /\ Take("RetryFrom")
        /\ \E at \in InOrder(After(retry_queue, last)) :
              dc_events' = Tail(dc_events)
                             \o [i \in DOMAIN at |-> PublishData(retry_queue[at[i]], None)]
        /\ retry_queue' = <<>>
        /\ UNCHANGED <<call, asked, next_packet_sequence, sequence_of, reliable_queue,
                       buffered_amount, buffer, failed, resume, faults, arrived, link, receiver>>

----------------------------------------------------------------------------
(* The data channel and the SFU.                                           *)

\* The largest number in q.
Latest(q) == {seq \in {0} \cup Range(q) : \A i \in DOMAIN q : q[i] <= seq}

\* A packet leaves the channel, reaches the SFU and is forwarded.
ChannelSends ==
    /\ buffer # <<>> /\ buffer' = Tail(buffer)
    /\ arrived' = Append(arrived, Head(buffer)) /\ link' = Append(link, Head(buffer))
    /\ dc_events' = Append(dc_events, BufferedAmountChange(1))
    /\ UNCHANGED <<call, asked, next_packet_sequence, sequence_of, reliable_queue, retry_queue,
                   buffered_amount, failed, resume, faults, receiver>>

\* The link is lost and with it what the channel has handed to it: the packet at
\* the head of the buffer is reported as sent and does not arrive.
LosePacket ==
    /\ buffer # <<>> /\ buffer' = Tail(buffer) /\ Fault
    /\ dc_events' = Append(dc_events, BufferedAmountChange(1))
    /\ UNCHANGED <<call, asked, next_packet_sequence, sequence_of, reliable_queue, retry_queue,
                   buffered_amount, failed, resume, arrived, link, receiver>>

\* restart(): the signal connection resumes and the SFU says what it has.
ReconnectResponse ==
    /\ resuming = -1 /\ Fault
    /\ resuming' \in Latest(arrived)
    /\ UNCHANGED <<call, asked, task, resumed, arrived, link, receiver>>
Restarted ==
    /\ resuming # -1
    /\ dc_events' = Append(dc_events, RetryFrom(resuming))
    /\ resuming' = -1 /\ resumed' = TRUE
    /\ UNCHANGED <<call, asked, next_packet_sequence, sequence_of, reliable_queue, retry_queue,
                   buffered_amount, buffer, failed, faults, arrived, link, receiver>>

----------------------------------------------------------------------------
(* The receiving session.                                                  *)

\* The receiver resumes: the SFU sends what came after data_channel_receive_states;
\* of what was on its way before, the first k packets still arrive.
SfuReplays(k) ==
    /\ Fault
    /\ \E at \in InOrder(After(arrived, rx_state)) :
          link' = SubSeq(link, 1, k) \o [i \in DOMAIN at |-> arrived[at[i]]]
    /\ UNCHANGED <<call, asked, task, resume, arrived, receiver>>

\* RtcEvent::Data: update_packet_rx_state() with `seq`, and emit_incoming_packet().
PassOn(seq) ==
    /\ link # <<>> /\ link' = Tail(link)
    /\ rx_state' = IF seq <= rx_state THEN rx_state ELSE seq
    /\ received' = Append(received, Head(link))
    /\ UNCHANGED <<call, asked, task, resume, faults, arrived>>

\* Mutant: the next number expected is kept as the last one seen.
ReceiveNext == PassOn(IF Head(link) < MaxPackets THEN Head(link) + 1 ELSE Head(link))

Receive == PassOn(Head(link))

\* RELIABLE_RECEIVED_STATE_TTL.
Expire ==
    /\ rx_state # 0 /\ rx_state' = 0 /\ Fault
    /\ UNCHANGED <<call, asked, task, resume, arrived, link, received>>

----------------------------------------------------------------------------
TaskStep == OnPublishPacket \/ OnPublishData(TRUE) \/ OnBufferedAmountChange(TRUE)
                \/ OnRetryFrom

Next ==
    \/ \E c \in Calls, big \in BOOLEAN : Publish(c, big)
    \/ TaskStep \/ OnPublishData(FALSE) \/ OnBufferedAmountChange(FALSE)
    \/ ChannelSends \/ LosePacket \/ ReconnectResponse \/ Restarted
    \/ (\E k \in 0..Len(link) : SfuReplays(k)) \/ Receive \/ Expire

Spec == Init /\ [][Next]_vars

\* data_channel_task, the channel, restart() and the receiving session run on.
FairSpec ==
    /\ Spec /\ WF_vars(TaskStep) /\ WF_vars(ChannelSends)
    /\ WF_vars(Restarted) /\ WF_vars(Receive)

----------------------------------------------------------------------------
(* Properties.                                                             *)

Reports == {i \in DOMAIN dc_events : dc_events[i].type = "BufferedAmountChange"}

\* buffered_amount is what the channel holds, what it has sent without the task
\* knowing yet and what it has refused: "unexpected buffer size" is not logged,
\* and no more than one packet above the threshold is handed out.
BufferedExact ==
    /\ buffered_amount = Len(buffer) + Cardinality(Reports) + failed
    /\ buffered_amount <= Threshold + 1

\* No two calls of publish_data() get the same sequence number, whatever resumes
\* and retries come between them.
NumberedOnce ==
    \A c, d \in Calls :
        c # d /\ sequence_of[c] # None => sequence_of[c] # sequence_of[d]

\* Until a resume the packets reach the SFU once each, in the order in which
\* publish_data() queued them and in that of their sequence numbers, although
\* each goes through dc_events twice.
OrderedUntilResume ==
    ~resumed =>
        /\ \A i, j \in DOMAIN arrived : i < j => arrived[i] < arrived[j]
        /\ \A i, j \in DOMAIN asked :
              (i < j /\ sequence_of[asked[j]] # None) =>
                  /\ sequence_of[asked[i]] # None
                  /\ sequence_of[asked[i]] < sequence_of[asked[j]]

\* What the receiver reports when it resumes misses no packet: each packet at
\* the SFU has been passed on or is on its way, as long as the publisher has not
\* retried packets out of order.
ReplayCovers == ~resumed => Range(arrived) \subseteq Range(received) \cup Range(link)

\* publish_data() returns, unless the channel has refused more than the
\* threshold.
PublishReturns ==
    \A c \in Calls : (call[c] = "waiting") ~> (call[c] # "waiting" \/ failed > Threshold)

\* On a resume the packets after the given sequence number are retried: each
\* is in the retry queue or has not been sent.
RetryComplete ==
    resuming # -1 =>
        \A c \in Calls :
            (sequence_of[c] > resuming /\ call[c] = "ok") =>
                \/ sequence_of[c] \in Range(retry_queue) \cup Range(buffer) \cup Range(arrived)
                \/ \E i \in DOMAIN dc_events : dc_events[i] = PublishData(sequence_of[c], None)
                \/ \E i \in DOMAIN reliable_queue : reliable_queue[i].seq = sequence_of[c]

\* Duplicate and out-of-order reliable messages are ignored.
DuplicatesIgnored ==
    \A i, j \in DOMAIN received : i < j => received[i] < received[j]
=============================================================================
