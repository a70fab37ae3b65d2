--------------------------- MODULE DataTrackPath ---------------------------
(***************************************************************************)
(* The frames of one data track on their way from try_push() to the stream *)
(* of a subscriber: the Packetizer, the drop-oldest DataTrackSendQueue and *)
(* the DataChannelSender with its backpressure; an unordered channel that  *)
(* may lose, repeat and reorder packets; and, on the other side, the       *)
(* manager's bounded queue to the TrackTask, the Depacketizer, and the     *)
(* broadcast channel the stream reads, which overwrites its oldest frame.  *)
(*                                                                         *)
(* A payload is a sequence of chunks, one per packet, a chunk being the    *)
(* frame it belongs to and its place there; every packet counts one unit   *)
(* of buffered_amount.                                                     *)
(***************************************************************************)
EXTENDS Integers, FiniteSets, Sequences, Functions

CONSTANTS MaxFrames,     \* bound: frames pushed
          Sizes,         \* numbers of packets a frame may take
          SeqMod,        \* values of a sequence number (2^16)
          FrameMod,      \* values of a frame number (2^16)
          QueueCap,      \* QUEUE_CAPACITY
          Threshold,     \* low_buffer_threshold
          MaxBuffer,     \* MAX_BUFFER_PACKETS
          PartialLimits, \* values given to max_partial_frames
          PacketCap,     \* PACKET_BUFFER_COUNT
          FrameCap,      \* buffer_size of the subscription
          MaxFaults,     \* bound: packets lost, repeated and out of order, events dropped
          OpenLate       \* the data channel may open after the first frames

ASSUME DataTrackPathAssumption ==
    /\ MaxFrames \in Nat /\ Sizes \subseteq Nat
    /\ SeqMod \in Nat \ {0} /\ FrameMod \in Nat \ {0}
    /\ QueueCap \in Nat \ {0} /\ Threshold \in Nat /\ MaxBuffer \in Nat \ {0}
    /\ PartialLimits \subseteq Nat /\ 1 \in PartialLimits
    /\ PacketCap \in Nat \ {0} /\ FrameCap \in Nat \ {0}
    /\ MaxFaults \in Nat /\ OpenLate \in BOOLEAN

VARIABLES
    sizes,                    \* of the frames pushed so far
    sequence, frame_number,   \* Packetizer
    queue,                    \* DataTrackSendQueue, a sequence of frames
    in_flight,                \* packets of the frame being sent
    buffered_amount, running, \* DataChannelSender
    open, buffer,             \* the data channel and its internal buffer
    bytes_sent,               \* BytesSent events not yet received
    net,                      \* packets on their way
    packets,                  \* packet_rx of the TrackTask
    partials, max_partial_frames,  \* Depacketizer
    frames,                   \* payloads in the broadcast channel of the stream
    delivered,                \* payloads the stream has given out
    \* history
    taken,                    \* frames taken from the queue
    hit,                      \* frames of which a packet, or all, was dropped
    shuffled,                 \* the channel has repeated or reordered packets
    faults

packetizer == <<sizes, sequence, frame_number>>
sender == <<queue, in_flight, buffered_amount, running, taken>>
channel == <<open, buffer, bytes_sent, net>>
receiver == <<packets, partials, max_partial_frames, frames, delivered>>
vars == <<packetizer, sender, channel, receiver, hit, shuffled, faults>>

Chunk == (1..MaxFrames) \X Nat
Packet == [marker : {"Single", "Start", "Inter", "Final"},
           frame_number : 0..FrameMod - 1, sequence : 0..SeqMod - 1, payload : Chunk]

Init ==
    /\ sizes = <<>> /\ sequence = 0 /\ frame_number = 0
    /\ queue = <<>> /\ in_flight = <<>> /\ buffered_amount = 0 /\ running = TRUE
    /\ taken = <<>>
    /\ open = ~OpenLate /\ buffer = <<>> /\ bytes_sent = 0 /\ net = <<>>
    /\ packets = <<>> /\ partials = <<>> /\ max_partial_frames = 1
    /\ frames = <<>> /\ delivered = <<>>
    /\ hit = {} /\ shuffled = FALSE /\ faults = 0

FrameOf(packet) == packet.payload[1]

Fault == faults < MaxFaults /\ faults' = faults + 1

----------------------------------------------------------------------------
(* Packetizer.                                                             *)

Marker(i, count) ==
    CASE count <= 1 -> "Single"
      [] count > 1 /\ i = 1 -> "Start"
      [] count > 1 /\ i = count -> "Final"
      [] OTHER -> "Inter"

\* packetize() for a payload of n chunks; none for an empty payload.
Packetize(n) ==
    [i \in 1..n |-> [marker |-> Marker(i, n), frame_number |-> frame_number,
                     sequence |-> (sequence + i - 1) % SeqMod,
                     payload |-> <<Len(sizes) + 1, i>>]]

\* DataTrackSendQueue::send, which also ignores a frame without packets.
Enqueued(frame) ==
    IF frame = <<>> THEN queue
    ELSE Append(IF Len(queue) >= QueueCap THEN Tail(queue) ELSE queue, frame)

\* process_and_send(); the event may be dropped where event_out is full, and
\* after the sender has ended nobody takes the frame.
PushFrame(n) ==
    /\ Len(sizes) < MaxFrames
    /\ sizes' = Append(sizes, n)
    /\ frame_number' = (frame_number + 1) % FrameMod
    /\ sequence' = (sequence + n) % SeqMod
    /\ \/ queue' = Enqueued(Packetize(n)) /\ UNCHANGED faults
       \/ UNCHANGED queue /\ Fault
    /\ UNCHANGED <<in_flight, buffered_amount, running, taken, channel, receiver,
                   hit, shuffled>>

----------------------------------------------------------------------------
(* DataChannelSender::run.                                                 *)

\* The first n of `pending` go to the channel, which refuses them while it is
\* not open; they count as buffered all the same.
Dispatched(pending, n, buffered) ==
    /\ in_flight' = SubSeq(pending, n + 1, Len(pending))
    /\ buffered_amount' = buffered + n
    /\ IF open
         THEN buffer' = buffer \o SubSeq(pending, 1, n) /\ UNCHANGED hit
         ELSE hit' = hit \cup {FrameOf(pending[i]) : i \in 1..n} /\ UNCHANGED buffer

\* Mutant: the whole frame is sent at once.
DrainWhole(pending, buffered) == Dispatched(pending, Len(pending), buffered)

\* drain_in_flight() and dispatch(): packets go to the channel while no more
\* than the threshold is buffered.
DrainInFlight(pending, buffered) ==
    LET room == IF buffered <= Threshold THEN Threshold + 1 - buffered ELSE 0
    IN  Dispatched(pending, IF Len(pending) < room THEN Len(pending) ELSE room, buffered)

\* The queue is `rest` when its first frame has been taken, which extends what is
\* in flight.
TakeFrame(rest) ==
    /\ running /\ queue # <<>> /\ in_flight = <<>> /\ buffered_amount <= Threshold
    /\ queue' = rest
    /\ taken' = Append(taken, FrameOf(Head(queue)[1]))
    /\ DrainInFlight(in_flight \o Head(queue), buffered_amount)
    /\ UNCHANGED <<packetizer, running, open, bytes_sent, net, receiver, shuffled,
                   faults>>

\* Mutant: recv() leaves the frame it returns in the queue.
RecvPeeks == TakeFrame(queue)

RecvFrame == queue # <<>> /\ TakeFrame(Tail(queue))

\* handle_bytes_sent() and drain_in_flight().
HandleBytesSent ==
    /\ running /\ bytes_sent > 0
    /\ bytes_sent' = bytes_sent - 1
    /\ DrainInFlight(in_flight, IF buffered_amount < 1 THEN 0 ELSE buffered_amount - 1)
    /\ UNCHANGED <<packetizer, queue, running, taken, open, net, receiver, shuffled,
                   faults>>

\* close_rx changes: the loop ends and what is queued is dropped.
Close ==
    /\ running /\ running' = FALSE
    /\ queue' = <<>> /\ in_flight' = <<>>
    /\ hit' = hit \cup {FrameOf(p) : p \in Range(in_flight)}
    /\ UNCHANGED <<packetizer, buffered_amount, taken, channel, receiver, shuffled,
                   faults>>

----------------------------------------------------------------------------
(* The data channel and the network.                                       *)

Open ==
    /\ ~open /\ open' = TRUE
    /\ UNCHANGED <<packetizer, sender, buffer, bytes_sent, net, receiver, hit,
                   shuffled, faults>>

\* A packet leaves the buffer of the channel, which reports it.
ChannelSends ==
    /\ buffer # <<>>
    /\ buffer' = Tail(buffer) /\ net' = Append(net, Head(buffer))
    /\ bytes_sent' = bytes_sent + 1
    /\ UNCHANGED <<packetizer, sender, open, receiver, hit, shuffled, faults>>

Without(s, i) == SubSeq(s, 1, i - 1) \o SubSeq(s, i + 1, Len(s))

\* The network loses a packet, or ManagerInput::send finds event_in full, which
\* packets share with the other events of the manager.
Lose ==
    /\ net # <<>> /\ net' = Tail(net)
    /\ hit' = hit \cup {FrameOf(Head(net))}
    /\ Fault
    /\ UNCHANGED <<packetizer, sender, open, buffer, bytes_sent, receiver, shuffled>>

\* on_packet_received: the next packet of the channel or one out of order, once
\* or again, goes on to the TrackTask if that has room for it.
OnPacketReceived(i, stays) ==
    /\ i \in DOMAIN net
    /\ net' = IF stays THEN net ELSE Without(net, i)
    /\ IF stays \/ i > 1
         THEN Fault /\ shuffled' = TRUE
         ELSE UNCHANGED <<faults, shuffled>>
    /\ IF Len(packets) < PacketCap
         THEN packets' = Append(packets, net[i]) /\ UNCHANGED hit
         ELSE hit' = hit \cup {FrameOf(net[i])} /\ UNCHANGED packets
    /\ UNCHANGED <<packetizer, sender, open, buffer, bytes_sent, partials,
                   max_partial_frames, frames, delivered>>

----------------------------------------------------------------------------
(* Depacketizer.                                                           *)

\* evict_oldest() until there is room for n more.
Evicted(ps, n) ==
    LET over == Len(ps) + n - max_partial_frames
        drop == IF over <= 0 THEN 0 ELSE IF over < Len(ps) THEN over ELSE Len(ps)
    IN  SubSeq(ps, drop + 1, Len(ps))

\* frame_tx.send(): the broadcast channel overwrites what was not read in time.
SendFrame(frame) ==
    IF Len(frames) < FrameCap
      THEN frames' = Append(frames, frame) /\ UNCHANGED hit
      ELSE /\ frames' = Append(Tail(frames), frame)
           /\ hit' = hit \cup {Head(frames)[1][1]}

\* A Single packet evicts one partial frame at most.
FrameFromSingle(p) ==
    /\ p.marker = "Single"
    /\ partials' = IF Len(partials) >= max_partial_frames /\ partials # <<>>
                     THEN Tail(partials) ELSE partials
    /\ SendFrame(<<p.payload>>)

\* A partial frame of the same number keeps its place in the IndexMap.
BeginPartial(p) ==
    LET kept == Evicted(partials, 1)
        same == {i \in DOMAIN kept : kept[i].number = p.frame_number}
        partial == [number |-> p.frame_number, start |-> p.sequence,
                    payloads |-> [s \in {p.sequence} |-> p.payload]]
    IN  /\ p.marker = "Start"
        /\ partials' = IF same = {} THEN Append(kept, partial)
                       ELSE [i \in DOMAIN kept |-> IF i \in same THEN partial ELSE kept[i]]
        /\ UNCHANGED <<frames, hit>>

Inserted(payloads, p) ==
    [s \in DOMAIN payloads \cup {p.sequence} |->
        IF s = p.sequence THEN p.payload ELSE payloads[s]]

\* Mutant: what is there is put together, from the first to the last.
FinalizeGaps(start, payloads, end) ==
    LET count == ((end - start) % SeqMod) + 1
        there == {j \in 0..count - 1 : (start + j) % SeqMod \in DOMAIN payloads}
        nth(n) == CHOOSE j \in there : Cardinality({k \in there : k <= j}) = n
    IN  {[n \in 1..Cardinality(there) |-> payloads[(start + nth(n)) % SeqMod]]}

\* finalize(): the payloads from the first sequence number to the last, when all
\* are there.
Finalize(start, payloads, end) ==
    LET count == ((end - start) % SeqMod) + 1
    IN  IF \A j \in 0..count - 1 : (start + j) % SeqMod \in DOMAIN payloads
          THEN {[j \in 1..count |-> payloads[(start + j - 1) % SeqMod]]}
          ELSE {}

\* A packet for the partial frame of its number, which holds `most` packets.
ToPartial(p, most) ==
    LET at == {i \in DOMAIN partials : partials[i].number = p.frame_number}
    IN  /\ p.marker \in {"Inter", "Final"}
        /\ \/ at = {} /\ UNCHANGED <<partials, frames, hit>>
           \/ \E i \in at :
                LET f == partials[i]
                    payloads == Inserted(f.payloads, p)
                    full == Cardinality(DOMAIN f.payloads) >= most
                    whole == Finalize(f.start, payloads, p.sequence)
                IN  \/ /\ full /\ partials' = Without(partials, i)
                       /\ UNCHANGED <<frames, hit>>
                    \/ /\ ~full /\ p.marker = "Inter"
                       /\ partials' = [partials EXCEPT ![i].payloads = payloads]
                       /\ UNCHANGED <<frames, hit>>
                    \/ /\ ~full /\ p.marker = "Final"
                       /\ partials' = Without(partials, i)
                       /\ \/ whole = {} /\ UNCHANGED <<frames, hit>>
                          \/ \E frame \in whole : SendFrame(frame)

\* Mutant: the last packet of the longest frame finds the buffer full.
PushToShortPartial(p) == ToPartial(p, MaxBuffer - 1)

PushToPartial(p) == ToPartial(p, MaxBuffer)

\* The TrackTask takes a packet: process_packet(), that is Depacketizer::push,
\* and frame_tx.send().
TaskReceives ==
    /\ packets # <<>> /\ packets' = Tail(packets)
    /\ LET p == Head(packets)
       IN  FrameFromSingle(p) \/ BeginPartial(p) \/ PushToPartial(p)
    /\ UNCHANGED <<packetizer, sender, channel, max_partial_frames, delivered,
                   shuffled, faults>>

\* poll_next of the DataTrackStream, which steps over what was overwritten.
ReadFrame ==
    /\ frames # <<>>
    /\ frames' = Tail(frames) /\ delivered' = Append(delivered, Head(frames))
    /\ UNCHANGED <<packetizer, sender, channel, packets, partials,
                   max_partial_frames, hit, shuffled, faults>>

\* set_pipeline_options.
SetMaxPartialFrames(n) ==
    /\ max_partial_frames' = n /\ n # max_partial_frames
    /\ UNCHANGED <<packetizer, sender, channel, packets, partials, frames, delivered,
                   hit, shuffled, faults>>

----------------------------------------------------------------------------
Receive == \E i \in DOMAIN net, stays \in BOOLEAN : OnPacketReceived(i, stays)

Next ==
    \/ \E n \in Sizes : PushFrame(n)
    \/ RecvFrame \/ HandleBytesSent \/ Close
    \/ Open \/ ChannelSends \/ Lose
    \/ Receive \/ TaskReceives \/ ReadFrame
    \/ \E n \in PartialLimits : SetMaxPartialFrames(n)

Spec == Init /\ [][Next]_vars

\* The sender's task, the channel, the receiving tasks and the reader run on.
FairSpec ==
    /\ Spec /\ WF_vars(RecvFrame) /\ WF_vars(HandleBytesSent)
    /\ WF_vars(Open) /\ WF_vars(ChannelSends)
    /\ WF_vars(OnPacketReceived(1, FALSE)) /\ WF_vars(TaskReceives)
    /\ WF_vars(ReadFrame)

----------------------------------------------------------------------------
(* Properties.                                                             *)

\* The types of the sender's and the receiver's state.
TypeOK ==
    /\ sizes \in Seq(Sizes) /\ Len(sizes) <= MaxFrames
    /\ sequence \in 0..SeqMod - 1 /\ frame_number \in 0..FrameMod - 1
    /\ queue \in Seq(Seq(Packet)) /\ Len(queue) <= QueueCap
    /\ in_flight \in Seq(Packet) /\ buffer \in Seq(Packet) /\ net \in Seq(Packet)
    /\ packets \in Seq(Packet) /\ Len(packets) <= PacketCap /\ Len(frames) <= FrameCap
    /\ buffered_amount \in Nat /\ bytes_sent \in Nat
    /\ running \in BOOLEAN /\ open \in BOOLEAN /\ shuffled \in BOOLEAN
    /\ hit \subseteq 1..MaxFrames
    /\ max_partial_frames \in PartialLimits
    /\ faults \in 0..MaxFaults

\* The packets the channel has refused, which stay in buffered_amount.
Refused == buffered_amount - Len(buffer) - bytes_sent

\* The sender never takes the channel for emptier than it is: what the channel
\* holds, with what it has sent without the sender knowing it yet, is never more
\* than buffered_amount, so its buffer never passes the threshold by more than
\* one packet. (It may take it for fuller: what was refused is never taken off
\* again, see QueueDrains.)
NeverOvercommitted ==
    running => /\ Refused >= 0
               /\ Len(buffer) <= Threshold + 1

Payload(f) == [i \in 1..sizes[f] |-> <<f, i>>]

\* Every frame of the stream is the whole payload of one frame that was pushed,
\* whatever packets are lost, repeated or out of order.
FrameIntegrity ==
    \A i \in DOMAIN delivered :
        \E f \in DOMAIN sizes : delivered[i] = Payload(f)

\* A frame that begins leaves no more partial frames than the limit in force,
\* even when that has shrunk, and none ever outgrows MAX_BUFFER_PACKETS.
PartialsBounded ==
    [][/\ Len(partials') > Len(partials) =>
              Len(partials') <= IF max_partial_frames > 1 THEN max_partial_frames ELSE 1
       /\ \A i \in DOMAIN partials' :
              Cardinality(DOMAIN partials'[i].payloads) <= MaxBuffer]_partials

FrameNumbers == [i \in DOMAIN delivered |-> delivered[i][1][1]]

\* As long as the channel neither repeats nor reorders packets, the stream gives
\* out no frame twice and none after a later one, whatever the channel refuses or
\* loses and the queues of both sides drop or overwrite.
InOrder ==
    ~shuffled => \A i, j \in DOMAIN delivered :
                     i < j => FrameNumbers[i] < FrameNumbers[j]

\* ... and a frame only suffers from what happens to its own packets: one that
\* was taken from the queue, is not too long, and none of whose packets was
\* refused, lost or dropped has come out of the stream, whole, when nothing is
\* under way any more, even when the frames around it were damaged.
IntactIsDelivered ==
    (~shuffled /\ <<in_flight, buffer, net, packets, frames>> = <<<<>>, <<>>, <<>>, <<>>, <<>>>>)
        => \A f \in Range(taken) \ hit :
               sizes[f] <= MaxBuffer => Payload(f) \in Range(delivered)

\* The sender keeps taking frames: the queue empties again and again, unless
\* the channel has refused more than the threshold.
QueueMoves == (queue # <<>>) ~> (queue = <<>> \/ ~running \/ Refused > Threshold)

\* Once the channel is open a waiting frame is sent or gives way to a newer one.
QueueDrains == (queue # <<>>) ~> (queue = <<>> \/ ~running)
=============================================================================
