----------------------------- MODULE DataStream -----------------------------
(***************************************************************************)
(* One data stream: the writers that share a RawStream behind a mutex, the *)
(* task of the room that publishes its packets, a channel, and at the      *)
(* other participant the IncomingStreamManager with the readers it opens.  *)
(*                                                                         *)
(* A write is one write_chunk() and a chunk counts one byte; longer writes *)
(* are several of them under the same lock.  A chunk is known by the write *)
(* that made it.  A future that is dropped at its await leaves the packet  *)
(* where it is and the state of the RawStream as it was.                   *)
(***************************************************************************)
EXTENDS Integers, Sequences, Functions

CONSTANTS MaxWrites,  \* bound: calls of write_chunk()
          Totals,     \* total_length: numbers of bytes, or NoTotal
          MaxCancels, \* bound: futures dropped at their await
          MaxFaults   \* bound: failures of the channel and of publish_data()

NoTotal == -1

ASSUME DataStreamAssumption ==
    /\ MaxWrites \in Nat /\ Totals \subseteq Nat \cup {NoTotal}
    /\ MaxCancels \in Nat /\ MaxFaults \in Nat

Writes == 1..MaxWrites

VARIABLES
    \* RawStream
    stream,        \* "new", "opening", "open", "gone"
    chunk_index, is_closed, total,
    op,            \* the packet whose response is awaited under the lock
    count,         \* calls of write_chunk() so far
    written,       \* the writes that returned Ok
    closing,       \* how many had when the trailer was queued, or -1
    cancels,       \* futures dropped so far
    abandoned,     \* no trailer will follow: open() was dropped before it had its
                   \* response, or the RawStream where no runtime could send one
    \* the outgoing task and the channel
    queue, net, faults,
    \* IncomingStreamManager
    open, index, bytes,
    readers        \* of the headers accepted: what was read, and how it ended

rawStream == <<stream, chunk_index, is_closed, total, op, count, written, closing,
               cancels, abandoned>>
incoming == <<open, index, bytes, readers>>
vars == <<rawStream, queue, net, faults, incoming>>

Header == [kind |-> "header"]
Chunk(i, w) == [kind |-> "chunk", index |-> i, write |-> w]
Trailer(reason) == [kind |-> "trailer", reason |-> reason]
Packets == {Header} \cup {Chunk(i, w) : i \in 0..MaxWrites, w \in Writes}
    \cup {Trailer(reason) : reason \in BOOLEAN}
NoOp == [kind |-> "none"]

Init ==
    /\ stream = "new" /\ chunk_index = 0 /\ is_closed = FALSE /\ total \in Totals
    /\ op = NoOp /\ count = 0 /\ written = <<>> /\ closing = -1
    /\ cancels = 0 /\ abandoned = FALSE
    /\ queue = <<>> /\ net = <<>> /\ faults = 0
    /\ open = FALSE /\ index = 0 /\ bytes = 0 /\ readers = <<>>

Fault == faults < MaxFaults /\ faults' = faults + 1

----------------------------------------------------------------------------
(* The writers.  send_packet() queues a request and awaits its response.   *)

SendPacket(p) == op' = p /\ queue' = Append(queue, p)

Open ==
    /\ stream = "new" /\ stream' = "opening"
    /\ SendPacket(Header)
    /\ UNCHANGED <<chunk_index, is_closed, total, count, written, closing, cancels,
                   abandoned, net, faults, incoming>>

\* Nothing looks at is_closed here.
WriteChunk ==
    /\ stream = "open" /\ op = NoOp /\ count < MaxWrites
    /\ count' = count + 1
    /\ SendPacket(Chunk(chunk_index, count + 1))
    /\ UNCHANGED <<stream, chunk_index, is_closed, total, written, closing, cancels,
                   abandoned, net, faults, incoming>>

\* What was written when the first trailer was queued.
FirstTrailer == closing' = IF closing = -1 THEN Len(written) ELSE closing

\* close() and close_with_reason(); AlreadyClosed after the first.
Close(reason) ==
    /\ stream = "open" /\ op = NoOp /\ ~is_closed
    /\ SendPacket(Trailer(reason)) /\ FirstTrailer
    /\ UNCHANGED <<stream, chunk_index, is_closed, total, count, written, cancels,
                   abandoned, net, faults, incoming>>

\* The caller drops the future at its await: select!, a timeout, abort().
Cancel ==
    /\ cancels < MaxCancels /\ cancels' = cancels + 1
    /\ op # NoOp /\ op' = NoOp
    /\ abandoned' = (abandoned \/ stream = "opening")
    /\ stream' = IF stream = "opening" THEN "gone" ELSE stream
    /\ UNCHANGED <<chunk_index, is_closed, total, count, written, closing, queue, net,
                   faults, incoming>>

\* Drop of the RawStream, with the last writer; not after a close.  Handle::
\* try_current() fails on a thread without a Tokio runtime, and the trailer is
\* skipped.  The task that is spawned otherwise has nobody to compete with for
\* the queue any more, so its packet is queued here.
DropStream ==
    /\ stream = "open" /\ op = NoOp /\ stream' = "gone"
    /\ \/ is_closed /\ UNCHANGED <<queue, closing, abandoned>>
       \/ ~is_closed /\ queue' = Append(queue, Trailer(FALSE)) /\ FirstTrailer
          /\ UNCHANGED abandoned
       \/ ~is_closed /\ abandoned' = TRUE /\ UNCHANGED <<queue, closing>>
    /\ UNCHANGED <<chunk_index, is_closed, total, op, count, written, cancels, net, faults,
                   incoming>>

----------------------------------------------------------------------------
(* outgoing_data_stream_task, and what its response does to a writer that  *)
(* still waits for it.                                                     *)

\* Each request has a responder of its own.  Nothing is queued while a writer
\* waits under the lock, so the request it waits for is the last of the queue.
Awaited(p) == op = p /\ Len(queue) = 1

\* An error leaves everything as it was; open() gives no RawStream then.
RespondErr(p) ==
    /\ op' = IF Awaited(p) THEN NoOp ELSE op
    /\ stream' = IF Awaited(p) /\ p = Header THEN "gone" ELSE stream
    /\ UNCHANGED <<chunk_index, is_closed, written>>

\* What open(), write_chunk() and close() do with Ok.
RespondOk(p) ==
    IF ~Awaited(p) THEN UNCHANGED <<op, stream, chunk_index, is_closed, written>>
    ELSE /\ op' = NoOp
         /\ stream' = IF p = Header THEN "open" ELSE stream
         /\ chunk_index' = IF p.kind = "chunk" THEN chunk_index + 1 ELSE chunk_index
         /\ written' = IF p.kind = "chunk" THEN Append(written, p.write) ELSE written
         /\ is_closed' = (is_closed \/ p.kind = "trailer")

Publish ==
    /\ queue # <<>> /\ queue' = Tail(queue)
    /\ \/ RespondOk(Head(queue)) /\ net' = Append(net, Head(queue)) /\ UNCHANGED faults
       \/ RespondErr(Head(queue)) /\ Fault /\ UNCHANGED net
    /\ UNCHANGED <<total, count, closing, cancels, abandoned, incoming>>

----------------------------------------------------------------------------
(* IncomingStreamManager.                                                  *)

Last == Len(readers)

\* close_stream() and close_stream_with_error().
CloseStream(how) ==
    /\ open' = FALSE
    /\ readers' = [readers EXCEPT ![Last].ended = how]
    /\ UNCHANGED <<index, bytes>>

HandleHeader(p) ==
    /\ p = Header
    /\ IF open THEN UNCHANGED incoming       \* "already open"
       ELSE /\ open' = TRUE /\ index' = 0 /\ bytes' = 0
            /\ readers' = Append(readers, [got |-> <<>>, ended |-> "no", dropped |-> FALSE])

\* yield_chunk(): without its reader the stream is closed.
Yield(p) ==
    /\ index' = index + 1 /\ bytes' = bytes + 1
    /\ IF readers[Last].dropped THEN open' = FALSE /\ UNCHANGED readers
       ELSE UNCHANGED open /\ readers' = [readers EXCEPT ![Last].got = Append(@, p.write)]

Exceeds == total # NoTotal /\ bytes + 1 > total

\* Mutants: a chunk that came before is taken again; one out of place is skipped.
ChunkAgain(p, same) ==
    /\ p.kind = "chunk"
    /\ \/ ~open /\ UNCHANGED incoming
       \/ open /\ (~same \/ p.index > index \/ Exceeds) /\ CloseStream("error")
       \/ open /\ same /\ p.index <= index /\ ~Exceeds /\ Yield(p)
ChunkSkipped(p, same) ==
    /\ p.kind = "chunk"
    /\ \/ (~open \/ p.index # index) /\ UNCHANGED incoming
       \/ open /\ p.index = index /\ (~same \/ Exceeds) /\ CloseStream("error")
       \/ open /\ same /\ p.index = index /\ ~Exceeds /\ Yield(p)

\* EncryptionTypeMismatch (unless `same`), MissedChunk and LengthExceeded.
HandleChunk(p, same) ==
    /\ p.kind = "chunk"
    /\ \/ ~open /\ UNCHANGED incoming
       \/ open /\ (~same \/ p.index # index \/ Exceeds) /\ CloseStream("error")
       \/ open /\ same /\ p.index = index /\ ~Exceeds /\ Yield(p)

\* Mutant: a trailer always ends the stream normally.
TrailerUnchecked(p) ==
    /\ p.kind = "trailer"
    /\ IF open THEN CloseStream("normal") ELSE UNCHANGED incoming

\* Mutant: a stream that is not complete is left as it is.
TrailerIgnored(p) ==
    /\ p.kind = "trailer"
    /\ IF open /\ ~(total # NoTotal /\ bytes < total)
       THEN CloseStream(IF p.reason THEN "error" ELSE "normal") ELSE UNCHANGED incoming

\* Incomplete, then AbnormalEnd.
HandleTrailer(p) ==
    /\ p.kind = "trailer"
    /\ \/ ~open /\ UNCHANGED incoming
       \/ open /\ ((total # NoTotal /\ bytes < total) \/ p.reason) /\ CloseStream("error")
       \/ open /\ ~(total # NoTotal /\ bytes < total) /\ ~p.reason /\ CloseStream("normal")

DropReader(i) ==
    /\ i \in DOMAIN readers /\ ~readers[i].dropped /\ readers[i].ended = "no"
    /\ readers' = [readers EXCEPT ![i].dropped = TRUE]
    /\ UNCHANGED <<rawStream, queue, net, faults, open, index, bytes>>

Without(s, i) == SubSeq(s, 1, i - 1) \o SubSeq(s, i + 1, Len(s))

\* The next packet arrives; or a later one, or one that stays to come again,
\* or one under another encryption than the header.
Deliver(i, stays, same) ==
    /\ i \in DOMAIN net
    /\ net' = IF stays THEN net ELSE Without(net, i)
    /\ IF i > 1 \/ stays \/ ~same THEN Fault ELSE UNCHANGED faults
    /\ HandleHeader(net[i]) \/ HandleChunk(net[i], same) \/ HandleTrailer(net[i])
    /\ UNCHANGED <<rawStream, queue>>

Lose ==
    /\ net # <<>> /\ net' = Tail(net) /\ Fault
    /\ UNCHANGED <<rawStream, queue, incoming>>

----------------------------------------------------------------------------
Next ==
    \/ Open \/ WriteChunk \/ (\E reason \in BOOLEAN : Close(reason)) \/ Cancel \/ DropStream
    \/ Publish \/ Lose
    \/ \E i \in DOMAIN net, stays, same \in BOOLEAN : Deliver(i, stays, same)
    \/ \E i \in DOMAIN readers : DropReader(i)

Spec == Init /\ [][Next]_vars

\* The outgoing task, the channel and the room of the receiver go on; nobody
\* has to write, close or drop.
FairSpec == Spec /\ WF_vars(Publish) /\ WF_vars(Deliver(1, FALSE, TRUE))

----------------------------------------------------------------------------
(* Properties.                                                             *)

\* The types of the writer's and the receiver's state; an open stream has a
\* reader that has not seen its end.
TypeOK ==
    /\ stream \in {"new", "opening", "open", "gone"}
    /\ chunk_index \in 0..count /\ count \in 0..MaxWrites
    /\ is_closed \in BOOLEAN /\ abandoned \in BOOLEAN /\ open \in BOOLEAN
    /\ cancels \in 0..MaxCancels
    /\ total \in Totals /\ op \in Packets \cup {NoOp}
    /\ written \in Seq(Writes) /\ closing \in -1..MaxWrites
    /\ queue \in Seq(Packets) /\ net \in Seq(Packets) /\ faults \in 0..MaxFaults
    /\ index \in 0..MaxWrites /\ bytes \in 0..MaxWrites
    /\ readers \in Seq([got : Seq(Writes), ended : {"no", "normal", "error"},
                        dropped : BOOLEAN])
    /\ open => readers # <<>> /\ readers[Last].ended = "no"

\* No reader gets a chunk twice or before an earlier one: a repeated, late or
\* cancelled packet ends the stream with an error instead.
ReadInOrder ==
    \A r \in Range(readers) :
        \A i, j \in DOMAIN r.got : i < j => r.got[i] < r.got[j]

\* A stream of known length that ends normally had exactly that length,
\* whatever the channel lost or repeated and whoever gave up a write.
LengthKept ==
    \A r \in Range(readers) :
        /\ r.ended = "normal" /\ total # NoTotal => Len(r.got) = total
        /\ total # NoTotal => Len(r.got) <= total

\* Over a channel without faults a stream that ends normally holds every chunk
\* whose write had returned Ok before the trailer, and its readers are one.
NormalEndIsWhole ==
    faults = 0 =>
        /\ Len(readers) <= 1
        /\ \A r \in Range(readers) : r.ended = "normal" =>
              Range(SubSeq(written, 1, closing)) \subseteq Range(r.got)

\* Once the RawStream is gone every reader sees an end, over a channel without
\* faults: close() cancelled or called twice, a RawStream dropped at any moment.
\* The exception is a stream whose trailer nobody sends: open() dropped half way,
\* which leaves the header in the queue, or a drop without a runtime.
ReaderEnds ==
    (stream = "gone") ~> (\/ faults > 0 \/ abandoned
                          \/ \A r \in Range(readers) : r.ended # "no" \/ r.dropped)

\* As the comment of Drop has it ("Close stream normally if not already closed"):
\* without that exception.  It does not hold.
DropCloses ==
    (stream = "gone") ~> (\/ faults > 0
                          \/ \A r \in Range(readers) : r.ended # "no" \/ r.dropped)
=============================================================================
