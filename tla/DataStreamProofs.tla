-------------------------- MODULE DataStreamProofs --------------------------
(***************************************************************************)
(* For any number of writes, cancelled futures and faults of the channel:  *)
(* a reader gets its chunks in the order of the writes and none twice, and *)
(* a stream of known length never ends normally with another length.       *)
(*                                                                         *)
(* A cancelled write leaves its chunk on the wire and its chunk_index to   *)
(* the next write, so two chunks may share an index.  What holds is that a *)
(* chunk of a higher index comes from a later write; since a reader's n-th *)
(* chunk has index n - 1, it reads later and later writes.                 *)
(*                                                                         *)
(* And, when the channel has no fault: there is one reader, and if its end *)
(* is a normal one it has every chunk whose write had returned before the  *)
(* trailer was queued, since such a chunk is ahead of every trailer.       *)
(***************************************************************************)
EXTENDS DataStream, TLAPS

Reader == [got : Seq(Writes), ended : {"no", "normal", "error"}, dropped : BOOLEAN]

\* Every chunk that was ever sent and not lost: queued, on the wire, or read.
Read == UNION {{Chunk(k - 1, readers[n].got[k]) : k \in 1..Len(readers[n].got)}
                  : n \in 1..Len(readers)}
Sent == Range(queue) \cup Range(net) \cup Read

\* Its index and its write are behind those of the RawStream.
SentBefore ==
    \A p \in Sent : p.kind = "chunk" =>
        p.index \in 0..chunk_index /\ p.write \in 1..count /\ p.index < p.write

\* A higher index is a later write.
LaterWrite ==
    \A p, q \in Sent :
        p.kind = "chunk" /\ q.kind = "chunk" /\ p.index < q.index => p.write < q.write

\* The RawStream: one index per write that returned Ok, and none ahead of the
\* calls.
WriterInv ==
    /\ Len(written) = chunk_index
    /\ op.kind = "chunk" => chunk_index < count

\* The descriptor of an open stream counts what its reader has got.
ReaderInv ==
    open => index = Len(readers[Last].got) /\ bytes = index

StreamInv == TypeOK /\ SentBefore /\ LaterWrite /\ WriterInv /\ ReaderInv /\ LengthKept

-----------------------------------------------------------------------------
(* Sequences and packets.                                                  *)

LEMMA Kinds ==
  ASSUME NEW p \in Packets
  PROVE  /\ p.kind = "chunk" => p.index \in 0..MaxWrites /\ p.write \in Writes
                                /\ p = Chunk(p.index, p.write)
         /\ p.kind \in {"header", "chunk", "trailer"}
         /\ p.kind = "trailer" => p.reason \in BOOLEAN
BY DEF Packets, Header, Chunk, Trailer

LEMMA ChunkFields ==
  ASSUME NEW i, NEW w
  PROVE  Chunk(i, w).kind = "chunk" /\ Chunk(i, w).index = i /\ Chunk(i, w).write = w
BY Zenon DEF Chunk

LEMMA Appended ==
  ASSUME NEW S, NEW q \in Seq(S), NEW e \in S
  PROVE  /\ Append(q, e) \in Seq(S) /\ Len(Append(q, e)) = Len(q) + 1 /\ Len(q) \in Nat
         /\ \A i \in 1..(Len(q) + 1) : Append(q, e)[i] = IF i <= Len(q) THEN q[i] ELSE e
         /\ Range(Append(q, e)) = Range(q) \cup {e}
<1>1. Append(q, e) \in Seq(S) /\ Len(Append(q, e)) = Len(q) + 1 /\ Len(q) \in Nat
  OBVIOUS
<1>2. \A i \in 1..(Len(q) + 1) : Append(q, e)[i] = IF i <= Len(q) THEN q[i] ELSE e
  OBVIOUS
<1>3. DOMAIN Append(q, e) = 1..(Len(q) + 1) /\ DOMAIN q = 1..Len(q)
  BY <1>1
<1>4. Append(q, e)[Len(q) + 1] = e
  BY <1>1, <1>2
<1>5. Range(Append(q, e)) = Range(q) \cup {e}
  BY <1>1, <1>2, <1>3, <1>4 DEF Range
<1>6. QED
  BY Zenon, <1>1, <1>2, <1>5

LEMMA Tailed ==
  ASSUME NEW S, NEW q \in Seq(S), q # <<>>
  PROVE  /\ Head(q) \in S /\ Head(q) \in Range(q) /\ Tail(q) \in Seq(S)
         /\ Range(Tail(q)) \subseteq Range(q)
<1>1. /\ Tail(q) \in Seq(S) /\ Len(Tail(q)) = Len(q) - 1 /\ Len(q) \in Nat \ {0}
      /\ Head(q) = q[1] /\ Head(q) \in S
  OBVIOUS
<1>2. \A i \in 1..(Len(q) - 1) : Tail(q)[i] = q[i + 1] /\ i + 1 \in 1..Len(q)
  BY <1>1
<1>3. DOMAIN q = 1..Len(q) /\ DOMAIN Tail(q) = 1..(Len(q) - 1)
  BY <1>1
<1>4. Range(Tail(q)) \subseteq Range(q)
  BY Zenon, <1>2, <1>3 DEF Range
<1>5. Head(q) \in Range(q)
  BY <1>1, <1>3 DEF Range
<1>6. QED
  BY Zenon, <1>1, <1>4, <1>5

LEMMA WithoutOne ==
  ASSUME NEW S, NEW q \in Seq(S), NEW n \in 1..Len(q)
  PROVE  Without(q, n) \in Seq(S) /\ Range(Without(q, n)) \subseteq Range(q)
<1>1. Len(q) \in Nat /\ n \in Nat /\ n <= Len(q) /\ DOMAIN q = 1..Len(q)
      /\ \A i \in 1..Len(q) : q[i] \in S /\ q[i] \in Range(q)
  BY DEF Range
<1>2. PICK a : a = SubSeq(q, 1, n - 1)
  BY Zenon
<1>3. PICK b : b = SubSeq(q, n + 1, Len(q))
  BY Zenon
<1>4. a \in Seq(S \cap Range(q))
  <2>1. \A i \in 1..(n - 1) : q[i] \in S \cap Range(q)
    BY <1>1
  <2>2. n - 1 \in Int /\ 1 \in Int
    BY <1>1
  <2>3. QED
    BY <1>2, <2>1, <2>2
<1>5. b \in Seq(S \cap Range(q))
  <2>1. \A i \in (n + 1)..Len(q) : q[i] \in S \cap Range(q)
    BY <1>1
  <2>2. n + 1 \in Int /\ Len(q) \in Int
    BY <1>1
  <2>3. QED
    BY <1>3, <2>1, <2>2
<1>6. a \o b \in Seq(S \cap Range(q))
  BY <1>4, <1>5
<1>7. Without(q, n) \in Seq(S \cap Range(q))
  BY Zenon, <1>2, <1>3, <1>6 DEF Without
<1>8. ASSUME NEW r \in Seq(S \cap Range(q)) PROVE r \in Seq(S) /\ Range(r) \subseteq Range(q)
  <2>1. DOMAIN r = 1..Len(r) /\ \A i \in 1..Len(r) : r[i] \in S \cap Range(q)
    OBVIOUS
  <2>2. Range(r) \subseteq Range(q)
    <3>1. \A x \in Range(r) : \E i \in DOMAIN r : x = r[i]
      BY Zenon DEF Range
    <3>2. QED
      BY Zenon, <2>1, <3>1
  <2>3. r \in Seq(S)
    BY <2>1
  <2>4. QED
    BY Zenon, <2>2, <2>3
<1>9. QED
  BY Zenon, <1>7, <1>8

\* One reader replaced.
LEMMA Replaced ==
  ASSUME NEW S, NEW q \in Seq(S), NEW n \in 1..Len(q), NEW x \in S
  PROVE  /\ [q EXCEPT ![n] = x] \in Seq(S) /\ Len([q EXCEPT ![n] = x]) = Len(q)
         /\ \A i \in 1..Len(q) : [q EXCEPT ![n] = x][i] = IF i = n THEN x ELSE q[i]
OBVIOUS

-----------------------------------------------------------------------------
(* The two halves of TypeOK, and what is sent.                             *)

WriterOK ==
    /\ stream \in {"new", "opening", "open", "gone"}
    /\ chunk_index \in 0..count /\ count \in 0..MaxWrites
    /\ is_closed \in BOOLEAN /\ abandoned \in BOOLEAN
    /\ cancels \in 0..MaxCancels /\ total \in Totals /\ op \in Packets \cup {NoOp}
    /\ written \in Seq(Writes) /\ closing \in -1..MaxWrites
WireOK == queue \in Seq(Packets) /\ net \in Seq(Packets) /\ faults \in 0..MaxFaults
ReaderOK ==
    /\ open \in BOOLEAN /\ index \in 0..MaxWrites /\ bytes \in 0..MaxWrites
    /\ readers \in Seq(Reader)
    /\ open => readers # <<>> /\ readers[Last].ended = "no"

LEMMA TypeGroups == TypeOK <=> WriterOK /\ WireOK /\ ReaderOK
BY Zenon DEF TypeOK, WriterOK, WireOK, ReaderOK, Reader

LEMMA TypeGroupsNext == TypeOK' <=> WriterOK' /\ WireOK' /\ ReaderOK'
BY Zenon DEF TypeOK, WriterOK, WireOK, ReaderOK, Reader

LEMMA WriterStays ==
  ASSUME WriterOK, WriterInv, UNCHANGED rawStream
  PROVE  WriterOK' /\ WriterInv' /\ UNCHANGED <<chunk_index, count, total>>
BY Zenon DEF WriterOK, WriterInv, rawStream

LEMMA ReaderStays ==
  ASSUME ReaderOK, ReaderInv, LengthKept, UNCHANGED <<incoming, total>>
  PROVE  ReaderOK' /\ ReaderInv' /\ LengthKept' /\ Read' = Read
BY DEF ReaderOK, ReaderInv, LengthKept, Read, incoming, Last

\* Nothing but a packet without a chunk joins what is sent.
LEMMA SentKept ==
  ASSUME SentBefore, LaterWrite, WriterOK, WriterOK', NEW x, x.kind # "chunk",
         chunk_index <= chunk_index', count <= count', Sent' \subseteq Sent \cup {x}
  PROVE  SentBefore' /\ LaterWrite'
<1> /\ chunk_index \in Nat /\ count \in Nat /\ chunk_index' \in Nat /\ count' \in Nat
  BY DataStreamAssumption DEF WriterOK
<1>1. \A p \in Sent' : p.kind = "chunk" => p \in Sent
  BY Zenon
<1>2. SentBefore'
  BY <1>1 DEF SentBefore
<1>3. LaterWrite'
  BY Zenon, <1>1 DEF LaterWrite
<1>4. QED
  BY Zenon, <1>2, <1>3

LEMMA NothingSent ==
  ASSUME SentBefore, LaterWrite, WriterOK, WriterOK', chunk_index <= chunk_index',
         count <= count', Sent' \subseteq Sent
  PROVE  SentBefore' /\ LaterWrite'
<1>1. Header.kind # "chunk" /\ Sent' \subseteq Sent \cup {Header}
  BY Zenon DEF Header
<1>2. QED
  BY Zenon, <1>1, SentKept

\* The chunk of a new write has an index no other exceeds.
LEMMA ChunkSent ==
  ASSUME SentBefore, LaterWrite, WriterOK, UNCHANGED chunk_index, count' = count + 1,
         Sent' \subseteq Sent \cup {Chunk(chunk_index, count + 1)}
  PROVE  SentBefore' /\ LaterWrite'
<1> chunk_index \in Nat /\ count \in Nat /\ chunk_index <= count
  BY DataStreamAssumption DEF WriterOK
<1>1. PICK c : /\ c = Chunk(chunk_index, count + 1) /\ c.kind = "chunk"
               /\ c.index = chunk_index /\ c.write = count + 1
  BY ChunkFields
<1>2. SentBefore'
  BY <1>1 DEF SentBefore
<1>3. ASSUME NEW p \in Sent', NEW q \in Sent', p.kind = "chunk", q.kind = "chunk",
             p.index < q.index
      PROVE  p.write < q.write
  <2>1. CASE p \in Sent /\ q \in Sent
    BY Zenon, <1>3, <2>1 DEF LaterWrite
  <2>2. CASE p = c /\ q \in Sent
    BY <1>1, <1>3, <2>2 DEF SentBefore
  <2>3. CASE p \in Sent /\ q = c
    BY <1>1, <1>3, <2>3 DEF SentBefore
  <2>4. CASE p = c /\ q = c
    BY <1>1, <1>3, <2>4
  <2>5. QED
    BY Zenon, <1>1, <1>3, <2>1, <2>2, <2>3, <2>4
<1>4. QED
  BY Zenon, <1>2, <1>3 DEF LaterWrite

-----------------------------------------------------------------------------
(* The writers and the outgoing task.                                      *)

LEMMA QueueGrows ==
  ASSUME WireOK, NEW p \in Packets, queue' = Append(queue, p), UNCHANGED <<net, faults>>
  PROVE  WireOK' /\ Range(queue') \cup Range(net') = Range(queue) \cup Range(net) \cup {p}
BY Appended DEF WireOK

LEMMA WriterSteps ==
  ASSUME StreamInv,
         Open \/ WriteChunk \/ (\E reason \in BOOLEAN : Close(reason)) \/ Cancel \/ DropStream
  PROVE  StreamInv'
<1> USE DataStreamAssumption
<1>1. /\ WriterOK /\ WireOK /\ ReaderOK /\ SentBefore /\ LaterWrite /\ WriterInv /\ ReaderInv
      /\ LengthKept
  BY Zenon, TypeGroups DEF StreamInv
<1>2. UNCHANGED <<incoming, total, net, faults>>
  BY Zenon DEF Open, WriteChunk, Close, Cancel, DropStream
<1>3. ReaderOK' /\ ReaderInv' /\ LengthKept' /\ Read' = Read
  BY Zenon, <1>1, <1>2, ReaderStays
<1>4. SUFFICES WriterOK' /\ WireOK' /\ WriterInv' /\ SentBefore' /\ LaterWrite'
  BY Zenon, <1>3, TypeGroupsNext DEF StreamInv
<1>5. Header \in Packets /\ Header.kind # "chunk" /\ NoOp.kind # "chunk"
  BY DEF Packets, Header, NoOp
<1>6. \A reason \in BOOLEAN : Trailer(reason) \in Packets /\ Trailer(reason).kind # "chunk"
  BY DEF Packets, Trailer
<1>7. /\ Len(written) \in 0..MaxWrites
      /\ FirstTrailer => closing' \in -1..MaxWrites
  BY <1>1 DEF WriterOK, WriterInv, FirstTrailer
<1>8. ASSUME NEW p \in Packets, p.kind # "chunk", queue' = Append(queue, p), WriterOK',
             UNCHANGED <<chunk_index, count>>
      PROVE  WireOK' /\ SentBefore' /\ LaterWrite'
  <2>1. WireOK' /\ Sent' \subseteq Sent \cup {p}
    BY Zenon, <1>1, <1>2, <1>3, <1>8, QueueGrows DEF Sent
  <2>2. chunk_index <= chunk_index' /\ count <= count'
    BY <1>1, <1>8 DEF WriterOK
  <2>3. QED
    BY Zenon, <1>1, <1>8, <2>1, <2>2, SentKept
<1>9. CASE Open
  <2>1. WriterOK' /\ WriterInv' /\ UNCHANGED <<chunk_index, count>>
    BY Zenon, <1>1, <1>5, <1>9 DEF Open, SendPacket, WriterOK, WriterInv
  <2>2. QED
    BY Zenon, <1>5, <1>8, <1>9, <2>1 DEF Open, SendPacket
<1>10. CASE WriteChunk
  <2>1. Chunk(chunk_index, count + 1) \in Packets
    BY <1>1, <1>10 DEF WriteChunk, WriterOK, Packets, Writes
  <2>2. WriterOK' /\ WriterInv'
    BY <1>1, <1>10, <2>1 DEF WriteChunk, SendPacket, WriterOK, WriterInv
  <2>3. WireOK' /\ Sent' \subseteq Sent \cup {Chunk(chunk_index, count + 1)}
    BY Zenon, <1>1, <1>2, <1>3, <1>10, <2>1, QueueGrows DEF Sent, WriteChunk, SendPacket
  <2>4. SentBefore' /\ LaterWrite'
    BY Zenon, <1>1, <1>10, <2>3, ChunkSent DEF WriteChunk
  <2>5. QED
    BY Zenon, <2>2, <2>3, <2>4
<1>11. ASSUME NEW reason \in BOOLEAN, Close(reason)
       PROVE  WriterOK' /\ WireOK' /\ WriterInv' /\ SentBefore' /\ LaterWrite'
  <2>1. WriterOK' /\ WriterInv' /\ UNCHANGED <<chunk_index, count>>
    BY Zenon, <1>1, <1>6, <1>7, <1>11 DEF Close, SendPacket, WriterOK, WriterInv
  <2>2. QED
    BY Zenon, <1>6, <1>8, <1>11, <2>1 DEF Close, SendPacket
<1>12. CASE Cancel
  <2>1. abandoned' \in BOOLEAN
    BY <1>12, Zenon DEF Cancel
  <2>2. WriterOK' /\ WriterInv'
    BY <1>1, <1>5, <1>12, <2>1 DEF Cancel, WriterOK, WriterInv
  <2>3. WireOK' /\ Sent' \subseteq Sent
    BY Zenon, <1>1, <1>2, <1>3, <1>12 DEF Cancel, WireOK, Sent
  <2>4. chunk_index <= chunk_index' /\ count <= count'
    BY <1>1, <1>12 DEF Cancel, WriterOK
  <2>5. SentBefore' /\ LaterWrite'
    BY Zenon, <1>1, <2>2, <2>3, <2>4, NothingSent
  <2>6. QED
    BY Zenon, <2>2, <2>3, <2>5
<1>13. CASE DropStream
  <2>1. closing' \in -1..MaxWrites /\ abandoned' \in BOOLEAN
    BY Zenon, <1>1, <1>7, <1>13 DEF DropStream, WriterOK
  <2>2. WriterOK' /\ WriterInv' /\ UNCHANGED <<chunk_index, count>>
    BY Zenon, <1>1, <1>13, <2>1 DEF DropStream, WriterOK, WriterInv
  <2>3. CASE UNCHANGED queue
    <3>1. WireOK' /\ Sent' \subseteq Sent
      BY Zenon, <1>1, <1>2, <1>3, <2>3 DEF WireOK, Sent
    <3>2. chunk_index <= chunk_index' /\ count <= count'
      BY <1>1, <2>2 DEF WriterOK
    <3>3. QED
      BY Zenon, <1>1, <2>2, <3>1, <3>2, NothingSent
  <2>4. CASE queue' = Append(queue, Trailer(FALSE))
    BY Zenon, <1>6, <1>8, <2>2, <2>4
  <2>5. QED
    BY Zenon, <1>13, <2>3, <2>4 DEF DropStream
<1>14. QED
  BY Zenon, <1>9, <1>10, <1>11, <1>12, <1>13

LEMMA PublishStep ==
  ASSUME StreamInv, Publish
  PROVE  StreamInv'
<1> USE DataStreamAssumption
<1> DEFINE p == Head(queue)
<1>1. /\ WriterOK /\ WireOK /\ ReaderOK /\ SentBefore /\ LaterWrite /\ WriterInv /\ ReaderInv
      /\ LengthKept
  BY Zenon, TypeGroups DEF StreamInv
<1>2. ReaderOK' /\ ReaderInv' /\ LengthKept' /\ Read' = Read
  BY Zenon, <1>1, ReaderStays DEF Publish
<1>3. SUFFICES WriterOK' /\ WireOK' /\ WriterInv' /\ SentBefore' /\ LaterWrite'
  BY Zenon, <1>2, TypeGroupsNext DEF StreamInv
<1>4. /\ p \in Packets /\ p \in Range(queue) /\ queue' \in Seq(Packets)
      /\ Range(queue') \subseteq Range(queue)
  BY Zenon, <1>1, Tailed DEF Publish, WireOK
<1>5. WireOK' /\ Range(net') \subseteq Range(net) \cup {p}
  <2>1. CASE net' = Append(net, p) /\ UNCHANGED faults
    BY <1>1, <1>4, <2>1, Appended DEF WireOK
  <2>2. CASE Fault /\ UNCHANGED net
    BY <1>1, <1>4, <2>2 DEF WireOK, Fault
  <2>3. QED
    BY Zenon, <2>1, <2>2 DEF Publish
<1>6. Sent' \subseteq Sent
  BY Zenon, <1>2, <1>4, <1>5 DEF Sent
<1>7. NoOp \in Packets \cup {NoOp} /\ NoOp.kind # "chunk"
  BY Zenon DEF NoOp
<1>8. WriterOK' /\ WriterInv' /\ chunk_index <= chunk_index' /\ count <= count'
  <2>1. UNCHANGED <<total, count, closing, cancels, abandoned>>
    BY Zenon DEF Publish
  <2>2. CASE RespondErr(p)
    <3>1. /\ op' \in {op, NoOp} /\ stream' \in {stream, "gone"}
          /\ UNCHANGED <<chunk_index, is_closed, written>>
      BY Zenon, <2>2 DEF RespondErr
    <3>2. QED
      BY <1>1, <1>7, <2>1, <3>1 DEF WriterOK, WriterInv
  <2>3. CASE RespondOk(p) /\ ~Awaited(p)
    <3>1. UNCHANGED <<op, stream, chunk_index, is_closed, written>>
      BY Zenon, <2>3 DEF RespondOk
    <3>2. QED
      BY <1>1, <2>1, <3>1 DEF WriterOK, WriterInv
  <2>4. CASE RespondOk(p) /\ Awaited(p) /\ p.kind = "chunk"
    <3>1. p.write \in Writes
      BY Zenon, <1>4, <2>4, Kinds
    <3>2. Append(written, p.write) \in Seq(Writes)
          /\ Len(Append(written, p.write)) = Len(written) + 1
      BY Zenon, <1>1, <3>1, Appended DEF WriterOK
    <3>3. is_closed' \in BOOLEAN
      BY <2>4, Zenon DEF RespondOk
    <3>4. /\ op' = NoOp /\ chunk_index' = chunk_index + 1
          /\ written' = Append(written, p.write) /\ stream' \in {"open", stream}
      BY Zenon, <2>4 DEF RespondOk
    <3>5. chunk_index < count
      BY Zenon, <1>1, <2>4 DEF WriterInv, Awaited
    <3>6. QED
      BY <1>1, <1>7, <2>1, <3>2, <3>3, <3>4, <3>5 DEF WriterOK, WriterInv
  <2>5. CASE RespondOk(p) /\ Awaited(p) /\ p.kind # "chunk"
    <3>1. is_closed' \in BOOLEAN
      BY <2>5, Zenon DEF RespondOk
    <3>2. op' = NoOp /\ UNCHANGED <<chunk_index, written>> /\ stream' \in {"open", stream}
      BY Zenon, <2>5 DEF RespondOk
    <3>3. QED
      BY <1>1, <1>7, <2>1, <3>1, <3>2 DEF WriterOK, WriterInv
  <2>6. QED
    BY Zenon, <2>2, <2>3, <2>4, <2>5 DEF Publish
<1>9. SentBefore' /\ LaterWrite'
  BY Zenon, <1>1, <1>6, <1>8, NothingSent
<1>10. QED
  BY Zenon, <1>5, <1>8, <1>9

-----------------------------------------------------------------------------
(* The receiver.                                                           *)

LengthOf(r) ==
    /\ r.ended = "normal" /\ total # NoTotal => Len(r.got) = total
    /\ total # NoTotal => Len(r.got) <= total

LEMMA IsRead ==
  ASSUME NEW n \in 1..Len(readers), NEW k \in 1..Len(readers[n].got)
  PROVE  Chunk(k - 1, readers[n].got[k]) \in Read
<1> DEFINE R(m) == {Chunk(j - 1, readers[m].got[j]) : j \in 1..Len(readers[m].got)}
<1>1. Chunk(k - 1, readers[n].got[k]) \in R(n)
  BY Zenon
<1>2. R(n) \in {R(m) : m \in 1..Len(readers)}
  BY Zenon
<1> HIDE DEF R
<1>3. Read = UNION {R(m) : m \in 1..Len(readers)}
  BY Zenon DEF Read, R
<1>4. QED
  BY Zenon, <1>1, <1>2, <1>3

LEMMA AllRead ==
  ASSUME NEW Z, \A n \in 1..Len(readers') : \A k \in 1..Len(readers'[n].got) :
                    Chunk(k - 1, readers'[n].got[k]) \in Z
  PROVE  Read' \subseteq Z
<1> DEFINE R(m) == {Chunk(j - 1, readers'[m].got[j]) : j \in 1..Len(readers'[m].got)}
<1>1. \A m \in 1..Len(readers') : R(m) \subseteq Z
  BY Zenon
<1> HIDE DEF R
<1>2. Read' = UNION {R(m) : m \in 1..Len(readers')}
  BY Zenon DEF Read, R
<1>3. QED
  BY Zenon, <1>1, <1>2

LEMMA LengthByIndex ==
  ASSUME ReaderOK
  PROVE  LengthKept <=> \A n \in 1..Len(readers) : LengthOf(readers[n])
<1>1. DOMAIN readers = 1..Len(readers)
  BY DEF ReaderOK
<1>2. QED
  BY Zenon, <1>1 DEF LengthKept, LengthOf, Range

LEMMA LengthByIndexNext ==
  ASSUME ReaderOK', UNCHANGED total
  PROVE  LengthKept' <=> \A n \in 1..Len(readers') : LengthOf(readers'[n])
<1>1. DOMAIN readers' = 1..Len(readers')
  BY DEF ReaderOK
<1>2. QED
  BY Zenon, <1>1 DEF LengthKept, LengthOf, Range

LEMMA LastExists ==
  ASSUME ReaderOK, readers # <<>>
  PROVE  Last \in 1..Len(readers)
<1>1. Len(readers) \in Nat /\ Len(readers) # 0
  BY DEF ReaderOK
<1>2. QED
  BY <1>1 DEF Last

\* A reader is replaced by one that has read the same.
LEMMA ReaderChanged ==
  ASSUME ReaderOK, LengthKept, UNCHANGED <<total, index, bytes>>, open' \in BOOLEAN,
         NEW n \in 1..Len(readers), NEW r \in Reader, r.got = readers[n].got, LengthOf(r),
         readers' = [readers EXCEPT ![n] = r],
         open' => open /\ (n = Last => r.ended = "no")
  PROVE  ReaderOK' /\ LengthKept' /\ Read' = Read /\ (ReaderInv => ReaderInv')
<1>1. /\ readers' \in Seq(Reader) /\ Len(readers') = Len(readers) /\ Len(readers) \in Nat
      /\ \A i \in 1..Len(readers) : readers'[i] = IF i = n THEN r ELSE readers[i]
  BY Replaced DEF ReaderOK
<1>2. \A i \in 1..Len(readers) : readers'[i].got = readers[i].got
  BY Zenon, <1>1
<1>3. readers # <<>> => Last \in 1..Len(readers)
  BY Zenon, LastExists
<1>4. ReaderOK'
  <2>1. ASSUME open' PROVE readers' # <<>> /\ readers'[Last'].ended = "no"
    <3>1. open /\ readers # <<>> /\ readers[Last].ended = "no"
      BY Zenon, <2>1 DEF ReaderOK
    <3>2. Last \in 1..Len(readers) /\ Last' = Last
      BY Zenon, <1>1, <1>3, <3>1 DEF Last
    <3>3. readers'[Last].ended = "no"
      BY Zenon, <1>1, <2>1, <3>1, <3>2
    <3>4. Len(readers') # 0 /\ readers' \in Seq(Reader)
      BY <1>1
    <3>5. readers' # <<>>
      BY Zenon, <3>4
    <3>6. QED
      BY Zenon, <3>2, <3>3, <3>5
  <2>2. QED
    BY Zenon, <1>1, <2>1 DEF ReaderOK
<1>5. LengthKept'
  <2>1. \A i \in 1..Len(readers') : LengthOf(readers'[i])
    BY Zenon, <1>1, LengthByIndex
  <2>2. QED
    BY Zenon, <1>4, <2>1, LengthByIndexNext
<1>6. Read' = Read
  <2> DEFINE R(m) == {Chunk(j - 1, readers[m].got[j]) : j \in 1..Len(readers[m].got)}
             S(m) == {Chunk(j - 1, readers'[m].got[j]) : j \in 1..Len(readers'[m].got)}
  <2>1. \A m \in 1..Len(readers) : R(m) = S(m)
    BY Zenon, <1>2
  <2> HIDE DEF R, S
  <2>2. {R(m) : m \in 1..Len(readers)} = {S(m) : m \in 1..Len(readers')}
    BY Zenon, <1>1, <2>1
  <2>3. Read = UNION {R(m) : m \in 1..Len(readers)} /\ Read' = UNION {S(m) : m \in 1..Len(readers')}
    BY Zenon DEF Read, R, S
  <2>4. QED
    BY Zenon, <2>2, <2>3
<1>7. ASSUME ReaderInv PROVE ReaderInv'
  <2>1. ASSUME open' PROVE index' = Len(readers'[Last'].got) /\ bytes' = index'
    <3>1. open /\ Last \in 1..Len(readers) /\ Last' = Last
      BY Zenon, <1>1, <1>3, <2>1 DEF ReaderOK, Last
    <3>2. QED
      BY Zenon, <1>2, <1>7, <3>1 DEF ReaderInv
  <2>2. QED
    BY Zenon, <2>1 DEF ReaderInv
<1>8. QED
  BY Zenon, <1>4, <1>5, <1>6, <1>7

LEMMA LastReader ==
  ASSUME ReaderOK, ReaderInv, LengthKept, open
  PROVE  /\ Last \in 1..Len(readers) /\ readers[Last] \in Reader /\ readers[Last].ended = "no"
         /\ index = Len(readers[Last].got) /\ bytes = index /\ LengthOf(readers[Last])
<1>2. Last \in 1..Len(readers)
  BY Zenon, LastExists DEF ReaderOK
<1>3. QED
  BY <1>2, LengthByIndex DEF ReaderOK, ReaderInv

\* A stream closed with an error, or normally after its whole length.
LEMMA Closed ==
  ASSUME ReaderOK, ReaderInv, LengthKept, UNCHANGED total, open,
         NEW how \in {"normal", "error"}, CloseStream(how),
         how = "normal" => ~(total # NoTotal /\ bytes < total),
         total \in Nat \cup {NoTotal}
  PROVE  ReaderOK' /\ LengthKept' /\ Read' = Read /\ ReaderInv'
<1>1. /\ Last \in 1..Len(readers) /\ readers[Last] \in Reader
      /\ index = Len(readers[Last].got) /\ bytes = index /\ LengthOf(readers[Last])
  BY Zenon, LastReader
<1>2. PICK r : r = [readers[Last] EXCEPT !.ended = how]
  BY Zenon
<1>3. r \in Reader /\ r.got = readers[Last].got /\ r.ended = how
  BY Zenon, <1>1, <1>2 DEF Reader
<1>4. LengthOf(r)
  <2>1. Len(r.got) \in Nat
    BY <1>3 DEF Reader
  <2>2. QED
    BY <1>1, <1>3, <2>1 DEF LengthOf, NoTotal
<1>5. readers' = [readers EXCEPT ![Last] = r] /\ UNCHANGED <<index, bytes>> /\ open' = FALSE
  BY Zenon, <1>1, <1>2 DEF CloseStream
<1>6. QED
  BY Zenon, <1>1, <1>3, <1>4, <1>5, ReaderChanged DEF ReaderInv

\* handle_header opens a stream with a reader that has read nothing.
LEMMA Opened ==
  ASSUME ReaderOK, LengthKept, UNCHANGED total, ~open, HandleHeader(Header),
         total \in Nat \cup {NoTotal}
  PROVE  ReaderOK' /\ LengthKept' /\ Read' \subseteq Read /\ ReaderInv'
<1>1. PICK r : r = [got |-> <<>>, ended |-> "no", dropped |-> FALSE]
  BY Zenon
<1>2. r \in Reader /\ Len(r.got) = 0 /\ r.ended = "no"
  BY <1>1 DEF Reader
<1>3. readers' = Append(readers, r) /\ open' = TRUE /\ index' = 0 /\ bytes' = 0
  BY Zenon, <1>1 DEF HandleHeader
<1>4. /\ readers' \in Seq(Reader) /\ Len(readers') = Len(readers) + 1 /\ Len(readers) \in Nat
      /\ \A i \in 1..(Len(readers) + 1) :
             readers'[i] = IF i <= Len(readers) THEN readers[i] ELSE r
  BY <1>2, <1>3, Appended DEF ReaderOK
<1>5. Last' = Len(readers) + 1 /\ readers'[Last'] = r
  BY <1>4 DEF Last
<1>6. ReaderOK' /\ ReaderInv'
  <2>1. readers' # <<>>
    BY <1>4
  <2>2. 0 \in 0..MaxWrites
    BY DataStreamAssumption
  <2>3. QED
    BY Zenon, <1>2, <1>3, <1>4, <1>5, <2>1, <2>2 DEF ReaderOK, ReaderInv
<1>7. LengthKept'
  <2>1. LengthOf(r)
    BY <1>2 DEF LengthOf, NoTotal
  <2>2. \A i \in 1..Len(readers') : LengthOf(readers'[i])
    BY <1>4, <2>1, LengthByIndex
  <2>3. QED
    BY Zenon, <1>6, <2>2, LengthByIndexNext
<1>8. Read' \subseteq Read
  <2> SUFFICES ASSUME NEW n \in 1..Len(readers'), NEW k \in 1..Len(readers'[n].got)
               PROVE  Chunk(k - 1, readers'[n].got[k]) \in Read
    BY Zenon, AllRead
  <2>1. n \in 1..Len(readers) /\ readers'[n] = readers[n]
    BY <1>2, <1>4
  <2>2. QED
    BY Zenon, <2>1, IsRead
<1>9. QED
  BY Zenon, <1>6, <1>7, <1>8

\* yield_chunk: the reader's n-th chunk has index n - 1.
LEMMA Yielded ==
  ASSUME ReaderOK, ReaderInv, LengthKept, UNCHANGED total, open, NEW p \in Packets,
         p.kind = "chunk", p.index = index, p.index < p.write, ~Exceeds, Yield(p),
         total \in Nat \cup {NoTotal}
  PROVE  ReaderOK' /\ LengthKept' /\ Read' \subseteq Read \cup {p} /\ ReaderInv'
<1> USE DataStreamAssumption
<1>1. /\ Last \in 1..Len(readers) /\ readers[Last] \in Reader /\ readers[Last].ended = "no"
      /\ index = Len(readers[Last].got) /\ bytes = index /\ LengthOf(readers[Last])
  BY Zenon, LastReader
<1>2. p.write \in Writes /\ p = Chunk(index, p.write)
  BY Zenon, Kinds
<1>3. index' = index + 1 /\ bytes' = bytes + 1 /\ index' \in 0..MaxWrites /\ bytes' \in 0..MaxWrites
  BY <1>1, <1>2 DEF Yield, ReaderOK, Writes
<1>4. CASE readers[Last].dropped
  <2>1. open' = FALSE /\ UNCHANGED readers
    BY Zenon, <1>4 DEF Yield
  <2>2. ReaderOK' /\ ReaderInv'
    BY Zenon, <1>3, <2>1 DEF ReaderOK, ReaderInv
  <2>3. LengthKept' /\ Read' = Read
    BY <2>1 DEF LengthKept, Read
  <2>4. QED
    BY Zenon, <2>2, <2>3
<1>5. CASE ~readers[Last].dropped
  <2>1. PICK r : r = [readers[Last] EXCEPT !.got = Append(readers[Last].got, p.write)]
    BY Zenon
  <2>2. open' = TRUE /\ readers' = [readers EXCEPT ![Last] = r]
    BY Zenon, <1>1, <1>5, <2>1 DEF Yield, ReaderOK
  <2>3. /\ Append(readers[Last].got, p.write) \in Seq(Writes) /\ index \in Nat
        /\ Len(Append(readers[Last].got, p.write)) = index + 1
        /\ \A k \in 1..(index + 1) : Append(readers[Last].got, p.write)[k] =
               IF k <= index THEN readers[Last].got[k] ELSE p.write
    BY <1>1, <1>2, Appended DEF Reader
  <2>4. /\ r \in Reader /\ r.got = Append(readers[Last].got, p.write) /\ r.ended = "no"
    BY Zenon, <1>1, <2>1, <2>3 DEF Reader
  <2>5. /\ readers' \in Seq(Reader) /\ Len(readers') = Len(readers) /\ Len(readers) \in Nat
        /\ \A i \in 1..Len(readers) : readers'[i] = IF i = Last THEN r ELSE readers[i]
    BY <1>1, <2>2, <2>4, Replaced DEF ReaderOK
  <2>6. Last' = Last /\ readers'[Last'] = r
    BY Zenon, <1>1, <2>5 DEF Last
  <2>7. ReaderOK' /\ ReaderInv'
    <3>1. readers' # <<>>
      BY <1>1, <2>5
    <3>2. QED
      BY Zenon, <1>1, <1>3, <2>2, <2>3, <2>4, <2>5, <2>6, <3>1 DEF ReaderOK, ReaderInv
  <2>8. LengthKept'
    <3>1. LengthOf(r)
      BY <1>1, <2>3, <2>4 DEF LengthOf, Exceeds, NoTotal
    <3>2. \A i \in 1..Len(readers') : LengthOf(readers'[i])
      BY Zenon, <2>5, <3>1, LengthByIndex
    <3>3. QED
      BY Zenon, <2>7, <3>2, LengthByIndexNext
  <2>9. Read' \subseteq Read \cup {p}
    <3> SUFFICES ASSUME NEW n \in 1..Len(readers'), NEW k \in 1..Len(readers'[n].got)
                 PROVE  Chunk(k - 1, readers'[n].got[k]) \in Read \cup {p}
      BY Zenon, AllRead
    <3>1. CASE n # Last
      <4>1. n \in 1..Len(readers) /\ readers'[n] = readers[n]
        BY Zenon, <2>5, <3>1
      <4>2. QED
        BY Zenon, <4>1, IsRead
    <3>2. CASE n = Last /\ k <= index
      <4>1. k \in 1..Len(readers[Last].got) /\ readers'[n].got[k] = readers[Last].got[k]
        <5>1. readers'[n] = r /\ Len(readers'[n].got) = index + 1
          BY Zenon, <1>1, <2>3, <2>4, <2>5, <3>2
        <5>2. k \in 1..(index + 1) /\ k \in 1..index
          BY <2>3, <3>2, <5>1
        <5>3. QED
          BY Zenon, <1>1, <2>3, <2>4, <3>2, <5>1, <5>2
      <4>2. QED
        BY Zenon, <1>1, <3>2, <4>1, IsRead
    <3>3. CASE n = Last /\ ~(k <= index)
      <4>1. k = index + 1 /\ readers'[n].got[k] = p.write /\ k - 1 = index
        BY <1>1, <2>3, <2>4, <2>5, <3>3
      <4>2. QED
        BY Zenon, <1>2, <4>1
    <3>4. QED
      BY Zenon, <3>1, <3>2, <3>3
  <2>10. QED
    BY Zenon, <2>7, <2>8, <2>9
<1>6. QED
  BY Zenon, <1>4, <1>5

LEMMA DeliverStep ==
  ASSUME StreamInv, NEW i \in DOMAIN net, NEW stays \in BOOLEAN, NEW same \in BOOLEAN,
         Deliver(i, stays, same)
  PROVE  StreamInv'
<1> USE DataStreamAssumption
<1>1. /\ WriterOK /\ WireOK /\ ReaderOK /\ SentBefore /\ LaterWrite /\ WriterInv /\ ReaderInv
      /\ LengthKept
  BY Zenon, TypeGroups DEF StreamInv
<1>2. WriterOK' /\ WriterInv' /\ UNCHANGED <<chunk_index, count, total, queue>>
  BY Zenon, <1>1, WriterStays DEF Deliver
<1>3. i \in 1..Len(net) /\ net[i] \in Packets /\ net[i] \in Range(net)
  BY <1>1 DEF WireOK, Range
<1>4. PICK p \in Packets : p = net[i]
  BY Zenon, <1>3
<1>5. net' \in Seq(Packets) /\ Range(net') \subseteq Range(net)
  BY Zenon, <1>1, <1>3, WithoutOne DEF Deliver, WireOK
<1>6. WireOK'
  BY <1>1, <1>2, <1>5 DEF Deliver, Fault, WireOK
<1>7. total \in Nat \cup {NoTotal}
  BY Zenon, <1>1 DEF WriterOK
<1>8. p.kind = "chunk" => p.index < p.write
  BY Zenon, <1>1, <1>3, <1>4 DEF SentBefore, Sent
<1>9. ReaderOK' /\ LengthKept' /\ ReaderInv' /\ Read' \subseteq Read \cup {p}
  <2>1. CASE UNCHANGED incoming
    BY Zenon, <1>1, <1>2, <2>1, ReaderStays
  <2>2. CASE HandleHeader(p)
    <3>1. p = Header
      BY Zenon, <2>2 DEF HandleHeader
    <3>2. CASE open
      BY Zenon, <2>1, <2>2, <3>2 DEF HandleHeader
    <3>3. CASE ~open
      BY Zenon, <1>1, <1>2, <1>7, <2>2, <3>1, <3>3, Opened
    <3>4. QED
      BY Zenon, <3>2, <3>3
  <2>3. CASE HandleChunk(p, same)
    <3>1. CASE ~open /\ UNCHANGED incoming
      BY Zenon, <2>1, <3>1
    <3>2. CASE open /\ CloseStream("error")
      BY Zenon, <1>1, <1>2, <1>7, <3>2, Closed
    <3>3. CASE open /\ p.index = index /\ ~Exceeds /\ Yield(p)
      BY Zenon, <1>1, <1>2, <1>7, <1>8, <2>3, <3>3, Yielded DEF HandleChunk
    <3>4. QED
      BY Zenon, <2>3, <3>1, <3>2, <3>3 DEF HandleChunk
  <2>4. CASE HandleTrailer(p)
    <3>1. CASE ~open /\ UNCHANGED incoming
      BY Zenon, <2>1, <3>1
    <3>2. CASE open /\ CloseStream("error")
      BY Zenon, <1>1, <1>2, <1>7, <3>2, Closed
    <3>3. CASE open /\ ~(total # NoTotal /\ bytes < total) /\ CloseStream("normal")
      BY Zenon, <1>1, <1>2, <1>7, <3>3, Closed
    <3>4. QED
      BY Zenon, <2>4, <3>1, <3>2, <3>3 DEF HandleTrailer
  <2>5. QED
    BY Zenon, <1>4, <2>2, <2>3, <2>4 DEF Deliver
<1>10. Sent' \subseteq Sent
  BY Zenon, <1>2, <1>3, <1>4, <1>5, <1>9 DEF Sent
<1>11. chunk_index <= chunk_index' /\ count <= count'
  BY <1>1, <1>2 DEF WriterOK
<1>12. SentBefore' /\ LaterWrite'
  BY Zenon, <1>1, <1>2, <1>10, <1>11, NothingSent
<1>13. QED
  BY Zenon, <1>2, <1>6, <1>9, <1>12, TypeGroupsNext DEF StreamInv

LEMMA LoseStep ==
  ASSUME StreamInv, Lose
  PROVE  StreamInv'
<1>1. /\ WriterOK /\ WireOK /\ ReaderOK /\ SentBefore /\ LaterWrite /\ WriterInv /\ ReaderInv
      /\ LengthKept
  BY Zenon, TypeGroups DEF StreamInv
<1>2. WriterOK' /\ WriterInv' /\ UNCHANGED <<chunk_index, count, total>>
  BY Zenon, <1>1, WriterStays DEF Lose
<1>3. ReaderOK' /\ ReaderInv' /\ LengthKept' /\ Read' = Read
  BY Zenon, <1>1, <1>2, ReaderStays DEF Lose
<1>4. net' \in Seq(Packets) /\ Range(net') \subseteq Range(net)
  BY Zenon, <1>1, Tailed DEF Lose, WireOK
<1>5. WireOK'
  BY <1>1, <1>4, DataStreamAssumption DEF Lose, Fault, WireOK
<1>6. Sent' \subseteq Sent
  BY Zenon, <1>3, <1>4 DEF Sent, Lose
<1>7. chunk_index <= chunk_index' /\ count <= count'
  BY <1>1, <1>2, DataStreamAssumption DEF WriterOK
<1>8. SentBefore' /\ LaterWrite'
  BY Zenon, <1>1, <1>2, <1>6, <1>7, NothingSent
<1>9. QED
  BY Zenon, <1>2, <1>3, <1>5, <1>8, TypeGroupsNext DEF StreamInv

LEMMA DropReaderStep ==
  ASSUME StreamInv, NEW i \in DOMAIN readers, DropReader(i)
  PROVE  StreamInv'
<1>1. /\ WriterOK /\ WireOK /\ ReaderOK /\ SentBefore /\ LaterWrite /\ WriterInv /\ ReaderInv
      /\ LengthKept
  BY Zenon, TypeGroups DEF StreamInv
<1>2. WriterOK' /\ WriterInv' /\ UNCHANGED <<chunk_index, count, total, queue, net>>
  BY Zenon, <1>1, WriterStays DEF DropReader
<1>3. WireOK'
  BY Zenon, <1>1 DEF DropReader, WireOK
<1>4. i \in 1..Len(readers) /\ readers[i] \in Reader
  BY <1>1 DEF ReaderOK
<1>5. PICK r : r = [readers[i] EXCEPT !.dropped = TRUE]
  BY Zenon
<1>6. r \in Reader /\ r.got = readers[i].got /\ r.ended = "no" /\ readers[i].ended = "no"
  BY Zenon, <1>4, <1>5 DEF Reader, DropReader
<1>7. LengthOf(r)
  BY Zenon, <1>1, <1>4, <1>6, LengthByIndex DEF LengthOf
<1>8. readers' = [readers EXCEPT ![i] = r] /\ UNCHANGED <<open, index, bytes>>
  BY Zenon, <1>4, <1>5 DEF DropReader
<1>9. open' \in BOOLEAN
  BY Zenon, <1>1, <1>8 DEF ReaderOK
<1>10. ReaderOK' /\ LengthKept' /\ Read' = Read /\ ReaderInv'
  BY Zenon, <1>1, <1>2, <1>4, <1>6, <1>7, <1>8, <1>9, ReaderChanged
<1>11. Sent' \subseteq Sent
  BY Zenon, <1>2, <1>10 DEF Sent
<1>12. chunk_index <= chunk_index' /\ count <= count'
  BY <1>1, <1>2, DataStreamAssumption DEF WriterOK
<1>13. SentBefore' /\ LaterWrite'
  BY Zenon, <1>1, <1>2, <1>11, <1>12, NothingSent
<1>14. QED
  BY Zenon, <1>2, <1>3, <1>10, <1>13, TypeGroupsNext DEF StreamInv

-----------------------------------------------------------------------------
(* The theorems.                                                           *)

\* The conjunction is inductive: every step of the writers, the outgoing task,
\* the channel and the receiver keeps it.
THEOREM StreamInvariant == Spec => []StreamInv
<1> USE DataStreamAssumption
<1>1. Init => StreamInv
  <2> SUFFICES ASSUME Init PROVE StreamInv
    BY Zenon
  <2>1. WriterOK
    <3>1. /\ 0 \in 0..0 /\ 0 \in 0..MaxWrites /\ 0 \in 0..MaxCancels
          /\ -1 \in -1..MaxWrites /\ <<>> \in Seq(Writes)
      OBVIOUS
    <3>2. QED
      BY Zenon, <3>1 DEF Init, WriterOK
  <2>2. WireOK /\ ReaderOK
    <3>1. /\ 0 \in 0..MaxWrites /\ 0 \in 0..MaxFaults
          /\ <<>> \in Seq(Packets) /\ <<>> \in Seq(Reader)
      OBVIOUS
    <3>2. QED
      BY Zenon, <3>1 DEF Init, WireOK, ReaderOK
  <2>3. Len(readers) = 0 /\ Len(queue) = 0 /\ Len(net) = 0 /\ DOMAIN readers = {}
        /\ DOMAIN queue = {} /\ DOMAIN net = {}
    BY DEF Init
  <2>4. Sent = {} /\ Range(readers) = {}
    BY <2>3 DEF Sent, Read, Range
  <2>5. SentBefore /\ LaterWrite /\ LengthKept
    BY Zenon, <2>4 DEF SentBefore, LaterWrite, LengthKept
  <2>6. WriterInv /\ ReaderInv
    BY Zenon DEF Init, WriterInv, ReaderInv, NoOp
  <2>7. QED
    BY Zenon, <2>1, <2>2, <2>5, <2>6, TypeGroups DEF StreamInv
<1>2. StreamInv /\ [Next]_vars => StreamInv'
  <2> SUFFICES ASSUME StreamInv, [Next]_vars PROVE StreamInv'
    BY Zenon
  <2>1. CASE UNCHANGED vars
    <3>1. /\ WriterOK /\ WireOK /\ ReaderOK /\ SentBefore /\ LaterWrite /\ WriterInv
          /\ ReaderInv /\ LengthKept
      BY Zenon, TypeGroups DEF StreamInv
    <3>2. UNCHANGED <<rawStream, incoming, queue, net, faults>>
      BY Zenon, <2>1 DEF vars
    <3>3. WriterOK' /\ WriterInv' /\ UNCHANGED <<chunk_index, count, total>>
      BY Zenon, <3>1, <3>2, WriterStays
    <3>4. ReaderOK' /\ ReaderInv' /\ LengthKept' /\ Read' = Read
      BY Zenon, <3>1, <3>2, <3>3, ReaderStays
    <3>5. WireOK' /\ Sent' \subseteq Sent
      BY Zenon, <3>1, <3>2, <3>4 DEF WireOK, Sent
    <3>6. chunk_index <= chunk_index' /\ count <= count'
      BY <3>1, <3>3 DEF WriterOK
    <3>7. SentBefore' /\ LaterWrite'
      BY Zenon, <3>1, <3>3, <3>5, <3>6, NothingSent
    <3>8. QED
      BY Zenon, <3>3, <3>4, <3>5, <3>7, TypeGroupsNext DEF StreamInv
  <2>2. QED
    BY Zenon, <2>1, WriterSteps, PublishStep, DeliverStep, LoseStep, DropReaderStep DEF Next
<1>3. QED
  BY <1>1, <1>2, PTL DEF Spec

\* No reader gets a chunk twice or before an earlier one.
THEOREM ReadsInOrder == Spec => []ReadInOrder
<1>1. StreamInv => ReadInOrder
  <2> SUFFICES ASSUME StreamInv, NEW r \in Range(readers),
                      NEW i \in DOMAIN r.got, NEW j \in DOMAIN r.got, i < j
               PROVE  r.got[i] < r.got[j]
    BY Zenon DEF ReadInOrder
  <2>0. PICK n \in DOMAIN readers : r = readers[n]
    BY Zenon DEF Range
  <2>1. ReaderOK
    BY Zenon, TypeGroups DEF StreamInv
  <2>2. n \in 1..Len(readers) /\ readers[n].got \in Seq(Writes)
    <3>1. readers \in Seq(Reader)
      BY Zenon, <2>1 DEF ReaderOK
    <3>2. n \in 1..Len(readers) /\ readers[n] \in Reader
      BY <3>1
    <3>3. QED
      BY Zenon, <3>2 DEF Reader
  <2>3. i \in 1..Len(readers[n].got) /\ j \in 1..Len(readers[n].got)
    BY <2>0, <2>2
  <2>4. PICK p : p = Chunk(i - 1, readers[n].got[i])
    BY Zenon
  <2>5. PICK q : q = Chunk(j - 1, readers[n].got[j])
    BY Zenon
  <2>6. p \in Sent /\ q \in Sent
    BY Zenon, <2>2, <2>3, <2>4, <2>5, IsRead DEF Sent
  <2>7. /\ p.kind = "chunk" /\ p.index = i - 1 /\ p.write = readers[n].got[i]
        /\ q.kind = "chunk" /\ q.index = j - 1 /\ q.write = readers[n].got[j]
    BY <2>4, <2>5, ChunkFields
  <2>8. i - 1 < j - 1
    BY <2>3
  <2>9. QED
    BY Zenon, <2>0, <2>6, <2>7, <2>8 DEF StreamInv, LaterWrite
<1>2. QED
  BY <1>1, StreamInvariant, PTL

\* A stream of known length ends normally only at that length.
THEOREM LengthIsKept == Spec => []LengthKept
<1>1. StreamInv => LengthKept
  BY Zenon DEF StreamInv
<1>2. QED
  BY <1>1, StreamInvariant, PTL

\* The types of both ends.
THEOREM StreamTypes == Spec => []TypeOK
<1>1. StreamInv => TypeOK
  BY Zenon DEF StreamInv
<1>2. QED
  BY <1>1, StreamInvariant, PTL

-----------------------------------------------------------------------------
(* A channel without faults: what a stream that ends normally holds.       *)

NoTrailer(q) == \A i \in 1..Len(q) : q[i].kind # "trailer"
Headless(q) == \A i \in 1..Len(q) : q[i].kind # "header"
HeaderFirst(q) == q # <<>> /\ q[1] = Header /\ \A i \in 2..Len(q) : q[i].kind # "header"

\* The header is sent once, before everything else, and opens the one reader.
Opening ==
    \/ stream = "new" /\ queue = <<>> /\ net = <<>> /\ readers = <<>>
    \/ stream # "new" /\ HeaderFirst(queue) /\ net = <<>> /\ readers = <<>>
    \/ stream # "new" /\ Headless(queue) /\ HeaderFirst(net) /\ readers = <<>>
    \/ stream # "new" /\ Headless(queue) /\ Headless(net) /\ Len(readers) = 1

Untrailed ==
    /\ closing = -1 => NoTrailer(queue) /\ NoTrailer(net)
    /\ closing <= Len(written)

\* The chunk of write w, the m-th that returned Ok, is in q; before every
\* trailer if it had returned when the first was queued, as the c-th or before.
Ahead(q, w, m, c) ==
    \E i \in 1..Len(q) :
        /\ q[i].kind = "chunk" /\ q[i].write = w
        /\ m <= c => \A t \in 1..Len(q) : q[t].kind = "trailer" => i < t

\* What was written is on its way to a reader that is open, or has come.
Carried ==
    open \/ readers = <<>> =>
        \A m \in 1..Len(written) :
            \/ Ahead(net, written[m], m, closing)
            \/ open /\ written[m] \in Range(readers[1].got)

Whole ==
    \A n \in 1..Len(readers) : readers[n].ended = "normal" =>
        closing # -1 /\ \A m \in 1..closing : written[m] \in Range(readers[n].got)

WholeInv == faults = 0 => Opening /\ Untrailed /\ Carried /\ Whole

LEMMA KindsAppended ==
  ASSUME NEW q \in Seq(Packets), NEW p \in Packets
  PROVE  /\ Headless(q) /\ p.kind # "header" => Headless(Append(q, p))
         /\ NoTrailer(q) /\ p.kind # "trailer" => NoTrailer(Append(q, p))
         /\ HeaderFirst(q) /\ p.kind # "header" => HeaderFirst(Append(q, p))
         /\ q = <<>> /\ p = Header => HeaderFirst(Append(q, p))
<1>1. PICK n \in Nat : n = Len(q)
  OBVIOUS
<1>2. PICK r : r = Append(q, p)
  BY Zenon
<1>3. Len(r) = n + 1 /\ r[n + 1] = p /\ r # <<>> /\ \A i \in 1..n : r[i] = q[i]
  BY <1>1, <1>2
<1>4. (q = <<>> => n = 0) /\ (q # <<>> => n > 0)
  BY <1>1
<1>5. Headless(q) /\ p.kind # "header" => Headless(r)
  BY <1>1, <1>3 DEF Headless
<1>6. NoTrailer(q) /\ p.kind # "trailer" => NoTrailer(r)
  BY <1>1, <1>3 DEF NoTrailer
<1>7. HeaderFirst(q) /\ p.kind # "header" => HeaderFirst(r)
  BY <1>1, <1>3, <1>4 DEF HeaderFirst
<1>8. q = <<>> /\ p = Header => HeaderFirst(r)
  BY <1>3, <1>4 DEF HeaderFirst
<1>9. QED
  BY Zenon, <1>2, <1>5, <1>6, <1>7, <1>8

LEMMA TailIs ==
  ASSUME NEW S, NEW q \in Seq(S), q # <<>>
  PROVE  /\ Head(q) \in S /\ Head(q) = q[1] /\ Tail(q) \in Seq(S)
         /\ Len(q) \in Nat \ {0} /\ Len(Tail(q)) = Len(q) - 1
         /\ \A i \in 1..(Len(q) - 1) : Tail(q)[i] = q[i + 1]
OBVIOUS

LEMMA KindsTailed ==
  ASSUME NEW q \in Seq(Packets), q # <<>>
  PROVE  /\ Headless(q) => Headless(Tail(q)) /\ Head(q).kind # "header"
         /\ NoTrailer(q) => NoTrailer(Tail(q)) /\ Head(q).kind # "trailer"
         /\ HeaderFirst(q) => Headless(Tail(q)) /\ Head(q) = Header
<1>1. PICK n \in Nat \ {0} : n = Len(q)
  BY Zenon, TailIs
<1>2. PICK r : r = Tail(q)
  BY Zenon
<1>3. Len(r) = n - 1 /\ Head(q) = q[1] /\ \A i \in 1..(n - 1) : r[i] = q[i + 1]
  BY Zenon, <1>1, <1>2, TailIs
<1>4. 1 \in 1..n /\ \A i \in 1..(n - 1) : i + 1 \in 1..n /\ i + 1 \in 2..n
  OBVIOUS
<1>5. Headless(q) => Headless(r) /\ Head(q).kind # "header"
  BY Zenon, <1>1, <1>3, <1>4 DEF Headless
<1>6. NoTrailer(q) => NoTrailer(r) /\ Head(q).kind # "trailer"
  BY Zenon, <1>1, <1>3, <1>4 DEF NoTrailer
<1>7. HeaderFirst(q) => Headless(r) /\ Head(q) = Header
  BY Zenon, <1>1, <1>3, <1>4 DEF HeaderFirst, Headless
<1>8. QED
  BY Zenon, <1>2, <1>5, <1>6, <1>7

LEMMA AheadAppended ==
  ASSUME NEW q \in Seq(Packets), NEW p \in Packets, NEW w, NEW m \in Int, NEW c \in Int
  PROVE  /\ Ahead(q, w, m, c) => Ahead(Append(q, p), w, m, c)
         /\ p.kind = "chunk" /\ p.write = w /\ m > c => Ahead(Append(q, p), w, m, c)
<1>1. PICK n \in Nat : n = Len(q)
  OBVIOUS
<1>2. PICK r : r = Append(q, p)
  BY Zenon
<1>3. Len(r) = n + 1 /\ r[n + 1] = p /\ \A i \in 1..n : r[i] = q[i]
  BY <1>1, <1>2
<1>4. ASSUME Ahead(q, w, m, c) PROVE Ahead(r, w, m, c)
  <2>1. PICK i \in 1..n : /\ q[i].kind = "chunk" /\ q[i].write = w
                          /\ m <= c => \A t \in 1..n : q[t].kind = "trailer" => i < t
    BY Zenon, <1>1, <1>4 DEF Ahead
  <2>2. m <= c => \A t \in 1..(n + 1) : r[t].kind = "trailer" => i < t
    BY <1>3, <2>1
  <2>3. r[i] = q[i] /\ i \in 1..(n + 1)
    BY <1>3
  <2>4. QED
    BY Zenon, <1>3, <2>1, <2>2, <2>3 DEF Ahead
<1>5. ASSUME p.kind = "chunk", p.write = w, m > c PROVE Ahead(r, w, m, c)
  <2>1. n + 1 \in 1..(n + 1) /\ ~(m <= c)
    BY <1>5
  <2>2. QED
    BY Zenon, <1>3, <1>5, <2>1 DEF Ahead
<1>6. QED
  BY Zenon, <1>2, <1>4, <1>5

LEMMA AheadTailed ==
  ASSUME NEW q \in Seq(Packets), q # <<>>, NEW w, NEW m \in Int, NEW c \in Int,
         Ahead(q, w, m, c)
  PROVE  /\ \/ Ahead(Tail(q), w, m, c)
            \/ Head(q).kind = "chunk" /\ Head(q).write = w
         /\ Head(q).kind = "trailer" => m > c
<1>1. PICK n \in Nat \ {0} : n = Len(q)
  BY Zenon, TailIs
<1>2. PICK r : r = Tail(q)
  BY Zenon
<1>3. Len(r) = n - 1 /\ Head(q) = q[1] /\ \A i \in 1..(n - 1) : r[i] = q[i + 1]
  BY Zenon, <1>1, <1>2, TailIs
<1>4. PICK i \in 1..n : /\ q[i].kind = "chunk" /\ q[i].write = w
                        /\ m <= c => \A t \in 1..n : q[t].kind = "trailer" => i < t
  BY Zenon, <1>1 DEF Ahead
<1>5. CASE i = 1
  BY Zenon, <1>3, <1>4, <1>5
<1>6. CASE i # 1
  <2>1. i - 1 \in 1..(n - 1) /\ (i - 1) + 1 = i
    BY <1>6
  <2>2. r[i - 1] = q[i]
    BY Zenon, <1>3, <2>1
  <2>3. ASSUME m <= c, NEW t \in 1..(n - 1), r[t].kind = "trailer" PROVE i - 1 < t
    <3>1. t + 1 \in 1..n /\ q[t + 1].kind = "trailer"
      BY <1>3, <2>3
    <3>2. i < t + 1
      BY Zenon, <1>4, <2>3, <3>1
    <3>3. QED
      BY <3>2
  <2>4. Ahead(r, w, m, c)
    BY Zenon, <1>3, <1>4, <2>1, <2>2, <2>3 DEF Ahead
  <2>5. Head(q).kind = "trailer" => m > c
    <3>1. 1 \in 1..n /\ ~(i < 1)
      OBVIOUS
    <3>2. QED
      BY <1>3, <1>4, <3>1
  <2>6. QED
    BY Zenon, <1>2, <2>4, <2>5
<1>7. QED
  BY Zenon, <1>5, <1>6

\* Without a trailer in the channel the place does not matter.
LEMMA AheadAnyway ==
  ASSUME NEW q, NoTrailer(q), NEW w, NEW m, NEW c, NEW d, Ahead(q, w, m, c)
  PROVE  Ahead(q, w, m, d)
BY Zenon DEF Ahead, NoTrailer

LEMMA Groups == ASSUME StreamInv PROVE WriterOK /\ WireOK /\ ReaderOK
BY Zenon, TypeGroups DEF StreamInv

\* A packet is queued.
LEMMA QueuedWhole ==
  ASSUME StreamInv, WholeInv, faults = 0, NEW p \in Packets, queue' = Append(queue, p),
         UNCHANGED <<net, incoming, written>>, stream' # "new",
         stream = "new" => p = Header, stream # "new" => p.kind # "header",
         \/ p.kind # "trailer" /\ closing' = closing
         \/ p.kind = "trailer" /\ FirstTrailer
  PROVE  Opening' /\ Untrailed' /\ Carried' /\ Whole'
<1>0. /\ queue \in Seq(Packets) /\ net \in Seq(Packets) /\ closing \in Int
      /\ written \in Seq(Writes) /\ closing >= -1 /\ Len(written) \in Nat
      /\ Opening /\ Untrailed /\ Carried /\ Whole
      /\ UNCHANGED <<net, open, readers, written>>
  BY Groups DEF WireOK, WriterOK, WholeInv, incoming
<1>1. Opening'
  BY Zenon, <1>0, KindsAppended DEF Opening
<1>2. CASE p.kind # "trailer" /\ closing' = closing
  <2>1. Untrailed'
    BY Zenon, <1>0, <1>2, KindsAppended DEF Untrailed
  <2>2. Carried' /\ Whole'
    BY Zenon, <1>0, <1>2 DEF Carried, Whole
  <2>3. QED
    BY Zenon, <1>1, <2>1, <2>2
<1>3. CASE closing # -1 /\ closing' = closing
  <2>1. Untrailed'
    BY Zenon, <1>0, <1>3 DEF Untrailed
  <2>2. Carried' /\ Whole'
    BY Zenon, <1>0, <1>3 DEF Carried, Whole
  <2>3. QED
    BY Zenon, <1>1, <2>1, <2>2
<1>4. CASE closing = -1 /\ closing' = Len(written)
  <2>1. Untrailed' /\ NoTrailer(net)
    BY <1>0, <1>4 DEF Untrailed
  <2>2. \A m \in 1..Len(written) : Ahead(net, written[m], m, closing)
                                     => Ahead(net, written[m], m, closing')
    BY Zenon, <2>1, AheadAnyway
  <2>3. Carried'
    BY Zenon, <1>0, <2>2 DEF Carried
  <2>4. Whole'
    BY Zenon, <1>0, <1>4 DEF Whole
  <2>5. QED
    BY Zenon, <1>1, <2>1, <2>3, <2>4
<1>5. QED
  BY Zenon, <1>2, <1>3, <1>4 DEF FirstTrailer

\* The outgoing task publishes the next packet.
LEMMA PublishedWhole ==
  ASSUME StreamInv, WholeInv, faults = 0, faults' = 0, Publish
  PROVE  Opening' /\ Untrailed' /\ Carried' /\ Whole'
<1>0. /\ queue \in Seq(Packets) /\ net \in Seq(Packets) /\ closing \in Int
      /\ written \in Seq(Writes) /\ closing >= -1
      /\ Opening /\ Untrailed /\ Carried /\ Whole
  BY Groups DEF WireOK, WriterOK, WholeInv
<1>1. /\ queue # <<>> /\ queue' = Tail(queue) /\ net' = Append(net, Head(queue))
      /\ RespondOk(Head(queue)) /\ UNCHANGED <<closing, open, readers>>
  BY DEF Publish, Fault, incoming
<1>2. PICK h \in Packets : h = Head(queue)
  BY Zenon, <1>0, <1>1, TailIs
<1>3. stream # "new" /\ stream' # "new"
  BY Zenon, <1>0, <1>1 DEF Opening, RespondOk
<1>4. Opening'
  BY Zenon, <1>0, <1>1, <1>2, <1>3, KindsAppended, KindsTailed DEF Opening
<1>5. PICK k \in Nat : k = Len(written)
  BY <1>0
<1>6. \/ written' = written
      \/ h.kind = "chunk" /\ written' = Append(written, h.write)
  BY Zenon, <1>1, <1>2 DEF RespondOk
<1>7. /\ \A m \in 1..k : written'[m] = written[m]
      /\ \/ Len(written') = k
         \/ Len(written') = k + 1 /\ h.kind = "chunk" /\ written'[k + 1] = h.write
  <2>1. h.kind = "chunk" => h.write \in Writes
    BY Zenon, <1>2, Kinds
  <2>2. CASE written' = written
    BY Zenon, <1>5, <2>2
  <2>3. ASSUME h.kind = "chunk", written' = Append(written, h.write)
        PROVE  /\ \A m \in 1..k : written'[m] = written[m]
               /\ Len(written') = k + 1 /\ written'[k + 1] = h.write
    <3>1. PICK w \in Writes : w = h.write /\ written' = Append(written, w)
      BY Zenon, <2>1, <2>3
    <3>2. QED
      BY <1>0, <1>5, <3>1
  <2>4. QED
    BY Zenon, <1>6, <2>2, <2>3
<1>8. Untrailed'
  BY <1>0, <1>1, <1>2, <1>5, <1>7, KindsAppended, KindsTailed DEF Untrailed
<1>9. closing <= k
  BY Zenon, <1>0, <1>5 DEF Untrailed
<1>10. ASSUME open' \/ readers' = <<>>, NEW m \in 1..Len(written')
       PROVE  \/ Ahead(net', written'[m], m, closing')
              \/ open' /\ written'[m] \in Range(readers'[1].got)
  <2>1. CASE m \in 1..k
    <3>1. \/ Ahead(net, written[m], m, closing)
          \/ open /\ written[m] \in Range(readers[1].got)
      BY Zenon, <1>0, <1>1, <1>5, <1>10, <2>1 DEF Carried
    <3>2. Ahead(net, written[m], m, closing) => Ahead(net', written[m], m, closing)
      BY <1>0, <1>1, <1>2, AheadAppended
    <3>3. QED
      BY Zenon, <1>1, <1>7, <2>1, <3>1, <3>2
  <2>2. CASE m \notin 1..k
    <3>1. m = k + 1 /\ h.kind = "chunk" /\ written'[m] = h.write /\ m > closing
      BY <1>0, <1>7, <1>9, <1>10, <2>2
    <3>2. QED
      BY <1>0, <1>1, <1>2, <3>1, AheadAppended
  <2>3. QED
    BY Zenon, <2>1, <2>2
<1>11. Carried'
  BY Zenon, <1>10 DEF Carried
<1>12. Whole'
  <2>1. \A m \in 1..closing : m \in 1..k
    BY <1>0, <1>9
  <2>2. readers' = readers /\ closing' = closing /\ \A m \in 1..closing : written'[m] = written[m]
    BY Zenon, <1>1, <1>7, <2>1
  <2>3. QED
    BY Zenon, <1>0, <2>2 DEF Whole
<1>13. QED
  BY Zenon, <1>4, <1>8, <1>11, <1>12

LEMMA WithoutFirst ==
  ASSUME NEW q \in Seq(Packets), q # <<>>
  PROVE  Without(q, 1) = Tail(q)
<1>1. PICK n \in Nat \ {0} : n = Len(q)
  BY Zenon, TailIs
<1>2. SubSeq(q, 1, 0) = <<>>
  OBVIOUS
<1>3. SubSeq(q, 2, n) = Tail(q)
  BY <1>1
<1>4. Tail(q) \in Seq(Packets)
  BY Zenon, TailIs
<1>5. <<>> \o Tail(q) = Tail(q)
  BY <1>4
<1>6. QED
  BY <1>1, <1>2, <1>3, <1>5 DEF Without

LEMMA OneReader ==
  ASSUME NEW q \in Seq(Reader), Len(q) = 1
  PROVE  1 \in 1..Len(q) /\ q[1] \in Reader /\ q # <<>>
OBVIOUS

\* A stream that is closed has nothing to carry.
LEMMA Shut ==
  ASSUME ~open', Len(readers') = 1, stream' # "new", Headless(queue'), Headless(net')
  PROVE  Opening' /\ Carried'
<1>1. readers' # <<>>
  OBVIOUS
<1>2. QED
  BY Zenon, <1>1 DEF Opening, Carried

\* The next packet arrives.
LEMMA DeliveredWhole ==
  ASSUME StreamInv, WholeInv, faults = 0, net # <<>>, net' = Tail(net),
         HandleHeader(Head(net)) \/ HandleChunk(Head(net), TRUE) \/ HandleTrailer(Head(net)),
         UNCHANGED <<rawStream, queue>>
  PROVE  Opening' /\ Untrailed' /\ Carried' /\ Whole'
<1>0. /\ queue \in Seq(Packets) /\ net \in Seq(Packets) /\ closing \in Int
      /\ written \in Seq(Writes) /\ closing >= -1
      /\ Opening /\ Untrailed /\ Carried /\ Whole
      /\ UNCHANGED <<stream, written, closing, queue>>
  BY Groups DEF WireOK, WriterOK, WholeInv, rawStream
<1>1. /\ readers \in Seq(Reader)
      /\ open => readers # <<>> /\ readers[Len(readers)].ended = "no"
  BY Zenon, Groups DEF ReaderOK, Last
<1>2. PICK h \in Packets : h = Head(net)
  BY Zenon, <1>0, TailIs
<1>3. Untrailed' /\ Headless(net') /\ stream' # "new" /\ Headless(queue')
  <2>1. Untrailed'
    BY Zenon, <1>0, KindsTailed DEF Untrailed
  <2>2. Headless(net')
    BY Zenon, <1>0, KindsTailed DEF Opening
  <2>3. QED
    BY Zenon, <1>0, <2>1, <2>2 DEF Opening
<1>4. PICK k \in Nat : k = Len(written) /\ closing <= k
  BY <1>0 DEF Untrailed
<1>5. CASE HandleHeader(h)
  <2>1. h = Header /\ h.kind = "header"
    BY Zenon, <1>5 DEF HandleHeader, Header
  <2>2. readers = <<>>
    BY Zenon, <1>0, <1>2, <2>1, KindsTailed DEF Opening
  <2>3. open' = TRUE /\ readers' = Append(readers, [got |-> <<>>, ended |-> "no", dropped |-> FALSE])
    BY Zenon, <1>1, <1>5, <2>2 DEF HandleHeader
  <2>4. Len(readers') = 1 /\ readers'[1].ended = "no"
    BY <2>2, <2>3
  <2>5. \A m \in 1..k : Ahead(net', written[m], m, closing)
    <3>1. \A m \in 1..k : Ahead(net, written[m], m, closing)
      BY Zenon, <1>1, <1>0, <1>4, <2>2 DEF Carried
    <3>2. QED
      BY <1>0, <1>2, <2>1, <3>1, AheadTailed
  <2>6. Opening' /\ Carried'
    BY Zenon, <1>0, <1>3, <1>4, <2>4, <2>5 DEF Opening, Carried
  <2>7. Whole'
    BY <2>4 DEF Whole
  <2>8. QED
    BY Zenon, <1>3, <2>6, <2>7
<1>6. CASE HandleChunk(h, TRUE) \/ HandleTrailer(h)
  <2>1. h.kind # "header"
    BY Zenon, <1>6 DEF HandleChunk, HandleTrailer
  <2>2. Len(readers) = 1 /\ Headless(net)
    BY <1>0, <1>2, <2>1, KindsTailed DEF Opening, Header
  <2>3. 1 \in 1..Len(readers) /\ readers[1] \in Reader /\ readers # <<>>
    <3>1. readers \in Seq(Reader)
      BY Zenon, <1>1
    <3>2. QED
      BY Zenon, <2>2, <3>1, OneReader
  <2>4. CASE UNCHANGED incoming /\ ~open
    <3>1. ~open' /\ readers' = readers
      BY Zenon, <2>4 DEF incoming
    <3>2. Opening' /\ Carried'
      BY Zenon, <1>3, <2>2, <3>1, Shut
    <3>3. Whole'
      BY Zenon, <1>0, <3>1 DEF Whole
    <3>4. QED
      BY Zenon, <1>3, <3>2, <3>3
  <2>5. ASSUME open, NEW how, CloseStream(how) PROVE
            /\ ~open' /\ Len(readers') = 1 /\ readers'[1].ended = how
            /\ readers'[1].got = readers[1].got
    <3>1. readers' = [readers EXCEPT ![1] = [readers[1] EXCEPT !.ended = how]]
      BY Zenon, <2>2, <2>5 DEF CloseStream, Last
    <3>2. readers[1] = [got |-> readers[1].got, ended |-> readers[1].ended, dropped |-> readers[1].dropped]
      BY Zenon, <2>3 DEF Reader
    <3>3. /\ Len(readers') = 1 /\ readers'[1].ended = how
          /\ readers'[1].got = readers[1].got
      BY <1>1, <2>2, <2>3, <3>1, <3>2 DEF Reader
    <3>4. QED
      BY Zenon, <2>5, <3>3 DEF CloseStream
  <2>6. CASE open /\ CloseStream("error")
    <3>1. ~open' /\ Len(readers') = 1 /\ readers'[1].ended = "error"
      BY Zenon, <2>5, <2>6
    <3>2. Opening' /\ Carried'
      BY Zenon, <1>3, <3>1, Shut
    <3>3. Len(readers') = 1 /\ readers'[1].ended = "error"
      BY Zenon, <3>1
    <3>4. Whole'
      BY <3>3 DEF Whole
    <3>5. QED
      BY Zenon, <1>3, <3>2, <3>4
  <2>7. CASE open /\ h.kind = "chunk" /\ Yield(h)
    <3>1. CASE readers[Last].dropped
      <4>1. ~open' /\ readers' = readers
        BY Zenon, <2>7, <3>1 DEF Yield
      <4>2. Opening' /\ Carried'
        BY Zenon, <1>3, <2>2, <4>1, Shut
      <4>3. Whole'
        BY Zenon, <1>0, <4>1 DEF Whole
      <4>4. QED
        BY Zenon, <1>3, <4>2, <4>3
    <3>2. CASE ~readers[Last].dropped
      <4>1. /\ open' = open
            /\ readers' = [readers EXCEPT ![1] = [readers[1] EXCEPT !.got = Append(readers[1].got, h.write)]]
        BY Zenon, <2>2, <2>7, <3>2 DEF Yield, Last
      <4>2. h.write \in Writes /\ readers[1].got \in Seq(Writes) /\ readers[1].ended = "no"
        BY Zenon, <1>1, <1>2, <2>2, <2>3, <2>7, Kinds DEF Reader
      <4>3. /\ Len(readers') = 1 /\ readers'[1].ended = "no"
            /\ readers'[1].got = Append(readers[1].got, h.write)
        BY <1>1, <2>2, <2>3, <4>1, <4>2 DEF Reader
      <4>4. Range(readers'[1].got) = Range(readers[1].got) \cup {h.write}
        BY <4>2, <4>3, Appended
      <4>5. \A m \in 1..k : \/ Ahead(net', written[m], m, closing)
                            \/ written[m] \in Range(readers'[1].got)
        BY <1>0, <1>2, <1>4, <2>7, <4>4, AheadTailed DEF Carried
      <4>6. Carried' /\ Opening'
        BY Zenon, <1>0, <1>3, <1>4, <2>7, <4>1, <4>3, <4>5 DEF Carried, Opening
      <4>7. Whole'
        BY <4>3 DEF Whole
      <4>8. QED
        BY Zenon, <1>3, <4>6, <4>7
    <3>3. QED
      BY Zenon, <3>1, <3>2
  <2>8. CASE open /\ h.kind = "trailer" /\ CloseStream("normal")
    <3>1. ~open' /\ Len(readers') = 1 /\ readers'[1].got = readers[1].got
      BY Zenon, <2>5, <2>8
    <3>2. closing # -1
      BY Zenon, <1>0, <1>2, <2>8, KindsTailed DEF Untrailed
    <3>3. ASSUME NEW m \in 1..closing PROVE written[m] \in Range(readers[1].got)
      <4>1. m \in 1..k /\ ~(m > closing)
        BY <1>0, <1>4
      <4>2. ~Ahead(net, written[m], m, closing)
        BY <1>0, <1>2, <2>8, <4>1, AheadTailed
      <4>3. QED
        BY Zenon, <1>0, <1>4, <2>8, <4>1, <4>2 DEF Carried
    <3>4. Whole'
      <4>1. SUFFICES ASSUME NEW n \in 1..Len(readers')
                     PROVE  /\ closing # -1
                            /\ \A m \in 1..closing : written[m] \in Range(readers'[n].got)
        BY Zenon, <1>0 DEF Whole
      <4>2. n = 1
        BY <3>1
      <4>3. QED
        BY Zenon, <3>1, <3>2, <3>3, <4>2
    <3>5. QED
      BY Zenon, <1>3, <3>1, <3>4, Shut
  <2>9. QED
    BY Zenon, <1>6, <2>4, <2>6, <2>7, <2>8 DEF HandleChunk, HandleTrailer
<1>7. QED
  BY Zenon, <1>2, <1>5, <1>6

LEMMA WholeStays ==
  ASSUME StreamInv, WholeInv, faults = 0, stream' = "new" <=> stream = "new",
         UNCHANGED <<queue, net, written, closing, open, readers>>
  PROVE  Opening' /\ Untrailed' /\ Carried' /\ Whole'
<1>1. Opening /\ Untrailed /\ Carried /\ Whole
  BY Zenon DEF WholeInv
<1>2. QED
  BY Zenon, <1>1 DEF Opening, Untrailed, Carried, Whole

LEMMA WholeStep ==
  ASSUME StreamInv, WholeInv, [Next]_vars
  PROVE  WholeInv'
<1>0. faults \in Nat /\ WriterOK
  BY Groups, DataStreamAssumption DEF WireOK
<1>1. (Fault => faults' # 0) /\ (faults' = 0 /\ UNCHANGED faults => faults = 0)
  BY <1>0 DEF Fault
<1>2. SUFFICES ASSUME faults' = 0 PROVE Opening' /\ Untrailed' /\ Carried' /\ Whole'
  BY Zenon DEF WholeInv
<1>3. CASE UNCHANGED vars
  BY Zenon, <1>1, <1>2, <1>3, WholeStays DEF vars, rawStream, incoming
<1>4. CASE Open
  <2>1. /\ Header \in Packets /\ Header.kind # "trailer" /\ queue' = Append(queue, Header)
        /\ stream = "new" /\ stream' # "new" /\ faults = 0 /\ closing' = closing
        /\ UNCHANGED <<net, incoming, written>>
    BY <1>1, <1>2, <1>4 DEF Open, SendPacket, Packets, Header
  <2>2. QED
    BY Zenon, <2>1, QueuedWhole
<1>5. CASE WriteChunk
  <2>1. PICK p \in Packets : p.kind = "chunk" /\ queue' = Append(queue, p)
    <3>1. chunk_index \in 0..MaxWrites /\ count + 1 \in Writes
      BY <1>0, <1>5, DataStreamAssumption DEF WriteChunk, WriterOK, Writes
    <3>2. QED
      BY <1>5, <3>1, ChunkFields DEF WriteChunk, SendPacket, Packets
  <2>2. /\ stream = "open" /\ stream' = "open" /\ faults = 0 /\ closing' = closing
        /\ UNCHANGED <<net, incoming, written>>
    BY Zenon, <1>1, <1>2, <1>5 DEF WriteChunk
  <2>3. QED
    BY Zenon, <2>1, <2>2, QueuedWhole
<1>6. ASSUME NEW reason \in BOOLEAN, Close(reason)
      PROVE  Opening' /\ Untrailed' /\ Carried' /\ Whole'
  <2>1. PICK p \in Packets : p.kind = "trailer" /\ queue' = Append(queue, p)
    BY <1>6 DEF Close, SendPacket, Packets, Trailer
  <2>2. /\ stream = "open" /\ stream' = "open" /\ faults = 0 /\ FirstTrailer
        /\ UNCHANGED <<net, incoming, written>>
    BY Zenon, <1>1, <1>2, <1>6 DEF Close
  <2>3. QED
    BY ZenonT(40), <2>1, <2>2, QueuedWhole
<1>7. CASE Cancel
  <2>1. /\ stream' = "new" <=> stream = "new"
        /\ UNCHANGED <<queue, net, written, closing, open, readers>> /\ faults = 0
    BY Zenon, <1>1, <1>2, <1>7 DEF Cancel, incoming
  <2>2. QED
    BY Zenon, <2>1, WholeStays
<1>8. CASE DropStream
  <2>1. /\ stream = "open" /\ stream' = "gone" /\ faults = 0
        /\ UNCHANGED <<net, incoming, written>>
    BY Zenon, <1>1, <1>2, <1>8 DEF DropStream
  <2>2. CASE UNCHANGED <<queue, closing>>
    BY Zenon, <2>1, <2>2, WholeStays DEF incoming
  <2>3. CASE queue' = Append(queue, Trailer(FALSE)) /\ FirstTrailer
    <3>1. PICK p \in Packets : p.kind = "trailer" /\ queue' = Append(queue, p)
      <4>1. \A b \in BOOLEAN : Trailer(b) \in Packets /\ Trailer(b).kind = "trailer"
        BY DEF Packets, Trailer
      <4>2. QED
        BY Zenon, <2>3, <4>1
    <3>2. QED
      BY Zenon, <2>1, <2>3, <3>1, QueuedWhole
  <2>4. QED
    BY Zenon, <1>8, <2>2, <2>3 DEF DropStream
<1>9. CASE Publish
  <2>1. faults = 0
    BY Zenon, <1>1, <1>2, <1>9 DEF Publish
  <2>2. QED
    BY Zenon, <1>2, <1>9, <2>1, PublishedWhole
<1>10. CASE Lose
  BY Zenon, <1>1, <1>2, <1>10 DEF Lose
<1>11. ASSUME NEW i \in DOMAIN net, NEW stays \in BOOLEAN, NEW same \in BOOLEAN,
              Deliver(i, stays, same)
       PROVE  Opening' /\ Untrailed' /\ Carried' /\ Whole'
  <2>0. net \in Seq(Packets)
    BY Zenon, Groups DEF WireOK
  <2>1. ~(i > 1 \/ stays \/ ~same) /\ faults = 0
    BY Zenon, <1>1, <1>2, <1>11 DEF Deliver
  <2>2. i = 1 /\ stays = FALSE /\ same = TRUE /\ net # <<>> /\ Head(net) = net[1]
    BY <2>0, <2>1
  <2>3. net' = Tail(net)
    BY Zenon, <1>11, <2>0, <2>2, WithoutFirst DEF Deliver
  <2>4. /\ HandleHeader(Head(net)) \/ HandleChunk(Head(net), TRUE) \/ HandleTrailer(Head(net))
        /\ UNCHANGED <<rawStream, queue>>
    BY Zenon, <1>11, <2>2 DEF Deliver
  <2>5. QED
    BY Zenon, <2>1, <2>2, <2>3, <2>4, DeliveredWhole
<1>12. ASSUME NEW i \in DOMAIN readers, DropReader(i)
       PROVE  Opening' /\ Untrailed' /\ Carried' /\ Whole'
  <2>1. /\ UNCHANGED <<stream, queue, net, written, closing, open>> /\ faults = 0
        /\ Opening /\ Untrailed /\ Carried /\ Whole
        /\ readers' = [readers EXCEPT ![i].dropped = TRUE]
    BY Zenon, <1>1, <1>2, <1>12 DEF DropReader, rawStream, WholeInv
  <2>2. readers \in Seq(Reader) /\ i \in 1..Len(readers)
    BY Groups DEF ReaderOK
  <2>3. /\ Len(readers') = Len(readers) /\ readers # <<>> /\ readers' # <<>>
        /\ \A n \in 1..Len(readers) : readers'[n].got = readers[n].got
                                      /\ readers'[n].ended = readers[n].ended
    <3>1. readers' = [readers EXCEPT ![i] = [readers[i] EXCEPT !.dropped = TRUE]]
      BY Zenon, <2>1
    <3>2. \A n \in 1..Len(readers) : readers[n] \in Reader
      BY <2>2
    <3>3. [readers[i] EXCEPT !.dropped = TRUE] \in Reader
      BY Zenon, <2>2, <3>2 DEF Reader
    <3>4. /\ [readers[i] EXCEPT !.dropped = TRUE].got = readers[i].got
          /\ [readers[i] EXCEPT !.dropped = TRUE].ended = readers[i].ended
      BY Zenon, <2>2, <3>2 DEF Reader
    <3>5. QED
      BY <2>2, <3>1, <3>3, <3>4, Replaced
  <2>4. Len(readers) = 1 /\ Opening'
    BY Zenon, <2>1, <2>3 DEF Opening
  <2>5. Untrailed'
    BY Zenon, <2>1 DEF Untrailed
  <2>6. Carried' /\ Whole'
    <3>1. 1 \in 1..Len(readers)
      BY <2>4
    <3>2. readers'[1].got = readers[1].got
      BY Zenon, <2>3, <3>1
    <3>3. Carried'
      BY Zenon, <2>1, <2>3, <3>2 DEF Carried
    <3>4. Whole'
      BY Zenon, <2>1, <2>3 DEF Whole
    <3>5. QED
      BY Zenon, <3>3, <3>4
  <2>7. QED
    BY Zenon, <2>4, <2>5, <2>6
<1>13. QED
  BY Zenon, <1>3, <1>4, <1>5, <1>6, <1>7, <1>8, <1>9, <1>10, <1>11, <1>12 DEF Next

\* Over a channel without faults a stream that ends normally holds every chunk
\* whose write had returned Ok before the trailer was queued, in the one reader
\* there is: whatever writes, closes and readers were given up meanwhile.
THEOREM NormalEndsAreWhole == Spec => []NormalEndIsWhole
<1>1. Init => WholeInv
  <2>1. SUFFICES ASSUME Init PROVE Opening /\ Untrailed /\ Carried /\ Whole
    BY Zenon DEF WholeInv
  <2>2. /\ stream = "new" /\ queue = <<>> /\ net = <<>> /\ readers = <<>> /\ written = <<>>
        /\ closing = -1
    BY Zenon, <2>1 DEF Init
  <2>3. Len(queue) = 0 /\ Len(net) = 0 /\ Len(written) = 0 /\ Len(readers) = 0
    BY Zenon, <2>2
  <2>4. Opening /\ Untrailed
    BY <2>2, <2>3 DEF Opening, Untrailed, NoTrailer
  <2>5. 1..Len(written) = {} /\ 1..Len(readers) = {}
    BY <2>3
  <2>6. QED
    BY Zenon, <2>4, <2>5 DEF Carried, Whole
<1>2. StreamInv /\ WholeInv /\ [Next]_vars => WholeInv'
  BY Zenon, WholeStep
<1>3. ASSUME StreamInv, WholeInv PROVE NormalEndIsWhole
  <2>1. SUFFICES ASSUME faults = 0 PROVE NormalEndIsWhole
    BY Zenon DEF NormalEndIsWhole
  <2>2. /\ readers \in Seq(Reader) /\ written \in Seq(Writes) /\ closing \in Int
        /\ closing >= -1 /\ Opening /\ Untrailed /\ Whole
    <3>1. ReaderOK /\ WriterOK /\ Opening /\ Untrailed /\ Whole
      BY Zenon, <1>3, <2>1, Groups DEF WholeInv
    <3>2. closing \in Int /\ closing >= -1
      BY <3>1 DEF WriterOK
    <3>3. readers \in Seq(Reader) /\ written \in Seq(Writes)
      BY Zenon, <3>1 DEF ReaderOK, WriterOK
    <3>4. QED
      BY Zenon, <3>1, <3>2, <3>3
  <2>3. Len(readers) <= 1
    <3>1. readers = <<>> \/ Len(readers) = 1
      BY Zenon, <2>2 DEF Opening
    <3>2. readers = <<>> => Len(readers) = 0
      OBVIOUS
    <3>3. Len(readers) = 0 \/ Len(readers) = 1
      BY Zenon, <3>1, <3>2
    <3>4. PICK n \in {0, 1} : n = Len(readers)
      BY Zenon, <3>3
    <3>5. n <= 1
      OBVIOUS
    <3>6. QED
      BY Zenon, <3>4, <3>5
  <2>4. ASSUME NEW r \in Range(readers), r.ended = "normal"
        PROVE  Range(SubSeq(written, 1, closing)) \subseteq Range(r.got)
    <3>1. PICK n \in 1..Len(readers) : r = readers[n]
      BY <2>2 DEF Range
    <3>2. PICK k \in Nat : k = closing /\ k <= Len(written)
      BY <2>2, <2>4, <3>1 DEF Whole, Untrailed
    <3>3. \A m \in 1..k : written[m] \in Range(r.got)
      BY Zenon, <2>2, <2>4, <3>1, <3>2 DEF Whole
    <3>4. PICK t : t = SubSeq(written, 1, closing)
      BY Zenon
    <3>5. DOMAIN t = 1..k /\ \A m \in 1..k : t[m] = written[m]
      BY <2>2, <3>2, <3>4
    <3>6. QED
      <4>1. SUFFICES ASSUME NEW x \in Range(t) PROVE x \in Range(r.got)
        BY Zenon, <3>4
      <4>2. PICK m \in 1..k : x = t[m]
        BY Zenon, <3>5, <4>1 DEF Range
      <4>3. QED
        BY Zenon, <3>3, <3>5, <4>2
  <2>5. QED
    BY Zenon, <2>3, <2>4 DEF NormalEndIsWhole
<1>4. QED
  BY <1>1, <1>2, <1>3, StreamInvariant, PTL DEF Spec
=============================================================================
