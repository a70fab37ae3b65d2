----------------------- MODULE ReliableChannelProofs -----------------------
(***************************************************************************)
(* For any number of packets, any threshold and any number of faults: the  *)
(* account of what the channel holds is exact, packets arrive in order and *)
(* once until a resume, and what the receiving session reports misses none *)
(* of them.                                                                *)
(***************************************************************************)
EXTENDS ReliableChannel, TLAPS

\* Rising numbers above lo, up to hi: in a queue of numbers, of requests, and
\* in the PublishData events of the task.
Rising(q, lo, hi) ==
    /\ \A i \in 1..Len(q) : lo < q[i] /\ q[i] <= hi
    /\ \A i, j \in 1..Len(q) : i < j => q[i] < q[j]
RisingRequests(q, lo, hi) ==
    /\ \A i \in 1..Len(q) : lo < q[i].seq /\ q[i].seq <= hi
    /\ \A i, j \in 1..Len(q) : i < j => q[i].seq < q[j].seq
RisingEvents(q, lo, hi) ==
    /\ \A i \in 1..Len(q) : q[i].type = "PublishData" => lo < q[i].seq /\ q[i].seq <= hi
    /\ \A i, j \in 1..Len(q) :
          i < j /\ q[i].type = "PublishData" /\ q[j].type = "PublishData" => q[i].seq < q[j].seq

\* The packets in the order of their numbers: at the SFU up to a, in the channel
\* up to b, queued up to c, and after that those the task will queue.
Line(a, b, c) ==
    /\ a <= b /\ b <= c /\ c < next_packet_sequence
    /\ Rising(arrived, 0, a) /\ Rising(buffer, a, b)
    /\ RisingRequests(reliable_queue, b, c)
    /\ RisingEvents(dc_events, c, next_packet_sequence - 1)
InLine == \E a, b, c \in Nat : Line(a, b, c)

NoRetry == \A i \in 1..Len(dc_events) : dc_events[i].type # "RetryFrom"

\* A packet of the link has all earlier ones before it, or they were passed on,
\* as was all up to rx_state.
Holds(q, seq) == \E i \in 1..Len(q) : q[i] = seq
Before(q, n, seq) == \E i \in 1..Len(q) : i <= n /\ q[i] = seq
Covered(arr, way, got) == \A m \in 1..Len(arr) : Holds(got, arr[m]) \/ Holds(way, arr[m])
Seen(arr, got, state) == \A m \in 1..Len(arr) : arr[m] <= state => Holds(got, arr[m])
Earlier(arr, way, got) ==
    \A m \in 1..Len(arr), n \in 1..Len(way) :
        arr[m] <= way[n] => Holds(got, arr[m]) \/ Before(way, n, arr[m])
Forwarded(arr, way) == \A n \in 1..Len(way) : Holds(arr, way[n])
StateKnown(arr, state) == state = 0 \/ Holds(arr, state)
AllReplayed(arr, way, got, state) ==
    /\ Covered(arr, way, got) /\ Seen(arr, got, state) /\ Earlier(arr, way, got)
    /\ Forwarded(arr, way) /\ StateKnown(arr, state)
Replays == AllReplayed(arrived, link, received, rx_state)

\* The places of arr after state, in their order, and what is sent again from
\* them behind the first k packets of the link.
Places(at, l, arr, state) ==
    /\ l \in Nat /\ \A i \in 1..l : at[i] \in 1..Len(arr)
    /\ \A i, j \in 1..l : i < j => at[i] < at[j]
    /\ \A m \in 1..Len(arr) : arr[m] > state => \E i \in 1..l : at[i] = m
Resent(r, at, l, arr) == Len(r) = l /\ \A i \in 1..l : r[i] = arr[at[i]]
Spliced(way2, way, k, r, l) ==
    /\ Len(way2) = k + l /\ \A i \in 1..k : way2[i] = way[i]
    /\ \A i \in 1..l : way2[k + i] = r[i]

\* Calls are numbered in the order in which they were made: those without a
\* number have their packet in dc_events, in that order.
Packet(i, c) == dc_events[i].type = "PublishPacket" /\ dc_events[i].call = c
NumbersBelow ==
    \A c \in Calls : /\ sequence_of[c] < next_packet_sequence
                     /\ call[c] = "new" => sequence_of[c] = None
AskedMade == \A p \in 1..Len(asked) : call[asked[p]] # "new"
AskedInOrder ==
    \A p, q \in 1..Len(asked) :
        p < q => /\ asked[p] # asked[q]
                 /\ sequence_of[asked[q]] # None =>
                      /\ sequence_of[asked[p]] # None
                      /\ sequence_of[asked[p]] < sequence_of[asked[q]]
AskedQueued ==
    \A p \in 1..Len(asked) :
        sequence_of[asked[p]] = None => \E i \in 1..Len(dc_events) : Packet(i, asked[p])
QueuedAsked ==
    \A i \in 1..Len(dc_events) :
        dc_events[i].type = "PublishPacket" =>
            \E p \in 1..Len(asked) : /\ asked[p] = dc_events[i].call
                                     /\ sequence_of[asked[p]] = None
QueuedInOrder ==
    \A p, q \in 1..Len(asked), i, j \in 1..Len(dc_events) :
        Packet(i, asked[p]) /\ Packet(j, asked[q]) /\ i < j => p < q
Numbering ==
    /\ NumbersBelow /\ AskedMade /\ AskedInOrder
    /\ AskedQueued /\ QueuedAsked /\ QueuedInOrder

Numbered == {c \in Calls : sequence_of[c] # None}

ReliableInv ==
    /\ TypeOK /\ BufferedExact /\ Numbering
    /\ next_packet_sequence = Cardinality(Numbered) + 1
    /\ ~resumed => InLine /\ NoRetry /\ Replays

-----------------------------------------------------------------------------
\* What the proofs use about the size of finite sets. CountingHolds has it from
\* FiniteSetTheorems, taken in behind the lemmas, which then need not carry it.
Counting ==
    /\ IsFiniteSet({}) /\ Cardinality({}) = 0
    /\ \A a, b \in Int : /\ IsFiniteSet(a..b)
                         /\ Cardinality(a..b) = IF a > b THEN 0 ELSE b - a + 1
    /\ \A S : IsFiniteSet(S) => /\ Cardinality(S) \in Nat
                                /\ ExistsBijection(1..Cardinality(S), S)
    /\ \A S : \A T \in SUBSET S :
          IsFiniteSet(S) => /\ IsFiniteSet(T) /\ Cardinality(T) <= Cardinality(S)
                            /\ Cardinality(S) = Cardinality(T) => S = T
    /\ \A S, x : IsFiniteSet(S) =>
          /\ IsFiniteSet(S \cup {x})
          /\ Cardinality(S \cup {x}) = IF x \in S THEN Cardinality(S) ELSE Cardinality(S) + 1
    /\ \A S, x : IsFiniteSet(S) =>
          /\ IsFiniteSet(S \ {x})
          /\ Cardinality(S \ {x}) = IF x \in S THEN Cardinality(S) - 1 ELSE Cardinality(S)
    /\ \A S, T : IsFiniteSet(S) /\ ExistsBijection(S, T) =>
          IsFiniteSet(T) /\ Cardinality(T) = Cardinality(S)
    /\ \A S, T : \A f \in Injection(S, T) : IsFiniteSet(T) =>
          /\ IsFiniteSet(S) /\ Cardinality(S) <= Cardinality(T)
          /\ Cardinality(S) = Cardinality(T) <=> f \in Surjection(S, T)


LEMMA CountEmpty == ASSUME Counting PROVE IsFiniteSet({}) /\ Cardinality({}) = 0
  BY Zenon DEF Counting

LEMMA CountInterval ==
  ASSUME Counting, NEW a \in Int, NEW b \in Int
  PROVE  IsFiniteSet(a..b) /\ Cardinality(a..b) = IF a > b THEN 0 ELSE b - a + 1
  BY Zenon DEF Counting

LEMMA CountType ==
  ASSUME Counting, NEW S, IsFiniteSet(S)
  PROVE  Cardinality(S) \in Nat /\ ExistsBijection(1..Cardinality(S), S)
  BY Zenon DEF Counting

LEMMA CountSubset ==
  ASSUME Counting, NEW S, IsFiniteSet(S), NEW T \in SUBSET S
  PROVE  /\ IsFiniteSet(T) /\ Cardinality(T) <= Cardinality(S)
         /\ Cardinality(S) = Cardinality(T) => S = T
  BY Zenon DEF Counting

LEMMA CountAdd ==
  ASSUME Counting, NEW S, NEW x, IsFiniteSet(S)
  PROVE  /\ IsFiniteSet(S \cup {x})
         /\ Cardinality(S \cup {x}) = IF x \in S THEN Cardinality(S) ELSE Cardinality(S) + 1
  BY Zenon DEF Counting

LEMMA CountRemove ==
  ASSUME Counting, NEW S, NEW x, IsFiniteSet(S)
  PROVE  /\ IsFiniteSet(S \ {x})
         /\ Cardinality(S \ {x}) = IF x \in S THEN Cardinality(S) - 1 ELSE Cardinality(S)
  BY Zenon DEF Counting

LEMMA CountBijection ==
  ASSUME Counting, NEW S, NEW T, IsFiniteSet(S), ExistsBijection(S, T)
  PROVE  IsFiniteSet(T) /\ Cardinality(T) = Cardinality(S)
  BY Zenon DEF Counting

LEMMA CountInjection ==
  ASSUME Counting, NEW S, NEW T, NEW f \in Injection(S, T), IsFiniteSet(T)
  PROVE  /\ IsFiniteSet(S) /\ Cardinality(S) <= Cardinality(T)
         /\ Cardinality(S) = Cardinality(T) <=> f \in Surjection(S, T)
  BY Zenon DEF Counting

(* Sequences.                                                              *)
LEMMA Appended ==
  ASSUME NEW S, NEW q \in Seq(S), NEW e \in S
  PROVE  /\ Append(q, e) \in Seq(S) /\ Len(Append(q, e)) = Len(q) + 1 /\ Len(q) \in Nat
         /\ \A i \in 1..Len(q) : Append(q, e)[i] = q[i]
         /\ Append(q, e)[Len(q) + 1] = e
OBVIOUS

LEMMA Tailed ==
  ASSUME NEW S, NEW q \in Seq(S), q # <<>>
  PROVE  /\ Head(q) \in S /\ Head(q) = q[1] /\ Tail(q) \in Seq(S)
         /\ Len(q) \in Nat \ {0} /\ Len(Tail(q)) = Len(q) - 1
         /\ \A i \in 1..(Len(q) - 1) : Tail(q)[i] = q[i + 1]
OBVIOUS

LEMMA FunctionIsSeq ==
  ASSUME NEW S, NEW n \in Nat, NEW f \in [1..n -> S]
  PROVE  f \in Seq(S) /\ Len(f) = n
OBVIOUS

LEMMA Joined ==
  ASSUME NEW S, NEW p \in Seq(S), NEW q \in Seq(S)
  PROVE  /\ p \o q \in Seq(S) /\ Len(p \o q) = Len(p) + Len(q)
         /\ Len(p) \in Nat /\ Len(q) \in Nat
         /\ \A i \in 1..Len(p) : (p \o q)[i] = p[i]
         /\ \A i \in 1..Len(q) : (p \o q)[Len(p) + i] = q[i]
OBVIOUS

LEMMA Elements ==
  ASSUME NEW S, NEW q \in Seq(S)
  PROVE  Len(q) \in Nat /\ DOMAIN q = 1..Len(q) /\ \A i \in 1..Len(q) : q[i] \in S
OBVIOUS

LEMMA Suffix ==
  ASSUME NEW S, NEW q \in Seq(S), NEW n \in 0..Len(q)
  PROVE  /\ SubSeq(q, n + 1, Len(q)) \in Seq(S) /\ Len(SubSeq(q, n + 1, Len(q))) = Len(q) - n
         /\ \A i \in 1..(Len(q) - n) : SubSeq(q, n + 1, Len(q))[i] = q[n + i]
OBVIOUS

LEMMA Prefix ==
  ASSUME NEW S, NEW q \in Seq(S), NEW n \in 0..Len(q)
  PROVE  /\ SubSeq(q, 1, n) \in Seq(S) /\ Len(SubSeq(q, 1, n)) = n
         /\ \A i \in 1..n : SubSeq(q, 1, n)[i] = q[i]
OBVIOUS

\* The same with names for the lengths and the results.
LEMMA AppendedIs ==
  ASSUME NEW S, NEW q \in Seq(S), NEW e \in S, NEW s, s = Append(q, e), NEW n, n = Len(q)
  PROVE  n \in Nat /\ Len(s) = n + 1 /\ s[n + 1] = e /\ \A i \in 1..n : s[i] = q[i]
OBVIOUS

LEMMA TailedIs ==
  ASSUME NEW S, NEW q \in Seq(S), q # <<>>, NEW s, s = Tail(q), NEW n, n = Len(q)
  PROVE  n \in Nat \ {0} /\ Len(s) = n - 1 /\ \A i \in 1..(n - 1) : s[i] = q[i + 1]
OBVIOUS

LEMMA JoinedIs ==
  ASSUME NEW S, NEW p \in Seq(S), NEW q \in Seq(S), NEW s, s = p \o q,
         NEW m, m = Len(p), NEW n, n = Len(q)
  PROVE  /\ m \in Nat /\ n \in Nat /\ s \in Seq(S) /\ Len(s) = m + n
         /\ \A i \in 1..m : s[i] = p[i]
         /\ \A i \in 1..n : s[m + i] = q[i]
OBVIOUS

\* A sequence behind the first k places of another.
LEMMA SplicedAt ==
  ASSUME NEW S, NEW way \in Seq(S), NEW k \in 0..Len(way), NEW r \in Seq(S)
  PROVE  Spliced(SubSeq(way, 1, k) \o r, way, k, r, Len(r))
<1>1. PICK p, m, n, s : /\ p = SubSeq(way, 1, k) /\ m = Len(p) /\ n = Len(r)
                        /\ s = SubSeq(way, 1, k) \o r
  BY Zenon
<1>2. p \in Seq(S) /\ m = k /\ \A i \in 1..k : p[i] = way[i]
  BY ZenonT(40), <1>1, Prefix
<1>3. Len(s) = m + n /\ (\A i \in 1..m : s[i] = p[i]) /\ \A i \in 1..n : s[m + i] = r[i]
  <2>1. s = p \o r
    BY Zenon, <1>1
  <2>2. m = Len(p) /\ n = Len(r) /\ p \in Seq(S)
    BY Zenon, <1>1, <1>2
  <2>3. QED
    BY <2>1, <2>2, JoinedIs
<1>4. Spliced(s, way, k, r, n)
  BY ZenonT(40), <1>2, <1>3 DEF Spliced
<1>5. QED
  BY ZenonT(40), <1>1, <1>4

\* Every place of p \o q is one of p or one of q.
LEMMA JoinedPlaces ==
  ASSUME NEW S, NEW p \in Seq(S), NEW q \in Seq(S), NEW i \in 1..Len(p \o q)
  PROVE  \/ i \in 1..Len(p) /\ (p \o q)[i] = p[i]
         \/ \E j \in 1..Len(q) : i = Len(p) + j /\ (p \o q)[i] = q[j]
<1>1. /\ Len(p) \in Nat /\ Len(q) \in Nat /\ Len(p \o q) = Len(p) + Len(q)
      /\ \A k \in 1..Len(p) : (p \o q)[k] = p[k]
      /\ \A k \in 1..Len(q) : (p \o q)[Len(p) + k] = q[k]
  OBVIOUS
<1>2. PICK m \in Nat, n \in Nat : m = Len(p) /\ n = Len(q)
  BY Zenon, <1>1
<1>3. CASE i <= m
  BY <1>1, <1>2, <1>3
<1>4. CASE ~(i <= m)
  <2>1. i - m \in 1..n /\ i = m + (i - m)
    BY <1>1, <1>2, <1>4
  <2>2. QED
    BY ZenonT(40), <1>1, <1>2, <2>1
<1>5. QED
  BY Zenon, <1>3, <1>4

-----------------------------------------------------------------------------
(* The reports in dc_events.                                               *)

ReportsIn(q) == {i \in 1..Len(q) : q[i].type = "BufferedAmountChange"}

LEMMA ReportsFinite ==
  ASSUME Counting, NEW q \in Seq(Events)
  PROVE  IsFiniteSet(ReportsIn(q)) /\ Cardinality(ReportsIn(q)) \in Nat
<1>1. IsFiniteSet(1..Len(q)) /\ ReportsIn(q) \subseteq 1..Len(q)
  BY CountInterval DEF ReportsIn
<1>2. QED
  BY Zenon, <1>1, CountSubset, CountType

LEMMA ReportsAppended ==
  ASSUME Counting, NEW q \in Seq(Events), NEW e \in Events
  PROVE  Cardinality(ReportsIn(Append(q, e))) =
            Cardinality(ReportsIn(q)) + (IF e.type = "BufferedAmountChange" THEN 1 ELSE 0)
<1>1. PICK n \in Nat : n = Len(q)
  OBVIOUS
<1>2. PICK r : r = Append(q, e)
  BY Zenon
<1>3. Len(r) = n + 1 /\ r[n + 1] = e /\ \A i \in 1..n : r[i] = q[i]
  BY <1>1, <1>2
<1>4. CASE e.type = "BufferedAmountChange"
  <2>1. ReportsIn(r) = ReportsIn(q) \cup {n + 1} /\ n + 1 \notin ReportsIn(q)
    BY <1>1, <1>3, <1>4 DEF ReportsIn
  <2>2. Cardinality(ReportsIn(r)) = Cardinality(ReportsIn(q)) + 1
    BY Zenon, <2>1, ReportsFinite, CountAdd
  <2>3. QED
    BY Zenon, <1>2, <1>4, <2>2
<1>5. CASE e.type # "BufferedAmountChange"
  <2>1. ReportsIn(r) = ReportsIn(q)
    BY <1>1, <1>3, <1>5 DEF ReportsIn
  <2>2. Cardinality(ReportsIn(q)) = Cardinality(ReportsIn(q)) + 0
    BY ReportsFinite
  <2>3. QED
    BY Zenon, <1>2, <1>5, <2>1, <2>2
<1>6. QED
  BY Zenon, <1>4, <1>5

LEMMA ReportsTailed ==
  ASSUME Counting, NEW q \in Seq(Events), q # <<>>
  PROVE  Cardinality(ReportsIn(q)) =
            Cardinality(ReportsIn(Tail(q)))
              + (IF Head(q).type = "BufferedAmountChange" THEN 1 ELSE 0)
<1>1. PICK n \in Nat \ {0} : n = Len(q)
  OBVIOUS
<1>2. PICK r \in Seq(Events) : r = Tail(q)
  BY Zenon, Tailed
<1>3. Len(r) = n - 1 /\ Head(q) = q[1] /\ \A i \in 1..(n - 1) : r[i] = q[i + 1]
  BY <1>1, <1>2
<1>4. PICK f : f = [i \in ReportsIn(r) |-> i + 1]
  BY Zenon
<1>5. /\ f \in [ReportsIn(r) -> ReportsIn(q) \ {1}]
      /\ \A i, j \in ReportsIn(r) : f[i] = f[j] => i = j
      /\ \A j \in ReportsIn(q) \ {1} : \E i \in ReportsIn(r) : f[i] = j
  <2>1. \A i \in ReportsIn(r) : f[i] = i + 1 /\ i \in 1..(n - 1) /\ i + 1 \in ReportsIn(q) \ {1}
    BY <1>1, <1>3, <1>4 DEF ReportsIn
  <2>2. ASSUME NEW j \in ReportsIn(q) \ {1} PROVE j - 1 \in ReportsIn(r) /\ (j - 1) + 1 = j
    BY <1>1, <1>3 DEF ReportsIn
  <2>3. f \in [ReportsIn(r) -> ReportsIn(q) \ {1}]
    BY Zenon, <1>4, <2>1
  <2>4. \A i, j \in ReportsIn(r) : f[i] = f[j] => i = j
    BY <2>1
  <2>5. \A j \in ReportsIn(q) \ {1} : \E i \in ReportsIn(r) : f[i] = j
    BY Zenon, <2>1, <2>2
  <2>6. QED
    BY Zenon, <2>3, <2>4, <2>5
<1>6. Cardinality(ReportsIn(q) \ {1}) = Cardinality(ReportsIn(r))
  <2>1. f \in Bijection(ReportsIn(r), ReportsIn(q) \ {1})
    BY Zenon, <1>4, <1>5 DEF Bijection, Injection, Surjection, IsInjective
  <2>2. QED
    BY ZenonT(40), <2>1, ReportsFinite, CountBijection DEF ExistsBijection
<1>7. 1 \in ReportsIn(q) <=> Head(q).type = "BufferedAmountChange"
  BY <1>1, <1>3 DEF ReportsIn
<1>8. Cardinality(ReportsIn(q) \ {1}) =
        IF 1 \in ReportsIn(q) THEN Cardinality(ReportsIn(q)) - 1 ELSE Cardinality(ReportsIn(q))
  BY Zenon, ReportsFinite, CountRemove
<1>9. Cardinality(ReportsIn(q)) \in Nat /\ Cardinality(ReportsIn(r)) \in Nat
  BY Zenon, ReportsFinite
<1>10. QED
  BY <1>2, <1>6, <1>7, <1>8, <1>9

-----------------------------------------------------------------------------
(* Events, and what SendUntilThreshold does.                               *)

LEMMA EventKinds ==
  /\ \A c \in Calls, big \in BOOLEAN :
        PublishPacket(c, big) \in Events /\ PublishPacket(c, big).type = "PublishPacket"
        /\ PublishPacket(c, big).call = c
  /\ \A seq \in 1..MaxPackets, c \in Calls \cup {None} :
        PublishData(seq, c) \in Events /\ PublishData(seq, c).type = "PublishData"
        /\ PublishData(seq, c).seq = seq
  /\ BufferedAmountChange(1) \in Events
  /\ BufferedAmountChange(1).type = "BufferedAmountChange"
  /\ \A last \in Sequences0 :
        RetryFrom(last) \in Events /\ RetryFrom(last).type = "RetryFrom"
<1>1. ASSUME NEW c \in Calls, NEW big \in BOOLEAN
      PROVE  PublishPacket(c, big) \in Events /\ PublishPacket(c, big).type = "PublishPacket"
             /\ PublishPacket(c, big).call = c
  <2>1. PublishPacket(c, big) \in Events
    BY DEF Events
  <2>2. PublishPacket(c, big).type = "PublishPacket" /\ PublishPacket(c, big).call = c
    BY Zenon DEF PublishPacket
  <2>3. QED
    BY Zenon, <2>1, <2>2
<1>2. ASSUME NEW seq \in 1..MaxPackets, NEW c \in Calls \cup {None}
      PROVE  PublishData(seq, c) \in Events /\ PublishData(seq, c).type = "PublishData"
             /\ PublishData(seq, c).seq = seq
  <2>1. PublishData(seq, c) \in Events
    BY DEF Events
  <2>2. PublishData(seq, c).type = "PublishData" /\ PublishData(seq, c).seq = seq
    BY Zenon DEF PublishData
  <2>3. QED
    BY Zenon, <2>1, <2>2
<1>3. /\ BufferedAmountChange(1) \in Events
      /\ \A last \in Sequences0 : RetryFrom(last) \in Events
  BY DEF Events
<1>4. /\ BufferedAmountChange(1).type = "BufferedAmountChange"
      /\ \A last \in Sequences0 : RetryFrom(last).type = "RetryFrom"
  BY Zenon DEF BufferedAmountChange, RetryFrom
<1>5. QED
  BY Zenon, <1>1, <1>2, <1>3, <1>4

LEMMA EventParts ==
  ASSUME NEW e \in Events
  PROVE  /\ e.type = "PublishPacket" => e.call \in Calls
         /\ e.type = "PublishData" => e.seq \in 1..MaxPackets /\ e.call \in Calls \cup {None}
         /\ e.type = "BufferedAmountChange" => e.sent = 1
         /\ e.type = "RetryFrom" => e.last \in Sequences0
BY DEF Events, PublishPacket, PublishData, BufferedAmountChange, RetryFrom

LEMMA Constants ==
  /\ MaxPackets \in Nat /\ Threshold \in Nat /\ MaxFaults \in Nat
  /\ Calls = 1..MaxPackets /\ None = 0 /\ Sequences0 = 0..MaxPackets /\ None \notin Calls
BY ReliableChannelAssumption DEF Calls, None, Sequences0

CallStates == {"new", "waiting", "ok", "error"}

\* n packets at the head of `queue`, with the numbers `sent`, go to the channel.
Sent(queue, buffered, n, sent) ==
    /\ n \in 0..Len(queue) /\ sent \in Seq(1..MaxPackets) /\ Len(sent) = n
    /\ \A i \in 1..n : sent[i] = queue[i].seq
    /\ reliable_queue' = SubSeq(queue, n + 1, Len(queue))
    /\ buffered_amount' = buffered + n
    /\ n > 0 => buffered + n <= Threshold + 1
    /\ \/ buffer' = buffer \o sent /\ failed' = failed /\ faults' = faults
       \/ buffer' = buffer /\ failed' = failed + n /\ Fault

LEMMA SendsSome ==
  ASSUME NEW queue \in Seq(Requests), NEW buffered \in Nat, NEW size, NEW taken,
         SendUntilThreshold(queue, buffered, size, taken)
  PROVE  \E n, sent : /\ Sent(queue, buffered, n, sent)
                      /\ retry_queue' = Trim(retry_queue \o sent, size)
<1>1. PICK room : room = IF buffered <= Threshold THEN Threshold + 1 - buffered ELSE 0
  BY Zenon
<1>2. PICK n : n = IF Len(queue) < room THEN Len(queue) ELSE room
  BY Zenon
<1>3. PICK sent : sent = [i \in 1..n |-> queue[i].seq]
  BY Zenon
<1>4. n \in 0..Len(queue) /\ (n > 0 => buffered + n <= Threshold + 1) /\ n \in Nat
  <2>1. room \in Nat /\ (room > 0 => buffered + room = Threshold + 1)
    BY <1>1, ReliableChannelAssumption
  <2>2. Len(queue) \in Nat
    OBVIOUS
  <2>3. QED
    BY <1>2, <2>1, <2>2, ReliableChannelAssumption
<1>5. sent \in Seq(1..MaxPackets) /\ Len(sent) = n /\ \A i \in 1..n : sent[i] = queue[i].seq
  <2>1. \A i \in 1..n : queue[i].seq \in 1..MaxPackets
    <3>1. \A i \in 1..Len(queue) : queue[i].seq \in 1..MaxPackets
      <4>1. \A r \in Requests : r.seq \in 1..MaxPackets
        BY Zenon DEF Requests
      <4>2. QED
        BY Zenon, <4>1, Elements
    <3>2. \A i \in 1..n : i \in 1..Len(queue)
      BY <1>4, Elements
    <3>3. QED
      BY Zenon, <3>1, <3>2
  <2>2. sent \in [1..n -> 1..MaxPackets]
    BY Zenon, <1>3, <2>1
  <2>3. \A i \in 1..n : sent[i] = queue[i].seq
    BY Zenon, <1>3
  <2>4. sent \in Seq(1..MaxPackets) /\ Len(sent) = n
    BY Zenon, <1>4, <2>2, FunctionIsSeq
  <2>5. QED
    BY Zenon, <2>3, <2>4
<1>6. /\ reliable_queue' = SubSeq(queue, n + 1, Len(queue))
      /\ buffered_amount' = buffered + n /\ retry_queue' = Trim(retry_queue \o sent, size)
      /\ \/ buffer' = buffer \o sent /\ failed' = failed /\ faults' = faults
         \/ buffer' = buffer /\ failed' = failed + n /\ Fault
  BY Zenon, <1>1, <1>2, <1>3 DEF SendUntilThreshold
<1>7. QED
  BY Zenon, <1>4, <1>5, <1>6 DEF Sent

LEMMA SendsCalls ==
  ASSUME TypeOK, NEW queue, NEW buffered, NEW size, NEW taken,
         SendUntilThreshold(queue, buffered, size, taken)
  PROVE  call' \in [Calls -> CallStates] /\ \A c \in Calls : call'[c] = "new" => call[c] = "new"
<1>1. PICK done : call' = [c \in Calls |-> IF c \in done THEN (IF taken THEN "ok" ELSE "error")
                                           ELSE call[c]]
  BY Zenon DEF SendUntilThreshold
<1>2. PICK v \in {"ok", "error"} : v = IF taken THEN "ok" ELSE "error"
  BY Zenon
<1>3. call' = [c \in Calls |-> IF c \in done THEN v ELSE call[c]]
  BY Zenon, <1>1, <1>2
<1>4. QED
  BY Zenon, <1>3 DEF TypeOK, CallStates

LEMMA Trimmed ==
  ASSUME NEW q \in Seq(1..MaxPackets), NEW size \in Nat
  PROVE  Trim(q, size) \in Seq(1..MaxPackets)
<1>1. CASE Len(q) > size
  <2>1. Len(q) - size \in 0..Len(q)
    BY <1>1, Elements
  <2>2. SubSeq(q, (Len(q) - size) + 1, Len(q)) \in Seq(1..MaxPackets)
    BY Zenon, <2>1, Suffix
  <2>3. QED
    BY Zenon, <1>1, <2>2 DEF Trim
<1>2. CASE ~(Len(q) > size)
  BY Zenon, <1>2 DEF Trim
<1>3. QED
  BY Zenon, <1>1, <1>2

-----------------------------------------------------------------------------
(* Types.                                                                  *)

\* What the three queues of numbers, the events and the requests hold.
Queues ==
    /\ dc_events \in Seq(Events) /\ reliable_queue \in Seq(Requests)
    /\ retry_queue \in Seq(1..MaxPackets) /\ buffer \in Seq(1..MaxPackets)
    /\ arrived \in Seq(1..MaxPackets) /\ link \in Seq(1..MaxPackets)
    /\ received \in Seq(1..MaxPackets) /\ asked \in Seq(Calls)
Numbers ==
    /\ next_packet_sequence \in 1..MaxPackets + 1 /\ sequence_of \in [Calls -> Sequences0]
    /\ buffered_amount \in Nat /\ failed \in Nat
    /\ resuming \in Sequences0 \cup {-1} /\ faults \in 0..MaxFaults /\ rx_state \in Sequences0
Rest == call \in [Calls -> CallStates] /\ resumed \in BOOLEAN

LEMMA TypeGroups ==
  (TypeOK <=> Queues /\ Numbers /\ Rest) /\ (TypeOK' <=> Queues' /\ Numbers' /\ Rest')
BY Zenon DEF TypeOK, Queues, Numbers, Rest, CallStates

LEMMA FaultCounts ==
  ASSUME Fault, faults \in 0..MaxFaults PROVE faults' \in 0..MaxFaults
BY Constants DEF Fault

\* The number that a call gets is within the bound.
LEMMA NumberFree ==
  ASSUME Counting, TypeOK, next_packet_sequence = Cardinality(Numbered) + 1,
         NEW c \in Calls, sequence_of[c] = None
  PROVE  /\ next_packet_sequence \in 1..MaxPackets /\ c \notin Numbered
         /\ IsFiniteSet(Numbered)
<1>1. IsFiniteSet(Calls) /\ Cardinality(Calls) = MaxPackets
  <2>1. IsFiniteSet(1..MaxPackets) /\ Cardinality(1..MaxPackets) = MaxPackets
    BY Constants, CountInterval
  <2>2. QED
    BY Zenon, <2>1, Constants
<1>2. Numbered \subseteq Calls /\ c \notin Numbered
  BY Zenon DEF Numbered
<1>3. /\ IsFiniteSet(Numbered) /\ Cardinality(Numbered) <= MaxPackets
      /\ MaxPackets # Cardinality(Numbered)
  <2>1. /\ IsFiniteSet(Numbered) /\ Cardinality(Numbered) <= Cardinality(Calls)
        /\ (Cardinality(Calls) = Cardinality(Numbered) => Calls = Numbered)
    BY Zenon, <1>1, <1>2, CountSubset
  <2>2. QED
    BY Zenon, <1>1, <1>2, <2>1
<1>4. Cardinality(Numbered) \in Nat
  BY Zenon, <1>3, CountType
<1>5. next_packet_sequence \in 1..MaxPackets
  BY <1>3, <1>4, Constants
<1>6. QED
  BY Zenon, <1>2, <1>3, <1>5

LEMMA PublishTypes ==
  ASSUME TypeOK, NEW c \in Calls, NEW big \in BOOLEAN, Publish(c, big)
  PROVE  TypeOK'
<1>1. dc_events' \in Seq(Events) /\ asked' \in Seq(Calls)
  <2>1. PublishPacket(c, big) \in Events
    BY Zenon, EventKinds
  <2>2. QED
    BY Zenon, <2>1, Appended DEF Publish, TypeOK
<1>2. call' \in [Calls -> CallStates]
  <2>1. call' = [call EXCEPT ![c] = "waiting"] /\ call \in [Calls -> CallStates]
    BY Zenon, TypeGroups DEF Publish, Rest
  <2>2. QED
    BY ZenonT(40), <2>1 DEF CallStates
<1>3. QED
  BY Zenon, <1>1, <1>2, TypeGroups DEF Publish, Queues, Numbers, Rest, resume, receiver

\* What OnPublishPacket does; a packet that is too large goes no further.
LEMMA PacketNumbered ==
  ASSUME TypeOK, OnPublishPacket
  PROVE  \E c \in Calls :
           /\ dc_events # <<>> /\ Packet(1, c) /\ Head(dc_events) = dc_events[1]
           /\ next_packet_sequence' = next_packet_sequence + 1
           /\ sequence_of' = [sequence_of EXCEPT ![c] = next_packet_sequence]
           /\ \/ dc_events' = Tail(dc_events) /\ call' = [call EXCEPT ![c] = "error"]
              \/ /\ dc_events' = Append(Tail(dc_events), PublishData(next_packet_sequence, c))
                 /\ call' = call
           /\ UNCHANGED <<asked, reliable_queue, retry_queue, buffered_amount, buffer, failed,
                          resume, faults, arrived, link, receiver>>
<1>1. PICK e : e = Head(dc_events)
  BY Zenon
<1>2. dc_events # <<>> /\ e.type = "PublishPacket"
  BY Zenon, <1>1 DEF OnPublishPacket, Take
<1>3. e \in Events /\ e = dc_events[1]
  BY Zenon, <1>1, <1>2, Tailed DEF TypeOK
<1>4. e.call \in Calls
  BY Zenon, <1>2, <1>3, EventParts
<1>5. Packet(1, e.call)
  BY Zenon, <1>2, <1>3 DEF Packet
<1>6. QED
  BY ZenonT(40), <1>1, <1>2, <1>3, <1>4, <1>5 DEF OnPublishPacket

LEMMA PacketTypes ==
  ASSUME TypeOK, OnPublishPacket, next_packet_sequence \in 1..MaxPackets
  PROVE  TypeOK'
<1>1. PICK c \in Calls :
           /\ dc_events # <<>>
           /\ next_packet_sequence' = next_packet_sequence + 1
           /\ sequence_of' = [sequence_of EXCEPT ![c] = next_packet_sequence]
           /\ \/ dc_events' = Tail(dc_events) /\ call' = [call EXCEPT ![c] = "error"]
              \/ /\ dc_events' = Append(Tail(dc_events), PublishData(next_packet_sequence, c))
                 /\ call' = call
           /\ UNCHANGED <<asked, reliable_queue, retry_queue, buffered_amount, buffer, failed,
                          resume, faults, arrived, link, receiver>>
  BY Zenon, PacketNumbered
<1>2. dc_events' \in Seq(Events)
  <2>1. Tail(dc_events) \in Seq(Events)
    BY Zenon, <1>1, Tailed DEF TypeOK
  <2>2. PublishData(next_packet_sequence, c) \in Events
    BY Zenon, EventKinds
  <2>3. QED
    BY ZenonT(40), <1>1, <2>1, <2>2, Appended
<1>3. next_packet_sequence' \in 1..MaxPackets + 1
  BY <1>1, Constants
<1>4. sequence_of' \in [Calls -> Sequences0]
  <2>1. next_packet_sequence \in Sequences0
    BY Constants
  <2>2. sequence_of \in [Calls -> Sequences0]
    BY Zenon DEF TypeOK
  <2>3. QED
    BY Zenon, <1>1, <2>1, <2>2
<1>5. call' \in [Calls -> CallStates]
  <2>1. call \in [Calls -> CallStates]
    BY Zenon, TypeGroups DEF Rest
  <2>2. QED
    BY ZenonT(40), <1>1, <2>1 DEF CallStates
<1>6. QED
  BY ZenonT(40), <1>1, <1>2, <1>3, <1>4, <1>5, TypeGroups DEF Queues, Numbers, Rest, resume, receiver

\* What the task does with a PublishData or a BufferedAmountChange: it takes the
\* event and sends from `queue`.
Sends(queue, buffered, n, sent) ==
    /\ queue \in Seq(Requests) /\ buffered \in Nat /\ Sent(queue, buffered, n, sent)
    /\ dc_events # <<>> /\ dc_events' = Tail(dc_events)
    /\ retry_queue' \in Seq(1..MaxPackets) /\ call' \in [Calls -> CallStates]
    /\ \A c \in Calls : call'[c] = "new" => call[c] = "new"
    /\ UNCHANGED <<asked, next_packet_sequence, sequence_of, resume, arrived, link, receiver>>
Request == [seq |-> dc_events[1].seq, call |-> dc_events[1].call]

LEMMA SendsBoth ==
  ASSUME TypeOK, NEW queue \in Seq(Requests), NEW buffered \in Nat, NEW size \in Nat, NEW taken,
         SendUntilThreshold(queue, buffered, size, taken),
         dc_events # <<>>, dc_events' = Tail(dc_events),
         UNCHANGED <<asked, next_packet_sequence, sequence_of, resume, arrived, link, receiver>>
  PROVE  \E n, sent : Sends(queue, buffered, n, sent)
<1>1. PICK n, sent : /\ Sent(queue, buffered, n, sent)
                     /\ retry_queue' = Trim(retry_queue \o sent, size)
  BY Zenon, SendsSome
<1>2. retry_queue' \in Seq(1..MaxPackets)
  <2>1. sent \in Seq(1..MaxPackets) /\ retry_queue \in Seq(1..MaxPackets)
    BY Zenon, <1>1 DEF Sent, TypeOK
  <2>2. retry_queue \o sent \in Seq(1..MaxPackets)
    BY Zenon, <2>1, Joined
  <2>3. QED
    BY Zenon, <1>1, <2>2, Trimmed
<1>3. call' \in [Calls -> CallStates] /\ \A c \in Calls : call'[c] = "new" => call[c] = "new"
  BY Zenon, SendsCalls
<1>4. QED
  BY Zenon, <1>1, <1>2, <1>3 DEF Sends

LEMMA DataSends ==
  ASSUME TypeOK, NEW taken, OnPublishData(taken)
  PROVE  /\ dc_events # <<>> /\ dc_events[1].type = "PublishData"
         /\ dc_events[1].seq \in 1..MaxPackets
         /\ \E n, sent : Sends(Append(reliable_queue, Request), buffered_amount, n, sent)
<1>1. dc_events # <<>> /\ Head(dc_events).type = "PublishData"
  BY Zenon DEF OnPublishData, Take
<1>2. Head(dc_events) \in Events /\ Head(dc_events) = dc_events[1]
  BY Zenon, <1>1, Tailed DEF TypeOK
<1>3. dc_events[1].seq \in 1..MaxPackets /\ dc_events[1].call \in Calls \cup {None}
  BY Zenon, <1>1, <1>2, EventParts
<1>4. Append(reliable_queue, Request) \in Seq(Requests)
  <2>1. Request \in Requests
    BY Zenon, <1>3 DEF Request, Requests
  <2>2. QED
    BY Zenon, <2>1, Appended DEF TypeOK
<1>5. All \in Nat
  BY DEF All, TypeOK
<1>6. /\ SendUntilThreshold(Append(reliable_queue, Request), buffered_amount, All, taken)
      /\ dc_events' = Tail(dc_events) /\ buffered_amount \in Nat
      /\ UNCHANGED <<asked, next_packet_sequence, sequence_of, resume, arrived, link, receiver>>
  BY Zenon, <1>2 DEF OnPublishData, Request, TypeOK
<1>7. QED
  BY ZenonT(40), <1>1, <1>2, <1>3, <1>4, <1>5, <1>6, SendsBoth

LEMMA ReportsAre ==
  ASSUME TypeOK PROVE Reports = ReportsIn(dc_events)
<1>1. DOMAIN dc_events = 1..Len(dc_events)
  BY Zenon, Elements DEF TypeOK
<1>2. QED
  BY Zenon, <1>1 DEF Reports, ReportsIn

LEMMA ChangeSends ==
  ASSUME Counting, TypeOK, BufferedExact, NEW taken, OnBufferedAmountChange(taken)
  PROVE  /\ dc_events # <<>> /\ dc_events[1].type = "BufferedAmountChange"
         /\ \E n, sent : Sends(reliable_queue, buffered_amount - 1, n, sent)
<1>1. dc_events # <<>> /\ Head(dc_events).type = "BufferedAmountChange"
  BY Zenon DEF OnBufferedAmountChange, Take
<1>2. Head(dc_events) \in Events /\ Head(dc_events) = dc_events[1]
  BY Zenon, <1>1, Tailed DEF TypeOK
<1>3. Head(dc_events).sent = 1
  BY Zenon, <1>1, <1>2, EventParts
<1>4. buffered_amount \in Nat \ {0}
  <2>1. /\ buffered_amount = Len(buffer) + Cardinality(ReportsIn(dc_events)) + failed
        /\ Len(buffer) \in Nat /\ failed \in Nat
    BY ZenonT(40), ReportsAre, Elements DEF BufferedExact, TypeOK
  <2>2. /\ Tail(dc_events) \in Seq(Events) /\ dc_events \in Seq(Events)
        /\ Cardinality(ReportsIn(Tail(dc_events))) \in Nat
    BY ZenonT(40), <1>1, Tailed, ReportsFinite DEF TypeOK
  <2>3. Cardinality(ReportsIn(dc_events)) = Cardinality(ReportsIn(Tail(dc_events))) + 1
    BY ZenonT(40), <1>1, <2>2, ReportsTailed
  <2>4. QED
    BY <2>1, <2>2, <2>3
<1>5. (IF buffered_amount < 1 THEN 0 ELSE buffered_amount - 1) = buffered_amount - 1
      /\ buffered_amount - 1 \in Nat /\ 1 \in Nat
  BY <1>4
<1>6. /\ SendUntilThreshold(reliable_queue, buffered_amount - 1, 1, taken)
      /\ dc_events' = Tail(dc_events) /\ reliable_queue \in Seq(Requests)
      /\ UNCHANGED <<asked, next_packet_sequence, sequence_of, resume, arrived, link, receiver>>
  BY ZenonT(40), <1>3, <1>5 DEF OnBufferedAmountChange, TypeOK
<1>7. QED
  BY ZenonT(40), <1>1, <1>2, <1>5, <1>6, SendsBoth

LEMMA SendsTypes ==
  ASSUME TypeOK, NEW queue, NEW buffered, NEW n, NEW sent, Sends(queue, buffered, n, sent)
  PROVE  TypeOK'
<1>1. /\ queue \in Seq(Requests) /\ n \in 0..Len(queue) /\ sent \in Seq(1..MaxPackets)
      /\ reliable_queue' = SubSeq(queue, n + 1, Len(queue)) /\ dc_events # <<>>
      /\ dc_events' = Tail(dc_events) /\ buffered \in Nat /\ buffered_amount' = buffered + n
      /\ \/ buffer' = buffer \o sent /\ failed' = failed /\ faults' = faults
         \/ buffer' = buffer /\ failed' = failed + n /\ Fault
      /\ retry_queue' \in Seq(1..MaxPackets) /\ call' \in [Calls -> CallStates]
      /\ UNCHANGED <<asked, next_packet_sequence, sequence_of, resume, arrived, link, receiver>>
  BY Zenon DEF Sends, Sent
<1>2. reliable_queue' \in Seq(Requests)
  BY Zenon, <1>1, Suffix
<1>3. dc_events' \in Seq(Events)
  BY ZenonT(40), <1>1, Tailed DEF TypeOK
<1>4. n \in Nat
  BY <1>1, Elements
<1>5. buffered_amount' \in Nat
  BY <1>1, <1>4
<1>6. buffer' \in Seq(1..MaxPackets)
  <2>1. buffer \in Seq(1..MaxPackets)
    BY Zenon DEF TypeOK
  <2>2. buffer \o sent \in Seq(1..MaxPackets)
    BY Zenon, <1>1, <2>1, Joined
  <2>3. QED
    BY Zenon, <1>1, <2>1, <2>2
<1>7. failed' \in Nat
  <2>1. failed \in Nat /\ failed + n \in Nat
    <3>1. failed \in Nat
      BY Zenon DEF TypeOK
    <3>2. QED
      BY <1>4, <3>1
  <2>2. QED
    BY Zenon, <1>1, <2>1
<1>8. faults' \in 0..MaxFaults
  BY Zenon, <1>1, FaultCounts DEF TypeOK
<1>9. QED
  BY ZenonT(40), <1>1, <1>2, <1>3, <1>5, <1>6, <1>7, <1>8, TypeGroups
     DEF Queues, Numbers, Rest, resume, receiver

\* The packets after `seq` in q, from the first place to the last.
LEMMA Again ==
  ASSUME Counting, NEW q \in Seq(1..MaxPackets), NEW seq \in Sequences0, NEW at \in InOrder(After(q, seq))
  PROVE  /\ Len(at) \in Nat /\ DOMAIN at = 1..Len(at)
         /\ \A i \in 1..Len(at) : at[i] \in 1..Len(q) /\ q[at[i]] > seq
         /\ \A i, j \in 1..Len(at) : i < j => at[i] < at[j]
         /\ \A m \in 1..Len(q) : q[m] > seq => \E i \in 1..Len(at) : at[i] = m
<1>1. DOMAIN q = 1..Len(q) /\ Len(q) \in Nat
  BY Zenon, Elements
<1>2. PICK S : S = After(q, seq)
  BY Zenon
<1>3. S \subseteq 1..Len(q) /\ \A m \in 1..Len(q) : m \in S <=> q[m] > seq
  BY Zenon, <1>1, <1>2 DEF After
<1>4. IsFiniteSet(S) /\ Cardinality(S) \in Nat
  <2>1. IsFiniteSet(1..Len(q))
    BY <1>1, CountInterval
  <2>2. QED
    BY ZenonT(40), <1>3, <2>1, CountSubset, CountType
<1>5. PICK n \in Nat : n = Cardinality(S)
  BY Zenon, <1>4
<1>6. at \in [1..n -> S] /\ \A i, j \in 1..n : i < j => at[i] < at[j]
  BY Zenon, <1>2, <1>5 DEF InOrder
<1>7. Len(at) = n /\ DOMAIN at = 1..n
  BY Zenon, <1>6, FunctionIsSeq, Elements
<1>8. \A i \in 1..n : at[i] \in 1..Len(q) /\ q[at[i]] > seq
  BY Zenon, <1>3, <1>6
<1>9. at \in Injection(1..n, S)
  <2>1. ASSUME NEW i \in 1..n, NEW j \in 1..n, at[i] = at[j] PROVE i = j
    <3>1. at[i] \in Nat /\ at[j] \in Nat
      BY <1>8
    <3>2. ~(i < j) /\ ~(j < i)
      BY <1>6, <2>1, <3>1
    <3>3. QED
      BY <3>2
  <2>2. QED
    BY Zenon, <1>6, <1>7, <2>1 DEF Injection, IsInjective
<1>10. at \in Surjection(1..n, S)
  <2>1. IsFiniteSet(1..n) /\ Cardinality(1..n) = n
    BY CountInterval
  <2>2. QED
    BY ZenonT(40), <1>4, <1>5, <1>9, <2>1, CountInjection
<1>11. \A m \in S : \E i \in 1..n : at[i] = m
  BY Zenon, <1>10 DEF Surjection
<1>12. QED
  BY ZenonT(40), <1>3, <1>5, <1>6, <1>7, <1>8, <1>11

\* The events of OnRetryFrom.
LEMMA Retries ==
  ASSUME Counting, TypeOK, OnRetryFrom
  PROVE  /\ dc_events # <<>> /\ dc_events[1].type = "RetryFrom"
         /\ \E r \in Seq(Events) : /\ dc_events' = Tail(dc_events) \o r
                                   /\ \A i \in 1..Len(r) : r[i].type = "PublishData"
<1>1. dc_events # <<>> /\ Head(dc_events).type = "RetryFrom"
  BY Zenon DEF OnRetryFrom, Take
<1>2. Head(dc_events) \in Events /\ Head(dc_events) = dc_events[1]
  BY Zenon, <1>1, Tailed DEF TypeOK
<1>3. PICK last \in Sequences0 : last = Head(dc_events).last
  BY Zenon, <1>1, <1>2, EventParts
<1>4. PICK at \in InOrder(After(retry_queue, last)) :
          dc_events' = Tail(dc_events)
                         \o [i \in DOMAIN at |-> PublishData(retry_queue[at[i]], None)]
  BY Zenon, <1>3 DEF OnRetryFrom
<1>5. retry_queue \in Seq(1..MaxPackets)
  BY Zenon DEF TypeOK
<1>6. /\ Len(at) \in Nat /\ DOMAIN at = 1..Len(at)
      /\ \A i \in 1..Len(at) : retry_queue[at[i]] \in 1..MaxPackets
  BY Zenon, <1>5, Again, Elements
<1>7. PICK r : r = [i \in 1..Len(at) |-> PublishData(retry_queue[at[i]], None)]
  BY Zenon
<1>8. \A i \in 1..Len(at) : r[i] \in Events /\ r[i].type = "PublishData"
  <2>1. \A n \in 1..MaxPackets : /\ PublishData(n, None) \in Events
                                 /\ PublishData(n, None).type = "PublishData"
    <3>1. None \in Calls \cup {None}
      BY Zenon
    <3>2. QED
      BY ZenonT(40), <3>1, EventKinds
  <2>2. \A i \in 1..Len(at) : r[i] = PublishData(retry_queue[at[i]], None)
    BY Zenon, <1>7
  <2>3. QED
    BY <1>6, <2>1, <2>2
<1>9. r \in [1..Len(at) -> Events]
  BY Zenon, <1>7, <1>8
<1>10. r \in Seq(Events) /\ Len(r) = Len(at)
  BY Zenon, <1>6, <1>9, FunctionIsSeq
<1>11. QED
  BY ZenonT(40), <1>1, <1>2, <1>4, <1>6, <1>7, <1>8, <1>10

LEMMA RetryTypes ==
  ASSUME Counting, TypeOK, OnRetryFrom PROVE TypeOK'
<1>1. dc_events' \in Seq(Events)
  <2>1. PICK r \in Seq(Events) : dc_events # <<>> /\ dc_events' = Tail(dc_events) \o r
    BY Zenon, Retries
  <2>2. Tail(dc_events) \in Seq(Events)
    BY Zenon, <2>1, Tailed DEF TypeOK
  <2>3. QED
    BY Zenon, <2>1, <2>2, Joined
<1>2. retry_queue' \in Seq(1..MaxPackets)
  <2>1. <<>> \in Seq(1..MaxPackets)
    OBVIOUS
  <2>2. QED
    BY Zenon, <2>1 DEF OnRetryFrom
<1>3. QED
  BY ZenonT(40), <1>1, <1>2, TypeGroups DEF OnRetryFrom, Queues, Numbers, Rest, resume, receiver

\* The channel takes a packet from its buffer and reports it.
Reports1 ==
    /\ buffer # <<>> /\ buffer' = Tail(buffer)
    /\ dc_events' = Append(dc_events, BufferedAmountChange(1))
    /\ UNCHANGED <<call, asked, next_packet_sequence, sequence_of, reliable_queue, retry_queue,
                   buffered_amount, failed, resume, receiver>>

LEMMA ReportTypes ==
  ASSUME TypeOK, Reports1
  PROVE  /\ dc_events' \in Seq(Events) /\ buffer' \in Seq(1..MaxPackets)
         /\ Head(buffer) \in 1..MaxPackets
<1>1. BufferedAmountChange(1) \in Events
  BY Zenon, EventKinds
<1>2. QED
  BY ZenonT(40), <1>1, Appended, Tailed DEF Reports1, TypeOK

LEMMA ChannelTypes ==
  ASSUME TypeOK, ChannelSends \/ LosePacket PROVE TypeOK'
<1>1. Reports1
  BY Zenon DEF ChannelSends, LosePacket, Reports1
<1>2. CASE ChannelSends
  <2>1. arrived' \in Seq(1..MaxPackets) /\ link' \in Seq(1..MaxPackets)
    BY ZenonT(40), <1>1, <1>2, ReportTypes, Appended DEF ChannelSends, TypeOK
  <2>2. QED
    BY ZenonT(40), <1>1, <1>2, <2>1, ReportTypes, TypeGroups
       DEF ChannelSends, Queues, Numbers, Rest, resume, receiver
<1>3. CASE LosePacket
  <2>1. faults' \in 0..MaxFaults
    BY ZenonT(40), <1>3, FaultCounts DEF LosePacket, TypeOK
  <2>2. QED
    BY ZenonT(40), <1>1, <1>3, <2>1, ReportTypes, TypeGroups
       DEF LosePacket, Queues, Numbers, Rest, resume, receiver
<1>4. QED
  BY Zenon, <1>2, <1>3

LEMMA ResumeTypes ==
  ASSUME TypeOK, ReconnectResponse \/ Restarted PROVE TypeOK'
<1>1. CASE ReconnectResponse
  <2>1. faults' \in 0..MaxFaults
    BY ZenonT(40), <1>1, FaultCounts DEF ReconnectResponse, TypeOK
  <2>2. resuming' \in Sequences0
    <3>1. resuming' \in {0} \cup Range(arrived)
      BY Zenon, <1>1 DEF ReconnectResponse, Latest
    <3>2. Range(arrived) \subseteq 1..MaxPackets
      <4>1. arrived \in Seq(1..MaxPackets)
        BY Zenon DEF TypeOK
      <4>2. \A i \in DOMAIN arrived : arrived[i] \in 1..MaxPackets
        BY Zenon, <4>1, Elements
      <4>3. QED
        BY Zenon, <4>2 DEF Range
    <3>3. QED
      BY <3>1, <3>2, Constants
  <2>3. QED
    BY ZenonT(40), <1>1, <2>1, <2>2, TypeGroups
       DEF ReconnectResponse, task, Queues, Numbers, Rest, receiver
<1>2. CASE Restarted
  <2>1. RetryFrom(resuming) \in Events
    <3>1. resuming \in Sequences0
      BY ZenonT(40), <1>2 DEF Restarted, TypeOK
    <3>2. QED
      BY ZenonT(40), <3>1, EventKinds
  <2>2. dc_events' \in Seq(Events)
    BY ZenonT(40), <1>2, <2>1, Appended DEF Restarted, TypeOK
  <2>3. QED
    BY ZenonT(40), <1>2, <2>2, TypeGroups DEF Restarted, Queues, Numbers, Rest, receiver
<1>3. QED
  BY Zenon, <1>1, <1>2

\* The packets that the SFU sends again.
LEMMA Replayed ==
  ASSUME Counting, TypeOK, NEW k \in 0..Len(link), SfuReplays(k)
  PROVE  \E at \in InOrder(After(arrived, rx_state)), r \in Seq(1..MaxPackets) :
            /\ link' = SubSeq(link, 1, k) \o r /\ Len(r) = Len(at)
            /\ \A i \in 1..Len(at) : r[i] = arrived[at[i]]
<1>1. PICK at \in InOrder(After(arrived, rx_state)) :
          link' = SubSeq(link, 1, k) \o [i \in DOMAIN at |-> arrived[at[i]]]
  BY Zenon DEF SfuReplays
<1>2. arrived \in Seq(1..MaxPackets) /\ rx_state \in Sequences0
  BY Zenon DEF TypeOK
<1>3. /\ Len(at) \in Nat /\ DOMAIN at = 1..Len(at)
      /\ \A i \in 1..Len(at) : arrived[at[i]] \in 1..MaxPackets
  BY Zenon, <1>2, Again, Elements
<1>4. PICK r : r = [i \in 1..Len(at) |-> arrived[at[i]]]
  BY Zenon
<1>5. r \in [1..Len(at) -> 1..MaxPackets] /\ \A i \in 1..Len(at) : r[i] = arrived[at[i]]
  BY Zenon, <1>3, <1>4
<1>6. r \in Seq(1..MaxPackets) /\ Len(r) = Len(at)
  BY ZenonT(40), <1>3, <1>5, FunctionIsSeq
<1>7. QED
  BY ZenonT(40), <1>1, <1>3, <1>4, <1>5, <1>6

LEMMA ReceiverTypes ==
  ASSUME Counting, TypeOK, (\E k \in 0..Len(link) : SfuReplays(k)) \/ Receive \/ Expire PROVE TypeOK'
<1>1. ASSUME NEW k \in 0..Len(link), SfuReplays(k) PROVE TypeOK'
  <2>1. PICK r \in Seq(1..MaxPackets) : link' = SubSeq(link, 1, k) \o r
    BY Zenon, <1>1, Replayed
  <2>2. SubSeq(link, 1, k) \in Seq(1..MaxPackets)
    BY Zenon, Prefix DEF TypeOK
  <2>3. link' \in Seq(1..MaxPackets)
    BY ZenonT(40), <2>1, <2>2, Joined
  <2>4. faults' \in 0..MaxFaults
    BY ZenonT(40), <1>1, FaultCounts DEF SfuReplays, TypeOK
  <2>5. QED
    BY ZenonT(40), <1>1, <2>3, <2>4, TypeGroups
       DEF SfuReplays, task, resume, receiver, Queues, Numbers, Rest
<1>2. CASE Receive
  <2>1. Head(link) \in 1..MaxPackets /\ link' \in Seq(1..MaxPackets)
    BY ZenonT(40), <1>2, Tailed DEF Receive, PassOn, TypeOK
  <2>2. received' \in Seq(1..MaxPackets)
    BY ZenonT(40), <1>2, <2>1, Appended DEF Receive, PassOn, TypeOK
  <2>3. rx_state' \in Sequences0
    <3>1. Head(link) \in Sequences0 /\ rx_state \in Sequences0
      <4>1. Head(link) \in Sequences0
        BY <2>1, Constants
      <4>2. QED
        BY Zenon, <4>1 DEF TypeOK
    <3>2. QED
      BY ZenonT(40), <1>2, <3>1 DEF Receive, PassOn
  <2>4. QED
    BY ZenonT(40), <1>2, <2>1, <2>2, <2>3, TypeGroups
       DEF Receive, PassOn, task, resume, Queues, Numbers, Rest
<1>3. CASE Expire
  <2>1. 0 \in Sequences0
    BY Constants
  <2>2. faults' \in 0..MaxFaults
    BY ZenonT(40), <1>3, FaultCounts DEF Expire, TypeOK
  <2>3. QED
    BY Zenon, <1>3, <2>1, <2>2, TypeGroups DEF Expire, task, resume, Queues, Numbers, Rest
<1>4. QED
  BY ZenonT(40), <1>1, <1>2, <1>3

\* The packet that is numbered next is that of a call without a number.
LEMMA PacketFree ==
  ASSUME Counting, ReliableInv, OnPublishPacket
  PROVE  /\ next_packet_sequence \in 1..MaxPackets
         /\ \A c \in Calls : dc_events # <<>> /\ Packet(1, c) => sequence_of[c] = None
<1>1. TypeOK /\ Numbering /\ next_packet_sequence = Cardinality(Numbered) + 1
  BY Zenon DEF ReliableInv
<1>2. PICK c \in Calls : dc_events # <<>> /\ Packet(1, c)
  BY ZenonT(40), <1>1, PacketNumbered
<1>3. 1 \in 1..Len(dc_events)
  <2>1. Len(dc_events) \in Nat \ {0}
    BY ZenonT(40), <1>1, <1>2, Tailed DEF TypeOK
  <2>2. QED
    BY <2>1
<1>4. sequence_of[c] = None
  <2>1. dc_events[1].type = "PublishPacket" /\ dc_events[1].call = c
    BY Zenon, <1>2 DEF Packet
  <2>2. \A i \in 1..Len(dc_events) : dc_events[i].type = "PublishPacket" =>
          \E p \in 1..Len(asked) : /\ asked[p] = dc_events[i].call
                                   /\ sequence_of[asked[p]] = None
    BY Zenon, <1>1 DEF Numbering, QueuedAsked
  <2>3. PICK p \in 1..Len(asked) : asked[p] = c /\ sequence_of[asked[p]] = None
    BY Zenon, <1>3, <2>1, <2>2
  <2>4. QED
    BY Zenon, <2>3
<1>5. \A d \in Calls : Packet(1, d) => d = c
  BY Zenon, <1>2 DEF Packet
<1>6. QED
  BY ZenonT(40), <1>1, <1>4, <1>5, NumberFree

\* The steps of data_channel_task that send.
LEMMA StepSends ==
  ASSUME Counting, TypeOK, BufferedExact, NEW taken, OnPublishData(taken) \/ OnBufferedAmountChange(taken)
  PROVE  /\ dc_events # <<>>
         /\ \/ /\ dc_events[1].type = "PublishData"
               /\ \E n, sent : Sends(Append(reliable_queue, Request), buffered_amount, n, sent)
            \/ /\ dc_events[1].type = "BufferedAmountChange"
               /\ \E n, sent : Sends(reliable_queue, buffered_amount - 1, n, sent)
BY Zenon, DataSends, ChangeSends

LEMMA Unchanged ==
  ASSUME UNCHANGED vars
  PROVE  UNCHANGED <<call, asked, dc_events, next_packet_sequence, sequence_of, reliable_queue,
                     retry_queue, buffered_amount, buffer, failed, resuming, resumed, faults,
                     arrived, link, rx_state, received>>
BY Zenon DEF vars, task, resume, receiver

\* Every step takes a value of its type to one.
LEMMA TypeStep ==
  ASSUME Counting, ReliableInv, [Next]_vars PROVE TypeOK'
<1>1. TypeOK /\ BufferedExact
  BY Zenon DEF ReliableInv
<1>2. CASE \E c \in Calls, big \in BOOLEAN : Publish(c, big)
  BY ZenonT(40), <1>1, <1>2, PublishTypes
<1>3. CASE OnPublishPacket
  BY ZenonT(40), <1>1, <1>3, PacketFree, PacketTypes
<1>4. ASSUME NEW taken, OnPublishData(taken) \/ OnBufferedAmountChange(taken) PROVE TypeOK'
  <2>1. PICK queue, buffered, n, sent : Sends(queue, buffered, n, sent)
    BY ZenonT(40), <1>1, <1>4, StepSends
  <2>2. QED
    BY Zenon, <1>1, <2>1, SendsTypes
<1>5. CASE OnRetryFrom \/ ChannelSends \/ LosePacket \/ ReconnectResponse \/ Restarted
  BY ZenonT(40), <1>1, <1>5, RetryTypes, ChannelTypes, ResumeTypes
<1>6. CASE (\E k \in 0..Len(link) : SfuReplays(k)) \/ Receive \/ Expire
  BY ZenonT(40), <1>1, <1>6, ReceiverTypes
<1>7. CASE UNCHANGED vars
  BY ZenonT(40), <1>1, <1>7, Unchanged DEF TypeOK
<1>8. QED
  BY ZenonT(40), <1>2, <1>3, <1>4, <1>5, <1>6, <1>7 DEF Next, TaskStep

-----------------------------------------------------------------------------
(* buffered_amount.                                                        *)

LEMMA ReportsJoined ==
  ASSUME NEW q \in Seq(Events), NEW r \in Seq(Events),
         \A i \in 1..Len(r) : r[i].type = "PublishData"
  PROVE  Cardinality(ReportsIn(q \o r)) = Cardinality(ReportsIn(q))
<1>1. PICK s : s = q \o r
  BY Zenon
<1>2. /\ s \in Seq(Events) /\ Len(s) = Len(q) + Len(r) /\ Len(q) \in Nat /\ Len(r) \in Nat
      /\ \A i \in 1..Len(q) : s[i] = q[i]
      /\ \A i \in 1..Len(r) : s[Len(q) + i] = r[i]
  <2>1. /\ q \o r \in Seq(Events) /\ Len(q \o r) = Len(q) + Len(r)
        /\ Len(q) \in Nat /\ Len(r) \in Nat
        /\ \A i \in 1..Len(q) : (q \o r)[i] = q[i]
        /\ \A i \in 1..Len(r) : (q \o r)[Len(q) + i] = r[i]
    OBVIOUS
  <2>2. QED
    BY Zenon, <1>1, <2>1
<1>3. PICK m \in Nat, n \in Nat : m = Len(q) /\ n = Len(r)
  BY Zenon, <1>2
<1>4. \A i \in 1..m : i \in 1..(m + n)
  OBVIOUS
<1>5. ASSUME NEW i \in 1..(m + n), s[i].type = "BufferedAmountChange" PROVE i \in 1..m
  <2>1. CASE i <= m
    BY <2>1
  <2>2. CASE ~(i <= m)
    <3>1. i - m \in 1..n /\ m + (i - m) = i
      BY <2>2
    <3>2. s[i].type = "PublishData"
      BY ZenonT(40), <1>2, <1>3, <3>1
    <3>3. QED
      BY Zenon, <1>5, <3>2
  <2>3. QED
    BY Zenon, <2>1, <2>2
<1>6. ReportsIn(s) = ReportsIn(q)
  <2>1. ReportsIn(s) = {i \in 1..(m + n) : s[i].type = "BufferedAmountChange"}
    BY Zenon, <1>2, <1>3 DEF ReportsIn
  <2>2. ReportsIn(q) = {i \in 1..m : q[i].type = "BufferedAmountChange"}
    BY Zenon, <1>3 DEF ReportsIn
  <2>3. \A i \in 1..m : s[i] = q[i]
    BY Zenon, <1>2, <1>3
  <2>4. QED
    BY <1>4, <1>5, <2>1, <2>2, <2>3
<1>7. QED
  BY Zenon, <1>1, <1>6

\* The account, with the reports counted in a given queue of events.
Account(amount, buf, events, refused) ==
    /\ amount = Len(buf) + Cardinality(ReportsIn(events)) + refused
    /\ amount <= Threshold + 1

LEMMA AccountIs ==
  /\ TypeOK => (BufferedExact <=> Account(buffered_amount, buffer, dc_events, failed))
  /\ TypeOK' => (BufferedExact' <=> Account(buffered_amount', buffer', dc_events', failed'))
<1>1. TypeOK => Reports = ReportsIn(dc_events)
  BY Zenon, ReportsAre
<1>2. TypeOK' => Reports' = ReportsIn(dc_events')
  <2>1. TypeOK' => DOMAIN (dc_events') = 1..Len(dc_events')
    BY ZenonT(40), Elements DEF TypeOK
  <2>2. QED
    BY Zenon, <2>1 DEF Reports, ReportsIn
<1>3. QED
  BY Zenon, <1>1, <1>2 DEF BufferedExact, Account

LEMMA ExactSends ==
  ASSUME Counting, TypeOK, TypeOK', BufferedExact, NEW taken,
         OnPublishData(taken) \/ OnBufferedAmountChange(taken)
  PROVE  BufferedExact'
<1>1. PICK queue, buffered, n, sent :
          /\ Sends(queue, buffered, n, sent)
          /\ buffered + (IF dc_events[1].type = "BufferedAmountChange" THEN 1 ELSE 0)
                = buffered_amount
  <2>1. buffered_amount \in Nat
    BY Zenon DEF TypeOK
  <2>2. buffered_amount + 0 = buffered_amount /\ (buffered_amount - 1) + 1 = buffered_amount
    BY <2>1
  <2>3. QED
    BY ZenonT(40), <2>2, StepSends
<1>2. PICK x \in {0, 1} : x = IF dc_events[1].type = "BufferedAmountChange" THEN 1 ELSE 0
  BY Zenon
<1>3. /\ dc_events # <<>> /\ dc_events \in Seq(Events) /\ dc_events' = Tail(dc_events)
      /\ Head(dc_events) = dc_events[1]
  BY ZenonT(40), <1>1, Tailed DEF TypeOK, Sends
<1>4. Cardinality(ReportsIn(dc_events)) = Cardinality(ReportsIn(dc_events')) + x
  BY ZenonT(40), <1>2, <1>3, ReportsTailed
<1>5. /\ n \in Nat /\ buffered_amount' = buffered + n /\ (n > 0 => buffered + n <= Threshold + 1)
      /\ \/ Len(buffer') = Len(buffer) + n /\ failed' = failed
         \/ Len(buffer') = Len(buffer) /\ failed' = failed + n
      /\ buffered \in Nat
  <2>1. /\ buffered \in Nat /\ queue \in Seq(Requests) /\ n \in 0..Len(queue)
        /\ sent \in Seq(1..MaxPackets) /\ Len(sent) = n
        /\ buffered_amount' = buffered + n /\ (n > 0 => buffered + n <= Threshold + 1)
        /\ \/ buffer' = buffer \o sent /\ failed' = failed
           \/ buffer' = buffer /\ failed' = failed + n
        /\ buffer \in Seq(1..MaxPackets)
    BY ZenonT(40), <1>1 DEF Sends, Sent, TypeOK
  <2>2. Len(buffer \o sent) = Len(buffer) + n
    BY Zenon, <2>1, Joined
  <2>3. n \in Nat
    BY ZenonT(40), <2>1, Elements
  <2>4. QED
    BY ZenonT(40), <2>1, <2>2, <2>3
<1>6. /\ buffered_amount = Len(buffer) + Cardinality(ReportsIn(dc_events)) + failed
      /\ buffered_amount <= Threshold + 1 /\ Len(buffer) \in Nat /\ failed \in Nat
      /\ Cardinality(ReportsIn(dc_events)) \in Nat /\ Cardinality(ReportsIn(dc_events')) \in Nat
      /\ buffered + x = buffered_amount
  BY ZenonT(40), <1>1, <1>2, AccountIs, Elements, ReportsFinite DEF Account, TypeOK
<1>7. buffered_amount' = Len(buffer') + Cardinality(ReportsIn(dc_events')) + failed'
  <2>1. PICK b \in Nat, r \in Nat, f \in Nat :
            b = Len(buffer) /\ r = Cardinality(ReportsIn(dc_events')) /\ f = failed
    BY ZenonT(40), <1>6
  <2>2. buffered + x = b + (r + x) + f /\ buffered \in Nat /\ n \in Nat
    BY ZenonT(40), <1>4, <1>5, <1>6, <2>1
  <2>3. buffered + n = (b + n) + r + f /\ buffered + n = b + r + (f + n)
    BY <2>2
  <2>4. QED
    BY ZenonT(40), <1>5, <2>1, <2>3
<1>8. buffered_amount' <= Threshold + 1
  BY <1>5, <1>6, Constants
<1>9. QED
  BY ZenonT(40), <1>7, <1>8, AccountIs DEF Account

\* An event that is no report changes nothing in the account.
LEMMA ExactAppended ==
  ASSUME Counting, TypeOK, TypeOK', BufferedExact, NEW e \in Events, e.type # "BufferedAmountChange",
         dc_events' = Append(dc_events, e), UNCHANGED <<buffered_amount, buffer, failed>>
  PROVE  BufferedExact'
<1>1. dc_events \in Seq(Events)
  BY Zenon DEF TypeOK
<1>2. /\ Cardinality(ReportsIn(dc_events')) = Cardinality(ReportsIn(dc_events)) + 0
      /\ Cardinality(ReportsIn(dc_events)) \in Nat
  BY ZenonT(40), <1>1, ReportsAppended, ReportsFinite
<1>3. Cardinality(ReportsIn(dc_events')) = Cardinality(ReportsIn(dc_events))
  BY <1>2
<1>4. QED
  BY ZenonT(40), <1>3, AccountIs DEF Account

LEMMA ExactPacket ==
  ASSUME Counting, TypeOK, TypeOK', BufferedExact, OnPublishPacket, next_packet_sequence \in 1..MaxPackets
  PROVE  BufferedExact'
<1>1. PICK c \in Calls :
          /\ dc_events # <<>> /\ Packet(1, c) /\ Head(dc_events) = dc_events[1]
          /\ \/ dc_events' = Tail(dc_events)
             \/ dc_events' = Append(Tail(dc_events), PublishData(next_packet_sequence, c))
          /\ UNCHANGED <<buffered_amount, buffer, failed>>
  BY Zenon, PacketNumbered
<1>2. /\ dc_events \in Seq(Events) /\ Tail(dc_events) \in Seq(Events)
      /\ Head(dc_events).type = "PublishPacket"
  BY ZenonT(40), <1>1, Tailed DEF TypeOK, Packet
<1>3. /\ Cardinality(ReportsIn(dc_events)) = Cardinality(ReportsIn(Tail(dc_events))) + 0
      /\ Cardinality(ReportsIn(dc_events)) \in Nat
      /\ Cardinality(ReportsIn(Tail(dc_events))) \in Nat
  BY ZenonT(40), <1>1, <1>2, ReportsTailed, ReportsFinite
<1>4. PICK e \in Events : /\ e = PublishData(next_packet_sequence, c)
                          /\ e.type # "BufferedAmountChange"
  BY ZenonT(40), EventKinds
<1>5. Cardinality(ReportsIn(Append(Tail(dc_events), e)))
        = Cardinality(ReportsIn(Tail(dc_events))) + 0
  BY ZenonT(40), <1>2, <1>4, ReportsAppended
<1>6. Cardinality(ReportsIn(dc_events')) = Cardinality(ReportsIn(dc_events))
  <2>1. /\ Cardinality(ReportsIn(dc_events)) = Cardinality(ReportsIn(Tail(dc_events)))
        /\ Cardinality(ReportsIn(Append(Tail(dc_events), e)))
              = Cardinality(ReportsIn(Tail(dc_events)))
    BY <1>3, <1>5
  <2>2. QED
    BY ZenonT(40), <1>1, <1>4, <2>1
<1>7. QED
  BY ZenonT(40), <1>1, <1>6, AccountIs DEF Account

LEMMA ExactRetry ==
  ASSUME Counting, TypeOK, TypeOK', BufferedExact, OnRetryFrom PROVE BufferedExact'
<1>1. PICK r \in Seq(Events) :
          /\ dc_events # <<>> /\ dc_events[1].type = "RetryFrom"
          /\ dc_events' = Tail(dc_events) \o r
          /\ \A i \in 1..Len(r) : r[i].type = "PublishData"
  BY ZenonT(40), Retries
<1>2. /\ dc_events \in Seq(Events) /\ Tail(dc_events) \in Seq(Events)
      /\ Head(dc_events).type = "RetryFrom"
  BY ZenonT(40), <1>1, Tailed DEF TypeOK
<1>3. /\ Cardinality(ReportsIn(dc_events)) = Cardinality(ReportsIn(Tail(dc_events))) + 0
      /\ Cardinality(ReportsIn(Tail(dc_events))) \in Nat
  BY ZenonT(40), <1>1, <1>2, ReportsTailed, ReportsFinite
<1>4. Cardinality(ReportsIn(dc_events')) = Cardinality(ReportsIn(Tail(dc_events)))
  BY ZenonT(40), <1>1, <1>2, ReportsJoined
<1>5. Cardinality(ReportsIn(dc_events')) = Cardinality(ReportsIn(dc_events))
  BY <1>3, <1>4
<1>6. QED
  BY ZenonT(40), <1>5, AccountIs DEF Account, OnRetryFrom

\* A packet that leaves the buffer is in a report instead.
LEMMA ExactReport ==
  ASSUME Counting, TypeOK, TypeOK', BufferedExact, Reports1 PROVE BufferedExact'
<1>1. /\ buffer # <<>> /\ buffer' = Tail(buffer)
      /\ dc_events' = Append(dc_events, BufferedAmountChange(1))
      /\ UNCHANGED <<buffered_amount, failed>>
  BY Zenon DEF Reports1
<1>2. Len(buffer') = Len(buffer) - 1 /\ Len(buffer) \in Nat /\ dc_events \in Seq(Events)
  BY ZenonT(40), <1>1, Tailed, Elements DEF TypeOK
<1>3. PICK e \in Events : e = BufferedAmountChange(1) /\ e.type = "BufferedAmountChange"
  BY Zenon, EventKinds
<1>4. /\ Cardinality(ReportsIn(dc_events')) = Cardinality(ReportsIn(dc_events)) + 1
      /\ Cardinality(ReportsIn(dc_events)) \in Nat
  BY ZenonT(40), <1>1, <1>2, <1>3, ReportsAppended, ReportsFinite
<1>5. /\ buffered_amount = Len(buffer) + Cardinality(ReportsIn(dc_events)) + failed
      /\ buffered_amount <= Threshold + 1 /\ failed \in Nat
  BY ZenonT(40), AccountIs DEF Account, TypeOK
<1>6. buffered_amount' = Len(buffer') + Cardinality(ReportsIn(dc_events')) + failed'
  BY <1>1, <1>2, <1>4, <1>5
<1>7. QED
  BY ZenonT(40), <1>1, <1>5, <1>6, AccountIs DEF Account

\* Every step keeps the account exact.
LEMMA ExactStep ==
  ASSUME Counting, ReliableInv, [Next]_vars, TypeOK' PROVE BufferedExact'
<1>1. TypeOK /\ BufferedExact
  BY Zenon DEF ReliableInv
<1>2. ASSUME NEW c \in Calls, NEW big \in BOOLEAN, Publish(c, big) PROVE BufferedExact'
  <2>1. PICK e \in Events : e = PublishPacket(c, big) /\ e.type # "BufferedAmountChange"
    BY ZenonT(40), EventKinds
  <2>2. QED
    BY ZenonT(40), <1>1, <1>2, <2>1, ExactAppended DEF Publish
<1>3. CASE OnPublishPacket
  BY ZenonT(40), <1>1, <1>3, PacketFree, ExactPacket
<1>4. ASSUME NEW taken, OnPublishData(taken) \/ OnBufferedAmountChange(taken)
      PROVE  BufferedExact'
  BY ZenonT(40), <1>1, <1>4, ExactSends
<1>5. CASE OnRetryFrom
  BY ZenonT(40), <1>1, <1>5, ExactRetry
<1>6. CASE ChannelSends \/ LosePacket
  <2>1. Reports1
    BY ZenonT(40), <1>6 DEF ChannelSends, LosePacket, Reports1
  <2>2. QED
    BY ZenonT(40), <1>1, <2>1, ExactReport
<1>7. CASE Restarted
  <2>1. resuming \in Sequences0
    BY ZenonT(40), <1>1, <1>7 DEF Restarted, TypeOK
  <2>2. PICK e \in Events : e = RetryFrom(resuming) /\ e.type # "BufferedAmountChange"
    BY ZenonT(40), <2>1, EventKinds
  <2>3. QED
    BY ZenonT(40), <1>1, <1>7, <2>2, ExactAppended DEF Restarted
<1>8. CASE \/ ReconnectResponse \/ (\E k \in 0..Len(link) : SfuReplays(k)) \/ Receive \/ Expire
           \/ UNCHANGED vars
  <2>1. UNCHANGED <<buffered_amount, buffer, failed, dc_events>>
    BY Zenon, <1>8, Unchanged DEF ReconnectResponse, SfuReplays, Receive, PassOn, Expire, task
  <2>2. QED
    BY ZenonT(40), <1>1, <2>1, AccountIs
<1>9. QED
  BY ZenonT(40), <1>2, <1>3, <1>4, <1>5, <1>6, <1>7, <1>8 DEF Next, TaskStep

-----------------------------------------------------------------------------
(* The order of the calls and of their numbers.                            *)

LEMMA ShiftLess ==
  ASSUME NEW d \in {0, 1}, NEW n, NEW i \in 1..n, NEW j \in 1..n, i < j PROVE i + d < j + d
OBVIOUS

\* Nothing changes if the packets in dc_events stay as they are, d places closer
\* to the head.
LEMMA NumberingKept ==
  ASSUME TypeOK, TypeOK', Numbering, UNCHANGED <<asked, sequence_of, next_packet_sequence>>,
         \A c \in Calls : call'[c] = "new" => call[c] = "new", NEW d \in {0, 1},
         \A i \in 1..Len(dc_events') : dc_events'[i].type = "PublishPacket" =>
             i + d \in 1..Len(dc_events) /\ dc_events[i + d] = dc_events'[i],
         \A i \in 1..Len(dc_events) : dc_events[i].type = "PublishPacket" =>
             i - d \in 1..Len(dc_events') /\ dc_events'[i - d] = dc_events[i]
  PROVE  Numbering'
<1>1. /\ \A i \in 1..Len(dc_events'), c \in Calls : Packet(i, c)' =>
            i + d \in 1..Len(dc_events) /\ Packet(i + d, c)
      /\ \A i \in 1..Len(dc_events), c \in Calls : Packet(i, c) =>
            i - d \in 1..Len(dc_events') /\ Packet(i - d, c)'
  BY Zenon DEF Packet
<1>2. \A p \in 1..Len(asked) : asked[p] \in Calls
  BY ZenonT(40), Elements DEF TypeOK
<1>3. NumbersBelow' /\ AskedMade' /\ AskedInOrder'
  <2>1. NumbersBelow /\ AskedMade /\ AskedInOrder
    BY Zenon DEF Numbering
  <2>2. NumbersBelow'
    BY ZenonT(40), <2>1 DEF NumbersBelow
  <2>3. AskedMade'
    BY ZenonT(40), <1>2, <2>1 DEF AskedMade
  <2>4. AskedInOrder'
    BY <2>1 DEF AskedInOrder
  <2>5. QED
    BY ZenonT(40), <2>2, <2>3, <2>4
<1>4. AskedQueued'
  <2>1. AskedQueued
    BY Zenon DEF Numbering
  <2>2. ASSUME NEW p \in 1..Len(asked), sequence_of[asked[p]] = None
        PROVE  \E i \in 1..Len(dc_events') : Packet(i, asked[p])'
    <3>1. PICK i \in 1..Len(dc_events), c \in Calls : Packet(i, c) /\ c = asked[p]
      BY Zenon, <1>2, <2>1, <2>2 DEF AskedQueued
    <3>2. i - d \in 1..Len(dc_events') /\ Packet(i - d, c)'
      BY ZenonT(40), <1>1, <3>1
    <3>3. QED
      BY ZenonT(40), <3>1, <3>2 DEF Packet
  <2>3. QED
    BY Zenon, <2>2 DEF AskedQueued
<1>5. QueuedAsked'
  <2>1. QueuedAsked
    BY ZenonT(40) DEF Numbering
  <2>2. SUFFICES ASSUME NEW i \in 1..Len(dc_events'), dc_events'[i].type = "PublishPacket"
                 PROVE  \E p \in 1..Len(asked) : /\ asked[p] = dc_events'[i].call
                                                 /\ sequence_of[asked[p]] = None
    BY Zenon DEF QueuedAsked
  <2>3. i + d \in 1..Len(dc_events) /\ dc_events[i + d] = dc_events'[i]
    BY ZenonT(40), <2>2
  <2>4. dc_events[i + d].type = "PublishPacket"
    BY ZenonT(40), <2>2, <2>3
  <2>5. PICK p \in 1..Len(asked) : /\ asked[p] = dc_events[i + d].call
                                  /\ sequence_of[asked[p]] = None
    BY ZenonT(40), <2>1, <2>3, <2>4 DEF QueuedAsked
  <2>6. QED
    BY ZenonT(40), <2>3, <2>5
<1>6. QueuedInOrder'
  <2>1. QueuedInOrder
    BY Zenon DEF Numbering
  <2>2. SUFFICES ASSUME NEW p \in 1..Len(asked), NEW q \in 1..Len(asked),
                        NEW i \in 1..Len(dc_events'), NEW j \in 1..Len(dc_events'),
                        Packet(i, asked[p])', Packet(j, asked[q])', i < j
                 PROVE  p < q
    BY ZenonT(40) DEF QueuedInOrder
  <2>3. PICK c \in Calls, e \in Calls : c = asked[p] /\ e = asked[q]
    BY Zenon, <1>2
  <2>4. Packet(i, c)' /\ Packet(j, e)'
    BY ZenonT(40), <2>2, <2>3 DEF Packet
  <2>5. /\ i + d \in 1..Len(dc_events) /\ j + d \in 1..Len(dc_events)
        /\ Packet(i + d, c) /\ Packet(j + d, e)
    BY ZenonT(40), <1>1, <2>4
  <2>6. i + d < j + d
    BY ZenonT(40), <2>2, ShiftLess
  <2>7. QED
    BY ZenonT(40), <2>1, <2>3, <2>5, <2>6 DEF QueuedInOrder
<1>7. QED
  BY ZenonT(40), <1>3, <1>4, <1>5, <1>6 DEF Numbering

LEMMA NumberingAppended ==
  ASSUME TypeOK, TypeOK', Numbering, UNCHANGED <<call, asked, sequence_of, next_packet_sequence>>,
         NEW e \in Events, e.type # "PublishPacket", dc_events' = Append(dc_events, e)
  PROVE  Numbering'
<1>1. dc_events \in Seq(Events)
  BY Zenon DEF TypeOK
<1>2. PICK s, n : s = Append(dc_events, e) /\ n = Len(dc_events)
  BY Zenon
<1>3. n \in Nat /\ Len(s) = n + 1 /\ s[n + 1] = e /\ \A i \in 1..n : s[i] = dc_events[i]
  BY <1>1, <1>2, AppendedIs
<1>4. \A i \in 1..(n + 1) : s[i].type = "PublishPacket" =>
          i + 0 \in 1..n /\ dc_events[i + 0] = s[i]
  BY <1>3
<1>5. \A i \in 1..n : dc_events[i].type = "PublishPacket" =>
          i - 0 \in 1..(n + 1) /\ s[i - 0] = dc_events[i]
  BY <1>3
<1>6. dc_events' = s /\ Len(dc_events) = n /\ Len(dc_events') = n + 1
  BY ZenonT(40), <1>2, <1>3
<1>7. QED
  BY ZenonT(40), <1>4, <1>5, <1>6, NumberingKept

LEMMA NumberingTailed ==
  ASSUME TypeOK, TypeOK', Numbering, UNCHANGED <<asked, sequence_of, next_packet_sequence>>,
         \A c \in Calls : call'[c] = "new" => call[c] = "new",
         dc_events # <<>>, dc_events[1].type # "PublishPacket",
         NEW r \in Seq(Events), \A i \in 1..Len(r) : r[i].type = "PublishData",
         dc_events' = Tail(dc_events) \o r
  PROVE  Numbering'
<1>1. dc_events \in Seq(Events)
  BY Zenon DEF TypeOK
<1>2. PICK t, n, m, s : /\ t = Tail(dc_events) /\ n = Len(dc_events) /\ m = Len(r)
                        /\ s = t \o r
  BY Zenon
<1>3. /\ t \in Seq(Events) /\ n \in Nat \ {0}
      /\ Len(t) = n - 1 /\ \A i \in 1..(n - 1) : t[i] = dc_events[i + 1]
  BY ZenonT(40), <1>1, <1>2, Tailed, TailedIs
<1>4. /\ m \in Nat /\ Len(s) = (n - 1) + m
      /\ \A i \in 1..(n - 1) : s[i] = t[i]
      /\ \A i \in 1..m : s[(n - 1) + i] = r[i]
  <2>1. PICK l : l = Len(t)
    BY Zenon
  <2>2. /\ m \in Nat /\ Len(s) = l + m /\ \A i \in 1..l : s[i] = t[i]
        /\ \A i \in 1..m : s[l + i] = r[i]
    BY <1>2, <1>3, <2>1, JoinedIs
  <2>3. QED
    BY Zenon, <1>3, <2>1, <2>2
<1>5. /\ \A i \in 1..(n - 1) : s[i] = dc_events[i + 1]
      /\ \A i \in 1..m : s[(n - 1) + i].type = "PublishData"
  <2>1. \A i \in 1..m : r[i].type = "PublishData"
    BY Zenon, <1>2
  <2>2. \A i \in 1..m : s[(n - 1) + i].type = "PublishData"
    BY ZenonT(40), <1>4, <2>1
  <2>3. QED
    BY ZenonT(40), <1>3, <1>4, <2>2
<1>6. \A i \in 1..((n - 1) + m) : s[i].type = "PublishPacket" =>
          i + 1 \in 1..n /\ dc_events[i + 1] = s[i]
  <2>1. SUFFICES ASSUME NEW i \in 1..((n - 1) + m), s[i].type = "PublishPacket"
                 PROVE  i + 1 \in 1..n /\ dc_events[i + 1] = s[i]
    BY Zenon
  <2>2. CASE i <= n - 1
    BY <1>3, <1>5, <2>2
  <2>3. CASE ~(i <= n - 1)
    <3>1. i - (n - 1) \in 1..m /\ (n - 1) + (i - (n - 1)) = i
      BY <1>3, <1>4, <2>3
    <3>2. s[i].type = "PublishData"
      BY Zenon, <1>5, <3>1
    <3>3. QED
      BY ZenonT(40), <2>1, <3>2
  <2>4. QED
    BY Zenon, <2>2, <2>3
<1>7. \A i \in 1..n : dc_events[i].type = "PublishPacket" =>
          i - 1 \in 1..((n - 1) + m) /\ s[i - 1] = dc_events[i]
  <2>1. SUFFICES ASSUME NEW i \in 1..n, dc_events[i].type = "PublishPacket"
                 PROVE  i - 1 \in 1..((n - 1) + m) /\ s[i - 1] = dc_events[i]
    BY Zenon
  <2>2. i # 1
    BY ZenonT(40), <2>1
  <2>3. i - 1 \in 1..(n - 1) /\ (i - 1) + 1 = i /\ i - 1 \in 1..((n - 1) + m)
    BY <1>3, <1>4, <2>2
  <2>4. QED
    BY ZenonT(40), <1>5, <2>3
<1>8. dc_events' = s /\ Len(dc_events) = n /\ Len(dc_events') = (n - 1) + m
  BY ZenonT(40), <1>2, <1>4
<1>9. QED
  BY ZenonT(40), <1>6, <1>7, <1>8, NumberingKept

\* A new call comes after all others, and so does its packet.
LEMMA NumberingPublish ==
  ASSUME TypeOK, TypeOK', Numbering, NEW c \in Calls, NEW big \in BOOLEAN, Publish(c, big)
  PROVE  Numbering'
<1>1. PICK n, k, e : n = Len(asked) /\ k = Len(dc_events) /\ e = PublishPacket(c, big)
  BY Zenon
<1>2. /\ asked' = Append(asked, c) /\ dc_events' = Append(dc_events, e) /\ call[c] = "new"
      /\ sequence_of' = sequence_of /\ next_packet_sequence' = next_packet_sequence
      /\ call' = [call EXCEPT ![c] = "waiting"] /\ call \in [Calls -> CallStates]
      /\ asked \in Seq(Calls) /\ dc_events \in Seq(Events)
  BY ZenonT(40), <1>1, TypeGroups DEF Publish, Queues, Rest
<1>3. e \in Events /\ e.type = "PublishPacket" /\ e.call = c
  BY ZenonT(40), <1>1, EventKinds
<1>4. /\ n \in Nat /\ Len(asked') = n + 1 /\ asked'[n + 1] = c
      /\ \A p \in 1..n : asked'[p] = asked[p]
  BY <1>1, <1>2, AppendedIs
<1>5. /\ k \in Nat /\ Len(dc_events') = k + 1 /\ dc_events'[k + 1] = e
      /\ \A i \in 1..k : dc_events'[i] = dc_events[i]
  BY <1>1, <1>2, <1>3, AppendedIs
<1>6. /\ \A p \in 1..(n + 1) : p \in 1..n \/ p = n + 1
      /\ \A p \in 1..n : p \in 1..(n + 1) /\ p < n + 1 /\ ~(n + 1 < p)
      /\ n + 1 \in 1..(n + 1) /\ ~(n + 1 < n + 1)
      /\ \A i \in 1..(k + 1) : i \in 1..k \/ i = k + 1
      /\ \A i \in 1..k : i \in 1..(k + 1) /\ ~(k + 1 < i)
      /\ k + 1 \in 1..(k + 1) /\ ~(k + 1 < k + 1)
  BY <1>4, <1>5
<1>7. /\ NumbersBelow /\ AskedMade /\ AskedInOrder /\ AskedQueued /\ QueuedAsked
      /\ QueuedInOrder
  BY Zenon DEF Numbering
<1>8. sequence_of[c] = None /\ \A p \in 1..n : asked[p] # c /\ asked[p] \in Calls
  BY ZenonT(40), <1>1, <1>2, <1>7, Elements DEF NumbersBelow, AskedMade
<1>9. call'[c] = "waiting" /\ \A d \in Calls : d # c => call'[d] = call[d]
  BY Zenon, <1>2
<1>10. \A i \in 1..k, d \in Calls : (Packet(i, d)' <=> Packet(i, d)) /\ ~Packet(i, c)
  <2>1. ASSUME NEW i \in 1..k, NEW d \in Calls PROVE Packet(i, d)' <=> Packet(i, d)
    BY Zenon, <1>5 DEF Packet
  <2>2. ASSUME NEW i \in 1..k, Packet(i, c) PROVE FALSE
    BY ZenonT(40), <1>1, <1>7, <1>8, <2>2 DEF Packet, QueuedAsked
  <2>3. QED
    BY ZenonT(40), <2>1, <2>2
<1>11. Packet(k + 1, c)' /\ \A d \in Calls : Packet(k + 1, d)' => d = c
  BY ZenonT(40), <1>3, <1>5 DEF Packet
<1>12. NumbersBelow'
  BY ZenonT(40), <1>2, <1>7, <1>9 DEF NumbersBelow
<1>13. AskedMade'
  <2>1. \A p \in 1..n : call[asked[p]] # "new"
    BY ZenonT(40), <1>1, <1>7 DEF AskedMade
  <2>2. \A p \in 1..n : call'[asked'[p]] # "new"
    BY ZenonT(40), <1>4, <1>8, <1>9, <2>1
  <2>3. call'[asked'[n + 1]] # "new"
    BY ZenonT(40), <1>4, <1>9
  <2>4. QED
    BY ZenonT(40), <1>4, <1>6, <2>2, <2>3 DEF AskedMade
<1>14. AskedInOrder'
  <2>1. SUFFICES ASSUME NEW p \in 1..(n + 1), NEW q \in 1..(n + 1), p < q
                 PROVE  /\ asked'[p] # asked'[q]
                        /\ sequence_of'[asked'[q]] # None =>
                              /\ sequence_of'[asked'[p]] # None
                              /\ sequence_of'[asked'[p]] < sequence_of'[asked'[q]]
    BY Zenon, <1>4 DEF AskedInOrder
  <2>2. p \in 1..n
    BY ZenonT(40), <1>6, <2>1
  <2>3. CASE q \in 1..n
    BY ZenonT(40), <1>1, <1>2, <1>4, <1>7, <2>1, <2>2, <2>3 DEF AskedInOrder
  <2>4. CASE q = n + 1
    BY Zenon, <1>2, <1>4, <1>8, <2>2, <2>4
  <2>5. QED
    BY ZenonT(40), <1>6, <2>3, <2>4
<1>15. AskedQueued'
  <2>1. SUFFICES ASSUME NEW p \in 1..(n + 1), NEW d, d = asked'[p], sequence_of'[d] = None
                 PROVE  \E i \in 1..(k + 1) : Packet(i, d)'
    BY ZenonT(40), <1>4, <1>5 DEF AskedQueued, Packet
  <2>2. CASE p \in 1..n
    <3>1. d = asked[p] /\ d \in Calls /\ sequence_of[d] = None
      BY ZenonT(40), <1>2, <1>4, <1>8, <2>1, <2>2
    <3>2. PICK i \in 1..k : Packet(i, d)
      BY ZenonT(40), <1>1, <1>7, <2>2, <3>1 DEF AskedQueued
    <3>3. QED
      BY ZenonT(40), <1>6, <1>10, <3>1, <3>2
  <2>3. CASE p = n + 1
    BY ZenonT(40), <1>4, <1>6, <1>11, <2>1, <2>3
  <2>4. QED
    BY ZenonT(40), <1>6, <2>2, <2>3
<1>16. QueuedAsked'
  <2>1. SUFFICES ASSUME NEW i \in 1..(k + 1), dc_events'[i].type = "PublishPacket"
                 PROVE  \E p \in 1..(n + 1) : /\ asked'[p] = dc_events'[i].call
                                              /\ sequence_of'[asked'[p]] = None
    BY ZenonT(40), <1>4, <1>5 DEF QueuedAsked
  <2>2. CASE i \in 1..k
    <3>1. dc_events'[i] = dc_events[i] /\ dc_events[i].type = "PublishPacket"
      BY ZenonT(40), <1>5, <2>1, <2>2
    <3>2. PICK p \in 1..n : asked[p] = dc_events[i].call /\ sequence_of[asked[p]] = None
      BY ZenonT(40), <1>1, <1>7, <2>2, <3>1 DEF QueuedAsked
    <3>3. QED
      BY ZenonT(40), <1>2, <1>4, <1>6, <3>1, <3>2
  <2>3. CASE i = k + 1
    <3>1. n + 1 \in 1..(n + 1) /\ asked'[n + 1] = c /\ dc_events'[i].call = c
      BY ZenonT(40), <1>3, <1>4, <1>5, <1>6, <2>3
    <3>2. sequence_of'[c] = None
      BY ZenonT(40), <1>2, <1>8
    <3>3. QED
      BY ZenonT(40), <3>1, <3>2
  <2>4. QED
    BY ZenonT(40), <1>6, <2>2, <2>3
<1>17. QueuedInOrder'
  <2>1. SUFFICES ASSUME NEW p \in 1..(n + 1), NEW q \in 1..(n + 1),
                        NEW i \in 1..(k + 1), NEW j \in 1..(k + 1),
                        NEW d, NEW f, d = asked'[p], f = asked'[q],
                        Packet(i, d)', Packet(j, f)', i < j
                 PROVE  p < q
    BY ZenonT(40), <1>4, <1>5 DEF QueuedInOrder, Packet
  <2>2. d \in Calls /\ f \in Calls
    BY ZenonT(40), <1>4, <1>6, <1>8, <2>1
  <2>3. i \in 1..k /\ Packet(i, d) /\ d # c
    BY ZenonT(40), <1>6, <1>10, <2>1, <2>2
  <2>4. p \in 1..n /\ d = asked[p]
    BY ZenonT(40), <1>4, <1>6, <2>1, <2>3
  <2>5. CASE q = n + 1
    BY ZenonT(40), <1>6, <2>4, <2>5
  <2>6. CASE q \in 1..n
    <3>1. f = asked[q] /\ f # c
      BY ZenonT(40), <1>4, <1>8, <2>1, <2>6
    <3>2. j \in 1..k /\ Packet(j, f)
      BY ZenonT(40), <1>6, <1>10, <1>11, <2>1, <2>2, <3>1
    <3>3. QED
      BY ZenonT(40), <1>1, <1>7, <2>1, <2>3, <2>4, <2>6, <3>1, <3>2 DEF QueuedInOrder
  <2>7. QED
    BY ZenonT(40), <1>6, <2>5, <2>6
<1>18. QED
  BY ZenonT(40), <1>12, <1>13, <1>14, <1>15, <1>16, <1>17 DEF Numbering

\* The packets behind the head stay, one place closer to it.
LEMMA PacketShift ==
  ASSUME TypeOK, OnPublishPacket, next_packet_sequence \in 1..MaxPackets
  PROVE  /\ \A i \in 1..Len(dc_events') : dc_events'[i].type = "PublishPacket" =>
              i + 1 \in 1..Len(dc_events) /\ dc_events[i + 1] = dc_events'[i]
         /\ \A i \in 1..Len(dc_events) : i # 1 =>
              i - 1 \in 1..Len(dc_events') /\ dc_events'[i - 1] = dc_events[i]
         /\ 1 \in 1..Len(dc_events)
<1>1. PICK c \in Calls :
          /\ dc_events # <<>> /\ dc_events \in Seq(Events)
          /\ \/ dc_events' = Tail(dc_events)
             \/ dc_events' = Append(Tail(dc_events), PublishData(next_packet_sequence, c))
  BY ZenonT(40), PacketNumbered DEF TypeOK
<1>2. PICK t, n, e : /\ t = Tail(dc_events) /\ n = Len(dc_events)
                     /\ e = PublishData(next_packet_sequence, c)
  BY Zenon
<1>3. /\ t \in Seq(Events) /\ n \in Nat \ {0}
      /\ Len(t) = n - 1 /\ \A i \in 1..(n - 1) : t[i] = dc_events[i + 1]
  BY ZenonT(40), <1>1, <1>2, Tailed, TailedIs
<1>4. e \in Events /\ e.type # "PublishPacket"
  BY ZenonT(40), <1>2, EventKinds
<1>5. CASE dc_events' = t
  <2>1. Len(dc_events) = n /\ Len(dc_events') = n - 1
    BY ZenonT(40), <1>2, <1>3, <1>5
  <2>2. QED
    BY <1>3, <1>5, <2>1
<1>6. CASE dc_events' = Append(t, e)
  <2>1. PICK s : s = Append(t, e)
    BY Zenon
  <2>2. Len(s) = (n - 1) + 1 /\ s[(n - 1) + 1] = e /\ \A i \in 1..(n - 1) : s[i] = t[i]
    BY <1>3, <1>4, <2>1, AppendedIs
  <2>3. Len(s) = n /\ s[n] = e /\ \A i \in 1..(n - 1) : s[i] = dc_events[i + 1]
    BY <1>3, <2>2
  <2>4. dc_events' = s /\ Len(dc_events) = n /\ Len(dc_events') = n
    BY ZenonT(40), <1>2, <1>6, <2>1, <2>3
  <2>5. /\ \A i \in 1..n : s[i].type = "PublishPacket" =>
              i + 1 \in 1..n /\ dc_events[i + 1] = s[i]
        /\ \A i \in 1..n : i # 1 => i - 1 \in 1..n /\ s[i - 1] = dc_events[i]
        /\ 1 \in 1..n
    BY <1>3, <1>4, <2>3
  <2>6. QED
    BY ZenonT(40), <2>4, <2>5
<1>7. QED
  BY ZenonT(40), <1>1, <1>2, <1>5, <1>6

\* The call at the head is the first of those without a number.
LEMMA NumberingPacket ==
  ASSUME Counting, ReliableInv, TypeOK', OnPublishPacket PROVE Numbering'
<1>1. /\ TypeOK /\ NumbersBelow /\ AskedMade /\ AskedInOrder /\ AskedQueued /\ QueuedAsked
      /\ QueuedInOrder
  BY Zenon DEF ReliableInv, Numbering
<1>2. PICK c \in Calls :
           /\ dc_events # <<>> /\ Packet(1, c) /\ asked' = asked
           /\ next_packet_sequence' = next_packet_sequence + 1
           /\ sequence_of' = [sequence_of EXCEPT ![c] = next_packet_sequence]
           /\ call' = [call EXCEPT ![c] = "error"] \/ call' = call
  BY ZenonT(40), <1>1, PacketNumbered
<1>3. next_packet_sequence \in 1..MaxPackets /\ sequence_of[c] = None
  BY ZenonT(40), <1>2, PacketFree
<1>4. /\ \A i \in 1..Len(dc_events') : dc_events'[i].type = "PublishPacket" =>
            i + 1 \in 1..Len(dc_events) /\ dc_events[i + 1] = dc_events'[i]
      /\ \A i \in 1..Len(dc_events) : i # 1 =>
            i - 1 \in 1..Len(dc_events') /\ dc_events'[i - 1] = dc_events[i]
      /\ 1 \in 1..Len(dc_events)
  BY ZenonT(40), <1>1, <1>3, PacketShift
<1>5. PICK m \in 1..Len(asked) : asked[m] = c
  BY ZenonT(40), <1>1, <1>2, <1>4 DEF Packet, QueuedAsked
<1>6. /\ \A p \in 1..Len(asked) : asked[p] \in Calls /\ (p # m => asked[p] # c)
      /\ \A p \in 1..Len(asked) : p < m \/ p = m \/ m < p
      /\ Len(asked) \in Nat /\ Len(dc_events) \in Nat
  <2>1. /\ Len(asked) \in Nat /\ Len(dc_events) \in Nat
        /\ \A p \in 1..Len(asked) : asked[p] \in Calls
    BY ZenonT(40), <1>1, Elements DEF TypeOK
  <2>2. \A p \in 1..Len(asked) : p < m \/ p = m \/ m < p
    BY <2>1
  <2>3. \A p \in 1..Len(asked) : p # m => asked[p] # c
    BY ZenonT(40), <1>1, <1>5, <2>2 DEF AskedInOrder
  <2>4. QED
    BY ZenonT(40), <2>1, <2>2, <2>3
<1>7. /\ sequence_of'[c] = next_packet_sequence /\ sequence_of'[c] # None
      /\ \A d \in Calls : d # c => sequence_of'[d] = sequence_of[d]
      /\ call'[c] = "new" => call[c] = "new"
      /\ \A d \in Calls : d # c => call'[d] = call[d]
  <2>1. sequence_of \in [Calls -> Sequences0] /\ call \in [Calls -> CallStates]
    BY ZenonT(40), <1>1, TypeGroups DEF Numbers, Rest
  <2>2. QED
    BY ZenonT(40), <1>2, <1>3, <2>1, Constants
<1>8. \A d \in Calls : sequence_of[d] < next_packet_sequence /\ sequence_of[d] \in Nat
  <2>1. \A d \in Calls : sequence_of[d] \in Sequences0
    BY ZenonT(40), <1>1 DEF TypeOK
  <2>2. \A d \in Calls : sequence_of[d] < next_packet_sequence
    BY ZenonT(40), <1>1 DEF NumbersBelow
  <2>3. QED
    BY <2>1, <2>2, Constants
<1>9. \A p \in 1..Len(asked) : p < m => sequence_of[asked[p]] # None
  <2>1. SUFFICES ASSUME NEW p \in 1..Len(asked), p < m, sequence_of[asked[p]] = None
                 PROVE  FALSE
    BY Zenon
  <2>2. PICK i \in 1..Len(dc_events) : Packet(i, asked[p])
    BY ZenonT(40), <1>1, <2>1 DEF AskedQueued
  <2>3. i # 1
    <3>1. p # m
      BY <2>1, <1>6
    <3>2. QED
      BY ZenonT(40), <1>2, <1>6, <2>2, <3>1 DEF Packet
  <2>4. 1 < i
    BY <2>3, <1>6
  <2>5. m < p
    BY ZenonT(40), <1>1, <1>2, <1>4, <1>5, <2>2, <2>4 DEF QueuedInOrder
  <2>6. QED
    BY <1>6, <2>1, <2>5
<1>10. \A p \in 1..Len(asked) : m < p => sequence_of[asked[p]] = None
  BY ZenonT(40), <1>1, <1>3, <1>5 DEF AskedInOrder
<1>11. NumbersBelow'
  <2>1. ASSUME NEW d \in Calls
        PROVE  /\ sequence_of'[d] < next_packet_sequence + 1
               /\ call'[d] = "new" => sequence_of'[d] = None
    <3>1. CASE d = c
      <4>1. call[c] # "new"
        BY ZenonT(40), <1>1, <1>5 DEF AskedMade
      <4>2. QED
        BY <1>3, <1>7, <3>1, <4>1
    <3>2. CASE d # c
      <4>1. sequence_of'[d] < next_packet_sequence + 1
        BY <1>3, <1>7, <1>8, <3>2
      <4>2. QED
        BY ZenonT(40), <1>1, <1>7, <3>2, <4>1 DEF NumbersBelow
    <3>3. QED
      BY ZenonT(40), <3>1, <3>2
  <2>2. QED
    BY ZenonT(40), <1>2, <2>1 DEF NumbersBelow
<1>12. AskedMade'
  <2>1. SUFFICES ASSUME NEW p \in 1..Len(asked) PROVE call'[asked[p]] # "new"
    BY Zenon, <1>2 DEF AskedMade
  <2>2. call[asked[p]] # "new" /\ asked[p] \in Calls
    BY ZenonT(40), <1>1, <1>6 DEF AskedMade
  <2>3. QED
    BY ZenonT(40), <1>7, <2>2
<1>13. AskedInOrder'
  <2>1. SUFFICES ASSUME NEW p \in 1..Len(asked), NEW q \in 1..Len(asked), p < q
                 PROVE  /\ asked[p] # asked[q]
                        /\ sequence_of'[asked[q]] # None =>
                              /\ sequence_of'[asked[p]] # None
                              /\ sequence_of'[asked[p]] < sequence_of'[asked[q]]
    BY ZenonT(40), <1>2 DEF AskedInOrder
  <2>2. /\ asked[p] # asked[q]
        /\ sequence_of[asked[q]] # None =>
              sequence_of[asked[p]] # None /\ sequence_of[asked[p]] < sequence_of[asked[q]]
    BY Zenon, <1>1, <2>1 DEF AskedInOrder
  <2>3. CASE q = m
    <3>1. p # m /\ sequence_of[asked[p]] # None
      BY Zenon, <1>9, <2>1, <2>2, <2>3
    <3>2. sequence_of'[asked[p]] = sequence_of[asked[p]]
      BY ZenonT(40), <1>6, <1>7, <3>1
    <3>3. QED
      BY Zenon, <1>5, <1>6, <1>7, <1>8, <2>2, <2>3, <3>1, <3>2
  <2>4. CASE p = m
    <3>1. q # m /\ sequence_of[asked[q]] = None
      BY ZenonT(40), <1>10, <2>1, <2>2, <2>4
    <3>2. sequence_of'[asked[q]] = None
      BY ZenonT(40), <1>6, <1>7, <3>1
    <3>3. QED
      BY ZenonT(40), <2>2, <3>2
  <2>5. CASE p # m /\ q # m
    <3>1. sequence_of'[asked[p]] = sequence_of[asked[p]]
      BY ZenonT(40), <1>6, <1>7, <2>5
    <3>2. sequence_of'[asked[q]] = sequence_of[asked[q]]
      BY ZenonT(40), <1>6, <1>7, <2>5
    <3>3. QED
      BY ZenonT(40), <2>2, <3>1, <3>2
  <2>6. QED
    BY ZenonT(40), <2>3, <2>4, <2>5
<1>14. \A i \in 1..Len(dc_events), d \in Calls : Packet(i, d) /\ i # 1 => d # c
  <2>1. SUFFICES ASSUME NEW i \in 1..Len(dc_events), Packet(i, c), i # 1 PROVE FALSE
    BY Zenon
  <2>2. 1 < i
    BY <1>6, <2>1
  <2>3. m < m
    BY ZenonT(40), <1>1, <1>2, <1>4, <1>5, <2>1, <2>2 DEF QueuedInOrder
  <2>4. QED
    BY <1>6, <2>3
<1>15. /\ \A i \in 1..Len(dc_events'), d \in Calls : Packet(i, d)' =>
             i + 1 \in 1..Len(dc_events) /\ Packet(i + 1, d)
       /\ \A i \in 1..Len(dc_events), d \in Calls : Packet(i, d) /\ i # 1 =>
             i - 1 \in 1..Len(dc_events') /\ Packet(i - 1, d)'
  BY Zenon, <1>4 DEF Packet
<1>16. \A i \in 1..Len(dc_events') : i + 1 # 1 /\ \A j \in 1..Len(dc_events') : i < j => i + 1 < j + 1
  <2>1. Len(dc_events') \in Nat
    BY ZenonT(40), Elements DEF TypeOK
  <2>2. QED
    BY <2>1
<1>17. AskedQueued'
  <2>1. SUFFICES ASSUME NEW p \in 1..Len(asked), NEW d, d = asked[p], sequence_of'[d] = None
                 PROVE  \E i \in 1..Len(dc_events') : Packet(i, d)'
    BY Zenon, <1>2 DEF AskedQueued, Packet
  <2>2. d # c /\ d \in Calls /\ sequence_of[d] = None
    BY ZenonT(40), <1>6, <1>7, <2>1
  <2>3. PICK i \in 1..Len(dc_events) : Packet(i, d)
    BY ZenonT(40), <1>1, <2>1, <2>2 DEF AskedQueued
  <2>4. i # 1
    BY ZenonT(40), <1>2, <2>2, <2>3 DEF Packet
  <2>5. QED
    BY ZenonT(40), <1>15, <2>2, <2>3, <2>4
<1>18. QueuedAsked'
  <2>1. SUFFICES ASSUME NEW i \in 1..Len(dc_events'), dc_events'[i].type = "PublishPacket"
                 PROVE  \E p \in 1..Len(asked) : /\ asked[p] = dc_events'[i].call
                                                 /\ sequence_of'[asked[p]] = None
    BY Zenon, <1>2 DEF QueuedAsked
  <2>2. i + 1 \in 1..Len(dc_events) /\ dc_events[i + 1] = dc_events'[i]
    BY ZenonT(40), <1>4, <2>1
  <2>3. PICK p \in 1..Len(asked) : /\ asked[p] = dc_events[i + 1].call
                                   /\ sequence_of[asked[p]] = None
    <3>1. dc_events[i + 1].type = "PublishPacket"
      BY ZenonT(40), <2>1, <2>2
    <3>2. QED
      BY ZenonT(40), <1>1, <2>2, <3>1 DEF QueuedAsked
  <2>4. asked[p] # c /\ asked[p] \in Calls
    <3>1. Packet(i + 1, asked[p]) /\ i + 1 # 1 /\ asked[p] \in Calls
      BY ZenonT(40), <1>6, <1>16, <2>1, <2>2, <2>3 DEF Packet
    <3>2. QED
      BY ZenonT(40), <1>14, <2>2, <3>1
  <2>5. QED
    BY ZenonT(40), <1>7, <2>2, <2>3, <2>4
<1>19. QueuedInOrder'
  <2>1. SUFFICES ASSUME NEW p \in 1..Len(asked), NEW q \in 1..Len(asked),
                        NEW i \in 1..Len(dc_events'), NEW j \in 1..Len(dc_events'),
                        NEW d, NEW f, d = asked[p], f = asked[q],
                        Packet(i, d)', Packet(j, f)', i < j
                 PROVE  p < q
    BY ZenonT(40), <1>2 DEF QueuedInOrder, Packet
  <2>2. /\ i + 1 \in 1..Len(dc_events) /\ j + 1 \in 1..Len(dc_events)
        /\ Packet(i + 1, d) /\ Packet(j + 1, f) /\ i + 1 < j + 1
    BY Zenon, <1>6, <1>15, <1>16, <2>1
  <2>3. QED
    BY ZenonT(40), <1>1, <2>1, <2>2 DEF QueuedInOrder
<1>20. QED
  BY ZenonT(40), <1>11, <1>12, <1>13, <1>17, <1>18, <1>19 DEF Numbering

\* Every step keeps the order of the calls.
LEMMA NumberingStep ==
  ASSUME Counting, ReliableInv, [Next]_vars, TypeOK' PROVE Numbering'
<1>1. TypeOK /\ BufferedExact /\ Numbering
  BY Zenon DEF ReliableInv
<1>2. CASE \E c \in Calls, big \in BOOLEAN : Publish(c, big)
  BY ZenonT(40), <1>1, <1>2, NumberingPublish
<1>3. CASE OnPublishPacket
  BY ZenonT(40), <1>3, NumberingPacket
<1>4. ASSUME NEW taken, OnPublishData(taken) \/ OnBufferedAmountChange(taken) PROVE Numbering'
  <2>1. PICK queue, buffered, n, sent : Sends(queue, buffered, n, sent)
    BY ZenonT(40), <1>1, <1>4, StepSends
  <2>2. dc_events[1].type # "PublishPacket"
    BY ZenonT(40), <1>1, <1>4, StepSends
  <2>3. /\ dc_events # <<>> /\ dc_events' = Tail(dc_events)
        /\ \A c \in Calls : call'[c] = "new" => call[c] = "new"
        /\ UNCHANGED <<asked, sequence_of, next_packet_sequence>>
    BY Zenon, <2>1 DEF Sends
  <2>4. <<>> \in Seq(Events) /\ (\A i \in 1..Len(<<>>) : <<>>[i].type = "PublishData")
    OBVIOUS
  <2>5. Tail(dc_events) = Tail(dc_events) \o <<>>
    <3>1. Tail(dc_events) \in Seq(Events)
      BY ZenonT(40), <1>1, <2>3, Tailed DEF TypeOK
    <3>2. QED
      BY <3>1
  <2>6. QED
    BY ZenonT(40), <1>1, <2>2, <2>3, <2>4, <2>5, NumberingTailed
<1>5. CASE OnRetryFrom
  <2>1. PICK r \in Seq(Events) :
            /\ dc_events # <<>> /\ dc_events[1].type = "RetryFrom"
            /\ dc_events' = Tail(dc_events) \o r
            /\ \A i \in 1..Len(r) : r[i].type = "PublishData"
    BY ZenonT(40), <1>1, <1>5, Retries
  <2>2. dc_events[1].type # "PublishPacket"
    BY ZenonT(40), <2>1
  <2>3. UNCHANGED <<call, asked, sequence_of, next_packet_sequence>>
    BY Zenon, <1>5 DEF OnRetryFrom
  <2>4. QED
    BY ZenonT(40), <1>1, <2>1, <2>2, <2>3, NumberingTailed
<1>6. CASE ChannelSends \/ LosePacket
  <2>1. PICK e \in Events : e = BufferedAmountChange(1) /\ e.type # "PublishPacket"
    BY ZenonT(40), EventKinds
  <2>2. QED
    BY ZenonT(40), <1>1, <1>6, <2>1, NumberingAppended DEF ChannelSends, LosePacket
<1>7. CASE Restarted
  <2>1. resuming \in Sequences0
    BY ZenonT(40), <1>1, <1>7 DEF Restarted, TypeOK
  <2>2. PICK e \in Events : e = RetryFrom(resuming) /\ e.type # "PublishPacket"
    BY ZenonT(40), <2>1, EventKinds
  <2>3. QED
    BY ZenonT(40), <1>1, <1>7, <2>2, NumberingAppended DEF Restarted
<1>8. CASE \/ ReconnectResponse \/ (\E k \in 0..Len(link) : SfuReplays(k)) \/ Receive \/ Expire
           \/ UNCHANGED vars
  <2>1. UNCHANGED <<call, asked, dc_events, sequence_of, next_packet_sequence>>
    BY ZenonT(40), <1>8, Unchanged DEF ReconnectResponse, SfuReplays, Receive, PassOn, Expire, task
  <2>2. QED
    BY <1>1, <2>1
       DEF Numbering, NumbersBelow, AskedMade, AskedInOrder, AskedQueued, QueuedAsked,
           QueuedInOrder, Packet
<1>9. QED
  BY Zenon, <1>2, <1>3, <1>4, <1>5, <1>6, <1>7, <1>8 DEF Next, TaskStep

\* Every step keeps next_packet_sequence one above the calls that have a number.
LEMMA CountStep ==
  ASSUME Counting, ReliableInv, [Next]_vars PROVE next_packet_sequence' = Cardinality(Numbered') + 1
<1>1. TypeOK /\ BufferedExact /\ next_packet_sequence = Cardinality(Numbered) + 1
  BY Zenon DEF ReliableInv
<1>2. CASE OnPublishPacket
  <2>1. PICK c \in Calls :
             /\ dc_events # <<>> /\ Packet(1, c)
             /\ next_packet_sequence' = next_packet_sequence + 1
             /\ sequence_of' = [sequence_of EXCEPT ![c] = next_packet_sequence]
    BY ZenonT(40), <1>1, <1>2, PacketNumbered
  <2>2. next_packet_sequence \in 1..MaxPackets /\ sequence_of[c] = None
    BY ZenonT(40), <1>2, <2>1, PacketFree
  <2>3. IsFiniteSet(Numbered) /\ c \notin Numbered
    BY ZenonT(40), <1>1, <2>2, NumberFree
  <2>4. Numbered' = Numbered \cup {c}
    <3>1. sequence_of \in [Calls -> Sequences0] /\ next_packet_sequence # None
      BY ZenonT(40), <1>1, <2>2, Constants DEF TypeOK
    <3>2. QED
      BY ZenonT(40), <2>1, <3>1 DEF Numbered
  <2>5. Cardinality(Numbered') = Cardinality(Numbered) + 1
    BY ZenonT(40), <2>3, <2>4, CountAdd
  <2>6. QED
    BY ZenonT(40), <1>1, <2>1, <2>5
<1>3. CASE ~OnPublishPacket
  <2>1. ASSUME NEW taken, OnPublishData(taken) \/ OnBufferedAmountChange(taken)
        PROVE  UNCHANGED <<next_packet_sequence, sequence_of>>
    BY Zenon, <2>1 DEF OnPublishData, OnBufferedAmountChange
  <2>2. UNCHANGED <<next_packet_sequence, sequence_of>>
    BY ZenonT(40), <1>3, <2>1, Unchanged
       DEF Next, TaskStep, Publish, OnRetryFrom, ChannelSends, LosePacket, ReconnectResponse,
           Restarted, SfuReplays, Receive, PassOn, Expire, task
  <2>3. QED
    BY ZenonT(40), <1>1, <2>2 DEF Numbered
<1>4. QED
  BY Zenon, <1>2, <1>3

-----------------------------------------------------------------------------
(* Rising numbers.                                                         *)

LEMMA RisingAppended ==
  ASSUME NEW S, S \subseteq Nat, NEW q \in Seq(S), NEW lo \in Nat, NEW hi \in Nat,
         Rising(q, lo, hi), NEW e \in S, hi < e, lo <= hi
  PROVE  Rising(Append(q, e), lo, e)
<1>1. PICK s, n : s = Append(q, e) /\ n = Len(q)
  BY ZenonT(40)
<1>2. n \in Nat /\ Len(s) = n + 1 /\ s[n + 1] = e /\ \A i \in 1..n : s[i] = q[i]
  BY <1>1, AppendedIs
<1>3. /\ \A i \in 1..n : lo < q[i] /\ q[i] <= hi /\ q[i] \in Nat
      /\ \A i, j \in 1..n : i < j => q[i] < q[j]
  BY ZenonT(40), <1>1, Elements DEF Rising
<1>4. ASSUME NEW i \in 1..(n + 1) PROVE lo < s[i] /\ s[i] <= e
  BY <1>2, <1>3
<1>5. ASSUME NEW i \in 1..(n + 1), NEW j \in 1..(n + 1), i < j PROVE s[i] < s[j]
  <2>1. i \in 1..n
    BY <1>2, <1>5
  <2>2. CASE j \in 1..n
    BY ZenonT(40), <1>2, <1>3, <1>5, <2>1, <2>2
  <2>3. CASE j = n + 1
    BY <1>2, <1>3, <2>1, <2>3
  <2>4. QED
    BY <1>2, <2>2, <2>3
<1>6. QED
  BY ZenonT(40), <1>1, <1>2, <1>4, <1>5 DEF Rising

LEMMA RisingTailed ==
  ASSUME NEW S, S \subseteq Nat, NEW q \in Seq(S), q # <<>>, NEW lo \in Nat, NEW hi \in Nat,
         Rising(q, lo, hi)
  PROVE  lo < Head(q) /\ Head(q) <= hi /\ Rising(Tail(q), Head(q), hi) /\ Rising(Tail(q), lo, hi)
<1>1. PICK s, n, h : s = Tail(q) /\ n = Len(q) /\ h = Head(q)
  BY Zenon
<1>2. /\ n \in Nat \ {0} /\ Len(s) = n - 1 /\ h = q[1]
      /\ \A i \in 1..(n - 1) : s[i] = q[i + 1]
  BY ZenonT(40), <1>1, Tailed, TailedIs
<1>3. /\ \A i \in 1..n : lo < q[i] /\ q[i] <= hi
      /\ \A i, j \in 1..n : i < j => q[i] < q[j]
  BY ZenonT(40), <1>1 DEF Rising
<1>4. lo < h /\ h <= hi
  BY <1>2, <1>3
<1>5. \A i \in 1..(n - 1) : h < s[i] /\ lo < s[i] /\ s[i] <= hi
  BY <1>2, <1>3
<1>6. \A i, j \in 1..(n - 1) : i < j => s[i] < s[j]
  BY <1>2, <1>3
<1>7. QED
  BY ZenonT(40), <1>1, <1>2, <1>4, <1>5, <1>6 DEF Rising

LEMMA RisingJoined ==
  ASSUME NEW S, S \subseteq Nat, NEW p \in Seq(S), NEW q \in Seq(S),
         NEW lo \in Nat, NEW mid \in Nat, NEW hi \in Nat, lo <= mid, mid <= hi,
         Rising(p, lo, mid), Rising(q, mid, hi)
  PROVE  Rising(p \o q, lo, hi)
<1>1. PICK s, m, n : s = p \o q /\ m = Len(p) /\ n = Len(q)
  BY Zenon
<1>2. /\ m \in Nat /\ n \in Nat /\ Len(s) = m + n
      /\ \A i \in 1..m : s[i] = p[i]
      /\ \A i \in 1..n : s[m + i] = q[i]
  BY <1>1, JoinedIs
<1>3. /\ \A i \in 1..m : lo < p[i] /\ p[i] <= mid /\ p[i] \in Nat
      /\ \A i, j \in 1..m : i < j => p[i] < p[j]
  BY ZenonT(40), <1>1, Elements DEF Rising
<1>4. /\ \A i \in 1..n : mid < q[i] /\ q[i] <= hi /\ q[i] \in Nat
      /\ \A i, j \in 1..n : i < j => q[i] < q[j]
  BY ZenonT(40), <1>1, Elements DEF Rising
<1>5. ASSUME NEW i \in 1..(m + n), ~(i <= m) PROVE i - m \in 1..n /\ s[i] = q[i - m]
  <2>1. i - m \in 1..n /\ m + (i - m) = i
    BY <1>2, <1>5
  <2>2. QED
    BY ZenonT(40), <1>2, <2>1
<1>6. ASSUME NEW i \in 1..(m + n), i <= m PROVE i \in 1..m /\ s[i] = p[i]
  BY <1>2, <1>6
<1>7. ASSUME NEW i \in 1..(m + n) PROVE lo < s[i] /\ s[i] <= hi
  <2>1. CASE i <= m
    <3>1. lo < s[i] /\ s[i] <= mid /\ s[i] \in Nat
      BY ZenonT(40), <1>3, <1>6, <2>1
    <3>2. QED
      BY <3>1
  <2>2. CASE ~(i <= m)
    <3>1. mid < s[i] /\ s[i] <= hi /\ s[i] \in Nat
      BY ZenonT(40), <1>4, <1>5, <2>2
    <3>2. QED
      BY <3>1
  <2>3. QED
    BY ZenonT(40), <2>1, <2>2
<1>8. ASSUME NEW i \in 1..(m + n), NEW j \in 1..(m + n), i < j PROVE s[i] < s[j]
  <2>1. CASE i <= m /\ j <= m
    BY ZenonT(40), <1>3, <1>6, <1>8, <2>1
  <2>2. CASE i <= m /\ ~(j <= m)
    <3>1. s[i] <= mid /\ mid < s[j] /\ s[i] \in Nat /\ s[j] \in Nat
      BY ZenonT(40), <1>3, <1>4, <1>5, <1>6, <2>2
    <3>2. QED
      BY <3>1
  <2>3. CASE ~(i <= m)
    <3>1. ~(j <= m) /\ i - m < j - m
      BY <1>2, <1>8, <2>3
    <3>2. QED
      BY ZenonT(40), <1>4, <1>5, <2>3, <3>1
  <2>4. QED
    BY ZenonT(40), <2>1, <2>2, <2>3
<1>9. QED
  BY ZenonT(40), <1>1, <1>2, <1>7, <1>8 DEF Rising

\* The first n requests and the others.
LEMMA RequestsSplit ==
  ASSUME NEW queue \in Seq(Requests), NEW lo \in Nat, NEW hi \in Nat, lo <= hi,
         RisingRequests(queue, lo, hi), NEW n \in 0..Len(queue), NEW sent \in Seq(1..MaxPackets),
         Len(sent) = n, \A i \in 1..n : sent[i] = queue[i].seq
  PROVE  \E mid \in Nat : /\ lo <= mid /\ mid <= hi /\ Rising(sent, lo, mid)
                          /\ RisingRequests(SubSeq(queue, n + 1, Len(queue)), mid, hi)
<1>1. PICK s, k : s = SubSeq(queue, n + 1, Len(queue)) /\ k = Len(queue)
  BY Zenon
<1>2. k \in Nat /\ n \in 0..k
  BY ZenonT(40), <1>1, Elements
<1>3. Len(s) = k - n /\ \A i \in 1..(k - n) : s[i] = queue[n + i]
  BY ZenonT(40), <1>1, Suffix
<1>4. PICK f : f = [i \in 1..k |-> queue[i].seq]
  BY Zenon
<1>5. \A i \in 1..k : f[i] = queue[i].seq /\ f[i] \in Nat
  <2>1. \A r \in Requests : r.seq \in Nat
    BY DEF Requests
  <2>2. QED
    BY Zenon, <1>1, <1>4, <2>1, Elements
<1>6. /\ \A i \in 1..k : lo < f[i] /\ f[i] <= hi
      /\ \A i, j \in 1..k : i < j => f[i] < f[j]
  BY ZenonT(40), <1>1, <1>5 DEF RisingRequests
<1>7. /\ \A i \in 1..n : sent[i] = f[i]
      /\ \A i \in 1..(k - n) : s[i].seq = f[n + i]
  <2>1. \A i \in 1..n : i \in 1..k
    BY <1>2
  <2>2. \A i \in 1..(k - n) : n + i \in 1..k
    BY <1>2
  <2>3. QED
    BY ZenonT(40), <1>3, <1>5, <2>1, <2>2
<1>8. PICK mid : mid = IF n = 0 THEN lo ELSE f[n]
  BY Zenon
<1>9. mid \in Nat /\ lo <= mid /\ mid <= hi
  BY <1>2, <1>5, <1>6, <1>8
<1>10. /\ \A i \in 1..n : lo < sent[i] /\ sent[i] <= mid
       /\ \A i, j \in 1..n : i < j => sent[i] < sent[j]
  <2>1. ASSUME NEW i \in 1..n PROVE lo < sent[i] /\ sent[i] <= mid
    <3>1. n # 0 /\ mid = f[n] /\ i \in 1..k /\ n \in 1..k /\ (i < n \/ i = n)
      BY <1>2, <1>8
    <3>2. QED
      BY <1>5, <1>6, <1>7, <3>1
  <2>2. QED
    BY <1>2, <1>6, <1>7, <2>1
<1>11. /\ \A i \in 1..(k - n) : mid < s[i].seq /\ s[i].seq <= hi
       /\ \A i, j \in 1..(k - n) : i < j => s[i].seq < s[j].seq
  <2>1. \A i \in 1..(k - n) : n + i \in 1..k /\ (n # 0 => n \in 1..k /\ n < n + i)
    BY <1>2
  <2>2. \A i, j \in 1..(k - n) : i < j => n + i < n + j
    BY <1>2
  <2>3. QED
    BY ZenonT(40), <1>6, <1>7, <1>8, <2>1, <2>2
<1>12. QED
  BY ZenonT(40), <1>1, <1>3, <1>9, <1>10, <1>11 DEF Rising, RisingRequests

LEMMA RequestsAppended ==
  ASSUME NEW q \in Seq(Requests), NEW lo \in Nat, NEW hi \in Nat, lo <= hi,
         RisingRequests(q, lo, hi), NEW e \in Requests, hi < e.seq
  PROVE  RisingRequests(Append(q, e), lo, e.seq)
<1>1. PICK s, n, x : s = Append(q, e) /\ n = Len(q) /\ x = e.seq
  BY ZenonT(40)
<1>2. n \in Nat /\ Len(s) = n + 1 /\ s[n + 1] = e /\ \A i \in 1..n : s[i] = q[i]
  BY <1>1, AppendedIs
<1>3. /\ \A i \in 1..n : lo < s[i].seq /\ s[i].seq <= hi
      /\ \A i, j \in 1..n : i < j => s[i].seq < s[j].seq
  BY ZenonT(40), <1>1, <1>2 DEF RisingRequests
<1>4. x \in Nat /\ hi < x /\ s[n + 1].seq = x /\ \A i \in 1..n : s[i].seq \in Nat
  <2>1. \A r \in Requests : r.seq \in Nat
    BY DEF Requests
  <2>2. QED
    BY ZenonT(40), <1>1, <1>2, <2>1, Elements
<1>5. PICK f : f = [i \in 1..(n + 1) |-> s[i].seq]
  BY Zenon
<1>6. \A i \in 1..(n + 1) : f[i] = s[i].seq
  BY Zenon, <1>5
<1>7. /\ \A i \in 1..n : lo < f[i] /\ f[i] <= hi /\ f[i] \in Nat
      /\ \A i, j \in 1..n : i < j => f[i] < f[j]
      /\ f[n + 1] = x
  <2>1. n + 1 \in 1..(n + 1) /\ \A i \in 1..n : i \in 1..(n + 1)
    BY <1>2
  <2>2. QED
    BY ZenonT(40), <1>3, <1>4, <1>6, <2>1
<1>8. /\ \A i \in 1..(n + 1) : lo < f[i] /\ f[i] <= x
      /\ \A i, j \in 1..(n + 1) : i < j => f[i] < f[j]
  <2>1. \A i \in 1..(n + 1) : lo < f[i] /\ f[i] <= x
    BY <1>2, <1>4, <1>7
  <2>2. ASSUME NEW i \in 1..(n + 1), NEW j \in 1..(n + 1), i < j PROVE f[i] < f[j]
    <3>1. i \in 1..n
      BY <1>2, <2>2
    <3>2. CASE j \in 1..n
      BY ZenonT(40), <1>7, <2>2, <3>1, <3>2
    <3>3. CASE j = n + 1
      BY <1>4, <1>7, <3>1, <3>3
    <3>4. QED
      BY <1>2, <3>2, <3>3
  <2>3. QED
    BY ZenonT(40), <2>1, <2>2
<1>9. RisingRequests(s, lo, x)
  BY ZenonT(40), <1>2, <1>6, <1>8 DEF RisingRequests
<1>10. QED
  BY ZenonT(40), <1>1, <1>9

\* Other events, and the PublishData of a new number, at the end of the queue.
LEMMA EventsAppended ==
  ASSUME NEW q \in Seq(Events), NEW lo \in Nat, NEW hi \in Nat, NEW top \in Nat, hi <= top,
         RisingEvents(q, lo, hi), NEW e \in Events, lo <= hi,
         e.type = "PublishData" => hi < e.seq /\ e.seq <= top
  PROVE  RisingEvents(Append(q, e), lo, top)
<1>1. PICK s, n : s = Append(q, e) /\ n = Len(q)
  BY Zenon
<1>2. n \in Nat /\ Len(s) = n + 1 /\ s[n + 1] = e /\ \A i \in 1..n : s[i] = q[i]
  BY <1>1, AppendedIs
<1>3. /\ \A i \in 1..n : s[i].type = "PublishData" =>
            lo < s[i].seq /\ s[i].seq <= hi /\ s[i].seq \in Nat
      /\ \A i, j \in 1..n : i < j /\ s[i].type = "PublishData" /\ s[j].type = "PublishData" =>
            s[i].seq < s[j].seq
  <2>1. \A r \in Events : r.type = "PublishData" => r.seq \in Nat
    BY EventParts
  <2>2. QED
    BY ZenonT(40), <1>1, <1>2, <2>1, Elements DEF RisingEvents
<1>4. e.type = "PublishData" => e.seq \in Nat /\ lo < e.seq /\ hi < e.seq /\ e.seq <= top
  BY EventParts
<1>5. ASSUME NEW i \in 1..(n + 1), s[i].type = "PublishData" PROVE lo < s[i].seq /\ s[i].seq <= top
  <2>1. CASE i \in 1..n
    BY <1>3, <1>5, <2>1
  <2>2. CASE i = n + 1
    BY ZenonT(40), <1>2, <1>4, <1>5, <2>2
  <2>3. QED
    BY <1>2, <2>1, <2>2
<1>6. ASSUME NEW i \in 1..(n + 1), NEW j \in 1..(n + 1), i < j, s[i].type = "PublishData",
             s[j].type = "PublishData"
      PROVE  s[i].seq < s[j].seq
  <2>1. i \in 1..n
    BY <1>2, <1>6
  <2>2. CASE j \in 1..n
    BY ZenonT(40), <1>3, <1>6, <2>1, <2>2
  <2>3. CASE j = n + 1
    BY <1>2, <1>3, <1>4, <1>6, <2>1, <2>3
  <2>4. QED
    BY <1>2, <2>2, <2>3
<1>7. QED
  BY ZenonT(40), <1>1, <1>2, <1>5, <1>6 DEF RisingEvents

LEMMA EventsTailed ==
  ASSUME NEW q \in Seq(Events), q # <<>>, NEW lo \in Nat, NEW hi \in Nat,
         RisingEvents(q, lo, hi)
  PROVE  /\ RisingEvents(Tail(q), lo, hi)
         /\ q[1].type = "PublishData" =>
               lo < q[1].seq /\ q[1].seq <= hi /\ RisingEvents(Tail(q), q[1].seq, hi)
<1>1. PICK s, n : s = Tail(q) /\ n = Len(q)
  BY Zenon
<1>2. n \in Nat \ {0} /\ Len(s) = n - 1 /\ \A i \in 1..(n - 1) : s[i] = q[i + 1]
  BY <1>1, TailedIs
<1>3. /\ \A i \in 1..n : q[i].type = "PublishData" => lo < q[i].seq /\ q[i].seq <= hi
      /\ \A i, j \in 1..n : i < j /\ q[i].type = "PublishData" /\ q[j].type = "PublishData" =>
            q[i].seq < q[j].seq
  BY ZenonT(40), <1>1 DEF RisingEvents
<1>4. /\ 1 \in 1..n /\ \A i \in 1..(n - 1) : i + 1 \in 1..n /\ 1 < i + 1
      /\ \A i, j \in 1..(n - 1) : i < j => i + 1 < j + 1
  BY <1>2
<1>5. /\ \A i \in 1..(n - 1) : s[i].type = "PublishData" => lo < s[i].seq /\ s[i].seq <= hi
      /\ \A i, j \in 1..(n - 1) :
            i < j /\ s[i].type = "PublishData" /\ s[j].type = "PublishData" => s[i].seq < s[j].seq
  BY ZenonT(40), <1>2, <1>3, <1>4
<1>6. q[1].type = "PublishData" =>
        /\ lo < q[1].seq /\ q[1].seq <= hi
        /\ \A i \in 1..(n - 1) : s[i].type = "PublishData" => q[1].seq < s[i].seq
  BY ZenonT(40), <1>2, <1>3, <1>4
<1>7. QED
  BY ZenonT(40), <1>1, <1>2, <1>5, <1>6 DEF RisingEvents

-----------------------------------------------------------------------------
(* Packets in the order of their numbers until a resume.                   *)

\* The task sends the head of `queue`: b moves up to the last packet sent.
LEMMA LineSends ==
  ASSUME TypeOK, NEW queue, NEW buffered, NEW n, NEW sent, Sends(queue, buffered, n, sent),
         NEW a \in Nat, NEW b \in Nat, NEW c \in Nat,
         a <= b, b <= c, c < next_packet_sequence,
         Rising(arrived, 0, a), Rising(buffer, a, b), RisingRequests(queue, b, c),
         RisingEvents(Tail(dc_events), c, next_packet_sequence - 1)
  PROVE  InLine'
<1>1. /\ queue \in Seq(Requests) /\ n \in 0..Len(queue) /\ sent \in Seq(1..MaxPackets)
      /\ Len(sent) = n /\ \A i \in 1..n : sent[i] = queue[i].seq
      /\ reliable_queue' = SubSeq(queue, n + 1, Len(queue)) /\ dc_events' = Tail(dc_events)
      /\ buffer' = buffer \o sent \/ buffer' = buffer
      /\ arrived' = arrived /\ next_packet_sequence' = next_packet_sequence
  BY Zenon DEF Sends, Sent
<1>2. PICK mid \in Nat : /\ b <= mid /\ mid <= c /\ Rising(sent, b, mid)
                         /\ RisingRequests(reliable_queue', mid, c)
  BY Zenon, <1>1, RequestsSplit
<1>3. Rising(buffer', a, mid)
  <2>1. buffer \in Seq(1..MaxPackets) /\ 1..MaxPackets \subseteq Nat
    <3>1. 1..MaxPackets \subseteq Nat
      OBVIOUS
    <3>2. QED
      BY Zenon, <3>1 DEF TypeOK
  <2>2. Rising(buffer \o sent, a, mid)
    BY Zenon, <1>1, <1>2, <2>1, RisingJoined
  <2>3. Rising(buffer, a, mid)
    <3>1. \A i \in 1..Len(buffer) : a < buffer[i] /\ buffer[i] <= b /\ buffer[i] \in Nat
      BY ZenonT(40), <2>1, Elements DEF Rising
    <3>2. \A i \in 1..Len(buffer) : a < buffer[i] /\ buffer[i] <= mid
      BY <1>2, <3>1
    <3>3. QED
      BY Zenon, <3>2 DEF Rising
  <2>4. QED
    BY ZenonT(40), <1>1, <2>2, <2>3
<1>4. a <= mid
  BY <1>2
<1>5. Line(a, mid, c)'
  BY ZenonT(40), <1>1, <1>2, <1>3, <1>4 DEF Line
<1>6. QED
  BY Zenon, <1>5 DEF InLine

LEMMA ResumedStays ==
  ASSUME [Next]_vars, ~resumed' PROVE ~resumed
<1>1. ASSUME NEW taken, OnPublishData(taken) \/ OnBufferedAmountChange(taken)
      PROVE  resumed' = resumed
  BY Zenon, <1>1 DEF OnPublishData, OnBufferedAmountChange, resume
<1>2. Restarted => resumed'
  BY Zenon DEF Restarted
<1>3. QED
  BY ZenonT(40), <1>1, <1>2, Unchanged
     DEF Next, TaskStep, Publish, OnPublishPacket, OnRetryFrom, ChannelSends, LosePacket,
         ReconnectResponse, SfuReplays, Receive, PassOn, Expire, resume

\* Every step keeps the packets in line, until a resume ends.
LEMMA LineStep ==
  ASSUME Counting, ReliableInv, [Next]_vars, TypeOK', ~resumed' PROVE InLine'
<1>1. TypeOK /\ BufferedExact /\ dc_events \in Seq(Events) /\ 1..MaxPackets \subseteq Nat
  <2>1. 1..MaxPackets \subseteq Nat
    OBVIOUS
  <2>2. QED
    BY ZenonT(40), <2>1 DEF ReliableInv, TypeOK
<1>2. ~resumed
  BY Zenon, ResumedStays
<1>3. PICK a \in Nat, b \in Nat, c \in Nat :
          /\ a <= b /\ b <= c /\ c < next_packet_sequence
          /\ Rising(arrived, 0, a) /\ Rising(buffer, a, b)
          /\ RisingRequests(reliable_queue, b, c)
          /\ RisingEvents(dc_events, c, next_packet_sequence - 1)
  BY ZenonT(40), <1>2 DEF ReliableInv, InLine, Line
<1>4. PICK top \in Nat : /\ top = next_packet_sequence - 1 /\ c <= top
                          /\ next_packet_sequence \in Nat
  <2>1. next_packet_sequence \in 1..MaxPackets + 1
    BY Zenon, <1>1 DEF TypeOK
  <2>2. QED
    BY <1>3, <2>1
<1>5. ASSUME NEW e \in Events, e.type # "PublishData", dc_events' = Append(dc_events, e)
      PROVE  RisingEvents(dc_events', c, top)
  <2>1. top <= top
    OBVIOUS
  <2>2. QED
    BY ZenonT(40), <1>1, <1>3, <1>4, <1>5, <2>1, EventsAppended
<1>6. ASSUME NEW d \in Calls, NEW big \in BOOLEAN, Publish(d, big) PROVE InLine'
  <2>1. PICK e \in Events : e = PublishPacket(d, big) /\ e.type # "PublishData"
    BY ZenonT(40), EventKinds
  <2>2. /\ dc_events' = Append(dc_events, e)
        /\ UNCHANGED <<arrived, buffer, reliable_queue, next_packet_sequence>>
    BY ZenonT(40), <1>6, <2>1 DEF Publish
  <2>3. Line(a, b, c)'
    BY ZenonT(40), <1>3, <1>4, <1>5, <2>1, <2>2 DEF Line
  <2>4. QED
    BY Zenon, <2>3 DEF InLine
<1>7. CASE OnPublishPacket
  <2>1. PICK d \in Calls :
             /\ dc_events # <<>> /\ next_packet_sequence' = next_packet_sequence + 1
             /\ \/ dc_events' = Tail(dc_events)
                \/ dc_events' = Append(Tail(dc_events), PublishData(next_packet_sequence, d))
             /\ UNCHANGED <<reliable_queue, buffer, arrived>>
    BY ZenonT(40), <1>1, <1>7, PacketNumbered
  <2>2. Tail(dc_events) \in Seq(Events) /\ RisingEvents(Tail(dc_events), c, top)
    BY ZenonT(40), <1>1, <1>3, <1>4, <2>1, Tailed, EventsTailed
  <2>3. PICK e \in Events : e = PublishData(next_packet_sequence, d) /\ e.seq = next_packet_sequence
    BY ZenonT(40), <1>7, PacketFree, EventKinds
  <2>4. /\ next_packet_sequence = top + 1 /\ next_packet_sequence \in Nat
        /\ top < next_packet_sequence /\ top <= next_packet_sequence
        /\ next_packet_sequence <= next_packet_sequence
        /\ next_packet_sequence' - 1 = next_packet_sequence /\ c < next_packet_sequence'
    BY <1>3, <1>4, <2>1
  <2>5. RisingEvents(Append(Tail(dc_events), e), c, next_packet_sequence)
    BY ZenonT(40), <1>4, <2>2, <2>3, <2>4, EventsAppended
  <2>6. RisingEvents(Tail(dc_events), c, next_packet_sequence)
    <3>1. \A i \in 1..Len(Tail(dc_events)) : Tail(dc_events)[i].type = "PublishData" =>
             c < Tail(dc_events)[i].seq /\ Tail(dc_events)[i].seq <= top
      BY ZenonT(40), <2>2 DEF RisingEvents
    <3>2. \A r \in Events : r.type = "PublishData" /\ r.seq <= top => r.seq <= next_packet_sequence
      BY <2>4, EventParts
    <3>3. \A i \in 1..Len(Tail(dc_events)) : Tail(dc_events)[i] \in Events
      BY ZenonT(40), <2>2, Elements
    <3>4. QED
      BY ZenonT(40), <2>2, <3>1, <3>2, <3>3 DEF RisingEvents
  <2>7. RisingEvents(dc_events', c, next_packet_sequence' - 1)
    BY ZenonT(40), <2>1, <2>3, <2>4, <2>5, <2>6
  <2>8. Line(a, b, c)'
    BY ZenonT(40), <1>3, <2>1, <2>4, <2>7 DEF Line
  <2>9. QED
    BY ZenonT(40), <2>8 DEF InLine
<1>8. ASSUME NEW taken, OnPublishData(taken) PROVE InLine'
  <2>1. PICK n, sent :
            /\ dc_events # <<>> /\ dc_events[1].type = "PublishData"
            /\ dc_events[1].seq \in 1..MaxPackets /\ dc_events[1].call \in Calls \cup {None}
            /\ Sends(Append(reliable_queue, Request), buffered_amount, n, sent)
    <3>1. /\ dc_events # <<>> /\ dc_events[1].type = "PublishData"
          /\ \E n, sent : Sends(Append(reliable_queue, Request), buffered_amount, n, sent)
      BY ZenonT(40), <1>1, <1>8, DataSends
    <3>2. dc_events[1] \in Events
      BY ZenonT(40), <1>1, <3>1, Tailed
    <3>3. QED
      BY ZenonT(40), <3>1, <3>2, EventParts
  <2>2. PICK x \in Nat : x = dc_events[1].seq
    BY ZenonT(40), <1>1, <2>1
  <2>3. c < x /\ x <= top /\ RisingEvents(Tail(dc_events), x, top)
    BY ZenonT(40), <1>1, <1>3, <1>4, <2>1, <2>2, EventsTailed
  <2>4. Request \in Requests /\ Request.seq = x
    BY ZenonT(40), <2>1, <2>2 DEF Request, Requests
  <2>5. RisingRequests(Append(reliable_queue, Request), b, x)
    BY ZenonT(40), <1>1, <1>3, <2>3, <2>4, RequestsAppended DEF TypeOK
  <2>6. b <= x /\ x < next_packet_sequence
    BY <1>3, <1>4, <2>3
  <2>7. QED
    BY ZenonT(40), <1>1, <1>3, <1>4, <2>1, <2>3, <2>5, <2>6, LineSends
<1>9. ASSUME NEW taken, OnBufferedAmountChange(taken) PROVE InLine'
  <2>1. PICK n, sent : Sends(reliable_queue, buffered_amount - 1, n, sent) /\ dc_events # <<>>
    BY ZenonT(40), <1>1, <1>9, ChangeSends
  <2>2. RisingEvents(Tail(dc_events), c, next_packet_sequence - 1)
    BY ZenonT(40), <1>1, <1>3, <1>4, <2>1, EventsTailed
  <2>3. QED
    BY ZenonT(40), <1>1, <1>3, <2>1, <2>2, LineSends
<1>10. CASE OnRetryFrom
  <2>1. dc_events # <<>> /\ dc_events[1].type = "RetryFrom" /\ Len(dc_events) \in Nat \ {0}
    BY ZenonT(40), <1>1, <1>10, Retries, Tailed
  <2>2. 1 \in 1..Len(dc_events)
    BY <2>1
  <2>3. QED
    BY ZenonT(40), <1>2, <2>1, <2>2 DEF ReliableInv, NoRetry
<1>11. CASE ChannelSends \/ LosePacket
  <2>1. PICK e \in Events : e = BufferedAmountChange(1) /\ e.type # "PublishData"
    BY ZenonT(40), EventKinds
  <2>2. /\ buffer # <<>> /\ buffer' = Tail(buffer) /\ dc_events' = Append(dc_events, e)
        /\ arrived' = Append(arrived, Head(buffer)) \/ arrived' = arrived
        /\ UNCHANGED <<reliable_queue, next_packet_sequence>>
    BY ZenonT(40), <1>11, <2>1 DEF ChannelSends, LosePacket
  <2>3. RisingEvents(dc_events', c, next_packet_sequence' - 1)
    BY ZenonT(40), <1>4, <1>5, <2>1, <2>2
  <2>4. PICK h \in 1..MaxPackets : h = Head(buffer)
    BY ZenonT(40), <1>1, <2>2, Tailed DEF TypeOK
  <2>5. /\ a < h /\ h <= b /\ Rising(buffer', h, b) /\ Rising(buffer', a, b) /\ h \in Nat
    BY ZenonT(40), <1>1, <1>3, <2>2, <2>4, RisingTailed DEF TypeOK
  <2>6. CASE arrived' = arrived
    <3>1. Line(a, b, c)'
      BY ZenonT(40), <1>3, <2>2, <2>3, <2>5, <2>6 DEF Line
    <3>2. QED
      BY ZenonT(40), <3>1 DEF InLine
  <2>7. CASE arrived' = Append(arrived, h)
    <3>1. 0 \in Nat /\ 0 <= a
      OBVIOUS
    <3>2. Rising(arrived', 0, h)
      BY ZenonT(40), <1>1, <1>3, <2>4, <2>5, <2>7, <3>1, RisingAppended DEF TypeOK
    <3>3. Line(h, b, c)'
      BY ZenonT(40), <1>3, <2>2, <2>3, <2>5, <3>2 DEF Line
    <3>4. QED
      BY ZenonT(40), <2>5, <3>3 DEF InLine
  <2>8. QED
    BY ZenonT(40), <2>2, <2>4, <2>6, <2>7
<1>12. CASE Restarted
  BY Zenon, <1>12 DEF Restarted
<1>13. CASE \/ ReconnectResponse \/ (\E k \in 0..Len(link) : SfuReplays(k)) \/ Receive \/ Expire
            \/ UNCHANGED vars
  <2>1. UNCHANGED <<dc_events, arrived, buffer, reliable_queue, next_packet_sequence>>
    BY ZenonT(40), <1>13, Unchanged DEF ReconnectResponse, SfuReplays, Receive, PassOn, Expire, task
  <2>2. Line(a, b, c)'
    BY ZenonT(40), <1>3, <2>1 DEF Line
  <2>3. QED
    BY Zenon, <2>2 DEF InLine
<1>14. QED
  BY ZenonT(40), <1>6, <1>7, <1>8, <1>9, <1>10, <1>11, <1>12, <1>13 DEF Next, TaskStep

\* No retry is under way before a resume has ended.
LEMMA NoRetryStep ==
  ASSUME Counting, ReliableInv, [Next]_vars, TypeOK', ~resumed', ~resumed PROVE NoRetry'
<1>1. TypeOK /\ BufferedExact /\ NoRetry /\ dc_events \in Seq(Events)
  BY ZenonT(40) DEF ReliableInv, TypeOK
<1>2. ASSUME NEW q \in Seq(Events), NEW e \in Events, e.type # "RetryFrom",
             \A i \in 1..Len(q) : q[i].type # "RetryFrom", dc_events' = Append(q, e)
      PROVE  NoRetry'
  <2>1. PICK s, n : s = Append(q, e) /\ n = Len(q)
    BY ZenonT(40)
  <2>2. n \in Nat /\ Len(s) = n + 1 /\ s[n + 1] = e /\ \A i \in 1..n : s[i] = q[i]
    BY <2>1, AppendedIs
  <2>3. \A i \in 1..(n + 1) : i \in 1..n \/ i = n + 1
    BY <2>2
  <2>4. \A i \in 1..(n + 1) : s[i].type # "RetryFrom"
    BY ZenonT(40), <1>2, <2>1, <2>2, <2>3
  <2>5. QED
    BY ZenonT(40), <1>2, <2>1, <2>2, <2>4 DEF NoRetry
<1>3. ASSUME dc_events # <<>>
      PROVE  /\ Tail(dc_events) \in Seq(Events)
             /\ \A i \in 1..Len(Tail(dc_events)) : Tail(dc_events)[i].type # "RetryFrom"
  <2>1. PICK s, n : s = Tail(dc_events) /\ n = Len(dc_events)
    BY Zenon
  <2>2. n \in Nat \ {0} /\ Len(s) = n - 1 /\ \A i \in 1..(n - 1) : s[i] = dc_events[i + 1]
    BY <1>1, <1>3, <2>1, TailedIs
  <2>3. \A i \in 1..(n - 1) : i + 1 \in 1..n
    BY <2>2
  <2>4. \A i \in 1..(n - 1) : s[i].type # "RetryFrom"
    BY ZenonT(40), <1>1, <2>1, <2>2, <2>3 DEF NoRetry
  <2>5. QED
    BY ZenonT(40), <1>1, <1>3, <2>1, <2>2, <2>4, Tailed
<1>4. \A i \in 1..Len(dc_events) : dc_events[i].type # "RetryFrom"
  BY ZenonT(40), <1>1 DEF NoRetry
<1>5. ASSUME NEW c \in Calls, NEW big \in BOOLEAN, Publish(c, big) PROVE NoRetry'
  <2>1. PICK e \in Events : e = PublishPacket(c, big) /\ e.type # "RetryFrom"
    BY ZenonT(40), EventKinds
  <2>2. QED
    BY ZenonT(40), <1>1, <1>2, <1>4, <1>5, <2>1 DEF Publish
<1>6. CASE OnPublishPacket
  <2>1. PICK c \in Calls :
             /\ dc_events # <<>>
             /\ \/ dc_events' = Tail(dc_events)
                \/ dc_events' = Append(Tail(dc_events), PublishData(next_packet_sequence, c))
    BY ZenonT(40), <1>1, <1>6, PacketNumbered
  <2>2. PICK e \in Events : e = PublishData(next_packet_sequence, c) /\ e.type # "RetryFrom"
    BY <1>6, PacketFree, EventKinds
  <2>3. CASE dc_events' = Tail(dc_events)
    BY ZenonT(40), <1>3, <2>1, <2>3 DEF NoRetry
  <2>4. CASE dc_events' = Append(Tail(dc_events), e)
    BY ZenonT(40), <1>2, <1>3, <2>1, <2>2, <2>4
  <2>5. QED
    BY ZenonT(40), <2>1, <2>2, <2>3, <2>4
<1>7. ASSUME NEW taken, OnPublishData(taken) \/ OnBufferedAmountChange(taken) PROVE NoRetry'
  <2>1. PICK queue, buffered, n, sent : Sends(queue, buffered, n, sent)
    BY ZenonT(40), <1>1, <1>7, StepSends
  <2>2. dc_events # <<>> /\ dc_events' = Tail(dc_events)
    BY ZenonT(40), <2>1 DEF Sends
  <2>3. QED
    BY ZenonT(40), <1>3, <2>2 DEF NoRetry
<1>8. CASE OnRetryFrom
  <2>1. dc_events # <<>> /\ dc_events[1].type = "RetryFrom" /\ Len(dc_events) \in Nat \ {0}
    BY ZenonT(40), <1>1, <1>8, Retries, Tailed
  <2>2. 1 \in 1..Len(dc_events)
    BY <2>1
  <2>3. QED
    BY ZenonT(40), <1>4, <2>1, <2>2
<1>9. CASE ChannelSends \/ LosePacket
  <2>1. PICK e \in Events : e = BufferedAmountChange(1) /\ e.type # "RetryFrom"
    BY ZenonT(40), EventKinds
  <2>2. QED
    BY ZenonT(40), <1>1, <1>2, <1>4, <1>9, <2>1 DEF ChannelSends, LosePacket
<1>10. CASE Restarted
  BY ZenonT(40), <1>10 DEF Restarted
<1>11. CASE \/ ReconnectResponse \/ (\E k \in 0..Len(link) : SfuReplays(k)) \/ Receive \/ Expire
            \/ UNCHANGED vars
  <2>1. dc_events' = dc_events
    BY ZenonT(40), <1>11, Unchanged DEF ReconnectResponse, SfuReplays, Receive, PassOn, Expire, task
  <2>2. QED
    BY ZenonT(40), <1>4, <2>1 DEF NoRetry
<1>12. QED
  BY ZenonT(40), <1>5, <1>6, <1>7, <1>8, <1>9, <1>10, <1>11 DEF Next, TaskStep

-----------------------------------------------------------------------------
(* What the receiving session reports.                                     *)

\* A new packet e has a higher number than all that have arrived.
LEMMA ReplaysSends ==
  ASSUME NEW S, S \subseteq Nat \ {0}, NEW arr \in Seq(S), NEW way \in Seq(S), NEW got \in Seq(S),
         NEW state \in Nat, AllReplayed(arr, way, got, state), NEW a \in Nat, Rising(arr, 0, a),
         NEW e \in S, a < e, NEW arr2, arr2 = Append(arr, e), NEW way2, way2 = Append(way, e)
  PROVE  AllReplayed(arr2, way2, got, state)
<1>1. PICK k, n : k = Len(arr) /\ n = Len(way)
  BY ZenonT(40)
<1>2. k \in Nat /\ Len(arr2) = k + 1 /\ arr2[k + 1] = e /\ \A i \in 1..k : arr2[i] = arr[i]
  BY <1>1, AppendedIs
<1>3. n \in Nat /\ Len(way2) = n + 1 /\ way2[n + 1] = e /\ \A i \in 1..n : way2[i] = way[i]
  BY <1>1, AppendedIs
<1>4. \A i \in 1..k : arr[i] # e /\ ~(e <= arr[i]) /\ arr[i] \in S
  <2>1. \A i \in 1..k : arr[i] \in S /\ arr[i] <= a
    BY ZenonT(40), <1>1, Elements DEF Rising
  <2>2. e \in Nat /\ \A i \in 1..k : arr[i] \in Nat
    BY ZenonT(40), <2>1
  <2>3. QED
    BY <2>1, <2>2
<1>5. /\ \A i \in 1..(k + 1) : i \in 1..k \/ i = k + 1
      /\ \A i \in 1..(n + 1) : i \in 1..n \/ i = n + 1
      /\ \A i \in 1..k : i \in 1..(k + 1)
      /\ \A i \in 1..n : i \in 1..(n + 1) /\ i <= n + 1
      /\ k + 1 \in 1..(k + 1) /\ n + 1 \in 1..(n + 1) /\ n + 1 <= n + 1
  BY <1>2, <1>3
<1>6. /\ Covered(arr, way, got) /\ Seen(arr, got, state) /\ Earlier(arr, way, got)
      /\ Forwarded(arr, way) /\ StateKnown(arr, state)
  BY Zenon DEF AllReplayed
<1>7. /\ \A x : Holds(way, x) => Before(way2, n + 1, x) /\ Holds(way2, x)
      /\ \A x : Holds(arr, x) => Holds(arr2, x)
      /\ Before(way2, n + 1, e) /\ Holds(way2, e) /\ Holds(arr2, e)
      /\ \A x, i : Before(way, i, x) => Before(way2, i, x)
  BY ZenonT(40), <1>1, <1>2, <1>3, <1>5 DEF Holds, Before
<1>8. Covered(arr2, way2, got)
  <2>1. ASSUME NEW m \in 1..(k + 1) PROVE Holds(got, arr2[m]) \/ Holds(way2, arr2[m])
    <3>1. CASE m \in 1..k
      BY ZenonT(40), <1>1, <1>2, <1>6, <1>7, <3>1 DEF Covered
    <3>2. CASE m = k + 1
      BY ZenonT(40), <1>2, <1>7, <3>2
    <3>3. QED
      BY ZenonT(40), <1>5, <3>1, <3>2
  <2>2. QED
    BY ZenonT(40), <1>2, <2>1 DEF Covered
<1>9. ~(e <= state)
  <2>1. CASE state = 0
    BY <2>1
  <2>2. CASE Holds(arr, state)
    BY ZenonT(40), <1>1, <1>4, <2>2 DEF Holds
  <2>3. QED
    BY ZenonT(40), <1>6, <2>1, <2>2 DEF StateKnown
<1>10. Seen(arr2, got, state)
  <2>1. ASSUME NEW m \in 1..(k + 1), arr2[m] <= state PROVE Holds(got, arr2[m])
    <3>1. CASE m \in 1..k
      BY ZenonT(40), <1>1, <1>2, <1>6, <2>1, <3>1 DEF Seen
    <3>2. CASE m = k + 1
      BY ZenonT(40), <1>2, <1>9, <2>1, <3>2
    <3>3. QED
      BY ZenonT(40), <1>5, <3>1, <3>2
  <2>2. QED
    BY ZenonT(40), <1>2, <2>1 DEF Seen
<1>11. Earlier(arr2, way2, got)
  <2>1. ASSUME NEW m \in 1..(k + 1), NEW i \in 1..(n + 1), arr2[m] <= way2[i]
        PROVE  Holds(got, arr2[m]) \/ Before(way2, i, arr2[m])
    <3>1. CASE m \in 1..k /\ i \in 1..n
      BY ZenonT(40), <1>1, <1>2, <1>3, <1>6, <1>7, <2>1, <3>1 DEF Earlier
    <3>2. CASE m \in 1..k /\ i = n + 1
      BY ZenonT(40), <1>1, <1>2, <1>6, <1>7, <3>2 DEF Covered
    <3>3. CASE m = k + 1 /\ i \in 1..n
      <4>1. PICK j \in 1..k : arr[j] = way[i]
        BY Zenon, <1>1, <1>6, <3>3 DEF Forwarded, Holds
      <4>2. QED
        BY ZenonT(40), <1>2, <1>3, <1>4, <2>1, <3>3, <4>1
    <3>4. CASE m = k + 1 /\ i = n + 1
      BY ZenonT(40), <1>2, <1>7, <3>4
    <3>5. QED
      BY ZenonT(40), <1>5, <3>1, <3>2, <3>3, <3>4
  <2>2. QED
    BY ZenonT(40), <1>2, <1>3, <2>1 DEF Earlier
<1>12. Forwarded(arr2, way2)
  <2>1. ASSUME NEW i \in 1..(n + 1) PROVE Holds(arr2, way2[i])
    BY ZenonT(40), <1>1, <1>3, <1>5, <1>6, <1>7 DEF Forwarded
  <2>2. QED
    BY ZenonT(40), <1>3, <2>1 DEF Forwarded
<1>13. QED
  BY ZenonT(40), <1>6, <1>7, <1>8, <1>10, <1>11, <1>12 DEF AllReplayed, StateKnown

\* The head of the link is passed on.
LEMMA ReplaysPassed ==
  ASSUME NEW S, S \subseteq Nat \ {0}, NEW arr \in Seq(S), NEW way \in Seq(S), NEW got \in Seq(S),
         NEW state \in Nat, AllReplayed(arr, way, got, state), way # <<>>, NEW h, h = way[1],
         NEW way2, way2 = Tail(way), NEW got2, got2 = Append(got, h),
         NEW state2, state2 = IF h <= state THEN state ELSE h
  PROVE  AllReplayed(arr, way2, got2, state2)
<1>1. PICK g, n : g = Len(got) /\ n = Len(way)
  BY ZenonT(40)
<1>2. n \in Nat \ {0} /\ Len(way2) = n - 1 /\ \A i \in 1..(n - 1) : way2[i] = way[i + 1]
  BY <1>1, TailedIs
<1>3. h \in S
  <2>1. Head(way) \in S /\ Head(way) = way[1]
    BY ZenonT(40), Tailed
  <2>2. QED
    BY Zenon, <2>1
<1>4. g \in Nat /\ Len(got2) = g + 1 /\ got2[g + 1] = h /\ \A i \in 1..g : got2[i] = got[i]
  BY <1>1, <1>3, AppendedIs
<1>5. /\ Covered(arr, way, got) /\ Seen(arr, got, state) /\ Earlier(arr, way, got)
      /\ Forwarded(arr, way) /\ StateKnown(arr, state)
  BY ZenonT(40) DEF AllReplayed
<1>6. /\ 1 \in 1..n /\ \A i \in 1..n : i = 1 \/ (i - 1 \in 1..(n - 1) /\ (i - 1) + 1 = i)
      /\ \A i \in 1..(n - 1) : i + 1 \in 1..n /\ ~(i + 1 <= 1)
                               /\ \A j \in 1..n : j <= i + 1 => j - 1 <= i
      /\ \A i \in 1..g : i \in 1..(g + 1)
      /\ g + 1 \in 1..(g + 1) /\ \A i \in 1..n : i <= 1 => i = 1
  BY <1>2, <1>4
<1>7. /\ Holds(got2, h) /\ \A x : Holds(got, x) => Holds(got2, x)
      /\ \A x : Holds(way, x) => Holds(got2, x) \/ Holds(way2, x)
      /\ \A x : Before(way, 1, x) => Holds(got2, x)
      /\ \A i \in 1..(n - 1) : \A x :
            Before(way, i + 1, x) => Holds(got2, x) \/ Before(way2, i, x)
  <2>1. Holds(got2, h) /\ \A x : Holds(got, x) => Holds(got2, x)
    BY ZenonT(40), <1>1, <1>4, <1>6 DEF Holds
  <2>2. ASSUME NEW x, Holds(way, x) PROVE Holds(got2, x) \/ Holds(way2, x)
    <3>1. PICK j \in 1..n : way[j] = x
      BY ZenonT(40), <1>1, <2>2 DEF Holds
    <3>2. CASE j = 1
      BY ZenonT(40), <2>1, <3>1, <3>2
    <3>3. CASE j # 1
      <4>1. j - 1 \in 1..(n - 1) /\ way2[j - 1] = way[j]
        BY ZenonT(40), <1>2, <1>6, <3>3
      <4>2. QED
        BY ZenonT(40), <1>2, <3>1, <4>1 DEF Holds
    <3>4. QED
      BY ZenonT(40), <3>2, <3>3
  <2>3. ASSUME NEW x, Before(way, 1, x) PROVE Holds(got2, x)
    BY ZenonT(40), <1>1, <1>6, <2>1, <2>3 DEF Before
  <2>4. ASSUME NEW x, NEW i \in 1..(n - 1), Before(way, i + 1, x)
        PROVE  Holds(got2, x) \/ Before(way2, i, x)
    <3>1. PICK j \in 1..n : j <= i + 1 /\ way[j] = x
      BY ZenonT(40), <1>1, <2>4 DEF Before
    <3>2. CASE j = 1
      BY ZenonT(40), <2>1, <3>1, <3>2
    <3>3. CASE j # 1
      <4>1. j - 1 \in 1..(n - 1) /\ j - 1 <= i /\ way2[j - 1] = way[j]
        BY ZenonT(40), <1>2, <1>6, <3>1, <3>3
      <4>2. QED
        BY ZenonT(40), <1>2, <3>1, <4>1 DEF Before
    <3>4. QED
      BY ZenonT(40), <3>2, <3>3
  <2>5. QED
    BY ZenonT(40), <2>1, <2>2, <2>3, <2>4
<1>8. Covered(arr, way2, got2)
  BY ZenonT(40), <1>5, <1>7 DEF Covered
<1>9. Seen(arr, got2, state2)
  <2>1. CASE h <= state
    BY ZenonT(40), <1>5, <1>7, <2>1 DEF Seen
  <2>2. CASE ~(h <= state)
    <3>1. ASSUME NEW m \in 1..Len(arr), arr[m] <= h PROVE Holds(got2, arr[m])
      BY ZenonT(40), <1>1, <1>5, <1>6, <1>7, <3>1 DEF Earlier
    <3>2. QED
      BY ZenonT(40), <2>2, <3>1 DEF Seen
  <2>3. QED
    BY ZenonT(40), <2>1, <2>2
<1>10. Earlier(arr, way2, got2)
  <2>1. ASSUME NEW m \in 1..Len(arr), NEW i \in 1..(n - 1), arr[m] <= way2[i]
        PROVE  Holds(got2, arr[m]) \/ Before(way2, i, arr[m])
    <3>1. i + 1 \in 1..n /\ arr[m] <= way[i + 1]
      BY ZenonT(40), <1>2, <1>6, <2>1
    <3>2. Holds(got, arr[m]) \/ Before(way, i + 1, arr[m])
      BY ZenonT(40), <1>1, <1>5, <3>1 DEF Earlier
    <3>3. QED
      BY ZenonT(40), <1>7, <3>2
  <2>2. QED
    BY ZenonT(40), <1>2, <2>1 DEF Earlier
<1>11. Forwarded(arr, way2)
  <2>1. ASSUME NEW i \in 1..(n - 1) PROVE Holds(arr, way2[i])
    BY ZenonT(40), <1>1, <1>2, <1>5, <1>6 DEF Forwarded
  <2>2. QED
    BY ZenonT(40), <1>2, <2>1 DEF Forwarded
<1>12. StateKnown(arr, state2)
  BY ZenonT(40), <1>1, <1>5, <1>6 DEF StateKnown, Forwarded
<1>13. QED
  BY ZenonT(40), <1>8, <1>9, <1>10, <1>11, <1>12 DEF AllReplayed

LEMMA NotLess ==
  ASSUME NEW x \in Nat, NEW y \in Nat, x <= y PROVE ~(y < x)
OBVIOUS

\* The SFU sends again, in their order, the packets after the reported state; of
\* the link the first packets still arrive.
LEMMA PlacesAfter ==
  ASSUME Counting, NEW arr \in Seq(1..MaxPackets), NEW state \in Sequences0,
         NEW at \in InOrder(After(arr, state))
  PROVE  Places(at, Len(at), arr, state)
<1>1. Len(at) \in Nat /\ \A i \in 1..Len(at) : at[i] \in 1..Len(arr)
  BY ZenonT(40), Again
<1>2. \A i, j \in 1..Len(at) : i < j => at[i] < at[j]
  BY ZenonT(40), Again
<1>3. ASSUME NEW m \in 1..Len(arr), arr[m] > state PROVE \E i \in 1..Len(at) : at[i] = m
  BY <1>3, Again
<1>4. QED
  BY ZenonT(40), <1>1, <1>2, <1>3 DEF Places

LEMMA ReplaysAgain ==
  ASSUME NEW S, S \subseteq Nat \ {0}, NEW arr \in Seq(S), NEW way \in Seq(S), NEW got \in Seq(S),
         NEW state \in Nat, AllReplayed(arr, way, got, state), NEW a, Rising(arr, 0, a),
         NEW k \in 0..Len(way), NEW l, NEW at, Places(at, l, arr, state),
         NEW r, Resent(r, at, l, arr), NEW way2, Spliced(way2, way, k, r, l)
  PROVE  AllReplayed(arr, way2, got, state)
<1>0. /\ l \in Nat /\ \A i \in 1..l : at[i] \in 1..Len(arr)
      /\ \A i, j \in 1..l : i < j => at[i] < at[j]
      /\ \A m \in 1..Len(arr) : arr[m] > state => \E i \in 1..l : at[i] = m
  BY Zenon DEF Places
<1> l \in Nat
  BY ZenonT(40), <1>0
<1>1. PICK n : n = Len(arr)
  BY Zenon
<1>2. k \in Nat /\ n \in Nat /\ \A i \in 1..k : i \in 1..Len(way)
  <2>1. Len(way) \in Nat /\ n \in Nat
    BY ZenonT(40), <1>1, Elements
  <2>2. QED
    BY <2>1
<1>4. /\ Len(way2) = k + l /\ \A i \in 1..k : way2[i] = way[i]
      /\ \A i \in 1..l : way2[k + i] = arr[at[i]]
  BY Zenon DEF Spliced, Resent
<1>5. /\ \A i \in 1..k : way2[i] = way[i] /\ i \in 1..(k + l)
      /\ \A i \in 1..l : way2[k + i] = arr[at[i]] /\ k + i \in 1..(k + l)
  <2>1. (\A i \in 1..k : i \in 1..(k + l)) /\ \A i \in 1..l : k + i \in 1..(k + l)
    BY <1>2
  <2>2. ASSUME NEW i \in 1..l PROVE way2[k + i] = arr[at[i]] /\ k + i \in 1..(k + l)
    BY ZenonT(40), <1>4, <2>1
  <2>3. QED
    BY ZenonT(40), <1>4, <2>1, <2>2
<1>6. \A i \in 1..(k + l) : i \in 1..k \/ \E j \in 1..l : i = k + j
  <2>1. SUFFICES ASSUME NEW i \in 1..(k + l), i \notin 1..k PROVE \E j \in 1..l : i = k + j
    BY ZenonT(40)
  <2>2. i - k \in 1..l /\ i = k + (i - k)
    BY <1>2, <2>1
  <2>3. QED
    BY ZenonT(40), <2>2
<1>7. \A m \in 1..n : arr[m] <= state \/ \E i \in 1..l : at[i] = m
  <2>1. \A m \in 1..n : arr[m] \in Nat
    <3>1. \A m \in 1..n : arr[m] \in S
      BY ZenonT(40), <1>1, Elements
    <3>2. QED
      BY ZenonT(40), <3>1
  <2>2. \A m \in 1..n : arr[m] <= state \/ arr[m] > state
    BY <2>1
  <2>3. QED
    BY ZenonT(40), <1>1, <1>0, <2>2
<1>8. /\ Covered(arr, way, got) /\ Seen(arr, got, state) /\ Earlier(arr, way, got)
      /\ Forwarded(arr, way) /\ StateKnown(arr, state)
  BY Zenon DEF AllReplayed
<1>9. Covered(arr, way2, got)
  <2>1. ASSUME NEW m \in 1..n PROVE Holds(got, arr[m]) \/ Holds(way2, arr[m])
    <3>1. CASE arr[m] <= state
      BY ZenonT(40), <1>1, <1>8, <3>1 DEF Seen
    <3>2. ASSUME NEW i \in 1..l, at[i] = m PROVE Holds(way2, arr[m])
      BY ZenonT(40), <1>4, <1>5, <3>2 DEF Holds
    <3>3. QED
      BY ZenonT(40), <1>7, <3>1, <3>2
  <2>2. QED
    BY ZenonT(40), <1>1, <2>1 DEF Covered
<1>10. Earlier(arr, way2, got)
  <2>1. ASSUME NEW m \in 1..n, NEW i \in 1..(k + l), arr[m] <= way2[i]
        PROVE  Holds(got, arr[m]) \/ Before(way2, i, arr[m])
    <3>1. CASE arr[m] <= state
      BY ZenonT(40), <1>1, <1>8, <3>1 DEF Seen
    <3>2. CASE i \in 1..k
      <4>1. Holds(got, arr[m]) \/ Before(way, i, arr[m])
        BY ZenonT(40), <1>1, <1>2, <1>5, <1>8, <2>1, <3>2 DEF Earlier
      <4>2. ASSUME Before(way, i, arr[m]) PROVE Before(way2, i, arr[m])
        <5>1. PICK j \in 1..Len(way) : j <= i /\ way[j] = arr[m]
          BY ZenonT(40), <4>2 DEF Before
        <5>2. j \in 1..k
          BY <1>2, <3>2, <5>1
        <5>3. QED
          BY ZenonT(40), <1>4, <1>5, <5>1, <5>2 DEF Before
      <4>3. QED
        BY ZenonT(40), <4>1, <4>2
    <3>3. ASSUME NEW j \in 1..l, i = k + j, NEW o \in 1..l, at[o] = m
          PROVE  Before(way2, i, arr[m])
      <4>1. at[j] \in 1..n /\ way2[i] = arr[at[j]] /\ arr[m] <= arr[at[j]]
        BY ZenonT(40), <1>1, <1>5, <1>0, <2>1, <3>3
      <4>2. ~(at[j] < m)
        <5>1. \A x, y \in 1..n : x < y => arr[x] < arr[y]
          BY Zenon, <1>1 DEF Rising
        <5>2. arr[at[j]] \in Nat /\ arr[m] \in Nat
          <6>1. arr[at[j]] \in S /\ arr[m] \in S
            BY ZenonT(40), <1>1, <4>1, Elements
          <6>2. QED
            BY ZenonT(40), <6>1
        <5>3. ~(arr[at[j]] < arr[m])
          BY ZenonT(40), <4>1, <5>2, NotLess
        <5>4. QED
          BY ZenonT(40), <4>1, <5>1, <5>3
      <4>3. ~(j < o)
        BY ZenonT(40), <1>0, <3>3, <4>2
      <4>4. k + o <= i
        BY <1>2, <3>3, <4>3
      <4>5. QED
        BY ZenonT(40), <1>4, <1>5, <3>3, <4>4 DEF Before
    <3>4. QED
      BY ZenonT(40), <1>6, <1>7, <3>1, <3>2, <3>3
  <2>2. QED
    BY ZenonT(40), <1>1, <1>4, <2>1 DEF Earlier
<1>11. Forwarded(arr, way2)
  <2>1. ASSUME NEW i \in 1..(k + l) PROVE Holds(arr, way2[i])
    <3>1. CASE i \in 1..k
      BY ZenonT(40), <1>2, <1>5, <1>8, <3>1 DEF Forwarded
    <3>2. ASSUME NEW j \in 1..l, i = k + j PROVE Holds(arr, way2[i])
      BY ZenonT(40), <1>5, <1>0, <3>2 DEF Holds
    <3>3. QED
      BY ZenonT(40), <1>6, <3>1, <3>2
  <2>2. QED
    BY ZenonT(40), <1>4, <2>1 DEF Forwarded
<1>12. QED
  BY ZenonT(40), <1>8, <1>9, <1>10, <1>11 DEF AllReplayed

\* The report is forgotten.
LEMMA ReplaysExpired ==
  ASSUME NEW S, S \subseteq Nat \ {0}, NEW arr \in Seq(S), NEW way, NEW got, NEW state,
         AllReplayed(arr, way, got, state)
  PROVE  AllReplayed(arr, way, got, 0)
<1>1. \A m \in 1..Len(arr) : arr[m] \in Nat \ {0}
  <2>1. \A m \in 1..Len(arr) : arr[m] \in S
    BY ZenonT(40), Elements
  <2>2. QED
    BY ZenonT(40), <2>1
<1>2. \A m \in 1..Len(arr) : ~(arr[m] <= 0)
  BY <1>1
<1>3. QED
  BY ZenonT(40), <1>2 DEF AllReplayed, Seen, StateKnown

LEMMA ReplaysResent ==
  ASSUME Counting, NEW arr \in Seq(1..MaxPackets), NEW way \in Seq(1..MaxPackets),
         NEW got \in Seq(1..MaxPackets), NEW state \in Sequences0,
         AllReplayed(arr, way, got, state), NEW a, Rising(arr, 0, a), NEW k \in 0..Len(way),
         NEW at \in InOrder(After(arr, state)), NEW r \in Seq(1..MaxPackets),
         Resent(r, at, Len(at), arr)
  PROVE  AllReplayed(arr, SubSeq(way, 1, k) \o r, got, state)
<1>1. Places(at, Len(at), arr, state)
  BY Zenon, PlacesAfter
<1>2. Spliced(SubSeq(way, 1, k) \o r, way, k, r, Len(r))
  BY ZenonT(40), SplicedAt
<1>3. Spliced(SubSeq(way, 1, k) \o r, way, k, r, Len(at))
  BY ZenonT(40), <1>2 DEF Resent
<1>4. state \in Nat /\ 1..MaxPackets \subseteq Nat \ {0}
  BY DEF Sequences0
<1>5. QED
  BY ZenonT(40), <1>1, <1>3, <1>4, ReplaysAgain

LEMMA ReplaysStep ==
  ASSUME Counting, ReliableInv, [Next]_vars, ~resumed PROVE Replays'
<1>1. /\ TypeOK /\ BufferedExact /\ AllReplayed(arrived, link, received, rx_state)
      /\ arrived \in Seq(1..MaxPackets) /\ link \in Seq(1..MaxPackets)
      /\ received \in Seq(1..MaxPackets) /\ buffer \in Seq(1..MaxPackets)
      /\ rx_state \in Sequences0
  BY ZenonT(40) DEF ReliableInv, TypeOK, Replays
<1>2. rx_state \in Nat /\ 1..MaxPackets \subseteq Nat \ {0} /\ 1..MaxPackets \subseteq Nat
  BY <1>1 DEF Sequences0
<1>3. PICK a \in Nat, b \in Nat : Rising(arrived, 0, a) /\ Rising(buffer, a, b)
  BY Zenon DEF ReliableInv, InLine, Line
<1>4. ASSUME UNCHANGED <<arrived, link, received, rx_state>> PROVE Replays'
  BY ZenonT(40), <1>1, <1>4 DEF Replays
<1>5. CASE ChannelSends
  <2>1. PICK e, arr2, way2 : e = Head(buffer) /\ arr2 = arrived' /\ way2 = link'
    BY Zenon
  <2>2. /\ buffer # <<>> /\ arr2 = Append(arrived, e) /\ way2 = Append(link, e)
        /\ received' = received /\ rx_state' = rx_state
    BY ZenonT(40), <1>5, <2>1 DEF ChannelSends, receiver
  <2>3. e \in 1..MaxPackets
    BY ZenonT(40), <1>1, <2>1, <2>2, Tailed
  <2>4. a < e
    BY ZenonT(40), <1>1, <1>2, <1>3, <2>1, <2>2, RisingTailed
  <2>5. AllReplayed(arr2, way2, received, rx_state)
    BY ZenonT(40), <1>1, <1>2, <1>3, <2>2, <2>3, <2>4, ReplaysSends
  <2>6. QED
    BY ZenonT(40), <2>1, <2>2, <2>5 DEF Replays
<1>6. CASE Receive
  <2>1. PICK h, way2, got2, state2 : /\ h = Head(link) /\ way2 = link'
                                     /\ got2 = received' /\ state2 = rx_state'
    BY Zenon
  <2>2. /\ link # <<>> /\ way2 = Tail(link) /\ got2 = Append(received, h)
        /\ state2 = (IF h <= rx_state THEN rx_state ELSE h) /\ arrived' = arrived
    BY ZenonT(40), <1>6, <2>1 DEF Receive, PassOn
  <2>3. h = link[1]
    BY ZenonT(40), <1>1, <2>1, <2>2, Tailed
  <2>4. AllReplayed(arrived, way2, got2, state2)
    BY ZenonT(40), <1>1, <1>2, <2>2, <2>3, ReplaysPassed
  <2>5. QED
    BY ZenonT(40), <2>1, <2>2, <2>4 DEF Replays
<1>7. ASSUME NEW k \in 0..Len(link), SfuReplays(k) PROVE Replays'
  <2>1. PICK at \in InOrder(After(arrived, rx_state)), r \in Seq(1..MaxPackets) :
            /\ link' = SubSeq(link, 1, k) \o r /\ Len(r) = Len(at)
            /\ \A i \in 1..Len(at) : r[i] = arrived[at[i]]
    BY ZenonT(40), <1>1, <1>7, Replayed
  <2>2. PICK way2 : way2 = link'
    BY Zenon
  <2>3. AllReplayed(arrived, way2, received, rx_state)
    <3>1. Resent(r, at, Len(at), arrived) /\ way2 = SubSeq(link, 1, k) \o r
      BY ZenonT(40), <2>1, <2>2 DEF Resent
    <3>2. AllReplayed(arrived, SubSeq(link, 1, k) \o r, received, rx_state)
      BY ZenonT(40), <1>1, <1>3, <3>1, ReplaysResent
    <3>3. QED
      BY ZenonT(40), <3>1, <3>2
  <2>4. UNCHANGED <<arrived, received, rx_state>>
    BY ZenonT(40), <1>7 DEF SfuReplays, receiver
  <2>5. QED
    BY ZenonT(40), <2>2, <2>3, <2>4 DEF Replays
<1>8. CASE Expire
  <2>1. rx_state' = 0 /\ UNCHANGED <<arrived, link, received>>
    BY ZenonT(40), <1>8 DEF Expire
  <2>2. AllReplayed(arrived, link, received, 0)
    BY ZenonT(40), <1>1, <1>2, ReplaysExpired
  <2>3. QED
    BY ZenonT(40), <2>1, <2>2 DEF Replays
<1>9. ASSUME NEW taken, OnPublishData(taken) \/ OnBufferedAmountChange(taken) PROVE Replays'
  BY ZenonT(40), <1>4, <1>9 DEF OnPublishData, OnBufferedAmountChange, receiver
<1>10. QED
  BY ZenonT(40), <1>4, <1>5, <1>6, <1>7, <1>8, <1>9, Unchanged
     DEF Next, TaskStep, Publish, OnPublishPacket, OnRetryFrom, LosePacket, ReconnectResponse,
         Restarted, receiver

-----------------------------------------------------------------------------
(* The invariant and what it gives.                                        *)

LEMMA InitReliable == ASSUME Counting, Init PROVE ReliableInv
<1> USE ReliableChannelAssumption
<1>1. TypeOK
  <2>1. /\ call \in [Calls -> {"new", "waiting", "ok", "error"}]
        /\ sequence_of \in [Calls -> Sequences0] /\ resumed \in BOOLEAN
    <3>1. None \in Sequences0
      BY DEF Sequences0, None
    <3>2. QED
      BY ZenonT(40), <3>1 DEF Init
  <2>2. /\ next_packet_sequence \in 1..(MaxPackets + 1) /\ resuming \in Sequences0 \cup {-1}
        /\ buffered_amount \in Nat /\ failed \in Nat /\ faults \in 0..MaxFaults
        /\ rx_state \in Sequences0
    BY DEF Init, Sequences0
  <2>3. \A S : <<>> \in Seq(S)
    OBVIOUS
  <2>4. QED
    BY ZenonT(40), <2>1, <2>2, <2>3 DEF Init, TypeOK
<1>2. BufferedExact
  <2>1. Len(dc_events) = 0 /\ DOMAIN dc_events = {} /\ Len(buffer) = 0
    BY DEF Init
  <2>2. Reports = {}
    BY ZenonT(40), <2>1 DEF Reports
  <2>3. Cardinality(Reports) = 0
    BY ZenonT(40), <2>2, CountEmpty
  <2>4. QED
    BY <2>1, <2>3 DEF Init, BufferedExact
<1>3. Numbering
  BY DEF Init, Numbering, NumbersBelow, AskedMade, AskedInOrder, AskedQueued, QueuedAsked,
         QueuedInOrder, None
<1>4. next_packet_sequence = Cardinality(Numbered) + 1
  <2>1. Numbered = {}
    BY Zenon DEF Init, Numbered
  <2>2. Cardinality(Numbered) = 0
    BY ZenonT(40), <2>1, CountEmpty
  <2>3. QED
    BY <2>2 DEF Init
<1>5. InLine
  <2>1. Line(0, 0, 0)
    BY DEF Init, Line, Rising, RisingRequests, RisingEvents
  <2>2. QED
    BY ZenonT(40), <2>1 DEF InLine
<1>6. NoRetry
  BY DEF Init, NoRetry
<1>7. Replays
  BY DEF Init, Replays, AllReplayed, Covered, Seen, Earlier, Forwarded, StateKnown
<1>8. QED
  BY ZenonT(40), <1>1, <1>2, <1>3, <1>4, <1>5, <1>6, <1>7 DEF ReliableInv

LEMMA ReliableStep == ASSUME Counting, ReliableInv, [Next]_vars PROVE ReliableInv'
<1>1. TypeOK'
  BY ZenonT(40), TypeStep
<1>2. BufferedExact' /\ Numbering'
  BY ZenonT(40), <1>1, ExactStep, NumberingStep
<1>3. next_packet_sequence' = Cardinality(Numbered') + 1
  BY ZenonT(40), CountStep
<1>4. ASSUME ~resumed' PROVE InLine' /\ NoRetry' /\ Replays'
  BY ZenonT(40), <1>1, <1>4, ResumedStays, LineStep, NoRetryStep, ReplaysStep
<1>5. QED
  BY ZenonT(40), <1>1, <1>2, <1>3, <1>4 DEF ReliableInv

INSTANCE FiniteSetTheorems

\* The facts about finite sets hold.
LEMMA CountingHolds == Counting
<1>1. IsFiniteSet({}) /\ Cardinality({}) = 0
  BY Zenon, FS_EmptySet
<1>2. \A a, b \in Int : IsFiniteSet(a..b) /\ Cardinality(a..b) = IF a > b THEN 0 ELSE b - a + 1
  BY Zenon, FS_Interval
<1>3. \A S : IsFiniteSet(S) => Cardinality(S) \in Nat /\ ExistsBijection(1..Cardinality(S), S)
  BY Zenon, FS_CardinalityType
<1>4. \A S : \A T \in SUBSET S :
          IsFiniteSet(S) => /\ IsFiniteSet(T) /\ Cardinality(T) <= Cardinality(S)
                            /\ Cardinality(S) = Cardinality(T) => S = T
  BY Zenon, FS_Subset
<1>5. \A S, x : IsFiniteSet(S) =>
          /\ IsFiniteSet(S \cup {x})
          /\ Cardinality(S \cup {x}) = IF x \in S THEN Cardinality(S) ELSE Cardinality(S) + 1
  BY Zenon, FS_AddElement
<1>6. \A S, x : IsFiniteSet(S) =>
          /\ IsFiniteSet(S \ {x})
          /\ Cardinality(S \ {x}) = IF x \in S THEN Cardinality(S) - 1 ELSE Cardinality(S)
  BY Zenon, FS_RemoveElement
<1>7. \A S, T : IsFiniteSet(S) /\ ExistsBijection(S, T) =>
          IsFiniteSet(T) /\ Cardinality(T) = Cardinality(S)
  BY Zenon, FS_Bijection
<1>8. \A S, T : \A f \in Injection(S, T) : IsFiniteSet(T) =>
          /\ IsFiniteSet(S) /\ Cardinality(S) <= Cardinality(T)
          /\ Cardinality(S) = Cardinality(T) <=> f \in Surjection(S, T)
  BY Zenon, FS_Injection
<1>9. QED
  BY Zenon, <1>1, <1>2, <1>3, <1>4, <1>5, <1>6, <1>7, <1>8 DEF Counting

\* ReliableInv holds in every state: data_channel_task, the channel, the SFU and
\* both sessions keep the line of packets and the account of the channel.
THEOREM ReliableInvariance == Spec => []ReliableInv
<1>1. Init => ReliableInv
  BY ZenonT(40), CountingHolds, InitReliable
<1>2. ReliableInv /\ [Next]_vars => ReliableInv'
  BY ZenonT(40), CountingHolds, ReliableStep
<1>3. QED
  BY <1>1, <1>2, PTL DEF Spec

\* Every variable keeps its type: sequence numbers stay within the number of
\* calls, also those in the queues, in the events and in the state of the receiver.
THEOREM ReliableTypes == Spec => []TypeOK
<1>1. ReliableInv => TypeOK
  BY Zenon DEF ReliableInv
<1>2. QED
  BY <1>1, ReliableInvariance, PTL

\* A sequence number goes to one call of publish_data() only: the task numbers a
\* packet above all it has numbered before, and never numbers one again.
THEOREM NumbersAreUnique == Spec => []NumberedOnce
<1>1. Init => NumberedOnce
  BY Zenon DEF Init, NumberedOnce
<1>2. ReliableInv /\ NumberedOnce /\ [Next]_vars => NumberedOnce'
  <2> SUFFICES ASSUME ReliableInv, NumberedOnce, [Next]_vars PROVE NumberedOnce'
    BY Zenon
  <2>1. CASE OnPublishPacket
    <3>1. PICK c : sequence_of' = [sequence_of EXCEPT ![c] = next_packet_sequence]
      BY Zenon, <2>1 DEF OnPublishPacket
    <3>2. sequence_of \in [Calls -> Sequences0] /\ next_packet_sequence \in Nat
      BY DEF ReliableInv, TypeOK
    <3>3. \A d \in Calls : sequence_of[d] < next_packet_sequence
      BY Zenon DEF ReliableInv, Numbering, NumbersBelow
    <3>4. \A d \in Calls : sequence_of[d] # next_packet_sequence
      BY <3>2, <3>3 DEF Sequences0
    <3>5. QED
      BY ZenonT(40), <3>1, <3>2, <3>4 DEF NumberedOnce
  <2>2. CASE UNCHANGED sequence_of
    BY Zenon, <2>2 DEF NumberedOnce
  <2>3. QED
    BY ZenonT(40), <2>1, <2>2
       DEF Next, TaskStep, Publish, OnPublishData, OnBufferedAmountChange, OnRetryFrom,
           ChannelSends, LosePacket, ReconnectResponse, Restarted, SfuReplays, Receive, PassOn,
           Expire, task, vars
<1>3. QED
  BY <1>1, <1>2, ReliableInvariance, PTL DEF Spec

\* buffered_amount is at all times what the channel holds, what it has reported
\* as sent and what it refused: the task never subtracts more than it added, and
\* hands out at most one packet above the threshold.
THEOREM AccountIsExact == Spec => []BufferedExact
<1>1. ReliableInv => BufferedExact
  BY ZenonT(40) DEF ReliableInv
<1>2. QED
  BY <1>1, ReliableInvariance, PTL

\* Until a resume the packets reach the SFU once each and in the order of their
\* numbers, which is that of the publish_data() calls.
THEOREM OrderKeptUntilResume == Spec => []OrderedUntilResume
<1>1. ReliableInv => OrderedUntilResume
  <2>1. SUFFICES ASSUME ReliableInv, ~resumed PROVE OrderedUntilResume
    BY ZenonT(40) DEF OrderedUntilResume
  <2>2. arrived \in Seq(1..MaxPackets) /\ asked \in Seq(Calls) /\ AskedInOrder
    BY ZenonT(40), <2>1 DEF ReliableInv, TypeOK, Numbering
  <2>3. DOMAIN arrived = 1..Len(arrived) /\ DOMAIN asked = 1..Len(asked)
    BY ZenonT(40), <2>2, Elements
  <2>4. PICK a \in Nat : Rising(arrived, 0, a)
    BY ZenonT(40), <2>1 DEF ReliableInv, InLine, Line
  <2>5. QED
    BY ZenonT(40), <2>2, <2>3, <2>4 DEF OrderedUntilResume, Rising, AskedInOrder
<1>2. QED
  BY <1>1, ReliableInvariance, PTL

\* What update_packet_rx_state() keeps is enough: each packet that reached the
\* SFU was passed on or is on its way, whatever the receiver resumes with.
THEOREM NothingIsMissed == Spec => []ReplayCovers
<1>1. ReliableInv => ReplayCovers
  <2>1. SUFFICES ASSUME ReliableInv, ~resumed, NEW x \in Range(arrived)
                 PROVE  x \in Range(received) \cup Range(link)
    BY ZenonT(40) DEF ReplayCovers
  <2>2. /\ arrived \in Seq(1..MaxPackets) /\ link \in Seq(1..MaxPackets)
        /\ received \in Seq(1..MaxPackets) /\ Covered(arrived, link, received)
    BY ZenonT(40), <2>1 DEF ReliableInv, TypeOK, Replays, AllReplayed
  <2>3. /\ DOMAIN arrived = 1..Len(arrived) /\ DOMAIN link = 1..Len(link)
        /\ DOMAIN received = 1..Len(received)
    BY ZenonT(40), <2>2, Elements
  <2>4. PICK m \in 1..Len(arrived) : x = arrived[m]
    BY ZenonT(40), <2>1, <2>3 DEF Range
  <2>5. Holds(received, x) \/ Holds(link, x)
    BY ZenonT(40), <2>2, <2>4 DEF Covered
  <2>6. QED
    BY ZenonT(40), <2>3, <2>5 DEF Holds, Range
<1>2. QED
  BY <1>1, ReliableInvariance, PTL

=============================================================================
