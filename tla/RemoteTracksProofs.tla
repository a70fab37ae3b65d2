------------------------- MODULE RemoteTracksProofs -------------------------
(***************************************************************************)
(* For any number of subscribers, tracks, publications, handles, calls and *)
(* full reconnects, and any capacity of the channel: the index of handles  *)
(* leads to the subscriptions that have them, a pending subscription has   *)
(* its request or its answer on the way, and the catalogue is what the SFU *)
(* said, the last two as long as no event was dropped.                     *)
(***************************************************************************)
EXTENDS RemoteTracks, TLAPS

Updates == [sid : Sids, subscribe : BOOLEAN]
IsUpdate(e, k) == e.type = "Publications" /\ e.track = k

\* The last update of track k in the channel q says that it is published
\* under v.
LastUpdate(q, k, v) ==
    \E i \in 1..Len(q) : /\ IsUpdate(q[i], k) /\ q[i].sid = v
                         /\ \A j \in (i + 1)..Len(q) : ~IsUpdate(q[j], k)
NoUpdate(q, k) == \A i \in 1..Len(q) : ~IsUpdate(q[i], k)

\* The event e will ask again, or answer, for SID d of track k.
Reaches(e, d, k) ==
    \/ e.type = "Handles" /\ e.sid = d
    \/ e.type = "Resend"
    \/ IsUpdate(e, k) /\ e.sid # d
Coming(q, d, k) == \E i \in 1..Len(q) : Reaches(q[i], d, k)
Requested(q, d) == \E i \in 1..Len(q) : q[i] = SfuUpdateSubscription(d, TRUE)

\* A described track is published, and reads the SID it is described under,
\* which is of the same (publisher, handle) as the one it was created with.
Catalog ==
    \A d \in Sids : descriptors[d] # None =>
        /\ info_sid[descriptors[d]] = d /\ published[descriptors[d]]
        /\ info[descriptors[d]].track = info[d].track
        /\ d < next_sid /\ descriptors[d] < next_sid

\* No track is described twice.
Once ==
    \A d, e \in Sids :
        descriptors[d] # None /\ descriptors[e] # None /\ info[d].track = info[e].track
            => d = e

\* A track object without descriptor has no subscription.
Idle == \A o \in Sids : (\A d \in Sids : descriptors[d] # o) => subscription[o] = "None"

Routes ==
    \A h \in Handles : sub_handles[h] # None =>
        LET o == descriptors[sub_handles[h]]
        IN  o # None /\ subscription[o] = "Active" /\ sub_handle[o] = h

\* An active subscription is found by its handle.
Routed == \A d \in Sids : IsActive(d) => sub_handles[sub_handle[descriptors[d]]] = d

\* No handle in the channel q is h; those in q are below n, and each comes once.
Unheard(q, h) == \A i \in 1..Len(q) : q[i].type = "Handles" => q[i].handle # h
Distinct(q, n) ==
    /\ \A i \in 1..Len(q) : q[i].type = "Handles" => q[i].handle < n
    /\ \A i, j \in 1..Len(q) :
          q[i].type = "Handles" /\ q[j].type = "Handles" /\ q[i].handle = q[j].handle => i = j

\* The handle of an active subscription was given out and will not come again.
Carried ==
    \A o \in Sids : subscription[o] = "Active" =>
        sub_handle[o] \in Handles /\ sub_handle[o] < next_handle /\ Unheard(inq, sub_handle[o])

\* What the SFU announces is a SID it has given to that track.
Valid(k, sid) == sid # None => info[sid].track = k /\ sid < next_sid
Announced ==
    /\ \A i \in 1..Len(inq) :
          inq[i].type = "Publications" => Valid(inq[i].track, inq[i].sid)
    /\ \A k \in Tracks : Valid(k, live[k])

\* The last update in the channel says what the SFU has, or there is none and
\* the catalogue does.
Told ==
    \A k \in Tracks :
        \/ LastUpdate(inq, k, live[k])
        \/ NoUpdate(inq, k) /\ Known(k) = {live[k]} \ {None}

Asked ==
    \A d \in Sids :
        (descriptors[d] # None /\ subscription[descriptors[d]] = "Pending")
            => Requested(outq, d) \/ Coming(inq, d, info[d].track)

RemoteInv ==
    /\ TypeOK
    /\ mgr = "running" => Catalog /\ Once /\ Idle /\ Routes /\ Announced
    /\ mgr = "running" /\ ~renumbered => Distinct(inq, next_handle) /\ Carried /\ Routed
    /\ mgr = "running" /\ ~lost => Told
    /\ mgr = "running" /\ ~lost /\ next_handle <= MaxHandles => Asked

-----------------------------------------------------------------------------
(* Events and sequences.                                                   *)

LEMMA EventParts ==
  ASSUME NEW e \in Events
  PROVE  /\ e.type \in {"Subscribe", "Unsubscribe", "Handles"} => e.sid \in Sids
         /\ e.type = "Subscribe" => e.by \in Subscribers \cup {Nobody}
         /\ e.type = "Publications" => e.track \in Tracks /\ e.sid \in Sids \cup {None}
         /\ e.type = "Handles" => e.handle \in Handles
BY DEF Events, SubscribeRequest, UnsubscribeRequest, SfuPublicationUpdates,
       SfuSubscriberHandles, Event

LEMMA EventKinds ==
  /\ \A d \in Sids : /\ \A s \in Subscribers \cup {Nobody} : SubscribeRequest(d, s) \in Events
                     /\ UnsubscribeRequest(d) \in Events
                     /\ \A h \in Handles : SfuSubscriberHandles(h, d) \in Events
                     /\ \A b \in BOOLEAN : SfuUpdateSubscription(d, b) \in Updates
  /\ \A k \in Tracks, d \in Sids \cup {None} : SfuPublicationUpdates(k, d) \in Events
  /\ Event("Packet") \in Events /\ Event("Resend") \in Events /\ Event("Shutdown") \in Events
BY DEF Events, Updates, SfuUpdateSubscription

LEMMA Appended ==
  ASSUME NEW S, NEW q \in Seq(S), NEW e \in S
  PROVE  /\ Append(q, e) \in Seq(S) /\ Len(Append(q, e)) = Len(q) + 1 /\ Len(q) \in Nat
         /\ \A i \in 1..Len(q) : Append(q, e)[i] = q[i]
         /\ Append(q, e)[Len(q) + 1] = e
OBVIOUS

LEMMA Tailed ==
  ASSUME NEW S, NEW q \in Seq(S), q # <<>>
  PROVE  /\ Head(q) \in S /\ Head(q) = q[1] /\ Tail(q) \in Seq(S)
         /\ Len(q) \in Nat \ {0} /\ Len(Tail(q)) = Len(q) - 1
         /\ \A i \in 1..(Len(q) - 1) : Tail(q)[i] = q[i + 1]
OBVIOUS

\* The channel after a withdrawal: as long, and the same but for the callers
\* of its SubscribeRequests.
Withdrawn(q, s) == [i \in DOMAIN q |-> Withdraw(q[i], s)]

LEMMA WithdrawnIs ==
  ASSUME NEW q \in Seq(Events), NEW s \in Subscribers
  PROVE  /\ Withdrawn(q, s) \in Seq(Events) /\ Len(Withdrawn(q, s)) = Len(q)
         /\ \A i \in 1..Len(q) : /\ Withdrawn(q, s)[i].type = q[i].type
                                 /\ q[i].type # "Subscribe" => Withdrawn(q, s)[i] = q[i]
<1>1. DOMAIN q = 1..Len(q) /\ Len(q) \in Nat /\ \A i \in 1..Len(q) : q[i] \in Events
  OBVIOUS
<1>2. ASSUME NEW e \in Events
      PROVE  /\ Withdraw(e, s) \in Events /\ Withdraw(e, s).type = e.type
             /\ e.type # "Subscribe" => Withdraw(e, s) = e
  <2>1. CASE e.type = "Subscribe" /\ e.by = s
    <3>1. e.sid \in Sids /\ Withdraw(e, s) = SubscribeRequest(e.sid, Nobody)
      BY Zenon, <2>1, EventParts DEF Withdraw
    <3>2. SubscribeRequest(e.sid, Nobody).type = "Subscribe"
      BY Zenon DEF SubscribeRequest
    <3>3. QED
      BY Zenon, <2>1, <3>1, <3>2, EventKinds
  <2>2. CASE ~(e.type = "Subscribe" /\ e.by = s)
    BY Zenon, <2>2 DEF Withdraw
  <2>3. QED
    BY Zenon, <2>1, <2>2
<1>3. PICK n \in Nat : n = Len(q)
  BY Zenon, <1>1
<1>4. Withdrawn(q, s) = [i \in 1..n |-> Withdraw(q[i], s)]
  BY Zenon, <1>1, <1>3 DEF Withdrawn
<1>5. \A i \in 1..n : Withdraw(q[i], s) \in Events
  BY Zenon, <1>1, <1>2, <1>3
<1>6. Withdrawn(q, s) \in Seq(Events) /\ Len(Withdrawn(q, s)) = n
  BY <1>4, <1>5
<1>7. QED
  BY ZenonT(40), <1>1, <1>2, <1>3, <1>4, <1>6

LEMMA UpdateAppended ==
  ASSUME NEW q \in Seq(Events), NEW e \in Events, NEW k, NEW v
  PROVE  /\ ~IsUpdate(e, k) /\ LastUpdate(q, k, v) => LastUpdate(Append(q, e), k, v)
         /\ ~IsUpdate(e, k) /\ NoUpdate(q, k) => NoUpdate(Append(q, e), k)
         /\ IsUpdate(e, k) => LastUpdate(Append(q, e), k, e.sid)
<1>1. PICK n \in Nat : n = Len(q)
  OBVIOUS
<1>2. PICK r : r = Append(q, e)
  BY Zenon
<1>3. Len(r) = n + 1 /\ r[n + 1] = e /\ \A i \in 1..n : r[i] = q[i]
  BY <1>1, <1>2, Appended
<1>4. ASSUME ~IsUpdate(e, k), LastUpdate(q, k, v) PROVE LastUpdate(r, k, v)
  <2>1. PICK i \in 1..n : /\ IsUpdate(q[i], k) /\ q[i].sid = v
                          /\ \A j \in (i + 1)..n : ~IsUpdate(q[j], k)
    BY Zenon, <1>1, <1>4 DEF LastUpdate
  <2>2. \A j \in (i + 1)..(n + 1) : j = n + 1 \/ (j \in (i + 1)..n /\ j \in 1..n)
    OBVIOUS
  <2>3. \A j \in (i + 1)..(n + 1) : ~IsUpdate(r[j], k)
    BY Zenon, <1>3, <1>4, <2>1, <2>2
  <2>4. i \in 1..(n + 1)
    OBVIOUS
  <2>5. QED
    BY Zenon, <1>3, <2>1, <2>3, <2>4 DEF LastUpdate
<1>5. ASSUME ~IsUpdate(e, k), NoUpdate(q, k) PROVE NoUpdate(r, k)
  <2>1. \A i \in 1..(n + 1) : i = n + 1 \/ i \in 1..n
    OBVIOUS
  <2>2. QED
    BY Zenon, <1>1, <1>3, <1>5, <2>1 DEF NoUpdate
<1>6. ASSUME IsUpdate(e, k) PROVE LastUpdate(r, k, e.sid)
  <2>1. n + 1 \in 1..(n + 1) /\ (n + 1 + 1)..(n + 1) = {}
    OBVIOUS
  <2>2. QED
    BY Zenon, <1>3, <1>6, <2>1 DEF LastUpdate
<1>7. QED
  BY Zenon, <1>2, <1>4, <1>5, <1>6

LEMMA UpdateTailed ==
  ASSUME NEW q \in Seq(Events), q # <<>>, NEW k, NEW v
  PROVE  /\ ~IsUpdate(Head(q), k) /\ LastUpdate(q, k, v) => LastUpdate(Tail(q), k, v)
         /\ NoUpdate(q, k) => NoUpdate(Tail(q), k) /\ ~IsUpdate(Head(q), k)
         /\ IsUpdate(Head(q), k) /\ LastUpdate(q, k, v)
              => LastUpdate(Tail(q), k, v) \/ (NoUpdate(Tail(q), k) /\ Head(q).sid = v)
<1>1. PICK n \in Nat : n = Len(q) - 1
  BY Tailed
<1>2. PICK r : r = Tail(q)
  BY Zenon
<1>3. /\ Head(q) = q[1] /\ Len(q) = n + 1 /\ Len(r) = n
      /\ \A i \in 1..n : r[i] = q[i + 1]
  BY <1>1, <1>2, Tailed
<1>4. ASSUME NEW i \in 1..(n + 1), IsUpdate(q[i], k), q[i].sid = v,
             \A j \in (i + 1)..(n + 1) : ~IsUpdate(q[j], k)
      PROVE  LastUpdate(r, k, v) \/ (i = 1 /\ NoUpdate(r, k))
  <2>1. CASE i = 1
    <3>1. \A j \in 1..n : j + 1 \in (i + 1)..(n + 1)
      BY <2>1
    <3>2. QED
      BY Zenon, <1>3, <1>4, <2>1, <3>1 DEF NoUpdate
  <2>2. CASE i # 1
    <3>1. i - 1 \in 1..n /\ (i - 1) + 1 = i /\ \A j \in i..n : j \in 1..n /\ j + 1 \in (i + 1)..(n + 1)
      BY <2>2
    <3>2. IsUpdate(r[i - 1], k) /\ r[i - 1].sid = v
      BY Zenon, <1>3, <1>4, <3>1
    <3>3. \A j \in ((i - 1) + 1)..n : ~IsUpdate(r[j], k)
      BY Zenon, <1>3, <1>4, <3>1
    <3>4. QED
      BY Zenon, <1>3, <3>1, <3>2, <3>3 DEF LastUpdate
  <2>3. QED
    BY Zenon, <2>1, <2>2
<1>5. LastUpdate(q, k, v) =>
         \/ LastUpdate(r, k, v)
         \/ NoUpdate(r, k) /\ IsUpdate(q[1], k) /\ q[1].sid = v
  BY Zenon, <1>3, <1>4 DEF LastUpdate
<1>6. ASSUME NoUpdate(q, k) PROVE NoUpdate(r, k) /\ ~IsUpdate(q[1], k)
  <2>1. 1 \in 1..(n + 1) /\ \A i \in 1..n : i + 1 \in 1..(n + 1)
    OBVIOUS
  <2>2. QED
    BY Zenon, <1>3, <1>6, <2>1 DEF NoUpdate
<1>7. QED
  BY Zenon, <1>2, <1>3, <1>5, <1>6

LEMMA UpdateWithdrawn ==
  ASSUME NEW q \in Seq(Events), NEW s \in Subscribers, NEW k, NEW v
  PROVE  /\ LastUpdate(q, k, v) => LastUpdate(Withdrawn(q, s), k, v)
         /\ NoUpdate(q, k) => NoUpdate(Withdrawn(q, s), k)
<1>1. PICK n \in Nat : n = Len(q)
  OBVIOUS
<1>2. PICK r : r = Withdrawn(q, s)
  BY Zenon
<1>3. Len(r) = n /\ \A i \in 1..n : /\ r[i].type = q[i].type
                                    /\ q[i].type # "Subscribe" => r[i] = q[i]
  BY Zenon, <1>1, <1>2, WithdrawnIs
<1>4. \A i \in 1..n : IsUpdate(r[i], k) <=> IsUpdate(q[i], k)
  BY Zenon, <1>3 DEF IsUpdate
<1>5. \A i \in 1..n : IsUpdate(q[i], k) => r[i] = q[i]
  BY Zenon, <1>3 DEF IsUpdate
<1>6. ASSUME LastUpdate(q, k, v) PROVE LastUpdate(r, k, v)
  <2>1. PICK i \in 1..n : /\ IsUpdate(q[i], k) /\ q[i].sid = v
                          /\ \A j \in (i + 1)..n : ~IsUpdate(q[j], k)
    BY Zenon, <1>1, <1>6 DEF LastUpdate
  <2>2. \A j \in (i + 1)..n : j \in 1..n
    OBVIOUS
  <2>3. QED
    BY Zenon, <1>3, <1>4, <1>5, <2>1, <2>2 DEF LastUpdate
<1>7. NoUpdate(q, k) => NoUpdate(r, k)
  BY Zenon, <1>1, <1>3, <1>4 DEF NoUpdate
<1>8. QED
  BY Zenon, <1>2, <1>6, <1>7

LEMMA ComingKept ==
  ASSUME NEW q \in Seq(Events), NEW d, NEW k
  PROVE  /\ \A e \in Events : /\ Coming(q, d, k) => Coming(Append(q, e), d, k)
                              /\ Reaches(e, d, k) => Coming(Append(q, e), d, k)
         /\ q # <<>> /\ Coming(q, d, k) /\ ~Reaches(Head(q), d, k) => Coming(Tail(q), d, k)
         /\ \A s \in Subscribers : Coming(q, d, k) => Coming(Withdrawn(q, s), d, k)
<1>1. PICK n \in Nat : n = Len(q)
  OBVIOUS
<1>2. ASSUME NEW e \in Events
      PROVE  /\ Coming(q, d, k) => Coming(Append(q, e), d, k)
             /\ Reaches(e, d, k) => Coming(Append(q, e), d, k)
  <2>1. PICK r : r = Append(q, e)
    BY Zenon
  <2>2. Len(r) = n + 1 /\ r[n + 1] = e /\ \A i \in 1..n : r[i] = q[i]
    BY <1>1, <2>1, Appended
  <2>3. n + 1 \in 1..(n + 1) /\ \A i \in 1..n : i \in 1..(n + 1)
    OBVIOUS
  <2>4. QED
    BY Zenon, <1>1, <2>1, <2>2, <2>3 DEF Coming
<1>3. ASSUME q # <<>>, Coming(q, d, k), ~Reaches(Head(q), d, k) PROVE Coming(Tail(q), d, k)
  <2>1. PICK r : r = Tail(q)
    BY Zenon
  <2>2. n \in Nat \ {0} /\ Head(q) = q[1] /\ Len(r) = n - 1 /\ \A i \in 1..(n - 1) : r[i] = q[i + 1]
    BY Zenon, <1>1, <1>3, <2>1, Tailed
  <2>3. PICK i \in 1..n : Reaches(q[i], d, k)
    BY Zenon, <1>1, <1>3 DEF Coming
  <2>4. i # 1
    BY Zenon, <1>3, <2>2, <2>3
  <2>5. i - 1 \in 1..(n - 1) /\ (i - 1) + 1 = i
    BY <2>4
  <2>6. r[i - 1] = q[i]
    BY Zenon, <2>2, <2>5
  <2>7. QED
    BY Zenon, <2>1, <2>2, <2>3, <2>5, <2>6 DEF Coming
<1>4. ASSUME NEW s \in Subscribers, Coming(q, d, k) PROVE Coming(Withdrawn(q, s), d, k)
  <2>1. PICK r : r = Withdrawn(q, s)
    BY Zenon
  <2>2. Len(r) = n /\ \A i \in 1..n : q[i].type # "Subscribe" => r[i] = q[i]
    BY Zenon, <1>1, <2>1, WithdrawnIs
  <2>3. PICK i \in 1..n : Reaches(q[i], d, k)
    BY Zenon, <1>1, <1>4 DEF Coming
  <2>4. r[i] = q[i]
    BY Zenon, <2>2, <2>3 DEF Reaches, IsUpdate
  <2>5. QED
    BY Zenon, <2>1, <2>2, <2>3, <2>4 DEF Coming
<1>5. QED
  BY Zenon, <1>2, <1>3, <1>4

LEMMA RequestedKept ==
  ASSUME NEW q \in Seq(Updates), NEW d
  PROVE  /\ \A u \in Updates : Requested(q, d) => Requested(Append(q, u), d)
         /\ SfuUpdateSubscription(d, TRUE) \in Updates
              => Requested(Append(q, SfuUpdateSubscription(d, TRUE)), d)
         /\ q # <<>> /\ Requested(q, d) /\ Head(q) # SfuUpdateSubscription(d, TRUE)
              => Requested(Tail(q), d)
<1>1. PICK n \in Nat : n = Len(q)
  OBVIOUS
<1>2. ASSUME NEW u \in Updates
      PROVE  /\ Requested(q, d) => Requested(Append(q, u), d)
             /\ u = SfuUpdateSubscription(d, TRUE) => Requested(Append(q, u), d)
  <2>1. PICK r : r = Append(q, u)
    BY Zenon
  <2>2. Len(r) = n + 1 /\ r[n + 1] = u /\ \A i \in 1..n : r[i] = q[i]
    BY <1>1, <2>1, Appended
  <2>3. n + 1 \in 1..(n + 1) /\ \A i \in 1..n : i \in 1..(n + 1)
    OBVIOUS
  <2>4. QED
    BY Zenon, <1>1, <2>1, <2>2, <2>3 DEF Requested
<1>3. ASSUME q # <<>>, Requested(q, d), Head(q) # SfuUpdateSubscription(d, TRUE)
      PROVE  Requested(Tail(q), d)
  <2>1. PICK r : r = Tail(q)
    BY Zenon
  <2>2. n \in Nat \ {0} /\ Head(q) = q[1] /\ Len(r) = n - 1 /\ \A i \in 1..(n - 1) : r[i] = q[i + 1]
    BY Zenon, <1>1, <1>3, <2>1, Tailed
  <2>3. PICK i \in 1..n : q[i] = SfuUpdateSubscription(d, TRUE)
    BY Zenon, <1>1, <1>3 DEF Requested
  <2>4. i # 1
    BY Zenon, <1>3, <2>2, <2>3
  <2>5. i - 1 \in 1..(n - 1) /\ (i - 1) + 1 = i
    BY <2>4
  <2>6. r[i - 1] = q[i]
    BY Zenon, <2>2, <2>5
  <2>7. QED
    BY Zenon, <2>1, <2>2, <2>3, <2>5, <2>6 DEF Requested
<1>4. QED
  BY Zenon, <1>2, <1>3

-----------------------------------------------------------------------------
(* Types.                                                                  *)

\* TypeOK in five groups.
QueuesOK == inq \in Seq(Events) /\ Len(inq) <= InCap /\ outq \in Seq(Updates)
MgrOK ==
    /\ mgr \in {"running", "stopping", "ended"} /\ awaiting \in Sids \cup {None}
    /\ descriptors \in [Sids -> Sids \cup {None}]
    /\ sub_handles \in [Handles -> Sids \cup {None}]
ObjOK ==
    /\ info_sid \in [Sids -> Sids] /\ published \in [Sids -> BOOLEAN]
    /\ subscription \in [Sids -> {"None", "Pending", "Active"}]
    /\ result_txs \in [Sids -> SUBSET Subscribers]
    /\ sub_handle \in [Sids -> Handles \cup {None}]
    /\ task \in [Sids -> {"none", "running", "closing", "ended"}]
    /\ task_sid \in [Sids -> Sids]
AppOK ==
    /\ receivers \in [Sids -> SUBSET Subscribers]
    /\ call \in [Subscribers -> {"idle", "waiting", "streaming"}]
    /\ calls \in 0..MaxCalls
SfuOK ==
    /\ live \in [Tracks -> Sids \cup {None}]
    /\ info \in [Sids -> [track : Tracks, name : Sids]]
    /\ next_sid \in 1..(MaxSids + 1) /\ next_handle \in 1..(MaxHandles + 1)
    /\ noise \in 0..MaxNoise /\ renumbered \in BOOLEAN
    /\ lost \in BOOLEAN /\ reassigned \in BOOLEAN
AllOK == QueuesOK /\ MgrOK /\ ObjOK /\ AppOK /\ SfuOK

LEMMA TypeGroups == TypeOK <=> AllOK
BY Zenon DEF TypeOK, AllOK, QueuesOK, MgrOK, ObjOK, AppOK, SfuOK, Updates

LEMMA TypeGroupsNext == TypeOK' <=> AllOK'
BY Zenon DEF TypeOK, AllOK, QueuesOK, MgrOK, ObjOK, AppOK, SfuOK, Updates

LEMMA GroupsStay ==
  ASSUME TypeOK
  PROVE  /\ UNCHANGED queues => QueuesOK'
         /\ UNCHANGED mgrVars => MgrOK'
         /\ UNCHANGED <<info_sid, published, subVars, taskVars>> => ObjOK'
         /\ UNCHANGED appVars => AppOK'
         /\ UNCHANGED <<sfuVars, lost, reassigned>> => SfuOK'
<1>1. QueuesOK /\ MgrOK /\ ObjOK /\ AppOK /\ SfuOK
  BY Zenon, TypeGroups DEF AllOK
<1>2. UNCHANGED queues => QueuesOK'
  BY Zenon, <1>1 DEF QueuesOK, queues
<1>3. UNCHANGED mgrVars => MgrOK'
  BY Zenon, <1>1 DEF MgrOK, mgrVars
<1>4. UNCHANGED <<info_sid, published, subVars, taskVars>> => ObjOK'
  BY Zenon, <1>1 DEF ObjOK, subVars, taskVars
<1>5. UNCHANGED appVars => AppOK'
  BY Zenon, <1>1 DEF AppOK, appVars
<1>6. UNCHANGED <<sfuVars, lost, reassigned>> => SfuOK'
  BY Zenon, <1>1 DEF SfuOK, sfuVars
<1>7. QED
  BY Zenon, <1>2, <1>3, <1>4, <1>5, <1>6

LEMMA Queued == ASSUME TypeOK PROVE inq \in Seq(Events) /\ outq \in Seq(Updates)
BY Zenon DEF TypeOK, Updates

LEMMA SendTypes ==
  ASSUME TypeOK, NEW e \in Events, Len(inq) < InCap, inq' = Append(inq, e)
  PROVE  inq' \in Seq(Events) /\ Len(inq') <= InCap
<1>1. Len(Append(inq, e)) = Len(inq) + 1 /\ Append(inq, e) \in Seq(Events) /\ Len(inq) \in Nat
  BY Zenon, Queued, Appended
<1>2. QED
  BY <1>1, RemoteTracksAssumption

LEMMA TrySendTypes ==
  ASSUME TypeOK, NEW e \in Events, TrySend(e)
  PROVE  inq' \in Seq(Events) /\ Len(inq') <= InCap /\ lost' \in BOOLEAN
<1>1. inq \in Seq(Events) /\ Len(inq) <= InCap /\ lost \in BOOLEAN
  BY Zenon DEF TypeOK
<1>2. CASE Len(inq) < InCap
  BY Zenon, <1>1, <1>2, SendTypes DEF TrySend
<1>3. CASE ~(Len(inq) < InCap)
  BY Zenon, <1>1, <1>3 DEF TrySend
<1>4. QED
  BY Zenon, <1>2, <1>3

LEMMA TakeTypes ==
  ASSUME TypeOK, NEW t, Take(t)
  PROVE  /\ inq' \in Seq(Events) /\ Len(inq') <= InCap /\ Head(inq) \in Events
         /\ inq # <<>> /\ inq' = Tail(inq) /\ Head(inq).type = t /\ mgr = "running"
<1>1. /\ inq \in Seq(Events) /\ Len(inq) <= InCap
      /\ inq # <<>> /\ inq' = Tail(inq) /\ Head(inq).type = t /\ mgr = "running"
  BY Zenon DEF TypeOK, Take
<1>2. Len(Tail(inq)) = Len(inq) - 1 /\ Len(inq) \in Nat /\ Tail(inq) \in Seq(Events)
      /\ Head(inq) \in Events
  BY Zenon, <1>1, Tailed
<1>3. QED
  BY <1>1, <1>2, RemoteTracksAssumption

LEMMA AskTypes ==
  ASSUME TypeOK, NEW d \in Sids, NEW b \in BOOLEAN
  PROVE  Append(outq, SfuUpdateSubscription(d, b)) \in Seq(Updates)
BY Zenon, Queued, Appended, EventKinds

LEMMA ReturnTypes ==
  ASSUME TypeOK, NEW S, Return(S)
  PROVE  call' \in [Subscribers -> {"idle", "waiting", "streaming"}]
BY Zenon DEF TypeOK, Return

LEMMA AppTypes ==
  ASSUME TypeOK, NEW s \in Subscribers,
         (\E o \in Sids : Subscribe(s, o)) \/ SubscribeTimeout(s) \/ DropStream(s)
  PROVE  TypeOK'
<1> SUFFICES AllOK'
  BY Zenon, TypeGroupsNext
<1> USE GroupsStay, RemoteTracksAssumption
<1>0. QueuesOK /\ ObjOK /\ AppOK
  BY Zenon, TypeGroups DEF AllOK
<1>1. ASSUME NEW o \in Sids, Subscribe(s, o) PROVE AllOK'
  <2>1. info_sid[o] \in Sids
    BY Zenon, <1>0 DEF ObjOK
  <2>2. SubscribeRequest(info_sid[o], s) \in Events
    BY Zenon, <2>1, EventKinds
  <2>3. /\ Len(inq) < InCap /\ inq' = Append(inq, SubscribeRequest(info_sid[o], s))
        /\ outq' = outq
    BY Zenon, <1>1 DEF Subscribe
  <2>4. inq' \in Seq(Events) /\ Len(inq') <= InCap
    BY Zenon, <2>2, <2>3, SendTypes
  <2>5. QueuesOK'
    BY Zenon, <1>0, <2>3, <2>4 DEF QueuesOK
  <2>6. AppOK'
    BY <1>0, <1>1 DEF Subscribe, AppOK
  <2>7. UNCHANGED <<mgrVars, info_sid, published, subVars, taskVars, sfuVars, lost, reassigned>>
    BY Zenon, <1>1 DEF Subscribe
  <2>8. QED
    BY Zenon, <2>5, <2>6, <2>7 DEF AllOK
<1>2. CASE SubscribeTimeout(s)
  <2>1. inq' = Withdrawn(inq, s) /\ outq' = outq
    BY Zenon, <1>2 DEF SubscribeTimeout, Withdrawn
  <2>2. QueuesOK'
    BY Zenon, <1>0, <2>1, WithdrawnIs DEF QueuesOK
  <2>3. AppOK'
    BY Zenon, <1>0, <1>2 DEF SubscribeTimeout, AppOK
  <2>4. ObjOK'
    BY Zenon, <1>0, <1>2 DEF SubscribeTimeout, ObjOK, taskVars
  <2>5. UNCHANGED <<mgrVars, sfuVars, lost, reassigned>>
    BY Zenon, <1>2 DEF SubscribeTimeout
  <2>6. QED
    BY Zenon, <2>2, <2>3, <2>4, <2>5 DEF AllOK
<1>3. CASE DropStream(s)
  <2>1. AppOK'
    BY Zenon, <1>0, <1>3 DEF DropStream, AppOK
  <2>2. UNCHANGED <<queues, mgrVars, info_sid, published, subVars, taskVars, sfuVars, lost,
                    reassigned>>
    BY Zenon, <1>3 DEF DropStream
  <2>3. QED
    BY Zenon, <2>1, <2>2 DEF AllOK
<1>4. QED
  BY Zenon, <1>1, <1>2, <1>3

LEMMA TaskTypes ==
  ASSUME TypeOK, NEW o \in Sids, TaskStep(o)
  PROVE  TypeOK'
<1> SUFFICES AllOK'
  BY Zenon, TypeGroupsNext
<1> USE GroupsStay
<1>0. QueuesOK /\ ObjOK /\ AppOK
  BY Zenon, TypeGroups DEF AllOK
<1>1. CASE TaskUnpublished(o)
  <2>1. call' \in [Subscribers -> {"idle", "waiting", "streaming"}]
    BY Zenon, <1>1, ReturnTypes DEF TaskUnpublished
  <2>2. AppOK'
    BY Zenon, <1>0, <1>1, <2>1 DEF TaskUnpublished, AppOK
  <2>3. ObjOK'
    BY Zenon, <1>0, <1>1 DEF TaskUnpublished, ObjOK, subVars
  <2>4. UNCHANGED <<queues, mgrVars, sfuVars, lost, reassigned>>
    BY Zenon, <1>1 DEF TaskUnpublished
  <2>5. QED
    BY Zenon, <2>2, <2>3, <2>4 DEF AllOK
<1>2. CASE TaskClosing(o)
  <2>1. ObjOK'
    BY Zenon, <1>0, <1>2 DEF TaskClosing, ObjOK, subVars
  <2>2. UNCHANGED <<queues, mgrVars, appVars, sfuVars, lost, reassigned>>
    BY Zenon, <1>2 DEF TaskClosing
  <2>3. QED
    BY Zenon, <2>1, <2>2 DEF AllOK
<1>3. CASE TaskUnsubscribes(o)
  <2>1. task_sid[o] \in Sids
    BY Zenon, <1>0 DEF ObjOK
  <2>2. UnsubscribeRequest(task_sid[o]) \in Events
    BY Zenon, <2>1, EventKinds
  <2>3. inq' = inq \/ (Len(inq) < InCap /\ inq' = Append(inq, UnsubscribeRequest(task_sid[o])))
    BY Zenon, <1>3 DEF TaskUnsubscribes
  <2>4. inq' \in Seq(Events) /\ Len(inq') <= InCap
    BY Zenon, <1>0, <2>2, <2>3, SendTypes DEF QueuesOK
  <2>5. QueuesOK'
    BY Zenon, <1>0, <1>3, <2>4 DEF QueuesOK, TaskUnsubscribes
  <2>6. ObjOK'
    BY Zenon, <1>0, <1>3 DEF TaskUnsubscribes, ObjOK, subVars
  <2>7. \/ call' = call /\ receivers' = receivers
        \/ Return(receivers[o]) /\ receivers' = [receivers EXCEPT ![o] = {}]
    BY Zenon, <1>3 DEF TaskUnsubscribes
  <2>8. AppOK'
    <3>1. call' \in [Subscribers -> {"idle", "waiting", "streaming"}]
      BY Zenon, <1>0, <2>7, ReturnTypes DEF AppOK
    <3>2. calls' = calls
      BY Zenon, <1>3 DEF TaskUnsubscribes
    <3>3. QED
      BY Zenon, <1>0, <2>7, <3>1, <3>2 DEF AppOK
  <2>9. UNCHANGED <<mgrVars, sfuVars, lost, reassigned>>
    BY Zenon, <1>3 DEF TaskUnsubscribes
  <2>10. QED
    BY Zenon, <2>5, <2>6, <2>8, <2>9 DEF AllOK
<1>4. QED
  BY Zenon, <1>1, <1>2, <1>3 DEF TaskStep

LEMMA SfuTypes ==
  ASSUME TypeOK,
         \/ \E k \in Tracks : SfuPublish(k) \/ SfuUnpublish(k)
         \/ SfuTakes \/ SfuNoise \/ FullReconnect \/ RoomCloses
  PROVE  TypeOK'
<1> SUFFICES AllOK'
  BY Zenon, TypeGroupsNext
<1> USE GroupsStay, RemoteTracksAssumption
<1>0. QueuesOK /\ SfuOK
  BY Zenon, TypeGroups DEF AllOK
<1>1. UNCHANGED localVars
  BY Zenon DEF SfuPublish, SfuUnpublish, SfuTakes, SfuNoise, FullReconnect, RoomCloses
<1>2. MgrOK' /\ ObjOK' /\ AppOK' /\ reassigned' = reassigned
  BY Zenon, <1>1 DEF localVars
<1>a. renumbered' \in BOOLEAN
  <2>1. renumbered' = renumbered \/ renumbered' = TRUE
    BY Zenon DEF SfuPublish, SfuUnpublish, SfuTakes, SfuNoise, FullReconnect, RoomCloses, sfuVars
  <2>2. QED
    BY Zenon, <1>0, <2>1 DEF SfuOK
<1>3. ASSUME NEW e \in Events, TrySend(e), outq' \in Seq(Updates),
             live' \in [Tracks -> Sids \cup {None}],
             info' \in [Sids -> [track : Tracks, name : Sids]],
             next_sid' \in 1..(MaxSids + 1), next_handle' \in 1..(MaxHandles + 1),
             noise' \in 0..MaxNoise
      PROVE  AllOK'
  <2>1. inq' \in Seq(Events) /\ Len(inq') <= InCap /\ lost' \in BOOLEAN
    BY Zenon, <1>3, TrySendTypes
  <2>2. QueuesOK' /\ SfuOK'
    BY Zenon, <1>0, <1>2, <1>a, <1>3, <2>1 DEF QueuesOK, SfuOK
  <2>3. QED
    BY Zenon, <1>2, <2>2 DEF AllOK
<1>4. ASSUME NEW k \in Tracks, SfuPublish(k) PROVE AllOK'
  <2>1. next_sid \in Sids /\ next_sid' \in 1..(MaxSids + 1)
    BY <1>0, <1>4 DEF SfuPublish, SfuOK, Sids
  <2>2. info' \in [Sids -> [track : Tracks, name : Sids]]
    <3>1. PICK n \in {next_sid} \cup {info[d].name : d \in {e \in 1..(next_sid - 1) :
                                                             info[e].track = k}} :
             info' = [info EXCEPT ![next_sid] = [track |-> k, name |-> n]]
      BY ZenonT(40), <1>4 DEF SfuPublish
    <3>2. \A e \in 1..(next_sid - 1) : e \in Sids
      BY SMTT(30), <2>1 DEF Sids
    <3>3. n \in Sids
      BY SMTT(30), <1>0, <2>1, <3>1, <3>2 DEF SfuOK
    <3>4. QED
      BY Zenon, <1>0, <3>1, <3>3 DEF SfuOK
  <2>3. SfuPublicationUpdates(k, next_sid) \in Events /\ TrySend(SfuPublicationUpdates(k, next_sid))
    BY Zenon, <1>4, <2>1, EventKinds DEF SfuPublish
  <2>4. live' \in [Tracks -> Sids \cup {None}] /\ UNCHANGED <<outq, next_handle, noise>>
    BY Zenon, <1>0, <1>4, <2>1 DEF SfuPublish, SfuOK
  <2>5. QED
    BY Zenon, <1>0, <1>3, <2>1, <2>2, <2>3, <2>4 DEF SfuOK, QueuesOK
<1>5. ASSUME NEW k \in Tracks, SfuUnpublish(k) PROVE AllOK'
  <2>1. SfuPublicationUpdates(k, None) \in Events /\ TrySend(SfuPublicationUpdates(k, None))
    BY Zenon, <1>5, EventKinds DEF SfuUnpublish
  <2>2. live' \in [Tracks -> Sids \cup {None}]
        /\ UNCHANGED <<outq, info, next_sid, next_handle, noise>>
    BY Zenon, <1>0, <1>5 DEF SfuUnpublish, SfuOK
  <2>3. QED
    BY Zenon, <1>0, <1>3, <2>1, <2>2 DEF SfuOK, QueuesOK
<1>6. CASE SfuTakes
  <2>1. outq # <<>> /\ outq' = Tail(outq) /\ UNCHANGED <<live, info, next_sid, noise>>
    BY Zenon, <1>6 DEF SfuTakes
  <2>2. Head(outq) \in Updates /\ outq' \in Seq(Updates)
    BY Zenon, <2>1, Queued, Tailed
  <2>3. CASE UNCHANGED <<inq, lost, next_handle>>
    BY Zenon, <1>0, <1>2, <1>a, <2>1, <2>2, <2>3 DEF AllOK, QueuesOK, SfuOK
  <2>4. CASE /\ TrySend(SfuSubscriberHandles(next_handle, Head(outq).sid))
             /\ next_handle <= MaxHandles /\ next_handle' = next_handle + 1
    <3>1. next_handle \in Handles /\ Head(outq).sid \in Sids
          /\ next_handle' \in 1..(MaxHandles + 1)
      BY SMTT(30), <1>0, <2>2, <2>4 DEF SfuOK, Handles, Updates
    <3>2. SfuSubscriberHandles(next_handle, Head(outq).sid) \in Events
      BY Zenon, <3>1, EventKinds
    <3>3. QED
      BY Zenon, <1>0, <1>3, <2>1, <2>2, <2>4, <3>1, <3>2 DEF SfuOK
  <2>5. QED
    BY Zenon, <1>6, <2>3, <2>4 DEF SfuTakes
<1>7. CASE SfuNoise
  <2>1. noise' \in 0..MaxNoise /\ UNCHANGED <<outq, live, info, next_sid, next_handle>>
    BY SMTT(30), <1>0, <1>7 DEF SfuNoise, SfuOK
  <2>2. PICK e \in Events : TrySend(e)
    <3>1. \A k \in Tracks : live[k] \in Sids \cup {None}
      BY Zenon, <1>0 DEF SfuOK
    <3>2. QED
      BY Zenon, <1>7, <3>1, EventKinds DEF SfuNoise
  <2>3. QED
    BY Zenon, <1>0, <1>3, <2>1, <2>2 DEF SfuOK, QueuesOK
<1>8. CASE FullReconnect
  <2>1. /\ noise' \in 0..MaxNoise /\ outq' = <<>> /\ next_handle' = 1
        /\ TrySend(Event("Resend")) /\ UNCHANGED <<live, info, next_sid>>
    BY <1>0, <1>8 DEF FullReconnect, SfuOK
  <2>2. outq' \in Seq(Updates) /\ next_handle' \in 1..(MaxHandles + 1)
    BY SMTT(30), <2>1
  <2>3. QED
    BY Zenon, <1>0, <1>3, <2>1, <2>2, EventKinds DEF SfuOK
<1>9. CASE RoomCloses
  <2>1. TrySend(Event("Shutdown")) /\ UNCHANGED <<outq, sfuVars>>
    BY Zenon, <1>9 DEF RoomCloses
  <2>2. QED
    BY Zenon, <1>0, <1>3, <2>1, EventKinds DEF SfuOK, QueuesOK, sfuVars
<1>10. QED
  BY Zenon, <1>4, <1>5, <1>6, <1>7, <1>8, <1>9

\* An object that is described, and its parts.
LEMMA KnownIs ==
  ASSUME TypeOK, NEW k
  PROVE  \A d \in Known(k) : d \in Sids /\ descriptors[d] \in Sids
                             /\ info[descriptors[d]].track = k
BY ZenonT(40) DEF Known, TypeOK

\* What an update of a publisher does, by cases: a track published, moved to
\* a new SID, ended (and perhaps replaced), or as it was.
PublishedAs(k, sid) == sid \in Sids /\ Known(k) = {} /\ HandleTrackPublished(sid)
MovedTo(k, old, sid) ==
    /\ old \in Known(k) /\ sid \in Sids \ Known(k)
    /\ info[descriptors[old]].name = info[sid].name
    /\ HandleSidReassigned(old, sid)
EndedFor(k, old, sid) ==
    /\ old \in Known(k) /\ sid \notin Known(k) /\ sid \in Sids \cup {None}
    /\ sid # None => info[descriptors[old]].name # info[sid].name
    /\ HandleTrackUnpublished(old, sid)
AsItWas(k, sid) ==
    /\ sid \in Known(k) \/ (sid = None /\ Known(k) = {})
    /\ UNCHANGED <<descriptors, sub_handles, info_sid, published, subVars, receivers, call,
                   outq, reassigned>>

LEMMA UpdateCases ==
  ASSUME TypeOK, OnSfuPublicationUpdates
  PROVE  \E k \in Tracks, sid \in Sids \cup {None} :
            /\ IsUpdate(Head(inq), k) /\ Head(inq).sid = sid
            /\ \/ PublishedAs(k, sid) \/ AsItWas(k, sid)
               \/ \E old \in Sids : MovedTo(k, old, sid) \/ EndedFor(k, old, sid)
            /\ inq # <<>> /\ inq' = Tail(inq) /\ mgr = "running"
            /\ inq' \in Seq(Events) /\ Len(inq') <= InCap
            /\ UNCHANGED <<mgr, awaiting, taskVars, calls, sfuVars, lost>>
<1>1. Take("Publications") /\ UNCHANGED <<mgr, awaiting, taskVars, calls, sfuVars, lost>>
  BY Zenon DEF OnSfuPublicationUpdates
<1>2. /\ inq' \in Seq(Events) /\ Len(inq') <= InCap /\ Head(inq) \in Events
      /\ inq # <<>> /\ inq' = Tail(inq) /\ Head(inq).type = "Publications" /\ mgr = "running"
  BY Zenon, <1>1, TakeTypes
<1>3. PICK k \in Tracks, sid \in Sids \cup {None} : k = Head(inq).track /\ sid = Head(inq).sid
  BY Zenon, <1>2, EventParts
<1>4. IsUpdate(Head(inq), k) /\ Head(inq).sid = sid
  BY Zenon, <1>2, <1>3 DEF IsUpdate
<1>5. None \notin Sids /\ None \notin Known(k)
  BY DEF None, Sids, Known
<1>6. PICK old : old = CHOOSE d \in Known(k) : TRUE
  BY Zenon
<1>7. Known(k) # {} => old \in Known(k) /\ old \in Sids
  BY Zenon, <1>6, KnownIs
<1>8. \/ /\ sid # None /\ Known(k) = {}
         /\ HandleTrackPublished(sid)
      \/ /\ sid # None /\ Known(k) # {} /\ sid \notin Known(k)
         /\ IF info[descriptors[old]].name = info[sid].name
              THEN HandleSidReassigned(old, sid)
              ELSE HandleTrackUnpublished(old, sid)
      \/ /\ sid = None /\ Known(k) # {}
         /\ HandleTrackUnpublished(old, None)
      \/ /\ sid \in Known(k) \/ (sid = None /\ Known(k) = {})
         /\ UNCHANGED <<descriptors, sub_handles, info_sid, published,
                        subVars, receivers, call, outq, reassigned>>
  BY Zenon, <1>3, <1>6 DEF OnSfuPublicationUpdates
<1>9. CASE sid # None /\ Known(k) = {} /\ HandleTrackPublished(sid)
  BY Zenon, <1>1, <1>2, <1>4, <1>9 DEF PublishedAs
<1>10. CASE /\ sid # None /\ Known(k) # {} /\ sid \notin Known(k)
            /\ IF info[descriptors[old]].name = info[sid].name
                 THEN HandleSidReassigned(old, sid)
                 ELSE HandleTrackUnpublished(old, sid)
  <2>1. MovedTo(k, old, sid) \/ EndedFor(k, old, sid)
    BY Zenon, <1>7, <1>10 DEF MovedTo, EndedFor
  <2>2. QED
    BY Zenon, <1>1, <1>2, <1>4, <1>7, <1>10, <2>1
<1>11. CASE sid = None /\ Known(k) # {} /\ HandleTrackUnpublished(old, None)
  <2>1. EndedFor(k, old, sid)
    BY Zenon, <1>5, <1>7, <1>11 DEF EndedFor
  <2>2. QED
    BY Zenon, <1>1, <1>2, <1>4, <1>7, <1>11, <2>1
<1>12. CASE /\ sid \in Known(k) \/ (sid = None /\ Known(k) = {})
            /\ UNCHANGED <<descriptors, sub_handles, info_sid, published,
                           subVars, receivers, call, outq, reassigned>>
  BY Zenon, <1>1, <1>2, <1>4, <1>12 DEF AsItWas
<1>13. QED
  BY ZenonT(40), <1>8, <1>9, <1>10, <1>11, <1>12

LEMMA UpdateTypes ==
  ASSUME TypeOK, OnSfuPublicationUpdates
  PROVE  TypeOK'
<1> SUFFICES AllOK'
  BY Zenon, TypeGroupsNext
<1> USE GroupsStay
<1>0. QueuesOK /\ MgrOK /\ ObjOK /\ AppOK /\ SfuOK
  BY Zenon, TypeGroups DEF AllOK
<1>1. PICK k \in Tracks, sid \in Sids \cup {None} :
         /\ \/ PublishedAs(k, sid) \/ AsItWas(k, sid)
            \/ \E old \in Sids : MovedTo(k, old, sid) \/ EndedFor(k, old, sid)
         /\ inq' \in Seq(Events) /\ Len(inq') <= InCap
         /\ UNCHANGED <<mgr, awaiting, taskVars, calls, sfuVars, lost>>
  BY Zenon, UpdateCases
<1>2. CASE PublishedAs(k, sid)
  <2>1. HandleTrackPublished(sid) /\ sid \in Sids
    BY Zenon, <1>2 DEF PublishedAs
  <2>2. MgrOK'
    BY Zenon, <1>0, <1>1, <2>1 DEF HandleTrackPublished, MgrOK
  <2>3. ObjOK'
    BY Zenon, <1>0, <1>1, <2>1 DEF HandleTrackPublished, ObjOK, subVars, taskVars
  <2>4. QueuesOK' /\ AppOK' /\ SfuOK'
    BY Zenon, <1>0, <1>1, <2>1 DEF HandleTrackPublished, QueuesOK, AppOK, SfuOK, sfuVars
  <2>5. QED
    BY Zenon, <2>2, <2>3, <2>4 DEF AllOK
<1>3. CASE AsItWas(k, sid)
  BY Zenon, <1>0, <1>1, <1>3 DEF AsItWas, AllOK, QueuesOK, MgrOK, ObjOK, AppOK, SfuOK, sfuVars,
      subVars,
                          taskVars
<1>4. ASSUME NEW old \in Sids, MovedTo(k, old, sid) PROVE AllOK'
  <2>1. /\ sid \in Sids /\ descriptors[old] \in Sids
        /\ Reassign(old, sid, [info_sid EXCEPT ![descriptors[old]] = sid], {"Pending", "Active"})
    BY Zenon, <1>4, KnownIs DEF MovedTo, HandleSidReassigned
  <2>2. MgrOK'
    BY ZenonT(40), <1>0, <1>1, <2>1 DEF Reassign, MgrOK
  <2>3. ObjOK'
    BY Zenon, <1>0, <1>1, <2>1 DEF Reassign, ObjOK, subVars, taskVars
  <2>4. outq' \in Seq(Updates)
    BY Zenon, <1>0, <2>1, AskTypes DEF Reassign, QueuesOK
  <2>5. QueuesOK' /\ AppOK' /\ SfuOK'
    BY Zenon, <1>0, <1>1, <2>1, <2>4 DEF Reassign, QueuesOK, AppOK, SfuOK, sfuVars
  <2>6. QED
    BY Zenon, <2>2, <2>3, <2>5 DEF AllOK
<1>5. ASSUME NEW old \in Sids, EndedFor(k, old, sid) PROVE AllOK'
  <2>1. HandleTrackUnpublished(old, sid) /\ descriptors[old] \in Sids
    BY Zenon, <1>5, KnownIs DEF EndedFor
  <2>2. MgrOK'
    <3>1. sub_handles' \in [Handles -> Sids \cup {None}]
      BY Zenon, <1>0, <2>1 DEF HandleTrackUnpublished, MgrOK
    <3>2. descriptors' \in [Sids -> Sids \cup {None}]
      BY Zenon, <1>0, <2>1 DEF HandleTrackUnpublished, MgrOK
    <3>3. QED
      BY Zenon, <1>0, <1>1, <3>1, <3>2 DEF MgrOK
  <2>3. ObjOK'
    <3>1. published' \in [Sids -> BOOLEAN]
      BY Zenon, <1>0, <2>1 DEF HandleTrackUnpublished, ObjOK
    <3>2. /\ subscription' \in [Sids -> {"None", "Pending", "Active"}]
          /\ result_txs' \in [Sids -> SUBSET Subscribers]
      BY Zenon, <1>0, <2>1 DEF HandleTrackUnpublished, ObjOK
    <3>3. info_sid' \in [Sids -> Sids] /\ sub_handle' = sub_handle
      BY Zenon, <1>0, <2>1 DEF HandleTrackUnpublished, ObjOK
    <3>4. QED
      BY Zenon, <1>0, <1>1, <3>1, <3>2, <3>3 DEF ObjOK, taskVars
  <2>4. AppOK'
    <3>1. /\ receivers' = receivers \/ receivers' = [receivers EXCEPT ![descriptors[old]] = {}]
          /\ \E S : Return(S)
      BY Zenon, <2>1 DEF HandleTrackUnpublished
    <3>2. call' \in [Subscribers -> {"idle", "waiting", "streaming"}]
      BY Zenon, <3>1, ReturnTypes
    <3>3. QED
      BY Zenon, <1>0, <1>1, <3>1, <3>2 DEF AppOK
  <2>5. QueuesOK' /\ SfuOK'
    BY Zenon, <1>0, <1>1, <2>1 DEF HandleTrackUnpublished, QueuesOK, SfuOK, sfuVars
  <2>6. QED
    BY Zenon, <2>2, <2>3, <2>4, <2>5 DEF AllOK
<1>6. QED
  BY Zenon, <1>1, <1>2, <1>3, <1>4, <1>5

LEMMA FunctionIsSeq ==
  ASSUME NEW S, NEW n \in Nat, NEW f \in [1..n -> S]
  PROVE  f \in Seq(S) /\ Len(f) = n
OBVIOUS

LEMMA Concatenated ==
  ASSUME NEW S, NEW p \in Seq(S), NEW q \in Seq(S)
  PROVE  /\ p \o q \in Seq(S) /\ Len(p \o q) = Len(p) + Len(q) /\ Len(p) \in Nat
         /\ \A i \in 1..Len(p \o q) :
               (p \o q)[i] = IF i <= Len(p) THEN p[i] ELSE q[i - Len(p)]
OBVIOUS

\* The requests of on_resend_subscription_updates: one for each SID in A.
LEMMA Resent ==
  ASSUME TypeOK, NEW A \in SUBSET Sids, NEW q \in Orders(A),
         NEW r, r = outq \o [i \in DOMAIN q |-> SfuUpdateSubscription(q[i], TRUE)]
  PROVE  r \in Seq(Updates) /\ \A d \in A : Requested(r, d)
<1>1. /\ q \in UNION {[1..m -> A] : m \in 0..MaxSids}
      /\ \A x \in A : \E i \in DOMAIN q : q[i] = x
  BY Zenon DEF Orders
<1>2. PICK n \in Nat : q \in [1..n -> A]
  BY <1>1, RemoteTracksAssumption
<1>3. /\ q \in [1..n -> A] /\ DOMAIN q = 1..n
      /\ \A x \in A : \E i \in 1..n : q[i] = x
  BY Zenon, <1>1, <1>2
<1>4. PICK t \in Seq(Updates) : /\ t = [i \in DOMAIN q |-> SfuUpdateSubscription(q[i], TRUE)]
                                /\ Len(t) = n
                                /\ \A i \in 1..n : t[i] = SfuUpdateSubscription(q[i], TRUE)
  <2>1. \A i \in 1..n : SfuUpdateSubscription(q[i], TRUE) \in Updates
    BY Zenon, <1>3, EventKinds
  <2>2. PICK f \in [1..n -> Updates] : f = [i \in 1..n |-> SfuUpdateSubscription(q[i], TRUE)]
    <3>1. [i \in 1..n |-> SfuUpdateSubscription(q[i], TRUE)] \in [1..n -> Updates]
      BY Zenon, <2>1
    <3>2. QED
      BY Zenon, <3>1
  <2>3. f \in Seq(Updates) /\ Len(f) = n
    BY Zenon, FunctionIsSeq
  <2>4. /\ \A i \in 1..n : f[i] = SfuUpdateSubscription(q[i], TRUE)
        /\ f = [i \in DOMAIN q |-> SfuUpdateSubscription(q[i], TRUE)]
    BY Zenon, <1>3, <2>2
  <2>5. QED
    BY Zenon, <2>3, <2>4
<1>5. outq \in Seq(Updates) /\ r = outq \o t /\ Len(t) = n /\ t \in Seq(Updates)
  BY Zenon, <1>4, Queued
<1>6. /\ r \in Seq(Updates) /\ Len(r) = Len(outq) + n /\ Len(outq) \in Nat
      /\ \A i \in 1..Len(r) : r[i] = IF i <= Len(outq) THEN outq[i] ELSE t[i - Len(outq)]
  <2>1. /\ outq \o t \in Seq(Updates) /\ Len(outq \o t) = Len(outq) + Len(t)
        /\ Len(outq) \in Nat
        /\ \A i \in 1..Len(outq \o t) :
              (outq \o t)[i] = IF i <= Len(outq) THEN outq[i] ELSE t[i - Len(outq)]
    BY Zenon, <1>5, Concatenated
  <2>2. r = outq \o t /\ Len(t) = n
    BY Zenon, <1>5
  <2>3. QED
    BY <2>1, <2>2, Zenon
<1>7. ASSUME NEW d \in A PROVE Requested(r, d)
  <2>1. PICK k \in 1..n : q[k] = d
    BY Zenon, <1>3
  <2>2. PICK m \in Nat : m = Len(outq) /\ Len(r) = m + n
    BY Zenon, <1>6
  <2>3. m + k \in 1..(m + n) /\ ~(m + k <= m) /\ (m + k) - m = k
    OBVIOUS
  <2>4. m + k \in 1..Len(r) /\ r[m + k] = t[k]
    BY Zenon, <1>6, <2>2, <2>3
  <2>5. QED
    BY Zenon, <1>4, <2>1, <2>4 DEF Requested
<1>8. QED
  BY Zenon, <1>6, <1>7

LEMMA ManagerTypes ==
  ASSUME TypeOK, ManagerStep
  PROVE  TypeOK'
<1> SUFFICES AllOK'
  BY Zenon, TypeGroupsNext
<1> USE GroupsStay
<1>0. QueuesOK /\ MgrOK /\ ObjOK /\ AppOK /\ SfuOK
  BY Zenon, TypeGroups DEF AllOK
<1>1. CASE OnSubscribeRequest
  <2>1. Take("Subscribe")
    BY Zenon, <1>1 DEF OnSubscribeRequest
  <2>2. inq' \in Seq(Events) /\ Len(inq') <= InCap /\ Head(inq) \in Events
        /\ Head(inq).type = "Subscribe"
    BY Zenon, <2>1, TakeTypes
  <2>3. PICK sid \in Sids, by \in SUBSET Subscribers :
           sid = Head(inq).sid /\ by = {Head(inq).by} \ {Nobody}
    BY Zenon, <2>2, EventParts
  <2>4. PICK o : o = descriptors[sid]
    BY Zenon
  <2>5. UNCHANGED <<mgrVars, info_sid, published, sub_handle, taskVars, calls, sfuVars, lost,
                    reassigned>>
    BY Zenon, <1>1 DEF OnSubscribeRequest
  <2>6. outq' = outq \/ outq' = Append(outq, SfuUpdateSubscription(sid, TRUE))
    BY Zenon, <1>1, <2>3 DEF OnSubscribeRequest
  <2>7. QueuesOK'
    BY Zenon, <1>0, <2>2, <2>6, AskTypes DEF QueuesOK
  <2>8. CASE o = None
    <3>1. Return(by) /\ UNCHANGED <<outq, subscription, result_txs, receivers>>
      BY ZenonT(40), <1>1, <2>3, <2>4, <2>8 DEF OnSubscribeRequest
    <3>2. AppOK'
      BY Zenon, <1>0, <2>5, <3>1, ReturnTypes DEF AppOK
    <3>3. ObjOK'
      BY Zenon, <1>0, <2>5, <3>1 DEF ObjOK, taskVars
    <3>4. QED
      BY Zenon, <2>5, <2>7, <3>2, <3>3 DEF AllOK
  <2>9. CASE o # None
    <3>1. o \in Sids
      BY Zenon, <1>0, <2>4, <2>9 DEF MgrOK
    <3>2. \/ /\ subscription' = [subscription EXCEPT ![o] = "Pending"]
             /\ result_txs' = [result_txs EXCEPT ![o] = by]
             /\ UNCHANGED <<receivers, call>>
          \/ /\ result_txs' = [result_txs EXCEPT ![o] = @ \cup by]
             /\ UNCHANGED <<subscription, receivers, call>>
          \/ /\ receivers' = [receivers EXCEPT ![o] = @ \cup by]
             /\ call' = [s \in Subscribers |-> IF s \in by THEN "streaming" ELSE call[s]]
             /\ UNCHANGED <<subscription, result_txs>>
      BY Zenon, <1>1, <2>3, <2>4, <2>9 DEF OnSubscribeRequest, Joined
    <3>3. AppOK'
      BY Zenon, <1>0, <2>5, <3>1, <3>2 DEF AppOK
    <3>4. ObjOK'
      BY <1>0, <2>5, <3>1, <3>2 DEF ObjOK, taskVars
    <3>5. QED
      BY Zenon, <2>5, <2>7, <3>3, <3>4 DEF AllOK
  <2>10. QED
    BY Zenon, <2>8, <2>9
<1>2. CASE OnUnsubscribeRequest
  <2>1. Take("Unsubscribe") /\ Unsubscribe(Head(inq).sid, IsActive(Head(inq).sid),
                                           WithoutRoute(Head(inq).sid))
    BY Zenon, <1>2 DEF OnUnsubscribeRequest
  <2>2. inq' \in Seq(Events) /\ Len(inq') <= InCap /\ Head(inq) \in Events
        /\ Head(inq).type = "Unsubscribe"
    BY Zenon, <2>1, TakeTypes
  <2>3. PICK sid \in Sids : sid = Head(inq).sid
    BY Zenon, <2>2, EventParts
  <2>4. PICK o : o = descriptors[sid]
    BY Zenon
  <2>5. UNCHANGED <<mgr, awaiting, descriptors, info_sid, published, result_txs, sub_handle,
                    taskVars, calls, sfuVars, lost, reassigned>>
    BY Zenon, <2>1 DEF Unsubscribe
  <2>6. CASE IsActive(sid)
    <3>1. /\ o \in Sids /\ subscription' = [subscription EXCEPT ![o] = "None"]
          /\ sub_handles' = [sub_handles EXCEPT ![sub_handle[o]] = None]
          /\ outq' = Append(outq, SfuUpdateSubscription(sid, FALSE))
          /\ Return(receivers[o]) /\ receivers' = [receivers EXCEPT ![o] = {}]
      BY Zenon, <1>0, <2>1, <2>3, <2>4, <2>6 DEF Unsubscribe, WithoutRoute, IsActive, MgrOK
    <3>2. QueuesOK'
      BY Zenon, <2>2, <3>1, AskTypes DEF QueuesOK
    <3>3. AppOK'
      BY Zenon, <1>0, <2>5, <3>1, ReturnTypes DEF AppOK
    <3>4. ObjOK'
      BY Zenon, <1>0, <2>5, <3>1 DEF ObjOK, taskVars
    <3>5. MgrOK'
      BY Zenon, <1>0, <2>5, <3>1 DEF MgrOK
    <3>6. QED
      BY Zenon, <2>5, <3>2, <3>3, <3>4, <3>5 DEF AllOK
  <2>7. CASE ~IsActive(sid)
    <3>1. UNCHANGED <<subscription, sub_handles, outq, receivers, call>>
      BY Zenon, <2>1, <2>3, <2>7 DEF Unsubscribe
    <3>2. QueuesOK' /\ AppOK' /\ MgrOK'
      BY Zenon, <1>0, <2>2, <2>5, <3>1 DEF QueuesOK, AppOK, MgrOK
    <3>3. ObjOK'
      BY Zenon, <1>0, <2>5, <3>1 DEF ObjOK, taskVars
    <3>4. QED
      BY Zenon, <2>5, <3>2, <3>3 DEF AllOK
  <2>8. QED
    BY Zenon, <2>6, <2>7
<1>3. CASE OnSfuPublicationUpdates
  BY Zenon, <1>3, UpdateTypes, TypeGroupsNext
<1>4. CASE OnSfuSubscriberHandles
  <2>1. Take("Handles")
    BY Zenon, <1>4 DEF OnSfuSubscriberHandles
  <2>2. inq' \in Seq(Events) /\ Len(inq') <= InCap /\ Head(inq) \in Events
        /\ Head(inq).type = "Handles"
    BY Zenon, <2>1, TakeTypes
  <2>3. PICK sid \in Sids, h \in Handles : sid = Head(inq).sid /\ h = Head(inq).handle
    BY Zenon, <2>2, EventParts
  <2>4. PICK o : o = descriptors[sid]
    BY Zenon
  <2>5. UNCHANGED <<outq, mgr, awaiting, descriptors, info_sid, published, task_sid, calls,
                    sfuVars, lost, reassigned>>
    BY Zenon, <1>4 DEF OnSfuSubscriberHandles
  <2>6. QueuesOK'
    BY Zenon, <1>0, <2>2, <2>5 DEF QueuesOK
  <2>7. CASE o = None \/ subscription[o] = "None"
    <3>1. UNCHANGED <<sub_handles, subVars, task, receivers, call>>
      BY Zenon, <1>4, <2>3, <2>4, <2>7 DEF OnSfuSubscriberHandles
    <3>2. UNCHANGED <<mgrVars, info_sid, published, subVars, taskVars, appVars>>
      BY Zenon, <2>5, <3>1 DEF mgrVars, taskVars, appVars
    <3>3. QED
      BY Zenon, <2>5, <2>6, <3>2 DEF AllOK
  <2>8. CASE ~(o = None \/ subscription[o] = "None")
    <3>1. o \in Sids
      BY ZenonT(40), <1>0, <2>4, <2>8 DEF MgrOK
    <3>2. /\ sub_handles' = [g \in Handles |->
                               IF g = h THEN sid
                               ELSE IF subscription[o] = "Active" /\ g = sub_handle[o] THEN None
                               ELSE sub_handles[g]]
          /\ sub_handle' = [sub_handle EXCEPT ![o] = h]
      BY SMTT(30), <1>4, <2>3, <2>4, <2>8 DEF OnSfuSubscriberHandles
    <3>3. \/ UNCHANGED <<subscription, result_txs, task, receivers, call>>
          \/ /\ subscription' = [subscription EXCEPT ![o] = "Active"]
             /\ task' = [task EXCEPT ![o] = "running"]
             /\ receivers' = [receivers EXCEPT ![o] = result_txs[o]]
             /\ call' = [s \in Subscribers |-> IF s \in result_txs[o] THEN "streaming"
                                               ELSE call[s]]
             /\ result_txs' = [result_txs EXCEPT ![o] = {}]
      BY Zenon, <1>4, <2>3, <2>4, <2>8 DEF OnSfuSubscriberHandles
    <3>4. sub_handles' \in [Handles -> Sids \cup {None}]
      BY Zenon, <1>0, <3>2 DEF MgrOK
    <3>5. MgrOK'
      BY Zenon, <1>0, <2>5, <3>4 DEF MgrOK
    <3>6. ObjOK'
      BY ZenonT(40), <1>0, <2>5, <3>1, <3>2, <3>3 DEF ObjOK
    <3>7. AppOK'
      BY SMTT(30), <1>0, <2>5, <3>1, <3>3 DEF AppOK, ObjOK
    <3>8. QED
      BY Zenon, <2>5, <2>6, <3>5, <3>6, <3>7 DEF AllOK
  <2>9. QED
    BY Zenon, <2>7, <2>8
<1>5. CASE OnPacketReceived \/ OnShutdown
  <2>1. PICK t : Take(t)
    BY Zenon, <1>5 DEF OnPacketReceived, OnShutdown
  <2>2. inq' \in Seq(Events) /\ Len(inq') <= InCap
    BY Zenon, <2>1, TakeTypes
  <2>3. /\ UNCHANGED <<outq, awaiting, descriptors, sub_handles, info_sid, published, subVars,
                       taskVars, appVars, sfuVars, lost, reassigned>>
        /\ mgr' = mgr \/ mgr' = "stopping"
    BY Zenon, <1>5 DEF OnPacketReceived, OnShutdown, mgrVars
  <2>4. QueuesOK' /\ MgrOK'
    BY Zenon, <1>0, <2>2, <2>3 DEF QueuesOK, MgrOK
  <2>5. QED
    BY Zenon, <2>3, <2>4 DEF AllOK
<1>6. CASE OnResendSubscriptionUpdates
  <2>1. Take("Resend")
    BY Zenon, <1>6 DEF OnResendSubscriptionUpdates
  <2>2. inq' \in Seq(Events) /\ Len(inq') <= InCap
    BY Zenon, <2>1, TakeTypes
  <2>3. PICK A \in SUBSET Sids :
           \E q \in Orders(A) :
              outq' = outq \o [i \in DOMAIN q |-> SfuUpdateSubscription(q[i], TRUE)]
    BY Zenon, <1>6 DEF OnResendSubscriptionUpdates
  <2>4. outq' \in Seq(Updates)
    BY Zenon, <2>3, Resent
  <2>5. UNCHANGED <<mgrVars, info_sid, published, subVars, taskVars, appVars, sfuVars, lost,
                    reassigned>>
    BY ZenonT(40), <1>6 DEF OnResendSubscriptionUpdates
  <2>6. QED
    BY Zenon, <2>2, <2>4, <2>5 DEF AllOK, QueuesOK
<1>7. ASSUME NEW d \in Sids, ShutdownNext(d) PROVE AllOK'
  <2>1. PICK o \in Sids : o = descriptors[d]
    BY ZenonT(40), <1>0, <1>7 DEF ShutdownNext, MgrOK
  <2>2. /\ descriptors' = [descriptors EXCEPT ![d] = None]
        /\ published' = [published EXCEPT ![o] = FALSE]
        /\ awaiting' = IF subscription[o] = "Active" THEN o ELSE None
        /\ subscription' = [subscription EXCEPT ![o] = "None"]
        /\ result_txs' = [result_txs EXCEPT ![o] = {}]
        /\ UNCHANGED <<queues, mgr, sub_handles, info_sid, sub_handle, taskVars,
                       calls, sfuVars, lost, reassigned>>
    BY Zenon, <1>7, <2>1 DEF ShutdownNext
  <2>3. /\ receivers' = receivers \/ receivers' = [receivers EXCEPT ![o] = {}]
        /\ \E S : Return(S)
    BY Zenon, <1>7, <2>1 DEF ShutdownNext
  <2>4. call' \in [Subscribers -> {"idle", "waiting", "streaming"}]
    BY Zenon, <2>3, ReturnTypes
  <2>5. AppOK'
    BY Zenon, <1>0, <2>2, <2>3, <2>4 DEF AppOK
  <2>6. MgrOK'
    BY Zenon, <1>0, <2>2 DEF MgrOK
  <2>7. ObjOK'
    BY Zenon, <1>0, <2>2 DEF ObjOK, taskVars
  <2>8. QED
    BY Zenon, <2>2, <2>5, <2>6, <2>7 DEF AllOK
<1>8. CASE ShutdownEnd
  <2>1. /\ mgr' = "ended" /\ inq' = <<>> /\ \E S : Return(S)
        /\ UNCHANGED <<outq, awaiting, descriptors, sub_handles, info_sid, published,
                       subVars, taskVars, receivers, calls, sfuVars, lost, reassigned>>
    BY Zenon, <1>8 DEF ShutdownEnd
  <2>2. call' \in [Subscribers -> {"idle", "waiting", "streaming"}]
    BY Zenon, <2>1, ReturnTypes
  <2>3. AppOK' /\ MgrOK'
    BY Zenon, <1>0, <2>1, <2>2 DEF AppOK, MgrOK
  <2>4. QueuesOK'
    BY <1>0, <2>1, RemoteTracksAssumption DEF QueuesOK
  <2>5. QED
    BY Zenon, <2>1, <2>3, <2>4 DEF AllOK
<1>9. QED
  BY Zenon, <1>1, <1>2, <1>3, <1>4, <1>5, <1>6, <1>7, <1>8 DEF ManagerStep

LEMMA TypeStep == ASSUME TypeOK, [Next]_vars PROVE TypeOK'
<1>1. CASE Next
  BY Zenon, <1>1, AppTypes, TaskTypes, SfuTypes, ManagerTypes DEF Next
<1>2. CASE UNCHANGED vars
  <2>1. UNCHANGED <<queues, mgrVars, info_sid, published, subVars, taskVars, appVars, sfuVars,
                    lost, reassigned>>
    BY Zenon, <1>2 DEF vars
  <2>2. QED
    BY Zenon, <2>1, GroupsStay, TypeGroupsNext DEF AllOK
<1>3. QED
  BY Zenon, <1>1, <1>2

-----------------------------------------------------------------------------
(* The manager's tables.                                                   *)

\* A manager that runs has run before, and what was lost stays lost.
LEMMA StillRunning ==
  ASSUME TypeOK, Next
  PROVE  /\ mgr' = "running" => mgr = "running"
         /\ ~lost' => ~lost
<1>1. lost \in BOOLEAN
  BY Zenon DEF TypeOK
<1>2. CASE \E s \in Subscribers : \/ \E o \in Sids : Subscribe(s, o)
                                  \/ SubscribeTimeout(s) \/ DropStream(s)
  <2>1. UNCHANGED <<mgr, lost>>
    BY Zenon, <1>2 DEF Subscribe, SubscribeTimeout, DropStream, mgrVars
  <2>2. QED
    BY Zenon, <2>1
<1>3. CASE \E o \in Sids : TaskStep(o)
  <2>1. UNCHANGED <<mgr, lost>>
    BY Zenon, <1>3 DEF TaskStep, TaskUnpublished, TaskClosing, TaskUnsubscribes, mgrVars
  <2>2. QED
    BY Zenon, <2>1
<1>4. CASE ManagerStep
  <2>1. CASE OnSubscribeRequest \/ OnSfuPublicationUpdates \/ OnSfuSubscriberHandles
    <3>1. UNCHANGED <<mgr, lost>>
      BY Zenon, <2>1 DEF OnSubscribeRequest, OnSfuPublicationUpdates, OnSfuSubscriberHandles,
                         mgrVars
    <3>2. QED
      BY Zenon, <3>1
  <2>2. CASE OnUnsubscribeRequest \/ OnPacketReceived \/ OnResendSubscriptionUpdates
    <3>1. UNCHANGED <<mgr, lost>>
      BY Zenon, <2>2 DEF OnUnsubscribeRequest, Unsubscribe, OnPacketReceived,
                         OnResendSubscriptionUpdates, mgrVars
    <3>2. QED
      BY Zenon, <3>1
  <2>3. CASE OnShutdown \/ (\E d \in Sids : ShutdownNext(d)) \/ ShutdownEnd
    <3>1. (mgr' = "stopping" \/ mgr' = "ended" \/ mgr' = mgr) /\ lost' = lost
      BY Zenon, <2>3 DEF OnShutdown, ShutdownNext, ShutdownEnd
    <3>2. QED
      BY Zenon, <3>1
  <2>4. QED
    BY Zenon, <1>4, <2>1, <2>2, <2>3 DEF ManagerStep
<1>5. CASE \/ \E k \in Tracks : SfuPublish(k) \/ SfuUnpublish(k)
           \/ SfuTakes \/ SfuNoise \/ FullReconnect \/ RoomCloses
  BY Zenon, <1>1, <1>5 DEF SfuPublish, SfuUnpublish, SfuTakes, SfuNoise, FullReconnect, RoomCloses,
                    TrySend, localVars, mgrVars
<1>6. QED
  BY Zenon, <1>2, <1>3, <1>4, <1>5 DEF Next

tables == <<descriptors, sub_handles, info_sid, published, subscription, sub_handle>>

\* The steps that change the tables of a manager that goes on.
LEMMA TableSteps ==
  ASSUME Next, mgr' = "running"
  PROVE  \/ OnSubscribeRequest \/ OnUnsubscribeRequest \/ OnSfuPublicationUpdates
         \/ OnSfuSubscriberHandles
         \/ UNCHANGED tables
<1>1. CASE \E s \in Subscribers : \/ \E o \in Sids : Subscribe(s, o)
                                  \/ SubscribeTimeout(s) \/ DropStream(s)
  BY Zenon, <1>1 DEF Subscribe, SubscribeTimeout, DropStream, mgrVars, subVars, tables
<1>2. CASE \E o \in Sids : TaskStep(o)
  BY Zenon, <1>2 DEF TaskStep, TaskUnpublished, TaskClosing, TaskUnsubscribes, mgrVars, subVars,
      tables
<1>3. CASE OnPacketReceived \/ OnResendSubscriptionUpdates
  BY Zenon, <1>3 DEF OnPacketReceived, OnResendSubscriptionUpdates, mgrVars, subVars, tables
<1>4. CASE OnShutdown \/ (\E d \in Sids : ShutdownNext(d)) \/ ShutdownEnd
  BY Zenon, <1>4 DEF OnShutdown, ShutdownNext, ShutdownEnd
<1>5. CASE \/ \E k \in Tracks : SfuPublish(k) \/ SfuUnpublish(k)
           \/ SfuTakes \/ SfuNoise \/ FullReconnect \/ RoomCloses
  BY Zenon, <1>5 DEF SfuPublish, SfuUnpublish, SfuTakes, SfuNoise, FullReconnect, RoomCloses,
              localVars, mgrVars, subVars, tables
<1>6. QED
  BY Zenon, <1>1, <1>2, <1>3, <1>4, <1>5 DEF Next, ManagerStep

\* Only a publication changes what the SFU has said of SIDs, and only of its own.
LEMMA InfoSteps ==
  ASSUME Next
  PROVE  \/ UNCHANGED <<info, next_sid>>
         \/ \E k \in Tracks : SfuPublish(k)
<1>1. CASE \E s \in Subscribers : \/ \E o \in Sids : Subscribe(s, o)
                                  \/ SubscribeTimeout(s) \/ DropStream(s)
  BY Zenon, <1>1 DEF Subscribe, SubscribeTimeout, DropStream, sfuVars
<1>2. CASE \E o \in Sids : TaskStep(o)
  BY Zenon, <1>2 DEF TaskStep, TaskUnpublished, TaskClosing, TaskUnsubscribes, sfuVars
<1>3. CASE ManagerStep
  <2>1. CASE OnSubscribeRequest \/ OnSfuPublicationUpdates \/ OnSfuSubscriberHandles
    BY Zenon, <2>1 DEF OnSubscribeRequest, OnSfuPublicationUpdates, OnSfuSubscriberHandles, sfuVars
  <2>2. CASE OnUnsubscribeRequest \/ OnPacketReceived \/ OnResendSubscriptionUpdates
    BY Zenon, <2>2 DEF OnUnsubscribeRequest, Unsubscribe, OnPacketReceived,
                OnResendSubscriptionUpdates, sfuVars
  <2>3. CASE OnShutdown \/ (\E d \in Sids : ShutdownNext(d)) \/ ShutdownEnd
    BY Zenon, <2>3 DEF OnShutdown, ShutdownNext, ShutdownEnd, sfuVars
  <2>4. QED
    BY Zenon, <1>3, <2>1, <2>2, <2>3 DEF ManagerStep
<1>4. CASE \/ \E k \in Tracks : SfuUnpublish(k)
           \/ SfuTakes \/ SfuNoise \/ FullReconnect \/ RoomCloses
  BY Zenon, <1>4 DEF SfuUnpublish, SfuTakes, SfuNoise, FullReconnect, RoomCloses, sfuVars
<1>5. QED
  BY Zenon, <1>1, <1>2, <1>3, <1>4 DEF Next

\* A SID that was given out keeps its info.
LEMMA InfoStays ==
  ASSUME TypeOK, Next
  PROVE  /\ \A d \in Sids : d < next_sid => info'[d] = info[d] /\ d < next_sid'
         /\ next_sid' >= next_sid
<1>0. next_sid \in 1..(MaxSids + 1) /\ info \in [Sids -> [track : Tracks, name : Sids]]
  BY Zenon DEF TypeOK
<1>1. CASE UNCHANGED <<info, next_sid>>
  BY <1>0, <1>1, RemoteTracksAssumption DEF Sids
<1>2. ASSUME NEW k \in Tracks, SfuPublish(k)
      PROVE  /\ \A d \in Sids : d < next_sid => info'[d] = info[d] /\ d < next_sid'
             /\ next_sid' >= next_sid
  <2>1. next_sid' = next_sid + 1
        /\ \E x : info' = [info EXCEPT ![next_sid] = x]
    BY Zenon, <1>2 DEF SfuPublish
  <2>2. QED
    BY <1>0, <2>1, RemoteTracksAssumption DEF Sids
<1>3. QED
  BY Zenon, <1>1, <1>2, InfoSteps

Tables == Catalog /\ Once /\ Idle /\ Routes

LEMMA TablesStay ==
  ASSUME TypeOK, TypeOK', Next, UNCHANGED tables, Tables
  PROVE  Tables' /\ (Routed => Routed')
<1>1. \A d \in Sids : descriptors[d] # None =>
         /\ descriptors[d] \in Sids /\ d < next_sid /\ descriptors[d] < next_sid
         /\ info'[d] = info[d] /\ info'[descriptors[d]] = info[descriptors[d]]
         /\ d < next_sid' /\ descriptors[d] < next_sid'
  <2>1. descriptors \in [Sids -> Sids \cup {None}]
    BY Zenon DEF TypeOK
  <2>2. \A d \in Sids : descriptors[d] # None =>
           descriptors[d] \in Sids /\ d < next_sid /\ descriptors[d] < next_sid
    BY Zenon, <2>1 DEF Tables, Catalog
  <2>3. QED
    BY ZenonT(40), <2>2, InfoStays
<1>2. UNCHANGED <<descriptors, sub_handles, info_sid, published, subscription, sub_handle>>
  BY Zenon DEF tables
<1>3. Catalog'
  BY ZenonT(40), <1>1, <1>2 DEF Tables, Catalog
<1>4. Once'
  BY SMTT(30), <1>1, <1>2 DEF Tables, Once
<1>5. Idle' /\ Routes'
  BY Zenon, <1>2 DEF Tables, Idle, Routes
<1>6. Routed => Routed'
  BY Zenon, <1>2 DEF Routed, IsActive
<1>7. QED
  BY Zenon, <1>3, <1>4, <1>5, <1>6 DEF Tables

\* A described object is described once.
LEMMA DescribedOnce ==
  ASSUME Catalog, NEW d \in Sids, NEW e \in Sids,
         descriptors[d] # None, descriptors[d] = descriptors[e]
  PROVE  d = e
BY Zenon DEF Catalog

\* Two active subscriptions have different handles.
LEMMA ApartHandles ==
  ASSUME Routed, NEW d \in Sids, NEW e \in Sids, IsActive(d), IsActive(e),
         sub_handle[descriptors[d]] = sub_handle[descriptors[e]]
  PROVE  d = e
BY Zenon DEF Routed

\* Each change of the tables keeps them, and the routes of the subscriptions
\* that stay active, as long as no handle comes twice.
LEMMA SubscribeTables ==
  ASSUME TypeOK, OnSubscribeRequest, Tables
  PROVE  Tables' /\ (Routed => Routed')
<1>1. Take("Subscribe")
  BY Zenon DEF OnSubscribeRequest
<1>2. Head(inq) \in Events /\ Head(inq).type = "Subscribe"
  BY Zenon, <1>1, TakeTypes
<1>3. PICK sid \in Sids : sid = Head(inq).sid
  BY Zenon, <1>2, EventParts
<1>4. PICK o : o = descriptors[sid]
  BY Zenon
<1>5. UNCHANGED <<descriptors, sub_handles, info_sid, published, sub_handle, info, next_sid>>
  BY ZenonT(40) DEF OnSubscribeRequest, mgrVars, sfuVars
<1>6. Catalog' /\ Once'
  BY Zenon, <1>5 DEF Tables, Catalog, Once
<1>7. CASE subscription' = subscription
  BY Zenon, <1>5, <1>6, <1>7 DEF Tables, Idle, Routes, Routed, IsActive
<1>8. CASE /\ o # None /\ subscription[o] = "None"
           /\ subscription' = [subscription EXCEPT ![o] = "Pending"]
  <2>1. o \in Sids /\ subscription \in [Sids -> {"None", "Pending", "Active"}]
        /\ descriptors \in [Sids -> Sids \cup {None}]
        /\ sub_handles \in [Handles -> Sids \cup {None}]
    BY SMTT(30), <1>4, <1>8 DEF TypeOK
  <2>2. Idle'
    BY Zenon, <1>3, <1>4, <1>5, <1>8, <2>1 DEF Tables, Idle
  <2>3. Routes'
    BY <1>5, <1>8, <2>1 DEF Tables, Routes
  <2>4. \A d \in Sids : IsActive(d)' => IsActive(d)
    <3>1. \A p \in Sids : subscription'[p] = "Active" => subscription[p] = "Active"
      BY Zenon, <1>8, <2>1
    <3>2. QED
      BY Zenon, <1>5, <2>1, <3>1 DEF IsActive
  <2>5. Routed => Routed'
    BY Zenon, <1>5, <2>4 DEF Routed
  <2>6. QED
    BY Zenon, <1>6, <2>2, <2>3, <2>5 DEF Tables
<1>9. QED
  BY Zenon, <1>3, <1>4, <1>7, <1>8 DEF OnSubscribeRequest

LEMMA UnsubscribeTables ==
  ASSUME TypeOK, OnUnsubscribeRequest, Tables
  PROVE  Tables' /\ (Routed /\ Carried => Routed')
<1>1. Take("Unsubscribe") /\ Unsubscribe(Head(inq).sid, IsActive(Head(inq).sid),
                                         WithoutRoute(Head(inq).sid))
  BY Zenon DEF OnUnsubscribeRequest
<1>2. Head(inq) \in Events /\ Head(inq).type = "Unsubscribe"
  BY Zenon, <1>1, TakeTypes
<1>3. PICK sid \in Sids : sid = Head(inq).sid
  BY Zenon, <1>2, EventParts
<1>4. PICK o : o = descriptors[sid]
  BY Zenon
<1>5. UNCHANGED <<descriptors, info_sid, published, sub_handle, info, next_sid>>
  BY ZenonT(40), <1>1 DEF Unsubscribe, sfuVars
<1>6. Catalog' /\ Once'
  BY Zenon, <1>5 DEF Tables, Catalog, Once
<1>7. CASE UNCHANGED <<subscription, sub_handles>>
  BY Zenon, <1>5, <1>6, <1>7 DEF Tables, Idle, Routes, Routed, IsActive
<1>8. CASE /\ o # None /\ IsActive(sid)
           /\ subscription' = [subscription EXCEPT ![o] = "None"]
           /\ sub_handles' = [sub_handles EXCEPT ![sub_handle[o]] = None]
  <2>1. o \in Sids /\ subscription \in [Sids -> {"None", "Pending", "Active"}]
        /\ descriptors \in [Sids -> Sids \cup {None}]
        /\ sub_handles \in [Handles -> Sids \cup {None}]
    BY ZenonT(40), <1>4, <1>8 DEF TypeOK
  <2>2. Idle'
    BY Zenon, <1>5, <1>8, <2>1 DEF Tables, Idle
  <2>3. ASSUME NEW h \in Handles, sub_handles'[h] # None
        PROVE  /\ descriptors[sub_handles'[h]] # None
               /\ subscription'[descriptors[sub_handles'[h]]] = "Active"
               /\ sub_handle[descriptors[sub_handles'[h]]] = h
    <3>1. h # sub_handle[o] /\ sub_handles'[h] = sub_handles[h]
      BY Zenon, <1>8, <2>1, <2>3
    <3>2. PICK p \in Sids : /\ p = descriptors[sub_handles[h]] /\ p # None
                            /\ subscription[p] = "Active" /\ sub_handle[p] = h
      BY Zenon, <2>1, <2>3, <3>1 DEF Tables, Routes
    <3>3. p # o
      BY ZenonT(40), <3>1, <3>2
    <3>4. QED
      BY Zenon, <1>8, <2>1, <3>1, <3>2, <3>3
  <2>4. Routes'
    BY Zenon, <1>5, <2>3 DEF Routes
  <2>5. ASSUME Routed, Carried PROVE Routed'
    <3>1. SUFFICES ASSUME NEW d \in Sids, IsActive(d)'
                   PROVE  sub_handles'[sub_handle[descriptors[d]]] = d
      BY Zenon, <1>5 DEF Routed
    <3>2. descriptors[d] \in Sids /\ subscription'[descriptors[d]] = "Active"
      BY Zenon, <1>5, <2>1, <3>1 DEF IsActive
    <3>3. descriptors[d] # o /\ IsActive(d)
      BY Zenon, <1>5, <1>8, <2>1, <3>1, <3>2 DEF IsActive
    <3>4. sub_handles[sub_handle[descriptors[d]]] = d /\ d # sid
      BY Zenon, <1>4, <2>5, <3>3 DEF Routed
    <3>5. sub_handle[descriptors[d]] # sub_handle[o]
      BY Zenon, <1>4, <1>8, <2>5, <3>3, <3>4, ApartHandles
    <3>6. QED
      BY Zenon, <1>8, <2>1, <2>5, <3>2, <3>3, <3>4, <3>5 DEF Carried, IsActive
  <2>6. QED
    BY Zenon, <1>6, <2>2, <2>4, <2>5 DEF Tables
<1>9. QED
  BY Zenon, <1>1, <1>3, <1>4, <1>7, <1>8 DEF Unsubscribe, IsActive, WithoutRoute

LEMMA HandlesTables ==
  ASSUME TypeOK, OnSfuSubscriberHandles, Tables
  PROVE  Tables' /\ (Routed /\ Carried => Routed')
<1>1. Take("Handles")
  BY Zenon DEF OnSfuSubscriberHandles
<1>2. Head(inq) \in Events /\ Head(inq).type = "Handles"
  BY Zenon, <1>1, TakeTypes
<1>3. PICK sid \in Sids, h \in Handles : sid = Head(inq).sid /\ h = Head(inq).handle
  BY Zenon, <1>2, EventParts
<1>4. PICK o : o = descriptors[sid]
  BY Zenon
<1>5. UNCHANGED <<descriptors, info_sid, published, info, next_sid>>
  BY Zenon DEF OnSfuSubscriberHandles, sfuVars
<1>6. Catalog' /\ Once'
  BY Zenon, <1>5 DEF Tables, Catalog, Once
<1>7. CASE o = None \/ subscription[o] = "None"
  <2>1. UNCHANGED <<sub_handles, subscription, sub_handle>>
    BY Zenon, <1>3, <1>4, <1>7 DEF OnSfuSubscriberHandles, subVars
  <2>2. QED
    BY Zenon, <1>5, <1>6, <2>1 DEF Tables, Idle, Routes, Routed, IsActive
<1>8. CASE ~(o = None \/ subscription[o] = "None")
  <2>1. o \in Sids /\ subscription \in [Sids -> {"None", "Pending", "Active"}]
        /\ descriptors \in [Sids -> Sids \cup {None}]
        /\ sub_handles \in [Handles -> Sids \cup {None}]
        /\ sub_handle \in [Sids -> Handles \cup {None}]
    BY ZenonT(40), <1>4, <1>8 DEF TypeOK
  <2>2. /\ sub_handles' = [g \in Handles |->
                             IF g = h THEN sid
                             ELSE IF subscription[o] = "Active" /\ g = sub_handle[o] THEN None
                             ELSE sub_handles[g]]
        /\ sub_handle' = [sub_handle EXCEPT ![o] = h]
        /\ subscription' = [subscription EXCEPT ![o] = "Active"]
    <3>1. CASE subscription[o] = "Active"
      <4>1. subscription' = subscription
        BY Zenon, <1>3, <1>4, <1>8, <3>1 DEF OnSfuSubscriberHandles
      <4>2. QED
        BY <1>3, <1>4, <1>8, <2>1, <3>1, <4>1 DEF OnSfuSubscriberHandles
    <3>2. CASE subscription[o] # "Active"
      BY Zenon, <1>3, <1>4, <1>8, <3>2 DEF OnSfuSubscriberHandles
    <3>3. QED
      BY Zenon, <3>1, <3>2
  <2>3. Idle'
    BY Zenon, <1>3, <1>4, <1>5, <2>1, <2>2 DEF Tables, Idle
  <2>4. ASSUME NEW g \in Handles, sub_handles'[g] # None
        PROVE  /\ descriptors[sub_handles'[g]] # None
               /\ subscription'[descriptors[sub_handles'[g]]] = "Active"
               /\ sub_handle'[descriptors[sub_handles'[g]]] = g
    <3>1. CASE g = h
      <4>1. sub_handles'[g] = sid
        BY Zenon, <2>2, <2>4, <3>1
      <4>2. subscription'[o] = "Active" /\ sub_handle'[o] = h /\ o # None
        BY Zenon, <1>8, <2>1, <2>2
      <4>3. QED
        BY Zenon, <1>4, <3>1, <4>1, <4>2
    <3>2. CASE g # h
      <4>1. ~(subscription[o] = "Active" /\ g = sub_handle[o]) /\ sub_handles'[g] = sub_handles[g]
        BY Zenon, <2>2, <2>4, <3>2
      <4>2. PICK p \in Sids : /\ p = descriptors[sub_handles[g]] /\ p # None
                              /\ subscription[p] = "Active" /\ sub_handle[p] = g
        BY ZenonT(40), <2>1, <2>4, <4>1 DEF Tables, Routes
      <4>3. p # o
        BY Zenon, <4>1, <4>2
      <4>4. QED
        BY Zenon, <2>1, <2>2, <4>1, <4>2, <4>3
    <3>3. QED
      BY Zenon, <3>1, <3>2
  <2>5. Routes'
    BY Zenon, <1>5, <2>4 DEF Routes
  <2>6. ASSUME Routed, Carried PROVE Routed'
    <3>1. SUFFICES ASSUME NEW d \in Sids, IsActive(d)'
                   PROVE  sub_handles'[sub_handle'[descriptors[d]]] = d
      BY Zenon, <1>5 DEF Routed
    <3>2. PICK p \in Sids : p = descriptors[d] /\ p # None /\ subscription'[p] = "Active"
      BY Zenon, <1>5, <2>1, <3>1 DEF IsActive
    <3>3. CASE p = o
      <4>1. d = sid
        BY Zenon, <1>4, <3>2, <3>3, DescribedOnce DEF Tables
      <4>2. sub_handle'[p] = h /\ sub_handles'[h] = sid
        BY Zenon, <2>1, <2>2, <3>3
      <4>3. QED
        BY Zenon, <3>2, <4>1, <4>2
    <3>4. CASE p # o
      <4>1. subscription[p] = "Active" /\ sub_handle'[p] = sub_handle[p] /\ IsActive(d)
        BY Zenon, <2>1, <2>2, <3>2, <3>4 DEF IsActive
      <4>2. sub_handle[p] \in Handles /\ sub_handle[p] # h
        <5>1. Head(inq) = inq[1] /\ 1 \in 1..Len(inq)
          BY <1>1, Queued, Tailed DEF Take
        <5>2. sub_handle[p] \in Handles /\ Unheard(inq, sub_handle[p])
          BY Zenon, <2>6, <4>1 DEF Carried
        <5>3. QED
          BY Zenon, <1>2, <1>3, <5>1, <5>2 DEF Unheard
      <4>3. ~(subscription[o] = "Active" /\ sub_handle[p] = sub_handle[o])
        <5>1. ASSUME subscription[o] = "Active", sub_handle[p] = sub_handle[o] PROVE FALSE
          <6>1. IsActive(sid)
            BY Zenon, <1>4, <1>8, <5>1 DEF IsActive
          <6>2. d = sid
            BY Zenon, <1>4, <2>6, <3>2, <4>1, <5>1, <6>1, ApartHandles
          <6>3. QED
            BY Zenon, <1>4, <3>2, <3>4, <6>2
        <5>2. QED
          BY Zenon, <5>1
      <4>4. sub_handles'[sub_handle[p]] = sub_handles[sub_handle[p]]
        BY Zenon, <2>2, <4>2, <4>3
      <4>5. QED
        BY Zenon, <2>6, <3>2, <4>1, <4>4 DEF Routed
    <3>5. QED
      BY Zenon, <3>3, <3>4
  <2>7. QED
    BY Zenon, <1>6, <2>3, <2>5, <2>6 DEF Tables
<1>9. QED
  BY Zenon, <1>7, <1>8

\* Which SIDs are known for a track, and what an update finds.
LEMMA KnownFacts ==
  ASSUME TypeOK, Tables, NEW k, NEW sid \in Sids, info[sid].track = k
  PROVE  /\ \A d \in Sids : descriptors[d] # None =>
               (d \in Known(k) <=> info[d].track = k)
         /\ \A d, e \in Known(k) : d = e
         /\ \A d \in Sids : descriptors[d] = sid => d \in Known(k)
         /\ sid \notin Known(k) => descriptors[sid] = None
<1>1. \A d \in Sids : descriptors[d] # None => info[descriptors[d]].track = info[d].track
  BY Zenon DEF Tables, Catalog
<1>2. \A d \in Sids : descriptors[d] # None => (d \in Known(k) <=> info[d].track = k)
  BY Zenon, <1>1 DEF Known
<1>3. \A d, e \in Known(k) : d = e
  <2>1. SUFFICES ASSUME NEW d \in Known(k), NEW e \in Known(k) PROVE d = e
    BY Zenon
  <2>2. d \in Sids /\ e \in Sids /\ descriptors[d] # None /\ descriptors[e] # None
    BY Zenon DEF Known
  <2>3. QED
    BY Zenon, <1>2, <2>1, <2>2 DEF Tables, Once
<1>4. ASSUME NEW d \in Sids, descriptors[d] = sid PROVE d \in Known(k)
  <2>1. sid # None
    BY DEF Sids, None
  <2>2. QED
    BY Zenon, <1>4, <2>1 DEF Known
<1>5. sid \notin Known(k) => descriptors[sid] = None
  BY Zenon, <1>2
<1>6. QED
  BY Zenon, <1>2, <1>3, <1>4, <1>5

LEMMA PublishedTables ==
  ASSUME TypeOK, Tables, NEW k \in Tracks, NEW sid \in Sids, PublishedAs(k, sid),
         UNCHANGED sfuVars, Valid(k, sid)
  PROVE  Tables' /\ (Routed => Routed')
<1>0. /\ descriptors \in [Sids -> Sids \cup {None}] /\ info_sid \in [Sids -> Sids]
      /\ published \in [Sids -> BOOLEAN] /\ sub_handles \in [Handles -> Sids \cup {None}]
      /\ sid # None
  BY SMTT(30) DEF TypeOK, Sids, None
<1>1. /\ Known(k) = {}
      /\ descriptors' = [descriptors EXCEPT ![sid] = sid]
      /\ info_sid' = [info_sid EXCEPT ![sid] = sid]
      /\ published' = [published EXCEPT ![sid] = TRUE]
      /\ UNCHANGED <<sub_handles, subscription, sub_handle, info, next_sid>>
  BY Zenon DEF PublishedAs, HandleTrackPublished, subVars, sfuVars
<1>2. info[sid].track = k /\ sid < next_sid
  BY Zenon, <1>0 DEF Valid
<1>3. /\ \A d \in Sids : descriptors[d] # None => info[d].track # k
      /\ descriptors[sid] = None /\ \A d \in Sids : descriptors[d] # sid
  BY SMTT(30), <1>1, <1>2, KnownFacts
<1>4. Catalog'
  <2>1. SUFFICES ASSUME NEW d \in Sids, descriptors'[d] # None
                 PROVE  /\ info_sid'[descriptors'[d]] = d /\ published'[descriptors'[d]]
                        /\ info[descriptors'[d]].track = info[d].track
                        /\ d < next_sid /\ descriptors'[d] < next_sid
    BY Zenon, <1>1 DEF Catalog
  <2>2. CASE d = sid
    BY Zenon, <1>0, <1>1, <1>2, <2>2
  <2>3. CASE d # sid
    <3>1. descriptors'[d] = descriptors[d] /\ descriptors[d] # sid /\ descriptors[d] \in Sids
      BY Zenon, <1>0, <1>1, <1>3, <2>1, <2>3
    <3>2. QED
      BY Zenon, <1>0, <1>1, <2>1, <3>1 DEF Tables, Catalog
  <2>4. QED
    BY Zenon, <2>2, <2>3
<1>5. Once'
  <2>1. SUFFICES ASSUME NEW d \in Sids, NEW e \in Sids, descriptors'[d] # None,
                        descriptors'[e] # None, info[d].track = info[e].track
                 PROVE  d = e
    BY Zenon, <1>1 DEF Once
  <2>2. \A x \in Sids : descriptors'[x] # None => x = sid \/ (descriptors[x] # None /\ info[x].track # k)
    BY Zenon, <1>0, <1>1, <1>3
  <2>3. QED
    BY Zenon, <1>2, <2>1, <2>2 DEF Tables, Once
<1>6. Idle'
  <2>1. \A o \in Sids : (\A d \in Sids : descriptors'[d] # o) => \A d \in Sids : descriptors[d] # o
    BY <1>0, <1>1, <1>3 DEF Sids, None
  <2>2. QED
    BY ZenonT(40), <1>1, <2>1 DEF Tables, Idle
<1>7. Routes'
  <2>1. SUFFICES ASSUME NEW h \in Handles, sub_handles[h] # None
                 PROVE  /\ descriptors'[sub_handles[h]] # None
                        /\ subscription[descriptors'[sub_handles[h]]] = "Active"
                        /\ sub_handle[descriptors'[sub_handles[h]]] = h
    BY Zenon, <1>1 DEF Routes
  <2>2. sub_handles[h] \in Sids /\ descriptors[sub_handles[h]] # None
    BY Zenon, <1>0, <2>1 DEF Tables, Routes
  <2>3. descriptors'[sub_handles[h]] = descriptors[sub_handles[h]]
    BY Zenon, <1>0, <1>1, <1>3, <2>2
  <2>4. QED
    BY Zenon, <2>1, <2>2, <2>3 DEF Tables, Routes
<1>8. ASSUME Routed PROVE Routed'
  <2>1. subscription[sid] = "None"
    BY Zenon, <1>3 DEF Tables, Idle
  <2>2. \A d \in Sids : IsActive(d)' => descriptors'[d] = descriptors[d] /\ IsActive(d)
    BY Zenon, <1>0, <1>1, <2>1 DEF IsActive
  <2>3. QED
    BY Zenon, <1>1, <1>8, <2>2 DEF Routed
<1>9. QED
  BY Zenon, <1>4, <1>5, <1>6, <1>7, <1>8 DEF Tables

LEMMA MovedTables ==
  ASSUME TypeOK, Tables, NEW k \in Tracks, NEW sid \in Sids, NEW old \in Sids,
         MovedTo(k, old, sid), UNCHANGED sfuVars, Valid(k, sid)
  PROVE  Tables' /\ (Routed /\ Carried => Routed')
<1>0. /\ descriptors \in [Sids -> Sids \cup {None}] /\ info_sid \in [Sids -> Sids]
      /\ sub_handles \in [Handles -> Sids \cup {None}] /\ sid # None
      /\ sub_handle \in [Sids -> Handles \cup {None}]
  BY SMTT(30) DEF TypeOK, Sids, None
<1>1. PICK o \in Sids : o = descriptors[old] /\ o # None /\ info[o].track = k
  BY SMTT(30), <1>0, KnownIs DEF MovedTo, Sids, None
<1>2. /\ descriptors' = [descriptors EXCEPT ![old] = None, ![sid] = o]
      /\ info_sid' = [info_sid EXCEPT ![o] = sid]
      /\ sub_handles' = IF subscription[o] = "Active"
                          THEN [sub_handles EXCEPT ![sub_handle[o]] = sid] ELSE sub_handles
      /\ UNCHANGED <<published, subscription, sub_handle, info, next_sid>>
  BY Zenon, <1>1 DEF MovedTo, HandleSidReassigned, Reassign, subVars, sfuVars
<1>3. info[sid].track = k /\ sid < next_sid
  BY Zenon, <1>0 DEF Valid
<1>4. old \in Known(k) /\ sid \notin Known(k) /\ old # sid /\ descriptors[sid] = None
      /\ info[old].track = k
  BY Zenon, <1>1, <1>3, KnownFacts DEF MovedTo
<1>5. \A d \in Sids : descriptors[d] = o => d = old
  BY Zenon, <1>1, DescribedOnce DEF Tables
<1>6. \A d \in Sids : \/ d = old /\ descriptors'[d] = None
                      \/ d = sid /\ descriptors'[d] = o
                      \/ d # old /\ d # sid /\ descriptors'[d] = descriptors[d] /\ descriptors[d] # o
  BY ZenonT(40), <1>0, <1>2, <1>4, <1>5
<1>7. Catalog'
  <2>1. SUFFICES ASSUME NEW d \in Sids, descriptors'[d] # None
                 PROVE  /\ info_sid'[descriptors'[d]] = d /\ published[descriptors'[d]]
                        /\ info[descriptors'[d]].track = info[d].track
                        /\ d < next_sid /\ descriptors'[d] < next_sid
    BY ZenonT(40), <1>2 DEF Catalog
  <2>2. CASE d = sid
    <3>1. descriptors'[d] = o /\ info_sid'[o] = sid
      BY Zenon, <1>0, <1>2, <1>4, <1>6, <2>2
    <3>2. published[o] /\ o < next_sid
      BY Zenon, <1>1 DEF Tables, Catalog
    <3>3. QED
      BY Zenon, <1>1, <1>3, <2>2, <3>1, <3>2
  <2>3. CASE d # sid
    <3>1. descriptors'[d] = descriptors[d] /\ descriptors[d] # o /\ descriptors[d] \in Sids
      BY ZenonT(40), <1>0, <1>6, <2>1, <2>3
    <3>2. info_sid'[descriptors[d]] = info_sid[descriptors[d]]
      BY Zenon, <1>0, <1>2, <3>1
    <3>3. QED
      BY ZenonT(40), <2>1, <3>1, <3>2 DEF Tables, Catalog
  <2>4. QED
    BY Zenon, <2>2, <2>3
<1>8. Once'
  <2>1. SUFFICES ASSUME NEW d \in Sids, NEW e \in Sids, descriptors'[d] # None,
                        descriptors'[e] # None, info[d].track = info[e].track
                 PROVE  d = e
    BY Zenon, <1>2 DEF Once
  <2>2. \A x \in Sids : descriptors'[x] # None =>
            x = sid \/ (x # old /\ descriptors[x] # None /\ info[x].track # k)
    BY ZenonT(40), <1>1, <1>4, <1>6 DEF Tables, Once
  <2>3. QED
    BY Zenon, <1>3, <2>1, <2>2 DEF Tables, Once
<1>9. Idle'
  <2>1. SUFFICES ASSUME NEW t \in Sids, \A d \in Sids : descriptors'[d] # t
                 PROVE  subscription[t] = "None"
    BY Zenon, <1>2 DEF Idle
  <2>2. ASSUME NEW d \in Sids PROVE descriptors[d] # t
    BY Zenon, <1>1, <1>4, <1>6, <2>1
  <2>3. QED
    BY Zenon, <2>1, <2>2 DEF Tables, Idle
<1>10. Routes'
  <2>1. SUFFICES ASSUME NEW h \in Handles, sub_handles'[h] # None
                 PROVE  /\ descriptors'[sub_handles'[h]] # None
                        /\ subscription[descriptors'[sub_handles'[h]]] = "Active"
                        /\ sub_handle[descriptors'[sub_handles'[h]]] = h
    BY Zenon, <1>2 DEF Routes
  <2>2. CASE subscription[o] = "Active" /\ h = sub_handle[o]
    <3>1. sub_handles'[h] = sid /\ descriptors'[sid] = o
      BY Zenon, <1>0, <1>2, <1>4, <1>6, <2>2
    <3>2. QED
      BY ZenonT(40), <1>1, <2>2, <3>1
  <2>3. CASE ~(subscription[o] = "Active" /\ h = sub_handle[o])
    <3>1. sub_handles'[h] = sub_handles[h]
      BY Zenon, <1>0, <1>2, <2>3
    <3>2. PICK d \in Sids : d = sub_handles[h]
      BY Zenon, <1>0, <2>1, <3>1
    <3>3. /\ descriptors[d] # None /\ subscription[descriptors[d]] = "Active"
          /\ sub_handle[descriptors[d]] = h
      BY Zenon, <2>1, <3>1, <3>2 DEF Tables, Routes
    <3>4. d # old /\ d # sid
      BY Zenon, <1>1, <1>4, <2>3, <3>3
    <3>5. QED
      BY ZenonT(40), <1>6, <3>1, <3>2, <3>3, <3>4
  <2>4. QED
    BY Zenon, <2>2, <2>3
<1>11. ASSUME Routed, Carried PROVE Routed'
  <2>1. SUFFICES ASSUME NEW d \in Sids, IsActive(d)'
                 PROVE  sub_handles'[sub_handle[descriptors'[d]]] = d
    BY Zenon, <1>2 DEF Routed
  <2>2. descriptors'[d] # None /\ subscription[descriptors'[d]] = "Active"
    BY Zenon, <1>2, <2>1 DEF IsActive
  <2>3. CASE d = sid
    <3>1. descriptors'[d] = o
      BY Zenon, <1>4, <1>6, <2>3
    <3>2. sub_handle[o] \in Handles
      BY Zenon, <1>1, <1>11, <2>2, <3>1 DEF Carried
    <3>3. QED
      BY Zenon, <1>0, <1>2, <2>2, <2>3, <3>1, <3>2
  <2>4. CASE d # sid
    <3>1. d # old /\ descriptors'[d] = descriptors[d] /\ descriptors[d] \in Sids
      BY ZenonT(40), <1>0, <1>6, <2>2, <2>4
    <3>2. IsActive(d) /\ sub_handle[descriptors[d]] \in Handles
      BY Zenon, <1>11, <2>2, <3>1 DEF Carried, IsActive
    <3>3. sub_handles[sub_handle[descriptors[d]]] = d
      BY Zenon, <1>11, <3>2 DEF Routed
    <3>4. subscription[o] = "Active" => sub_handle[descriptors[d]] # sub_handle[o]
      <4>1. ASSUME subscription[o] = "Active" PROVE IsActive(old)
        BY Zenon, <1>1, <4>1 DEF IsActive
      <4>2. QED
        BY Zenon, <1>1, <1>11, <3>1, <3>2, <4>1, ApartHandles
    <3>5. QED
      BY Zenon, <1>0, <1>2, <3>1, <3>2, <3>3, <3>4
  <2>5. QED
    BY Zenon, <2>3, <2>4
<1>12. QED
  BY Zenon, <1>7, <1>8, <1>9, <1>10, <1>11 DEF Tables

LEMMA EndedTables ==
  ASSUME TypeOK, Tables, NEW k \in Tracks, NEW sid \in Sids \cup {None}, NEW old \in Sids,
         EndedFor(k, old, sid), UNCHANGED sfuVars, Valid(k, sid)
  PROVE  Tables' /\ (Routed /\ Carried => Routed')
<1>0. /\ descriptors \in [Sids -> Sids \cup {None}] /\ info_sid \in [Sids -> Sids]
      /\ sub_handles \in [Handles -> Sids \cup {None}] /\ None \notin Sids
      /\ published \in [Sids -> BOOLEAN]
      /\ subscription \in [Sids -> {"None", "Pending", "Active"}]
  BY DEF TypeOK, Sids, None
<1>1. PICK o \in Sids : o = descriptors[old] /\ o # None /\ info[o].track = k
  BY ZenonT(40), <1>0, KnownIs DEF EndedFor
<1>2. /\ descriptors' = [d \in Sids |-> CASE d = old -> None
                                          [] d = sid -> sid
                                          [] OTHER -> descriptors[d]]
      /\ sub_handles' = IF subscription[o] = "Active"
                          THEN [sub_handles EXCEPT ![sub_handle[o]] = None] ELSE sub_handles
      /\ published' = [d \in Sids |-> IF d = o THEN FALSE ELSE d = sid \/ published[d]]
      /\ info_sid' = [d \in Sids |-> IF d = sid THEN sid ELSE info_sid[d]]
      /\ subscription' = [subscription EXCEPT ![o] = "None"]
      /\ UNCHANGED <<sub_handle, info, next_sid>>
  BY Zenon, <1>1 DEF EndedFor, HandleTrackUnpublished, sfuVars
<1>3. info[old].track = k /\ old \in Known(k) /\ sid \notin Known(k) /\ old # sid
  BY Zenon, <1>1 DEF EndedFor, Tables, Catalog
<1>4. \A d \in Sids : descriptors[d] = o => d = old
  BY Zenon, <1>1, DescribedOnce DEF Tables
<1>5. ASSUME sid \in Sids
      PROVE  /\ info[sid].track = k /\ sid < next_sid /\ descriptors[sid] = None
             /\ \A d \in Sids : descriptors[d] # sid
  <2>1. info[sid].track = k /\ sid < next_sid
    BY Zenon, <1>0, <1>5 DEF Valid
  <2>2. descriptors[sid] = None
    BY Zenon, <1>3, <1>5, <2>1, KnownFacts
  <2>3. ASSUME NEW d \in Sids, descriptors[d] = sid PROVE FALSE
    <3>1. d \in Known(k)
      BY Zenon, <1>5, <2>1, <2>3, KnownFacts
    <3>2. d = old
      BY Zenon, <1>3, <1>5, <2>1, <3>1, KnownFacts
    <3>3. o = sid
      BY Zenon, <1>1, <2>3, <3>2
    <3>4. info[o].name # info[sid].name
      BY Zenon, <1>0, <1>1, <1>5 DEF EndedFor
    <3>5. QED
      BY Zenon, <3>3, <3>4
  <2>4. QED
    BY Zenon, <2>1, <2>2, <2>3
<1>6. \A d \in Sids : \/ d = old /\ descriptors'[d] = None
                      \/ d = sid /\ d # old /\ descriptors'[d] = sid
                      \/ d # old /\ d # sid /\ descriptors'[d] = descriptors[d] /\ descriptors[d] # o
  BY Zenon, <1>2, <1>3, <1>4
<1>7. Catalog'
  <2>1. SUFFICES ASSUME NEW d \in Sids, descriptors'[d] # None
                 PROVE  /\ info_sid'[descriptors'[d]] = d /\ published'[descriptors'[d]]
                        /\ info[descriptors'[d]].track = info[d].track
                        /\ d < next_sid /\ descriptors'[d] < next_sid
    <3>1. info' = info /\ next_sid' = next_sid
      BY Zenon DEF sfuVars
    <3>2. QED
      BY Zenon, <3>1 DEF Catalog
  <2>2. CASE d = sid
    <3>1. descriptors'[d] = sid /\ sid # o
      BY Zenon, <1>1, <1>5, <1>6, <2>1, <2>2
    <3>2. info_sid'[sid] = sid /\ published'[sid]
      BY Zenon, <1>2, <2>2, <3>1
    <3>3. QED
      BY Zenon, <1>5, <2>2, <3>1, <3>2
  <2>3. CASE d # sid
    <3>1. /\ descriptors'[d] = descriptors[d] /\ descriptors[d] # o /\ descriptors[d] \in Sids
          /\ descriptors[d] # None /\ descriptors[d] # sid
      BY Zenon, <1>0, <1>5, <1>6, <2>1, <2>3
    <3>2. /\ info_sid'[descriptors[d]] = info_sid[descriptors[d]]
          /\ published'[descriptors[d]] = published[descriptors[d]]
      BY Zenon, <1>0, <1>2, <3>1
    <3>3. QED
      BY Zenon, <3>1, <3>2 DEF Tables, Catalog
  <2>4. QED
    BY Zenon, <2>2, <2>3
<1>8. Once'
  <2>1. SUFFICES ASSUME NEW d \in Sids, NEW e \in Sids, descriptors'[d] # None,
                        descriptors'[e] # None, info[d].track = info[e].track
                 PROVE  d = e
    BY Zenon, <1>2 DEF Once
  <2>2. \A x \in Sids : descriptors'[x] # None =>
            (x = sid /\ info[x].track = k) \/ (x # old /\ descriptors[x] # None /\ info[x].track # k)
    BY <1>1, <1>3, <1>5, <1>6 DEF Tables, Once
  <2>3. QED
    BY Zenon, <2>1, <2>2 DEF Tables, Once
<1>9. Idle'
  <2>1. SUFFICES ASSUME NEW p \in Sids, \A d \in Sids : descriptors'[d] # p
                 PROVE  subscription'[p] = "None"
    BY Zenon DEF Idle
  <2>2. CASE p = o
    BY Zenon, <1>0, <1>2, <2>2
  <2>3. CASE p # o
    <3>1. \A d \in Sids : descriptors[d] # p
      BY Zenon, <1>0, <1>1, <1>5, <1>6, <2>1, <2>3
    <3>2. QED
      BY Zenon, <1>0, <1>2, <2>3, <3>1 DEF Tables, Idle
  <2>4. QED
    BY Zenon, <2>2, <2>3
<1>10. Routes'
  <2>1. SUFFICES ASSUME NEW h \in Handles, sub_handles'[h] # None
                 PROVE  /\ descriptors'[sub_handles'[h]] # None
                        /\ subscription'[descriptors'[sub_handles'[h]]] = "Active"
                        /\ sub_handle[descriptors'[sub_handles'[h]]] = h
    BY Zenon, <1>2 DEF Routes
  <2>2. sub_handles'[h] = sub_handles[h] /\ ~(subscription[o] = "Active" /\ h = sub_handle[o])
    BY Zenon, <1>0, <1>2, <2>1
  <2>3. PICK d \in Sids : d = sub_handles[h]
    BY Zenon, <1>0, <2>1, <2>2
  <2>4. /\ descriptors[d] # None /\ subscription[descriptors[d]] = "Active"
        /\ sub_handle[descriptors[d]] = h
    BY Zenon, <2>1, <2>2, <2>3 DEF Tables, Routes
  <2>5. d # old /\ d # sid
    BY Zenon, <1>1, <1>5, <2>2, <2>4
  <2>6. descriptors'[d] = descriptors[d] /\ descriptors[d] # o /\ descriptors[d] \in Sids
    BY Zenon, <1>0, <1>6, <2>4, <2>5
  <2>7. subscription'[descriptors[d]] = subscription[descriptors[d]]
    BY Zenon, <1>0, <1>2, <2>6
  <2>8. QED
    BY ZenonT(40), <2>2, <2>3, <2>4, <2>6, <2>7
<1>11. ASSUME Routed, Carried PROVE Routed'
  <2>1. SUFFICES ASSUME NEW d \in Sids, IsActive(d)'
                 PROVE  sub_handles'[sub_handle[descriptors'[d]]] = d
    BY Zenon, <1>2 DEF Routed
  <2>2. descriptors'[d] # None /\ subscription'[descriptors'[d]] = "Active"
    BY Zenon, <1>2, <2>1 DEF IsActive
  <2>3. d # sid
    <3>1. ASSUME d = sid PROVE FALSE
      <4>1. descriptors'[d] = sid /\ sid \in Sids /\ sid # o
        BY Zenon, <1>1, <1>3, <1>5, <1>6, <3>1
      <4>2. subscription[sid] = "None"
        BY Zenon, <1>5, <4>1 DEF Tables, Idle
      <4>3. subscription'[sid] = subscription[sid]
        BY Zenon, <1>0, <1>2, <4>1
      <4>4. QED
        BY Zenon, <2>2, <4>1, <4>2, <4>3
    <3>2. QED
      BY Zenon, <3>1
  <2>4. /\ d # old /\ descriptors'[d] = descriptors[d] /\ descriptors[d] \in Sids
        /\ descriptors[d] # o
    BY ZenonT(40), <1>0, <1>6, <2>2, <2>3
  <2>5. IsActive(d) /\ sub_handle[descriptors[d]] \in Handles
    <3>1. subscription[descriptors[d]] = "Active"
      BY Zenon, <1>0, <1>2, <2>2, <2>4
    <3>2. QED
      BY Zenon, <1>11, <2>2, <2>4, <3>1 DEF Carried, IsActive
  <2>6. sub_handles[sub_handle[descriptors[d]]] = d
    BY Zenon, <1>11, <2>5 DEF Routed
  <2>7. subscription[o] = "Active" => sub_handle[descriptors[d]] # sub_handle[o]
    <3>1. ASSUME subscription[o] = "Active" PROVE IsActive(old)
      BY Zenon, <1>1, <3>1 DEF IsActive
    <3>2. QED
      BY Zenon, <1>1, <1>11, <2>4, <2>5, <3>1, ApartHandles
  <2>8. QED
    BY Zenon, <1>0, <1>2, <2>4, <2>5, <2>6, <2>7
<1>12. QED
  BY Zenon, <1>7, <1>8, <1>9, <1>10, <1>11 DEF Tables

LEMMA HeadAnnounced ==
  ASSUME TypeOK, Announced, inq # <<>>, NEW k, IsUpdate(Head(inq), k)
  PROVE  Valid(k, Head(inq).sid)
<1>1. Head(inq) = inq[1] /\ 1 \in 1..Len(inq)
  BY Queued, Tailed
<1>2. QED
  BY Zenon, <1>1 DEF Announced, IsUpdate

LEMMA TablesStep ==
  ASSUME TypeOK, TypeOK', Next, mgr' = "running", Tables, Announced
  PROVE  Tables' /\ (Routed /\ Carried => Routed')
<1>1. CASE OnSfuPublicationUpdates
  <2>1. PICK k \in Tracks, sid \in Sids \cup {None} :
            /\ IsUpdate(Head(inq), k) /\ Head(inq).sid = sid /\ inq # <<>>
            /\ \/ PublishedAs(k, sid) \/ AsItWas(k, sid)
               \/ \E old \in Sids : MovedTo(k, old, sid) \/ EndedFor(k, old, sid)
            /\ UNCHANGED sfuVars
    BY Zenon, <1>1, UpdateCases
  <2>2. Valid(k, sid)
    BY Zenon, <2>1, HeadAnnounced
  <2>3. CASE AsItWas(k, sid)
    BY Zenon, <2>3, TablesStay DEF AsItWas, tables, subVars
  <2>4. CASE PublishedAs(k, sid)
    BY Zenon, <2>1, <2>2, <2>4, PublishedTables DEF PublishedAs
  <2>5. ASSUME NEW old \in Sids, MovedTo(k, old, sid)
        PROVE  Tables' /\ (Routed /\ Carried => Routed')
    BY ZenonT(40), <2>1, <2>2, <2>5, MovedTables DEF MovedTo
  <2>6. ASSUME NEW old \in Sids, EndedFor(k, old, sid)
        PROVE  Tables' /\ (Routed /\ Carried => Routed')
    BY Zenon, <2>1, <2>2, <2>6, EndedTables
  <2>7. QED
    BY Zenon, <2>1, <2>3, <2>4, <2>5, <2>6
<1>2. QED
  BY Zenon, <1>1, TableSteps, TablesStay, SubscribeTables, UnsubscribeTables, HandlesTables

-----------------------------------------------------------------------------
(* What the SFU has said.                                                  *)

\* The SFU says what it has of track k, perhaps to a full channel.
Says(k) ==
    /\ \A j \in Tracks : j # k => live'[j] = live[j]
    /\ live'[k] # None => info'[live'[k]].track = k /\ live'[k] < next_sid'
    /\ \/ lost' /\ inq' = inq
       \/ inq' = Append(inq, SfuPublicationUpdates(k, live'[k]))

\* The other steps of a manager that goes on: what they do to the channel.
Hears ==
    /\ live' = live
    /\ \/ inq' = inq
       \/ \E e \in Events : e.type # "Publications" /\ inq' = Append(inq, e)
       \/ \E s \in Subscribers : inq' = Withdrawn(inq, s)
       \/ /\ inq # <<>> /\ inq' = Tail(inq)
          /\ Head(inq).type # "Publications" \/ OnSfuPublicationUpdates

LEMMA QueueSteps ==
  ASSUME TypeOK, Next, mgr' = "running", Announced
  PROVE  Hears \/ \E k \in Tracks : Says(k)
<1>0. /\ live \in [Tracks -> Sids \cup {None}]
      /\ info \in [Sids -> [track : Tracks, name : Sids]] /\ next_sid \in 1..(MaxSids + 1)
      /\ info_sid \in [Sids -> Sids] /\ task_sid \in [Sids -> Sids]
  BY Zenon DEF TypeOK
<1>1. ASSUME NEW s \in Subscribers, NEW o \in Sids, Subscribe(s, o) PROVE Hears
  <2>1. SubscribeRequest(info_sid[o], s) \in Events
        /\ SubscribeRequest(info_sid[o], s).type # "Publications"
    BY Zenon, <1>0, EventKinds DEF SubscribeRequest
  <2>2. live' = live /\ inq' = Append(inq, SubscribeRequest(info_sid[o], s))
    BY Zenon, <1>1 DEF Subscribe, sfuVars
  <2>3. QED
    BY Zenon, <2>1, <2>2 DEF Hears
<1>2. ASSUME NEW s \in Subscribers, SubscribeTimeout(s) PROVE Hears
  BY Zenon, <1>2 DEF SubscribeTimeout, Hears, Withdrawn, sfuVars
<1>3. ASSUME NEW s \in Subscribers, DropStream(s) PROVE Hears
  BY Zenon, <1>3 DEF DropStream, Hears, queues, sfuVars
<1>4. ASSUME NEW o \in Sids, TaskStep(o) PROVE Hears
  <2>1. UnsubscribeRequest(task_sid[o]) \in Events
        /\ UnsubscribeRequest(task_sid[o]).type # "Publications"
    BY Zenon, <1>0, EventKinds DEF UnsubscribeRequest
  <2>2. live' = live /\ (inq' = inq \/ inq' = Append(inq, UnsubscribeRequest(task_sid[o])))
    BY Zenon, <1>4 DEF TaskStep, TaskUnpublished, TaskClosing, TaskUnsubscribes, queues, sfuVars
  <2>3. QED
    BY Zenon, <2>1, <2>2 DEF Hears
<1>5. CASE ManagerStep
  <2>1. CASE OnSubscribeRequest \/ OnUnsubscribeRequest \/ OnSfuSubscriberHandles
             \/ OnPacketReceived \/ OnResendSubscriptionUpdates
    BY Zenon, <2>1 DEF OnSubscribeRequest, OnUnsubscribeRequest, Unsubscribe, OnSfuSubscriberHandles,
                OnPacketReceived, OnResendSubscriptionUpdates, Take, sfuVars, Hears
  <2>2. CASE OnSfuPublicationUpdates
    <3>1. inq # <<>> /\ inq' = Tail(inq) /\ live' = live
      BY Zenon, <2>2 DEF OnSfuPublicationUpdates, Take, sfuVars
    <3>2. QED
      BY Zenon, <2>2, <3>1 DEF Hears
  <2>3. CASE OnShutdown \/ (\E d \in Sids : ShutdownNext(d)) \/ ShutdownEnd
    BY Zenon, <2>3 DEF OnShutdown, ShutdownNext, ShutdownEnd
  <2>4. QED
    BY Zenon, <1>5, <2>1, <2>2, <2>3 DEF ManagerStep
<1>6. ASSUME NEW k \in Tracks, SfuPublish(k) PROVE Says(k)
  <2>1. next_sid \in Sids /\ next_sid' = next_sid + 1 /\ live' = [live EXCEPT ![k] = next_sid]
    <3>1. /\ next_sid <= MaxSids /\ next_sid' = next_sid + 1
          /\ live' = [live EXCEPT ![k] = next_sid]
      BY Zenon, <1>6 DEF SfuPublish
    <3>2. next_sid \in Sids
      BY <1>0, <3>1 DEF Sids
    <3>3. QED
      BY Zenon, <3>1, <3>2
  <2>2. PICK n : info' = [info EXCEPT ![next_sid] = [track |-> k, name |-> n]]
    BY ZenonT(40), <1>6 DEF SfuPublish
  <2>3. live'[k] = next_sid /\ info'[next_sid].track = k /\ next_sid < next_sid'
    <3>1. live'[k] = next_sid
      BY Zenon, <1>0, <2>1
    <3>2. info'[next_sid] = [track |-> k, name |-> n]
      BY Zenon, <1>0, <2>1, <2>2
    <3>3. next_sid < next_sid'
      BY <1>0, <2>1
    <3>4. info'[next_sid].track = k
      BY <3>2
    <3>5. QED
      BY Zenon, <3>1, <3>3, <3>4
  <2>4. (lost' /\ inq' = inq) \/ inq' = Append(inq, SfuPublicationUpdates(k, next_sid))
    BY Zenon, <1>6 DEF SfuPublish, TrySend
  <2>5. QED
    BY Zenon, <1>0, <2>1, <2>3, <2>4 DEF Says
<1>7. ASSUME NEW k \in Tracks, SfuUnpublish(k) PROVE Says(k)
  <2>1. live' = [live EXCEPT ![k] = None]
        /\ ((lost' /\ inq' = inq) \/ inq' = Append(inq, SfuPublicationUpdates(k, None)))
    BY Zenon, <1>7 DEF SfuUnpublish, TrySend
  <2>2. QED
    BY Zenon, <1>0, <2>1 DEF Says
<1>8. CASE SfuTakes
  <2>1. live' = live
    BY Zenon, <1>8 DEF SfuTakes
  <2>2. inq' = inq \/ (/\ inq' = Append(inq, SfuSubscriberHandles(next_handle, Head(outq).sid))
                       /\ next_handle <= MaxHandles /\ outq # <<>>)
    BY Zenon, <1>8 DEF SfuTakes, TrySend
  <2>3. CASE inq' = inq
    BY Zenon, <2>1, <2>3 DEF Hears
  <2>4. CASE /\ inq' = Append(inq, SfuSubscriberHandles(next_handle, Head(outq).sid))
             /\ next_handle <= MaxHandles /\ outq # <<>>
    <3>1. Head(outq) \in Updates
      BY Zenon, <2>4, Queued, Tailed
    <3>2. next_handle \in Handles /\ Head(outq).sid \in Sids
      BY <2>4, <3>1, RemoteTracksAssumption DEF TypeOK, Handles, Updates
    <3>3. /\ SfuSubscriberHandles(next_handle, Head(outq).sid) \in Events
          /\ SfuSubscriberHandles(next_handle, Head(outq).sid).type # "Publications"
      BY Zenon, <3>2, EventKinds DEF SfuSubscriberHandles
    <3>4. QED
      BY Zenon, <2>1, <2>4, <3>3 DEF Hears
  <2>5. QED
    BY Zenon, <2>2, <2>3, <2>4
<1>9. CASE SfuNoise
  <2>1. UNCHANGED <<live, info, next_sid>>
    BY Zenon, <1>9 DEF SfuNoise
  <2>2. CASE TrySend(Event("Packet"))
    <3>1. Event("Packet") \in Events /\ Event("Packet").type # "Publications"
      BY Zenon, EventKinds DEF Event
    <3>2. QED
      BY Zenon, <2>1, <2>2, <3>1 DEF TrySend, Hears
  <2>3. ASSUME NEW k \in Tracks, TrySend(SfuPublicationUpdates(k, live[k])) PROVE Says(k)
    <3>1. live[k] # None => info[live[k]].track = k /\ live[k] < next_sid
      BY Zenon DEF Announced, Valid
    <3>2. (lost' /\ inq' = inq) \/ inq' = Append(inq, SfuPublicationUpdates(k, live[k]))
      BY Zenon, <2>3 DEF TrySend
    <3>3. QED
      BY Zenon, <2>1, <3>1, <3>2 DEF Says
  <2>4. QED
    BY Zenon, <1>9, <2>2, <2>3 DEF SfuNoise
<1>10. CASE FullReconnect \/ RoomCloses
  <2>1. PICK t \in {"Resend", "Shutdown"} : TrySend(Event(t)) /\ live' = live
    BY Zenon, <1>10 DEF FullReconnect, RoomCloses, sfuVars
  <2>2. Event(t) \in Events /\ Event(t).type # "Publications"
    BY Zenon, EventKinds DEF Event
  <2>3. QED
    BY Zenon, <2>1, <2>2 DEF TrySend, Hears
<1>11. QED
  BY Zenon, <1>1, <1>2, <1>3, <1>4, <1>5, <1>6, <1>7, <1>8, <1>9, <1>10 DEF Next

LEMMA AnnouncedStep ==
  ASSUME TypeOK, TypeOK', Next, mgr' = "running", Announced
  PROVE  Announced'
<1>0. live \in [Tracks -> Sids \cup {None}] /\ inq \in Seq(Events) /\ inq' \in Seq(Events)
  BY ZenonT(40) DEF TypeOK
<1>1. ASSUME NEW k, NEW d \in Sids \cup {None}, Valid(k, d)
      PROVE  d # None => info'[d].track = k /\ d < next_sid'
  BY Zenon, <1>1, InfoStays DEF Valid
<1>2. PICK n \in Nat : n = Len(inq)
  BY <1>0
<1>3. \A i \in 1..n : inq[i] \in Events
  BY <1>0, <1>2
<1>4. ASSUME NEW i \in 1..n, inq[i].type = "Publications"
      PROVE  inq[i].sid # None => info'[inq[i].sid].track = inq[i].track /\ inq[i].sid < next_sid'
  <2>1. inq[i].sid \in Sids \cup {None} /\ Valid(inq[i].track, inq[i].sid)
    BY Zenon, <1>2, <1>3, <1>4, EventParts DEF Announced
  <2>2. QED
    BY Zenon, <1>1, <2>1
<1>5. ASSUME NEW e \in Events, inq' = Append(inq, e),
             e.type = "Publications" /\ e.sid # None => info'[e.sid].track = e.track /\ e.sid < next_sid',
             NEW i \in 1..Len(inq'), inq'[i].type = "Publications", inq'[i].sid # None
      PROVE  info'[inq'[i].sid].track = inq'[i].track /\ inq'[i].sid < next_sid'
  <2>1. Len(inq') = n + 1 /\ inq'[n + 1] = e /\ \A j \in 1..n : inq'[j] = inq[j]
    BY SMTT(30), <1>0, <1>2, <1>5, Appended
  <2>2. i = n + 1 \/ i \in 1..n
    BY <1>5, <2>1
  <2>3. QED
    BY ZenonT(40), <1>4, <1>5, <2>1, <2>2
<1>6. CASE Hears
  <2>1. \A k \in Tracks : live'[k] # None => info'[live'[k]].track = k /\ live'[k] < next_sid'
    BY Zenon, <1>0, <1>1, <1>6 DEF Announced, Hears
  <2>2. ASSUME NEW i \in 1..Len(inq'), inq'[i].type = "Publications", inq'[i].sid # None
        PROVE  info'[inq'[i].sid].track = inq'[i].track /\ inq'[i].sid < next_sid'
    <3>1. CASE inq' = inq
      BY Zenon, <1>2, <1>4, <2>2, <3>1
    <3>2. ASSUME NEW e \in Events, e.type # "Publications", inq' = Append(inq, e)
          PROVE  info'[inq'[i].sid].track = inq'[i].track /\ inq'[i].sid < next_sid'
      BY Zenon, <1>5, <2>2, <3>2
    <3>3. ASSUME NEW s \in Subscribers, inq' = Withdrawn(inq, s)
          PROVE  info'[inq'[i].sid].track = inq'[i].track /\ inq'[i].sid < next_sid'
      <4>1. Len(inq') = n /\ \A j \in 1..n : /\ inq'[j].type = inq[j].type
                                             /\ inq[j].type # "Subscribe" => inq'[j] = inq[j]
        BY ZenonT(40), <1>0, <1>2, <3>3, WithdrawnIs
      <4>2. i \in 1..n /\ inq'[i] = inq[i]
        BY Zenon, <2>2, <4>1
      <4>3. QED
        BY Zenon, <1>4, <2>2, <4>2
    <3>4. ASSUME inq # <<>>, inq' = Tail(inq)
          PROVE  info'[inq'[i].sid].track = inq'[i].track /\ inq'[i].sid < next_sid'
      <4>1. n \in Nat \ {0} /\ Len(inq') = n - 1 /\ \A j \in 1..(n - 1) : inq'[j] = inq[j + 1]
        BY Zenon, <1>0, <1>2, <3>4, Tailed
      <4>2. i + 1 \in 1..n /\ inq'[i] = inq[i + 1]
        BY <2>2, <4>1
      <4>3. QED
        BY Zenon, <1>4, <2>2, <4>2
    <3>5. QED
      BY Zenon, <1>6, <3>1, <3>2, <3>3, <3>4 DEF Hears
  <2>3. QED
    BY Zenon, <2>1, <2>2 DEF Announced, Valid
<1>7. ASSUME NEW k \in Tracks, Says(k) PROVE Announced'
  <2>1. \A j \in Tracks : live'[j] # None => info'[live'[j]].track = j /\ live'[j] < next_sid'
    <3>1. ASSUME NEW j \in Tracks, live'[j] # None
          PROVE  info'[live'[j]].track = j /\ live'[j] < next_sid'
      <4>1. CASE j = k
        BY Zenon, <1>7, <3>1, <4>1 DEF Says
      <4>2. CASE j # k
        BY Zenon, <1>0, <1>1, <1>7, <3>1, <4>2 DEF Says, Announced
      <4>3. QED
        BY Zenon, <4>1, <4>2
    <3>2. QED
      BY Zenon, <3>1
  <2>2. ASSUME NEW i \in 1..Len(inq'), inq'[i].type = "Publications", inq'[i].sid # None
        PROVE  info'[inq'[i].sid].track = inq'[i].track /\ inq'[i].sid < next_sid'
    <3>1. CASE inq' = inq
      BY Zenon, <1>2, <1>4, <2>2, <3>1
    <3>2. CASE inq' = Append(inq, SfuPublicationUpdates(k, live'[k]))
      <4>1. live'[k] \in Sids \cup {None}
        BY ZenonT(40) DEF TypeOK
      <4>2. PICK e \in Events : e = SfuPublicationUpdates(k, live'[k])
        BY Zenon, <4>1, EventKinds
      <4>3. e.track = k /\ e.sid = live'[k]
        BY Zenon, <4>2 DEF SfuPublicationUpdates
      <4>4. QED
        BY Zenon, <1>5, <2>1, <2>2, <3>2, <4>2, <4>3
    <3>3. QED
      BY Zenon, <1>7, <3>1, <3>2 DEF Says
  <2>3. QED
    BY ZenonT(40), <2>1, <2>2 DEF Announced, Valid
<1>8. QED
  BY Zenon, <1>6, <1>7, QueueSteps

LEMMA KnownStays ==
  ASSUME TypeOK, Tables, Next, descriptors' = descriptors
  PROVE  \A k : Known(k)' = Known(k)
<1>1. descriptors \in [Sids -> Sids \cup {None}]
  BY Zenon DEF TypeOK
<1>2. \A d \in Sids : descriptors[d] # None => descriptors[d] \in Sids /\ descriptors[d] < next_sid
  BY Zenon, <1>1 DEF Tables, Catalog
<1>3. \A d \in Sids : descriptors[d] # None => info'[descriptors[d]] = info[descriptors[d]]
  BY Zenon, <1>2, InfoStays
<1>4. QED
  BY ZenonT(40), <1>3 DEF Known

LEMMA KnownOne ==
  ASSUME Tables, NEW k, NEW d \in Known(k)
  PROVE  Known(k) = {d}
<1>1. \A e \in Known(k) : e \in Sids /\ descriptors[e] # None /\ info[descriptors[e]].track = k
  BY Zenon DEF Known
<1>2. \A e \in Known(k) : info[e].track = k
  BY Zenon, <1>1 DEF Tables, Catalog
<1>3. \A e \in Known(k) : e = d
  BY ZenonT(40), <1>1, <1>2 DEF Tables, Once
<1>4. QED
  BY Zenon, <1>3

\* After an update of a track it is known under the SID of the update.
LEMMA UpdateKnown ==
  ASSUME TypeOK, Tables, NEW k \in Tracks, NEW sid \in Sids \cup {None}, UNCHANGED sfuVars,
         Valid(k, sid),
         \/ PublishedAs(k, sid) \/ AsItWas(k, sid)
         \/ \E old \in Sids : MovedTo(k, old, sid) \/ EndedFor(k, old, sid)
  PROVE  /\ Known(k)' = {sid} \ {None}
         /\ \A j \in Tracks : j # k => Known(j)' = Known(j)
<1>0. /\ descriptors \in [Sids -> Sids \cup {None}] /\ None \notin Sids /\ info' = info
      /\ \A d \in Sids : descriptors[d] # None => info[descriptors[d]].track = info[d].track
  BY SMTT(30) DEF TypeOK, Sids, None, sfuVars, Tables, Catalog
<1>1. sid \in Sids => info[sid].track = k
  BY Zenon, <1>0 DEF Valid
<1>2. \A j : Known(j)' = {d \in Sids : descriptors'[d] # None /\ info[descriptors'[d]].track = j}
  BY Zenon, <1>0 DEF Known
<1>3. CASE AsItWas(k, sid)
  <2>1. \A j : Known(j)' = Known(j)
    <3>1. descriptors' = descriptors
      BY Zenon, <1>3 DEF AsItWas
    <3>2. QED
      BY ZenonT(40), <1>2, <3>1 DEF Known
  <2>2. sid \in Known(k) => sid \in Sids
    BY Zenon DEF Known
  <2>3. sid \in Known(k) => Known(k) = {sid}
    BY Zenon, KnownOne
  <2>4. QED
    BY Zenon, <1>0, <1>3, <2>1, <2>2, <2>3 DEF AsItWas
<1>4. CASE PublishedAs(k, sid)
  <2>1. sid \in Sids /\ Known(k) = {} /\ descriptors' = [descriptors EXCEPT ![sid] = sid]
    BY Zenon, <1>4 DEF PublishedAs, HandleTrackPublished
  <2>2. descriptors[sid] = None
    BY Zenon, <1>1, <2>1, KnownFacts
  <2>3. \A d \in Sids : \/ d = sid /\ descriptors'[d] = sid
                        \/ d # sid /\ descriptors'[d] = descriptors[d]
    BY Zenon, <1>0, <2>1
  <2>4. Known(k)' = {sid}
    BY ZenonT(40), <1>0, <1>1, <1>2, <2>1, <2>3 DEF Known
  <2>5. \A j \in Tracks : j # k => Known(j)' = Known(j)
    BY Zenon, <1>0, <1>1, <1>2, <2>1, <2>2, <2>3 DEF Known
  <2>6. QED
    BY Zenon, <1>0, <2>1, <2>4, <2>5
<1>5. ASSUME NEW old \in Sids, MovedTo(k, old, sid) \/ EndedFor(k, old, sid)
      PROVE  /\ Known(k)' = {sid} \ {None}
             /\ \A j \in Tracks : j # k => Known(j)' = Known(j)
  <2>1. /\ old \in Known(k) /\ sid \notin Known(k) /\ old # sid /\ info[old].track = k
        /\ descriptors[old] # None /\ info[descriptors[old]].track = k
    BY Zenon, <1>0, <1>5 DEF MovedTo, EndedFor, Known
  <2>2. Known(k) = {old}
    BY Zenon, <2>1, KnownOne
  <2>3. sid \in Sids => descriptors[sid] = None
    BY Zenon, <1>1, <2>1, KnownFacts
  <2>4. \A d \in Sids : \/ d = old /\ descriptors'[d] = None
                        \/ /\ d = sid /\ d # old /\ descriptors'[d] # None
                           /\ info[descriptors'[d]].track = k
                        \/ d # old /\ d # sid /\ descriptors'[d] = descriptors[d]
    <3>1. CASE MovedTo(k, old, sid)
      <4>1. sid \in Sids /\ descriptors' = [descriptors EXCEPT ![old] = None,
                                                               ![sid] = descriptors[old]]
        BY Zenon, <3>1 DEF MovedTo, HandleSidReassigned, Reassign
      <4>2. QED
        BY Zenon, <1>0, <2>1, <4>1
    <3>2. CASE EndedFor(k, old, sid)
      <4>1. descriptors' = [d \in Sids |-> CASE d = old -> None
                                             [] d = sid -> sid
                                             [] OTHER -> descriptors[d]]
        BY ZenonT(40), <3>2 DEF EndedFor, HandleTrackUnpublished
      <4>2. QED
        BY Zenon, <1>0, <1>1, <2>1, <4>1
    <3>3. QED
      BY Zenon, <1>5, <3>1, <3>2
  <2>5. Known(k)' = {sid} \ {None}
    <3>1. \A d \in Known(k)' : d = sid /\ d \in Sids
      <4>1. \A d \in Known(k)' : d \in Sids /\ descriptors'[d] # None /\ info[descriptors'[d]].track = k
        BY Zenon, <1>2
      <4>2. \A d \in Sids : descriptors[d] # None /\ info[descriptors[d]].track = k => d = old
        BY Zenon, <2>2 DEF Known
      <4>3. QED
        BY Zenon, <2>4, <4>1, <4>2
    <3>2. sid \in Sids => sid \in Known(k)'
      BY Zenon, <1>2, <2>1, <2>4
    <3>3. QED
      BY Zenon, <1>0, <3>1, <3>2
  <2>6. ASSUME NEW j \in Tracks, j # k PROVE Known(j)' = Known(j)
    <3>1. \A d \in Sids : d \in Known(j)' <=> d \in Known(j)
      <4>1. SUFFICES ASSUME NEW d \in Sids PROVE d \in Known(j)' <=> d \in Known(j)
        BY ZenonT(40)
      <4>2. d \in Known(j)' <=> descriptors'[d] # None /\ info[descriptors'[d]].track = j
        BY Zenon, <1>2, <4>1
      <4>3. d \in Known(j) <=> descriptors[d] # None /\ info[descriptors[d]].track = j
        BY Zenon, <4>1 DEF Known
      <4>4. CASE d = old
        BY Zenon, <2>1, <2>4, <2>6, <4>2, <4>3, <4>4
      <4>5. CASE d = sid /\ d # old
        BY Zenon, <2>3, <2>4, <2>6, <4>2, <4>3, <4>5
      <4>6. CASE d # sid /\ d # old
        BY Zenon, <2>4, <4>2, <4>3, <4>6
      <4>7. QED
        BY ZenonT(40), <4>4, <4>5, <4>6
    <3>2. QED
      BY Zenon, <3>1, <1>2 DEF Known
  <2>7. QED
    BY Zenon, <2>5, <2>6
<1>6. QED
  BY ZenonT(40), <1>3, <1>4, <1>5

LEMMA ToldStep ==
  ASSUME TypeOK, TypeOK', Next, mgr' = "running", ~lost', Tables, Announced, Told
  PROVE  Told'
<1>0. inq \in Seq(Events) /\ live' \in [Tracks -> Sids \cup {None}]
  BY ZenonT(40), Queued DEF TypeOK
<1>1. CASE OnSfuPublicationUpdates
  <2>1. PICK k \in Tracks, sid \in Sids \cup {None} :
            /\ IsUpdate(Head(inq), k) /\ Head(inq).sid = sid /\ inq # <<>> /\ inq' = Tail(inq)
            /\ \/ PublishedAs(k, sid) \/ AsItWas(k, sid)
               \/ \E old \in Sids : MovedTo(k, old, sid) \/ EndedFor(k, old, sid)
            /\ UNCHANGED sfuVars
    BY Zenon, <1>1, UpdateCases
  <2>2. Valid(k, sid)
    BY ZenonT(40), <2>1, HeadAnnounced
  <2>3. /\ Known(k)' = {sid} \ {None} /\ live' = live
        /\ \A j \in Tracks : j # k => Known(j)' = Known(j)
    BY Zenon, <2>1, <2>2, UpdateKnown DEF sfuVars
  <2>4. ASSUME NEW j \in Tracks
        PROVE  LastUpdate(inq', j, live[j]) \/ (NoUpdate(inq', j) /\ Known(j)' = {live[j]} \ {None})
    <3>1. LastUpdate(inq, j, live[j]) \/ (NoUpdate(inq, j) /\ Known(j) = {live[j]} \ {None})
      BY Zenon DEF Told
    <3>2. CASE j = k
      <4>1. LastUpdate(inq, k, live[k])
        BY Zenon, <1>0, <2>1, <3>1, <3>2, UpdateTailed
      <4>2. LastUpdate(inq', k, live[k]) \/ (NoUpdate(inq', k) /\ sid = live[k])
        BY Zenon, <1>0, <2>1, <4>1, UpdateTailed
      <4>3. QED
        BY ZenonT(40), <2>3, <3>2, <4>2
    <3>3. CASE j # k
      <4>1. ~IsUpdate(Head(inq), j)
        BY Zenon, <2>1, <3>3 DEF IsUpdate
      <4>2. QED
        BY Zenon, <1>0, <2>1, <2>3, <3>1, <3>3, <4>1, UpdateTailed
    <3>4. QED
      BY Zenon, <3>2, <3>3
  <2>5. QED
    BY Zenon, <2>3, <2>4 DEF Told
<1>2. CASE ~OnSfuPublicationUpdates
  <2>1. descriptors' = descriptors
    BY Zenon, <1>2, TableSteps DEF OnSubscribeRequest, OnUnsubscribeRequest, Unsubscribe,
                            OnSfuSubscriberHandles, mgrVars, tables
  <2>2. \A j : Known(j)' = Known(j)
    BY Zenon, <2>1, KnownStays
  <2>3. CASE Hears
    <3>1. ASSUME NEW j \in Tracks, NEW v
          PROVE  /\ LastUpdate(inq, j, v) => LastUpdate(inq', j, v)
                 /\ NoUpdate(inq, j) => NoUpdate(inq', j)
      <4>1. CASE inq' = inq
        BY Zenon, <4>1
      <4>2. ASSUME NEW e \in Events, e.type # "Publications", inq' = Append(inq, e)
            PROVE  /\ LastUpdate(inq, j, v) => LastUpdate(inq', j, v)
                   /\ NoUpdate(inq, j) => NoUpdate(inq', j)
        <5>1. ~IsUpdate(e, j)
          BY Zenon, <4>2 DEF IsUpdate
        <5>2. QED
          BY Zenon, <1>0, <4>2, <5>1, UpdateAppended
      <4>3. ASSUME NEW s \in Subscribers, inq' = Withdrawn(inq, s)
            PROVE  /\ LastUpdate(inq, j, v) => LastUpdate(inq', j, v)
                   /\ NoUpdate(inq, j) => NoUpdate(inq', j)
        BY Zenon, <1>0, <4>3, UpdateWithdrawn
      <4>4. ASSUME inq # <<>>, inq' = Tail(inq), Head(inq).type # "Publications"
            PROVE  /\ LastUpdate(inq, j, v) => LastUpdate(inq', j, v)
                   /\ NoUpdate(inq, j) => NoUpdate(inq', j)
        <5>1. ~IsUpdate(Head(inq), j)
          BY Zenon, <4>4 DEF IsUpdate
        <5>2. QED
          BY Zenon, <1>0, <4>4, <5>1, UpdateTailed
      <4>5. QED
        BY Zenon, <1>2, <2>3, <4>1, <4>2, <4>3, <4>4 DEF Hears
    <3>2. live' = live
      BY Zenon, <2>3 DEF Hears
    <3>3. QED
      BY Zenon, <2>2, <3>1, <3>2 DEF Told
  <2>4. ASSUME NEW k \in Tracks, Says(k) PROVE Told'
    <3>1. PICK e \in Events : e = SfuPublicationUpdates(k, live'[k])
      BY Zenon, <1>0, EventKinds
    <3>2. e.type = "Publications" /\ e.track = k /\ e.sid = live'[k]
      BY Zenon, <3>1 DEF SfuPublicationUpdates
    <3>3. inq' = Append(inq, e)
      BY ZenonT(40), <2>4, <3>1 DEF Says
    <3>4. LastUpdate(inq', k, live'[k])
      BY Zenon, <1>0, <3>2, <3>3, UpdateAppended DEF IsUpdate
    <3>5. ASSUME NEW j \in Tracks, j # k
          PROVE  \/ LastUpdate(inq', j, live'[j])
                 \/ NoUpdate(inq', j) /\ Known(j)' = {live'[j]} \ {None}
      <4>1. ~IsUpdate(e, j)
        BY Zenon, <3>2, <3>5 DEF IsUpdate
      <4>2. live'[j] = live[j]
        BY ZenonT(40), <2>4, <3>5 DEF Says
      <4>3. LastUpdate(inq, j, live[j]) \/ (NoUpdate(inq, j) /\ Known(j) = {live[j]} \ {None})
        BY Zenon DEF Told
      <4>4. QED
        BY ZenonT(40), <1>0, <2>2, <3>3, <4>1, <4>2, <4>3, UpdateAppended
    <3>6. QED
      BY ZenonT(40), <3>4, <3>5 DEF Told
  <2>5. QED
    BY Zenon, <2>3, <2>4, QueueSteps
<1>3. QED
  BY Zenon, <1>1, <1>2

-----------------------------------------------------------------------------
(* What has been asked of the SFU.                                         *)

LEMMA ReachKept ==
  ASSUME TypeOK, NEW d, NEW k, Requested(outq, d) \/ Coming(inq, d, k),
         outq' = outq \/ \E u \in Updates : outq' = Append(outq, u),
         \/ inq' = inq
         \/ \E e \in Events : inq' = Append(inq, e)
         \/ \E s \in Subscribers : inq' = Withdrawn(inq, s)
         \/ inq # <<>> /\ inq' = Tail(inq) /\ ~Reaches(Head(inq), d, k)
  PROVE  Requested(outq', d) \/ Coming(inq', d, k)
<1>1. inq \in Seq(Events) /\ outq \in Seq(Updates)
  BY Zenon, Queued
<1>2. Requested(outq, d) => Requested(outq', d)
  BY Zenon, <1>1, RequestedKept
<1>3. Coming(inq, d, k) => Coming(inq', d, k)
  BY Zenon, <1>1, ComingKept
<1>4. QED
  BY Zenon, <1>2, <1>3

Pending(d) == d \in Sids /\ descriptors[d] # None /\ subscription[descriptors[d]] = "Pending"

LEMMA AskedKept ==
  ASSUME TypeOK, Tables, Next, Asked,
         \A d \in Sids : Pending(d)' => Pending(d),
         outq' = outq \/ \E u \in Updates : outq' = Append(outq, u),
         \/ inq' = inq
         \/ \E e \in Events : inq' = Append(inq, e)
         \/ \E s \in Subscribers : inq' = Withdrawn(inq, s)
         \/ /\ inq # <<>> /\ inq' = Tail(inq)
            /\ Head(inq).type \notin {"Handles", "Resend", "Publications"}
  PROVE  Asked'
<1>1. SUFFICES ASSUME NEW d \in Sids, Pending(d)'
               PROVE  Requested(outq', d) \/ Coming(inq', d, info'[d].track)
  BY Zenon DEF Asked, Pending
<1>2. Pending(d)
  BY Zenon, <1>1
<1>3. info'[d] = info[d]
  BY Zenon, <1>2, InfoStays DEF Pending, Tables, Catalog
<1>4. PICK k : k = info[d].track
  BY Zenon
<1>5. Requested(outq, d) \/ Coming(inq, d, k)
  BY ZenonT(40), <1>2, <1>4 DEF Asked, Pending
<1>6. Head(inq).type \notin {"Handles", "Resend", "Publications"} => ~Reaches(Head(inq), d, k)
  BY Zenon DEF Reaches, IsUpdate
<1>7. Requested(outq', d) \/ Coming(inq', d, k)
  BY Zenon, <1>5, <1>6, ReachKept
<1>8. QED
  BY Zenon, <1>3, <1>4, <1>7

\* Steps of the others put an event into the channel, or withdraw a call.
LEMMA QuietSteps ==
  ASSUME TypeOK, Next, mgr' = "running"
  PROVE  \/ ManagerStep \/ SfuTakes \/ FullReconnect
         \/ /\ UNCHANGED tables /\ outq' = outq /\ next_handle' = next_handle
            /\ \/ inq' = inq
               \/ \E e \in Events : e.type # "Handles" /\ inq' = Append(inq, e)
               \/ \E s \in Subscribers : inq' = Withdrawn(inq, s)
<1>0. /\ live \in [Tracks -> Sids \cup {None}] /\ next_sid \in 1..(MaxSids + 1)
      /\ info_sid \in [Sids -> Sids] /\ task_sid \in [Sids -> Sids]
  BY Zenon DEF TypeOK
<1>1. ASSUME NEW s \in Subscribers, NEW o \in Sids, Subscribe(s, o)
      PROVE  /\ UNCHANGED tables /\ outq' = outq /\ next_handle' = next_handle
             /\ \E e \in Events : e.type # "Handles" /\ inq' = Append(inq, e)
  <2>1. SubscribeRequest(info_sid[o], s) \in Events
        /\ SubscribeRequest(info_sid[o], s).type # "Handles"
    BY Zenon, <1>0, EventKinds DEF SubscribeRequest
  <2>2. QED
    BY ZenonT(40), <1>1, <2>1 DEF Subscribe, sfuVars, mgrVars, subVars, tables
<1>2. ASSUME NEW s \in Subscribers, SubscribeTimeout(s) \/ DropStream(s)
      PROVE  /\ UNCHANGED tables /\ outq' = outq /\ next_handle' = next_handle
             /\ inq' = inq \/ inq' = Withdrawn(inq, s)
  BY Zenon, <1>2 DEF SubscribeTimeout, DropStream, Withdrawn, queues, sfuVars, mgrVars, subVars,
      tables
<1>3. ASSUME NEW o \in Sids, TaskStep(o)
      PROVE  /\ UNCHANGED tables /\ outq' = outq /\ next_handle' = next_handle
             /\ inq' = inq \/ \E e \in Events : e.type # "Handles" /\ inq' = Append(inq, e)
  <2>1. UnsubscribeRequest(task_sid[o]) \in Events
        /\ UnsubscribeRequest(task_sid[o]).type # "Handles"
    BY Zenon, <1>0, EventKinds DEF UnsubscribeRequest
  <2>2. inq' = inq \/ inq' = Append(inq, UnsubscribeRequest(task_sid[o]))
    BY Zenon, <1>3 DEF TaskStep, TaskUnpublished, TaskClosing, TaskUnsubscribes, queues
  <2>3. UNCHANGED tables /\ outq' = outq /\ next_handle' = next_handle
    BY Zenon, <1>3 DEF TaskStep, TaskUnpublished, TaskClosing, TaskUnsubscribes, queues, sfuVars,
                mgrVars, subVars, tables
  <2>4. QED
    BY Zenon, <2>1, <2>2, <2>3
<1>4. ASSUME NEW e \in Events, e.type # "Handles", TrySend(e)
      PROVE  inq' = inq \/ \E f \in Events : f.type # "Handles" /\ inq' = Append(inq, f)
  BY Zenon, <1>4 DEF TrySend
<1>5. ASSUME NEW k \in Tracks, SfuPublish(k) \/ SfuUnpublish(k)
      PROVE  /\ UNCHANGED tables /\ outq' = outq /\ next_handle' = next_handle
             /\ inq' = inq \/ \E e \in Events : e.type # "Handles" /\ inq' = Append(inq, e)
  <2>1. PICK d \in Sids \cup {None} : TrySend(SfuPublicationUpdates(k, d))
    <3>1. SfuPublish(k) => next_sid \in Sids /\ TrySend(SfuPublicationUpdates(k, next_sid))
      <4>1. SfuPublish(k) => next_sid <= MaxSids /\ TrySend(SfuPublicationUpdates(k, next_sid))
        BY ZenonT(40) DEF SfuPublish
      <4>2. next_sid <= MaxSids => next_sid \in Sids
        BY SMTT(30), RemoteTracksAssumption DEF TypeOK, Sids
      <4>3. QED
        BY Zenon, <4>1, <4>2
    <3>2. SfuUnpublish(k) => TrySend(SfuPublicationUpdates(k, None))
      BY Zenon DEF SfuUnpublish
    <3>3. QED
      BY Zenon, <1>5, <3>1, <3>2
  <2>2. UNCHANGED tables /\ outq' = outq /\ next_handle' = next_handle
    BY ZenonT(40), <1>5 DEF SfuPublish, SfuUnpublish, localVars, mgrVars, subVars, tables
  <2>3. SfuPublicationUpdates(k, d).type # "Handles"
    BY Zenon DEF SfuPublicationUpdates
  <2>4. QED
    BY Zenon, <1>4, <2>1, <2>2, <2>3, EventKinds
<1>6. CASE SfuNoise \/ RoomCloses
  <2>1. PICK e \in Events : e.type # "Handles" /\ TrySend(e)
    <3>1. \A k \in Tracks : /\ SfuPublicationUpdates(k, live[k]) \in Events
                            /\ SfuPublicationUpdates(k, live[k]).type # "Handles"
      BY Zenon, <1>0, EventKinds DEF SfuPublicationUpdates
    <3>2. Event("Packet").type # "Handles" /\ Event("Shutdown").type # "Handles"
      BY Zenon DEF Event
    <3>3. QED
      BY ZenonT(40), <1>6, <3>1, <3>2, EventKinds DEF SfuNoise, RoomCloses
  <2>2. UNCHANGED tables /\ outq' = outq /\ next_handle' = next_handle
    BY Zenon, <1>6 DEF SfuNoise, RoomCloses, localVars, sfuVars, mgrVars, subVars, tables
  <2>3. QED
    BY Zenon, <1>4, <2>1, <2>2
<1>7. QED
  BY Zenon, <1>1, <1>2, <1>3, <1>5, <1>6 DEF Next

LEMMA TakesAsked ==
  ASSUME TypeOK, Next, mgr' = "running", ~lost', next_handle <= MaxHandles, SfuTakes,
         Tables, Told, Asked
  PROVE  Asked'
<1>1. SUFFICES ASSUME NEW d \in Sids, Pending(d)'
               PROVE  Requested(outq', d) \/ Coming(inq', d, info'[d].track)
  BY Zenon DEF Asked, Pending
<1>2. /\ outq # <<>> /\ outq' = Tail(outq) /\ info' = info
      /\ descriptors' = descriptors /\ subscription' = subscription
      /\ inq \in Seq(Events) /\ outq \in Seq(Updates)
  BY Zenon, Queued DEF SfuTakes, localVars, mgrVars, subVars
<1>3. Pending(d)
  BY ZenonT(40), <1>1, <1>2 DEF Pending
<1>4. PICK k \in Tracks : k = info[d].track
  BY Zenon DEF TypeOK
<1>5. d \in Known(k)
  BY Zenon, <1>3, <1>4 DEF Known, Pending, Tables, Catalog
<1>6. PICK u \in Updates : u = Head(outq)
  BY ZenonT(40), <1>2, Tailed
<1>7. next_handle \in Handles /\ u.sid \in Sids
  BY SMTT(30), <1>6, RemoteTracksAssumption DEF TypeOK, Handles, Updates
<1>8. SfuSubscriberHandles(next_handle, u.sid) \in Events
  BY Zenon, <1>7, EventKinds
<1>9. \/ inq' = inq
      \/ inq' = Append(inq, SfuSubscriberHandles(next_handle, u.sid))
  BY Zenon, <1>6 DEF SfuTakes, TrySend
<1>10. Coming(inq, d, k) => Coming(inq', d, k)
  BY Zenon, <1>2, <1>8, <1>9, ComingKept
<1>11. CASE u # SfuUpdateSubscription(d, TRUE)
  <2>1. Requested(outq, d) => Requested(outq', d)
    BY Zenon, <1>2, <1>6, <1>11, RequestedKept
  <2>2. QED
    BY Zenon, <1>2, <1>3, <1>4, <1>10, <2>1 DEF Asked, Pending
<1>12. CASE u = SfuUpdateSubscription(d, TRUE)
  <2>1. u.sid = d /\ u.subscribe = TRUE
    BY Zenon, <1>12 DEF SfuUpdateSubscription
  <2>2. CASE \E j \in Tracks : live[j] = d
    <3>1. TrySend(SfuSubscriberHandles(next_handle, d))
      BY Zenon, <1>6, <2>1, <2>2 DEF SfuTakes
    <3>2. inq' = Append(inq, SfuSubscriberHandles(next_handle, d))
      BY Zenon, <3>1 DEF TrySend
    <3>3. Reaches(SfuSubscriberHandles(next_handle, d), d, k)
      BY Zenon DEF Reaches, SfuSubscriberHandles
    <3>4. QED
      BY Zenon, <1>2, <1>4, <1>8, <2>1, <3>2, <3>3, ComingKept
  <2>3. CASE ~ \E j \in Tracks : live[j] = d
    <3>1. live[k] # d
      BY Zenon, <2>3
    <3>2. LastUpdate(inq, k, live[k])
      BY Zenon, <1>5, <3>1 DEF Told
    <3>3. Coming(inq, d, k)
      BY Zenon, <3>1, <3>2 DEF LastUpdate, Coming, Reaches
    <3>4. QED
      BY Zenon, <1>2, <1>4, <1>10, <3>3
  <2>4. QED
    BY Zenon, <2>2, <2>3
<1>13. QED
  BY Zenon, <1>11, <1>12

LEMMA SubscribeAsked ==
  ASSUME TypeOK, Next, OnSubscribeRequest, Tables, Asked
  PROVE  Asked'
<1>1. Take("Subscribe")
  BY Zenon DEF OnSubscribeRequest
<1>2. /\ Head(inq) \in Events /\ Head(inq).type = "Subscribe" /\ inq # <<>> /\ inq' = Tail(inq)
      /\ outq \in Seq(Updates)
  BY Zenon, <1>1, TakeTypes, Queued
<1>3. PICK sid \in Sids : sid = Head(inq).sid
  BY Zenon, <1>2, EventParts
<1>4. PICK o : o = descriptors[sid]
  BY Zenon
<1>5. UNCHANGED <<descriptors, info>>
  BY Zenon DEF OnSubscribeRequest, mgrVars, sfuVars
<1>6. CASE subscription' = subscription /\ outq' = outq
  BY Zenon, <1>2, <1>5, <1>6, AskedKept DEF Pending
<1>7. CASE /\ o # None /\ outq' = Append(outq, SfuUpdateSubscription(sid, TRUE))
           /\ subscription' = [subscription EXCEPT ![o] = "Pending"]
  <2>1. SUFFICES ASSUME NEW d \in Sids, Pending(d)'
                 PROVE  Requested(outq', d) \/ Coming(inq', d, info'[d].track)
    BY Zenon DEF Asked, Pending
  <2>2. SfuUpdateSubscription(sid, TRUE) \in Updates
    BY Zenon, EventKinds
  <2>3. CASE d = sid
    BY ZenonT(40), <1>2, <1>7, <2>2, <2>3, RequestedKept
  <2>4. CASE d # sid
    <3>1. descriptors[d] # None
      BY Zenon, <1>5, <2>1 DEF Pending
    <3>2. descriptors[d] # o
      BY Zenon, <1>4, <2>4, <3>1, DescribedOnce DEF Tables
    <3>3. Pending(d)
      BY SMTT(30), <1>5, <1>7, <2>1, <3>1, <3>2 DEF Pending, TypeOK
    <3>4. Requested(outq, d) \/ Coming(inq, d, info[d].track)
      BY Zenon, <3>3 DEF Asked, Pending
    <3>5. ~Reaches(Head(inq), d, info[d].track)
      BY Zenon, <1>2 DEF Reaches, IsUpdate
    <3>6. Requested(outq', d) \/ Coming(inq', d, info[d].track)
      BY Zenon, <1>2, <1>7, <2>2, <3>4, <3>5, ReachKept
    <3>7. QED
      BY Zenon, <1>5, <3>6
  <2>5. QED
    BY Zenon, <2>3, <2>4
<1>8. QED
  BY Zenon, <1>3, <1>4, <1>6, <1>7 DEF OnSubscribeRequest

LEMMA UnsubscribeAsked ==
  ASSUME TypeOK, Next, OnUnsubscribeRequest, Tables, Asked
  PROVE  Asked'
<1>1. Take("Unsubscribe") /\ Unsubscribe(Head(inq).sid, IsActive(Head(inq).sid),
                                         WithoutRoute(Head(inq).sid))
  BY Zenon DEF OnUnsubscribeRequest
<1>2. /\ Head(inq) \in Events /\ Head(inq).type = "Unsubscribe" /\ inq # <<>>
      /\ inq' = Tail(inq)
  BY Zenon, <1>1, TakeTypes
<1>3. PICK sid \in Sids : sid = Head(inq).sid
  BY Zenon, <1>2, EventParts
<1>4. SfuUpdateSubscription(sid, FALSE) \in Updates
  BY Zenon, EventKinds
<1>5. /\ descriptors' = descriptors
      /\ \/ subscription' = subscription /\ outq' = outq
         \/ /\ \E o : subscription' = [subscription EXCEPT ![o] = "None"]
            /\ outq' = Append(outq, SfuUpdateSubscription(sid, FALSE))
  BY Zenon, <1>1, <1>3 DEF Unsubscribe
<1>6. \A d \in Sids : Pending(d)' => Pending(d)
  <2>1. subscription \in [Sids -> {"None", "Pending", "Active"}]
        /\ descriptors \in [Sids -> Sids \cup {None}]
    BY Zenon DEF TypeOK
  <2>2. \A x \in Sids : subscription'[x] \in {subscription[x], "None"}
    BY Zenon, <1>5, <2>1
  <2>3. \A x \in Sids : subscription'[x] = "Pending" => subscription[x] = "Pending"
    BY Zenon, <2>2
  <2>4. QED
    BY ZenonT(40), <1>5, <2>1, <2>3 DEF Pending
<1>7. QED
  BY Zenon, <1>2, <1>4, <1>5, <1>6, AskedKept

LEMMA HandlesAsked ==
  ASSUME TypeOK, Next, OnSfuSubscriberHandles, Tables, Asked
  PROVE  Asked'
<1>1. Take("Handles")
  BY Zenon DEF OnSfuSubscriberHandles
<1>2. Head(inq) \in Events /\ Head(inq).type = "Handles" /\ inq # <<>> /\ inq' = Tail(inq)
  BY Zenon, <1>1, TakeTypes
<1>3. PICK sid \in Sids : sid = Head(inq).sid
  BY Zenon, <1>2, EventParts
<1>4. PICK o : o = descriptors[sid]
  BY Zenon
<1>5. UNCHANGED <<descriptors, info, outq>>
  BY Zenon DEF OnSfuSubscriberHandles, sfuVars
<1>6. \/ subscription' = subscription /\ (o = None \/ subscription[o] # "Pending")
      \/ o # None /\ subscription' = [subscription EXCEPT ![o] = "Active"]
  <2>1. CASE o = None \/ subscription[o] = "None"
    BY Zenon, <1>3, <1>4, <2>1 DEF OnSfuSubscriberHandles, subVars
  <2>2. CASE ~(o = None \/ subscription[o] = "None")
    BY ZenonT(40), <1>3, <1>4, <2>2 DEF OnSfuSubscriberHandles, subVars
  <2>3. QED
    BY Zenon, <2>1, <2>2
<1>7. SUFFICES ASSUME NEW d \in Sids, Pending(d)'
               PROVE  Requested(outq', d) \/ Coming(inq', d, info'[d].track)
  BY Zenon DEF Asked, Pending
<1>8. Pending(d) /\ d # sid
  <2>1. /\ subscription \in [Sids -> {"None", "Pending", "Active"}]
        /\ descriptors \in [Sids -> Sids \cup {None}]
    BY Zenon DEF TypeOK
  <2>2. descriptors[d] \in Sids /\ subscription'[descriptors[d]] = "Pending"
    BY Zenon, <1>5, <1>7, <2>1 DEF Pending
  <2>3. descriptors[d] # o /\ subscription[descriptors[d]] = "Pending"
    <3>1. CASE subscription' = subscription /\ (o = None \/ subscription[o] # "Pending")
      <4>1. descriptors[d] # None
        BY Zenon, <1>5, <1>7 DEF Pending
      <4>2. QED
        BY Zenon, <2>2, <3>1, <4>1
    <3>2. CASE subscription' = [subscription EXCEPT ![o] = "Active"]
      BY Zenon, <2>1, <2>2, <3>2
    <3>3. QED
      BY Zenon, <1>6, <3>1, <3>2
  <2>4. QED
    BY Zenon, <1>4, <1>5, <1>7, <2>3 DEF Pending
<1>9. Requested(outq, d) \/ Coming(inq, d, info[d].track)
  BY Zenon, <1>8 DEF Asked, Pending
<1>10. ~Reaches(Head(inq), d, info[d].track)
  BY ZenonT(40), <1>2, <1>3, <1>8 DEF Reaches, IsUpdate
<1>11. Requested(outq', d) \/ Coming(inq', d, info[d].track)
  BY ZenonT(40), <1>2, <1>5, <1>9, <1>10, ReachKept
<1>12. QED
  BY Zenon, <1>5, <1>11

LEMMA ResendAsked ==
  ASSUME TypeOK, OnResendSubscriptionUpdates
  PROVE  Asked'
<1>1. PICK A \in SUBSET Sids : A = {d \in Sids : /\ descriptors[d] # None
                                                 /\ subscription[descriptors[d]] # "None"}
  BY Zenon
<1>2. PICK q \in Orders(A) : outq' = outq \o [i \in DOMAIN q |-> SfuUpdateSubscription(q[i], TRUE)]
  BY Zenon, <1>1 DEF OnResendSubscriptionUpdates
<1>3. \A d \in A : Requested(outq', d)
  BY Zenon, <1>1, <1>2, Resent
<1>4. descriptors' = descriptors /\ subscription' = subscription
  BY Zenon DEF OnResendSubscriptionUpdates, mgrVars, subVars
<1>5. QED
  BY Zenon, <1>1, <1>3, <1>4 DEF Asked

LEMMA UpdateAsked ==
  ASSUME TypeOK, Next, OnSfuPublicationUpdates, Tables, Announced, Asked
  PROVE  Asked'
<1>1. PICK k \in Tracks, sid \in Sids \cup {None} :
          /\ IsUpdate(Head(inq), k) /\ Head(inq).sid = sid /\ inq # <<>> /\ inq' = Tail(inq)
          /\ \/ PublishedAs(k, sid) \/ AsItWas(k, sid)
             \/ \E old \in Sids : MovedTo(k, old, sid) \/ EndedFor(k, old, sid)
          /\ UNCHANGED sfuVars
  BY Zenon, UpdateCases
<1>2. Valid(k, sid)
  BY Zenon, <1>1, HeadAnnounced
<1>3. /\ info' = info /\ outq \in Seq(Updates) /\ None \notin Sids
      /\ descriptors \in [Sids -> Sids \cup {None}]
      /\ subscription \in [Sids -> {"None", "Pending", "Active"}]
      /\ sid \in Sids => info[sid].track = k
  <2>1. /\ outq \in Seq(Updates) /\ None \notin Sids
        /\ descriptors \in [Sids -> Sids \cup {None}]
        /\ subscription \in [Sids -> {"None", "Pending", "Active"}]
    <3>1. None \notin Sids
      BY DEF Sids, None
    <3>2. QED
      BY Zenon, <3>1, Queued DEF TypeOK
  <2>2. info' = info
    BY Zenon, <1>1 DEF sfuVars
  <2>3. QED
    BY ZenonT(40), <1>2, <2>1, <2>2 DEF Valid
<1>4. \A d \in Sids : descriptors[d] # None /\ info[d].track = k => d \in Known(k)
  BY ZenonT(40) DEF Tables, Catalog, Known
<1>5. ASSUME NEW d \in Sids, Pending(d), info[d].track # k \/ d = sid,
             outq' = outq \/ \E u \in Updates : outq' = Append(outq, u)
      PROVE  Requested(outq', d) \/ Coming(inq', d, info'[d].track)
  <2>1. ~Reaches(Head(inq), d, info[d].track)
    BY Zenon, <1>1, <1>5 DEF Reaches, IsUpdate
  <2>2. Requested(outq, d) \/ Coming(inq, d, info[d].track)
    BY Zenon, <1>5 DEF Asked, Pending
  <2>3. Requested(outq', d) \/ Coming(inq', d, info[d].track)
    BY Zenon, <1>1, <1>5, <2>1, <2>2, ReachKept
  <2>4. QED
    BY Zenon, <1>3, <2>3
<1>6. SUFFICES ASSUME NEW d \in Sids, Pending(d)'
               PROVE  Requested(outq', d) \/ Coming(inq', d, info'[d].track)
  BY Zenon DEF Asked, Pending
<1>7. CASE AsItWas(k, sid)
  <2>1. Pending(d) /\ outq' = outq
    BY Zenon, <1>6, <1>7 DEF Pending, AsItWas, subVars
  <2>2. ASSUME info[d].track = k PROVE d = sid
    <3>1. d \in Known(k)
      BY Zenon, <1>4, <2>1, <2>2 DEF Pending
    <3>2. sid \in Known(k)
      BY Zenon, <1>7, <3>1 DEF AsItWas
    <3>3. QED
      BY Zenon, <3>1, <3>2, KnownOne
  <2>3. QED
    BY Zenon, <1>5, <2>1, <2>2
<1>8. CASE PublishedAs(k, sid)
  <2>1. /\ sid \in Sids /\ Known(k) = {} /\ descriptors' = [descriptors EXCEPT ![sid] = sid]
        /\ subscription' = subscription /\ outq' = outq
    BY Zenon, <1>8 DEF PublishedAs, HandleTrackPublished, subVars
  <2>2. d # sid
    <3>1. \A e \in Sids : descriptors[e] # sid
      BY ZenonT(40), <1>3, <2>1, KnownFacts
    <3>2. subscription[sid] = "None"
      BY Zenon, <2>1, <3>1 DEF Tables, Idle
    <3>3. QED
      BY Zenon, <1>3, <1>6, <2>1, <3>2 DEF Pending
  <2>3. Pending(d)
    BY ZenonT(40), <1>3, <1>6, <2>1, <2>2 DEF Pending
  <2>4. info[d].track # k
    BY Zenon, <1>4, <2>1, <2>3 DEF Pending
  <2>5. QED
    BY ZenonT(40), <1>5, <2>1, <2>3, <2>4
<1>9. ASSUME NEW old \in Sids, MovedTo(k, old, sid)
      PROVE  Requested(outq', d) \/ Coming(inq', d, info'[d].track)
  <2>1. PICK o : o = descriptors[old]
    BY Zenon
  <2>2. /\ sid \in Sids /\ old \in Known(k) /\ sid \notin Known(k) /\ old # sid
        /\ descriptors' = [descriptors EXCEPT ![old] = None, ![sid] = o]
        /\ subscription' = subscription
        /\ outq' = IF subscription[o] \in {"Pending", "Active"}
                     THEN Append(outq, SfuUpdateSubscription(sid, TRUE)) ELSE outq
    BY ZenonT(40), <1>9, <2>1 DEF MovedTo, HandleSidReassigned, Reassign, subVars
  <2>3. SfuUpdateSubscription(sid, TRUE) \in Updates
    BY Zenon, <2>2, EventKinds
  <2>4. CASE d = sid
    <3>1. subscription[o] = "Pending"
      BY Zenon, <1>3, <1>6, <2>2, <2>4 DEF Pending
    <3>2. outq' = Append(outq, SfuUpdateSubscription(sid, TRUE))
      BY Zenon, <2>2, <3>1
    <3>3. QED
      BY Zenon, <1>3, <2>3, <2>4, <3>2, RequestedKept
  <2>5. CASE d # sid
    <3>1. d # old /\ Pending(d)
      BY Zenon, <1>3, <1>6, <2>2, <2>5 DEF Pending
    <3>2. info[d].track # k
      BY ZenonT(40), <1>3, <1>4, <2>2, <3>1, KnownFacts DEF Pending
    <3>3. QED
      BY Zenon, <1>5, <2>2, <2>3, <3>1, <3>2
  <2>6. QED
    BY Zenon, <2>4, <2>5
<1>10. ASSUME NEW old \in Sids, EndedFor(k, old, sid)
       PROVE  Requested(outq', d) \/ Coming(inq', d, info'[d].track)
  <2>1. PICK o : o = descriptors[old]
    BY Zenon
  <2>2. /\ old \in Known(k) /\ sid \notin Known(k) /\ old # sid
        /\ descriptors' = [e \in Sids |-> CASE e = old -> None
                                            [] e = sid -> sid
                                            [] OTHER -> descriptors[e]]
        /\ subscription' = [subscription EXCEPT ![o] = "None"]
        /\ outq' = outq
    BY Zenon, <1>10, <2>1 DEF EndedFor, HandleTrackUnpublished, subVars
  <2>3. info[old].track = k
    BY Zenon, <2>2 DEF Known, Tables, Catalog
  <2>4. d # old
    BY Zenon, <1>6, <2>2 DEF Pending
  <2>5. d # sid
    <3>1. SUFFICES ASSUME d = sid PROVE FALSE
      BY Zenon
    <3>2. descriptors'[d] = sid /\ subscription'[sid] = "Pending"
      BY Zenon, <1>6, <2>2, <2>4, <3>1 DEF Pending
    <3>3. sid # o /\ subscription[sid] = "Pending"
      BY Zenon, <1>3, <2>2, <3>1, <3>2
    <3>4. \A e \in Sids : descriptors[e] # sid
      BY ZenonT(40), <1>3, <2>1, <2>2, <3>1, <3>3, KnownFacts
    <3>5. QED
      BY Zenon, <3>1, <3>3, <3>4 DEF Tables, Idle
  <2>6. descriptors'[d] = descriptors[d]
    BY Zenon, <2>2, <2>4, <2>5
  <2>7. Pending(d)
    BY Zenon, <1>3, <1>6, <2>2, <2>6 DEF Pending
  <2>8. info[d].track # k
    BY ZenonT(40), <1>4, <2>2, <2>3, <2>4, <2>7, KnownFacts DEF Pending
  <2>9. QED
    BY Zenon, <1>5, <2>2, <2>7, <2>8
<1>11. QED
  BY Zenon, <1>1, <1>7, <1>8, <1>9, <1>10

LEMMA AskedStep ==
  ASSUME TypeOK, Next, mgr' = "running", ~lost', next_handle' <= MaxHandles,
         Tables, Announced, Told, next_handle <= MaxHandles => Asked
  PROVE  Asked'
<1>0. next_handle \in Nat /\ inq \in Seq(Events)
  <2>1. next_handle \in Nat
    BY DEF TypeOK
  <2>2. QED
    BY ZenonT(40), <2>1, Queued
<1>1. CASE FullReconnect
  <2>1. inq' = Append(inq, Event("Resend")) /\ Event("Resend") \in Events
    BY Zenon, <1>1, EventKinds DEF FullReconnect, TrySend
  <2>2. \A d, k : Reaches(Event("Resend"), d, k)
    BY Zenon DEF Reaches, Event
  <2>3. \A d, k : Coming(inq', d, k)
    BY Zenon, <1>0, <2>1, <2>2, ComingKept
  <2>4. QED
    BY ZenonT(40), <2>3 DEF Asked
<1>2. CASE SfuTakes
  <2>1. next_handle <= MaxHandles
    BY Zenon, <1>0, <1>2, RemoteTracksAssumption DEF SfuTakes
  <2>2. QED
    BY Zenon, <1>2, <2>1, TakesAsked
<1>3. CASE ManagerStep
  <2>1. CASE OnSubscribeRequest
    <3>1. next_handle' = next_handle
      BY Zenon, <2>1 DEF OnSubscribeRequest, sfuVars
    <3>2. QED
      BY Zenon, <2>1, <3>1, SubscribeAsked
  <2>2. CASE OnUnsubscribeRequest
    <3>1. next_handle' = next_handle
      BY Zenon, <2>2 DEF OnUnsubscribeRequest, Unsubscribe, sfuVars
    <3>2. QED
      BY Zenon, <2>2, <3>1, UnsubscribeAsked
  <2>3. CASE OnSfuPublicationUpdates
    <3>1. next_handle' = next_handle
      BY ZenonT(40), <2>3 DEF OnSfuPublicationUpdates, sfuVars
    <3>2. QED
      BY Zenon, <2>3, <3>1, UpdateAsked
  <2>4. CASE OnSfuSubscriberHandles
    <3>1. next_handle' = next_handle
      BY Zenon, <2>4 DEF OnSfuSubscriberHandles, sfuVars
    <3>2. QED
      BY Zenon, <2>4, <3>1, HandlesAsked
  <2>5. CASE OnPacketReceived
    <3>1. /\ next_handle' = next_handle /\ outq' = outq
          /\ inq # <<>> /\ inq' = Tail(inq) /\ Head(inq).type = "Packet"
          /\ \A d \in Sids : Pending(d)' => Pending(d)
      BY Zenon, <2>5 DEF OnPacketReceived, Take, sfuVars, mgrVars, subVars, Pending
    <3>2. QED
      BY Zenon, <3>1, AskedKept
  <2>6. CASE OnResendSubscriptionUpdates
    BY Zenon, <2>6, ResendAsked
  <2>7. CASE OnShutdown \/ (\E d \in Sids : ShutdownNext(d)) \/ ShutdownEnd
    BY ZenonT(40), <2>7 DEF OnShutdown, ShutdownNext, ShutdownEnd
  <2>8. QED
    BY Zenon, <1>3, <2>1, <2>2, <2>3, <2>4, <2>5, <2>6, <2>7 DEF ManagerStep
<1>4. CASE /\ UNCHANGED tables /\ outq' = outq /\ next_handle' = next_handle
           /\ \/ inq' = inq
              \/ \E e \in Events : inq' = Append(inq, e)
              \/ \E s \in Subscribers : inq' = Withdrawn(inq, s)
  <2>1. \A d \in Sids : Pending(d)' => Pending(d)
    BY Zenon, <1>4 DEF Pending, tables
  <2>2. QED
    BY Zenon, <1>4, <2>1, AskedKept
<1>5. QED
  BY Zenon, <1>1, <1>2, <1>3, <1>4, QuietSteps

-----------------------------------------------------------------------------
(* The handles given out since the SFU began to count.                     *)

LEMMA HandlesAppended ==
  ASSUME NEW q \in Seq(Events), NEW e \in Events, NEW m \in Nat, Distinct(q, m)
  PROVE  /\ e.type # "Handles" =>
              /\ Distinct(Append(q, e), m)
              /\ \A h : Unheard(q, h) => Unheard(Append(q, e), h)
         /\ e.type = "Handles" /\ e.handle = m =>
              /\ Distinct(Append(q, e), m + 1)
              /\ \A h : h # m /\ Unheard(q, h) => Unheard(Append(q, e), h)
<1>1. PICK n \in Nat : n = Len(q)
  OBVIOUS
<1>2. PICK r : r = Append(q, e)
  BY Zenon
<1>3. Len(r) = n + 1 /\ r[n + 1] = e /\ \A i \in 1..n : r[i] = q[i]
  BY <1>1, <1>2, Appended
<1>4. \A i \in 1..(n + 1) : i = n + 1 \/ i \in 1..n
  OBVIOUS
<1>5. \A h : Unheard(q, h) /\ (e.type = "Handles" => e.handle # h) => Unheard(r, h)
  BY Zenon, <1>1, <1>3, <1>4 DEF Unheard
<1>6. ASSUME e.type # "Handles" PROVE Distinct(r, m)
  BY Zenon, <1>1, <1>3, <1>4, <1>6 DEF Distinct
<1>7. ASSUME e.type = "Handles", e.handle = m PROVE Distinct(r, m + 1)
  <2>1. \A i \in 1..n : q[i].type = "Handles" =>
           q[i].handle < m /\ q[i].handle < m + 1 /\ q[i].handle # m
    <3>1. \A i \in 1..n : q[i] \in Events
      BY <1>1
    <3>2. \A i \in 1..n : q[i].type = "Handles" => q[i].handle \in Handles /\ q[i].handle < m
      BY Zenon, <1>1, <3>1, EventParts DEF Distinct
    <3>3. \A g \in Handles : g < m => g < m + 1 /\ g # m
      BY DEF Handles
    <3>4. QED
      BY Zenon, <3>2, <3>3
  <2>2. m < m + 1
    OBVIOUS
  <2>3. \A i \in 1..(n + 1) : r[i].type = "Handles" => r[i].handle < m + 1
    BY Zenon, <1>3, <1>4, <1>7, <2>1, <2>2
  <2>4. ASSUME NEW i \in 1..(n + 1), NEW j \in 1..(n + 1), r[i].type = "Handles",
               r[j].type = "Handles", r[i].handle = r[j].handle
        PROVE  i = j
    <3>1. CASE i = n + 1 /\ j = n + 1
      BY Zenon, <3>1
    <3>2. CASE i \in 1..n /\ j \in 1..n
      BY Zenon, <1>1, <1>3, <2>4, <3>2 DEF Distinct
    <3>3. CASE (i \in 1..n /\ j = n + 1) \/ (j \in 1..n /\ i = n + 1)
      BY Zenon, <1>3, <1>7, <2>1, <2>4, <3>3
    <3>4. QED
      BY Zenon, <1>4, <3>1, <3>2, <3>3
  <2>5. QED
    BY Zenon, <1>3, <2>3, <2>4 DEF Distinct
<1>8. QED
  BY Zenon, <1>2, <1>5, <1>6, <1>7

LEMMA HandlesTailed ==
  ASSUME NEW q \in Seq(Events), q # <<>>, NEW m \in Nat, Distinct(q, m)
  PROVE  /\ Distinct(Tail(q), m)
         /\ \A h : Unheard(q, h) => Unheard(Tail(q), h)
         /\ Head(q).type = "Handles" => Head(q).handle < m /\ Unheard(Tail(q), Head(q).handle)
<1>1. PICK n \in Nat : n = Len(q) - 1
  BY Tailed
<1>2. PICK r : r = Tail(q)
  BY Zenon
<1>3. /\ Head(q) = q[1] /\ Len(q) = n + 1 /\ Len(r) = n
      /\ \A i \in 1..n : r[i] = q[i + 1]
  BY <1>1, <1>2, Tailed
<1>4. /\ 1 \in 1..(n + 1) /\ \A i \in 1..n : i + 1 \in 1..(n + 1) /\ i + 1 # 1
      /\ \A i, j \in 1..n : i + 1 = j + 1 => i = j
  OBVIOUS
<1>5. \A h : Unheard(q, h) => Unheard(r, h)
  BY Zenon, <1>3, <1>4 DEF Unheard
<1>6. Distinct(r, m)
  <2>1. \A i \in 1..n : r[i].type = "Handles" => r[i].handle < m
    BY Zenon, <1>3, <1>4 DEF Distinct
  <2>2. ASSUME NEW i \in 1..n, NEW j \in 1..n, r[i].type = "Handles",
               r[j].type = "Handles", r[i].handle = r[j].handle
        PROVE  i = j
    <3>1. /\ r[i] = q[i + 1] /\ r[j] = q[j + 1]
          /\ i + 1 \in 1..Len(q) /\ j + 1 \in 1..Len(q)
      BY Zenon, <1>3, <1>4
    <3>2. i + 1 = j + 1
      BY Zenon, <2>2, <3>1 DEF Distinct
    <3>3. QED
      BY Zenon, <1>4, <3>2
  <2>3. QED
    BY Zenon, <1>3, <2>1, <2>2 DEF Distinct
<1>7. Head(q).type = "Handles" => Head(q).handle < m /\ Unheard(r, Head(q).handle)
  BY Zenon, <1>3, <1>4 DEF Distinct, Unheard
<1>8. QED
  BY Zenon, <1>2, <1>5, <1>6, <1>7

LEMMA HandlesWithdrawn ==
  ASSUME NEW q \in Seq(Events), NEW s \in Subscribers, NEW m, Distinct(q, m)
  PROVE  /\ Distinct(Withdrawn(q, s), m)
         /\ \A h : Unheard(q, h) => Unheard(Withdrawn(q, s), h)
<1>1. PICK n \in Nat : n = Len(q)
  OBVIOUS
<1>2. PICK r : r = Withdrawn(q, s)
  BY Zenon
<1>3. Len(r) = n /\ \A i \in 1..n : /\ r[i].type = q[i].type
                                    /\ q[i].type # "Subscribe" => r[i] = q[i]
  BY Zenon, <1>1, <1>2, WithdrawnIs
<1>4. ASSUME NEW i \in 1..n, r[i].type = "Handles"
      PROVE  q[i].type = "Handles" /\ r[i] = q[i]
  <2>1. q[i].type = "Handles"
    BY Zenon, <1>3, <1>4
  <2>2. q[i].type # "Subscribe"
    BY Zenon, <2>1
  <2>3. QED
    BY Zenon, <1>3, <2>1, <2>2
<1>5. \A h : Unheard(q, h) => Unheard(r, h)
  BY Zenon, <1>1, <1>3, <1>4 DEF Unheard
<1>6. Distinct(r, m)
  BY Zenon, <1>1, <1>3, <1>4 DEF Distinct
<1>7. QED
  BY Zenon, <1>2, <1>5, <1>6

\* What no full reconnect disturbs: the channel brings each handle once, and the
\* handles of the active subscriptions not again.
LEMMA HandlesStep ==
  ASSUME TypeOK, Next, mgr' = "running", ~FullReconnect, Distinct(inq, next_handle)
  PROVE  /\ Distinct(inq', next_handle')
         /\ \A h \in Handles : h < next_handle /\ Unheard(inq, h) =>
               h < next_handle' /\ Unheard(inq', h)
<1>0. inq \in Seq(Events) /\ outq \in Seq(Updates) /\ next_handle \in Nat
  <2>1. next_handle \in Nat
    BY DEF TypeOK
  <2>2. QED
    BY Zenon, <2>1, Queued
<1>1. CASE SfuTakes
  <2>1. outq # <<>>
    BY Zenon, <1>1 DEF SfuTakes
  <2>2. Head(outq).sid \in Sids
    <3>1. Head(outq) \in Updates
      BY Zenon, <1>0, <2>1, Tailed
    <3>2. QED
      BY <3>1 DEF Updates
  <2>3. PICK e : e = SfuSubscriberHandles(next_handle, Head(outq).sid)
    BY Zenon
  <2>4. \/ inq' = inq /\ next_handle' = next_handle
        \/ /\ next_handle <= MaxHandles /\ next_handle' = next_handle + 1
           /\ inq' = inq \/ inq' = Append(inq, e)
    BY Zenon, <1>1, <2>3 DEF SfuTakes, TrySend
  <2>5. CASE inq' = inq /\ next_handle' = next_handle
    BY Zenon, <2>5
  <2>6. CASE next_handle' = next_handle + 1 /\ inq' = inq
    <3>1. \A g \in Handles : g < next_handle => g < next_handle + 1
      BY <1>0 DEF Handles
    <3>2. \A i \in 1..Len(inq) : inq[i] \in Events
      BY <1>0
    <3>3. Distinct(inq, next_handle + 1)
      BY Zenon, <3>1, <3>2, EventParts DEF Distinct
    <3>4. QED
      BY Zenon, <2>6, <3>1, <3>3
  <2>7. CASE next_handle <= MaxHandles /\ next_handle' = next_handle + 1 /\ inq' = Append(inq, e)
    <3>1. next_handle \in Handles /\ \A g \in Handles : g < next_handle =>
             g < next_handle + 1 /\ g # next_handle
      <4>1. next_handle \in 1..(MaxHandles + 1) /\ MaxHandles \in Nat
        BY Zenon, RemoteTracksAssumption DEF TypeOK
      <4>2. QED
        BY <2>7, <4>1 DEF Handles
    <3>2. e \in Events /\ e.type = "Handles" /\ e.handle = next_handle
      BY Zenon, <2>2, <2>3, <3>1, EventKinds DEF SfuSubscriberHandles
    <3>3. QED
      BY Zenon, <1>0, <2>7, <3>1, <3>2, HandlesAppended
  <2>8. QED
    BY Zenon, <2>4, <2>5, <2>6, <2>7
<1>2. CASE ManagerStep
  <2>1. next_handle' = next_handle /\ inq # <<>> /\ inq' = Tail(inq)
    <3>1. CASE OnSubscribeRequest \/ OnUnsubscribeRequest \/ OnSfuSubscriberHandles
               \/ OnPacketReceived \/ OnResendSubscriptionUpdates
      BY ZenonT(40), <3>1 DEF OnSubscribeRequest, OnUnsubscribeRequest, Unsubscribe,
                OnSfuSubscriberHandles, OnPacketReceived, OnResendSubscriptionUpdates, Take, sfuVars
    <3>2. CASE OnSfuPublicationUpdates
      BY ZenonT(40), <3>2 DEF OnSfuPublicationUpdates, Take, sfuVars
    <3>3. CASE OnShutdown \/ (\E d \in Sids : ShutdownNext(d)) \/ ShutdownEnd
      BY Zenon, <3>3 DEF OnShutdown, ShutdownNext, ShutdownEnd
    <3>4. QED
      BY Zenon, <1>2, <3>1, <3>2, <3>3 DEF ManagerStep
  <2>2. QED
    BY Zenon, <1>0, <2>1, HandlesTailed
<1>3. CASE /\ next_handle' = next_handle
           /\ \/ inq' = inq
              \/ \E e \in Events : e.type # "Handles" /\ inq' = Append(inq, e)
              \/ \E s \in Subscribers : inq' = Withdrawn(inq, s)
  <2>1. CASE inq' = inq
    BY Zenon, <1>3, <2>1
  <2>2. ASSUME NEW e \in Events, e.type # "Handles", inq' = Append(inq, e)
        PROVE  Distinct(inq', next_handle) /\ \A h : Unheard(inq, h) => Unheard(inq', h)
    BY Zenon, <1>0, <2>2, HandlesAppended
  <2>3. ASSUME NEW s \in Subscribers, inq' = Withdrawn(inq, s)
        PROVE  Distinct(inq', next_handle) /\ \A h : Unheard(inq, h) => Unheard(inq', h)
    BY Zenon, <1>0, <2>3, HandlesWithdrawn
  <2>4. QED
    BY Zenon, <1>3, <2>1, <2>2, <2>3
<1>4. QED
  BY Zenon, <1>1, <1>2, <1>3, QuietSteps

LEMMA CarriedStep ==
  ASSUME TypeOK, Next, mgr' = "running", ~FullReconnect, Distinct(inq, next_handle), Carried
  PROVE  Carried'
<1>0. subscription \in [Sids -> {"None", "Pending", "Active"}]
  BY Zenon DEF TypeOK
<1>1. ASSUME sub_handle' = sub_handle,
             \A p \in Sids : subscription'[p] = "Active" => subscription[p] = "Active"
      PROVE  Carried'
  BY Zenon, <1>1, HandlesStep DEF Carried
<1>2. CASE UNCHANGED tables
  BY Zenon, <1>1, <1>2 DEF tables
<1>3. ASSUME sub_handle' = sub_handle,
             \/ subscription' = subscription
             \/ \E o, v : v # "Active" /\ subscription' = [subscription EXCEPT ![o] = v]
      PROVE  Carried'
  BY Zenon, <1>0, <1>1, <1>3
<1>4. CASE OnSubscribeRequest
  <2>1. /\ sub_handle' = sub_handle
        /\ \/ subscription' = subscription
           \/ \E o : subscription' = [subscription EXCEPT ![o] = "Pending"]
    BY Zenon, <1>4 DEF OnSubscribeRequest
  <2>2. QED
    BY Zenon, <1>3, <2>1
<1>5. CASE OnUnsubscribeRequest
  <2>1. /\ sub_handle' = sub_handle
        /\ \/ subscription' = subscription
           \/ \E o : subscription' = [subscription EXCEPT ![o] = "None"]
    BY Zenon, <1>5 DEF OnUnsubscribeRequest, Unsubscribe
  <2>2. QED
    BY Zenon, <1>3, <2>1
<1>6. CASE OnSfuPublicationUpdates
  <2>1. /\ sub_handle' = sub_handle
        /\ \/ subscription' = subscription
           \/ \E o : subscription' = [subscription EXCEPT ![o] = "None"]
    BY ZenonT(40), <1>6 DEF OnSfuPublicationUpdates, HandleTrackPublished, HandleSidReassigned,
                            Reassign, HandleTrackUnpublished, subVars
  <2>2. QED
    BY Zenon, <1>3, <2>1
<1>7. CASE OnSfuSubscriberHandles
  <2>1. inq # <<>> /\ inq' = Tail(inq) /\ next_handle' = next_handle /\ Take("Handles")
    BY Zenon, <1>7 DEF OnSfuSubscriberHandles, Take, sfuVars
  <2>2. Head(inq) \in Events /\ Head(inq).type = "Handles"
    BY Zenon, <2>1, TakeTypes
  <2>3. PICK h \in Handles : h = Head(inq).handle
    BY Zenon, <2>2, EventParts
  <2>4. h < next_handle' /\ Unheard(inq', h)
    <3>1. next_handle \in Nat
      BY DEF TypeOK
    <3>2. QED
      BY Zenon, <2>1, <2>2, <2>3, <3>1, Queued, HandlesTailed
  <2>5. \/ sub_handle' = sub_handle /\ subscription' = subscription
        \/ \E o \in Sids :
              /\ sub_handle' = [sub_handle EXCEPT ![o] = h]
              /\ \A p \in Sids : p # o => subscription'[p] = subscription[p]
    <3>1. PICK sid \in Sids : sid = Head(inq).sid
      BY Zenon, <2>2, EventParts
    <3>2. PICK o : o = descriptors[sid]
      BY Zenon
    <3>3. CASE o = None \/ subscription[o] = "None"
      BY Zenon, <1>7, <3>1, <3>2, <3>3 DEF OnSfuSubscriberHandles, subVars
    <3>4. CASE ~(o = None \/ subscription[o] = "None")
      <4>1. o \in Sids
        BY Zenon, <3>2, <3>4 DEF TypeOK
      <4>2. /\ sub_handle' = [sub_handle EXCEPT ![o] = h]
            /\ subscription' = subscription \/ subscription' = [subscription EXCEPT ![o] = "Active"]
        BY Zenon, <1>7, <2>3, <3>1, <3>2, <3>4 DEF OnSfuSubscriberHandles
      <4>3. QED
        BY Zenon, <1>0, <4>1, <4>2
    <3>5. QED
      BY Zenon, <3>3, <3>4
  <2>6. CASE sub_handle' = sub_handle /\ subscription' = subscription
    BY Zenon, <1>1, <2>6
  <2>7. ASSUME NEW o \in Sids, sub_handle' = [sub_handle EXCEPT ![o] = h],
               \A p \in Sids : p # o => subscription'[p] = subscription[p]
        PROVE  Carried'
    <3>1. SUFFICES ASSUME NEW p \in Sids, subscription'[p] = "Active"
                   PROVE  sub_handle'[p] \in Handles /\ sub_handle'[p] < next_handle'
                          /\ Unheard(inq', sub_handle'[p])
      BY Zenon DEF Carried
    <3>2. sub_handle \in [Sids -> Handles \cup {None}]
      BY Zenon DEF TypeOK
    <3>3. CASE p = o
      <4>1. sub_handle'[p] = h
        BY Zenon, <2>7, <3>2, <3>3
      <4>2. QED
        BY Zenon, <2>4, <4>1
    <3>4. CASE p # o
      <4>1. sub_handle'[p] = sub_handle[p] /\ subscription[p] = "Active"
        BY Zenon, <2>7, <3>1, <3>2, <3>4
      <4>2. QED
        BY Zenon, <4>1, HandlesStep DEF Carried
    <3>5. QED
      BY Zenon, <3>3, <3>4
  <2>8. QED
    BY Zenon, <2>5, <2>6, <2>7
<1>8. QED
  BY Zenon, <1>2, <1>4, <1>5, <1>6, <1>7, TableSteps

\* A reconnected session stays that, and a full reconnect makes one.
LEMMA StillNumbered ==
  ASSUME TypeOK, Next, ~renumbered'
  PROVE  ~renumbered /\ ~FullReconnect
<1>1. renumbered \in BOOLEAN
  BY Zenon DEF TypeOK
<1>2. ~FullReconnect
  BY Zenon DEF FullReconnect
<1>3. ASSUME \E s \in Subscribers : \/ \E o \in Sids : Subscribe(s, o)
                                    \/ SubscribeTimeout(s) \/ DropStream(s)
      PROVE  renumbered' = renumbered
  BY Zenon, <1>3 DEF Subscribe, SubscribeTimeout, DropStream, sfuVars
<1>4. ASSUME \E o \in Sids : TaskStep(o) PROVE renumbered' = renumbered
  BY Zenon, <1>4 DEF TaskStep, TaskUnpublished, TaskClosing, TaskUnsubscribes, sfuVars
<1>5. ASSUME ManagerStep PROVE renumbered' = renumbered
  <2>1. CASE OnSubscribeRequest \/ OnSfuPublicationUpdates \/ OnSfuSubscriberHandles
    BY ZenonT(40), <2>1 DEF OnSubscribeRequest, OnSfuPublicationUpdates,
                                  OnSfuSubscriberHandles, sfuVars
  <2>2. CASE OnUnsubscribeRequest \/ OnPacketReceived \/ OnResendSubscriptionUpdates
    BY Zenon, <2>2 DEF OnUnsubscribeRequest, Unsubscribe, OnPacketReceived,
                             OnResendSubscriptionUpdates, sfuVars
  <2>3. CASE OnShutdown \/ (\E d \in Sids : ShutdownNext(d)) \/ ShutdownEnd
    BY Zenon, <2>3 DEF OnShutdown, ShutdownNext, ShutdownEnd, sfuVars
  <2>4. QED
    BY Zenon, <1>5, <2>1, <2>2, <2>3 DEF ManagerStep
<1>6. ASSUME \/ \E k \in Tracks : SfuPublish(k) \/ SfuUnpublish(k)
             \/ SfuTakes \/ SfuNoise \/ RoomCloses
      PROVE  renumbered' = renumbered
  BY Zenon, <1>6 DEF SfuPublish, SfuUnpublish, SfuTakes, SfuNoise, RoomCloses, sfuVars
<1>7. renumbered' = renumbered
  BY Zenon, <1>2, <1>3, <1>4, <1>5, <1>6 DEF Next
<1>8. QED
  BY Zenon, <1>1, <1>2, <1>7

-----------------------------------------------------------------------------
(* The theorems.                                                           *)

LEMMA Beginning == ASSUME Init PROVE RemoteInv
<1>1. /\ Sids \subseteq Nat /\ None \notin Sids /\ (CHOOSE k \in Tracks : TRUE) \in Tracks
  BY RemoteTracksAssumption DEF Sids, None
<1>2. TypeOK
  <2>1. /\ inq \in Seq(Events) /\ Len(inq) <= InCap
        /\ outq \in Seq([sid : Sids, subscribe : BOOLEAN])
    BY SMTT(30), RemoteTracksAssumption DEF Init
  <2>2. /\ mgr \in {"running", "stopping", "ended"} /\ awaiting \in Sids \cup {None}
        /\ calls \in 0..MaxCalls /\ noise \in 0..MaxNoise
        /\ next_sid \in 1..(MaxSids + 1) /\ next_handle \in 1..(MaxHandles + 1)
    BY SMTT(30), RemoteTracksAssumption DEF Init
  <2>3. /\ descriptors \in [Sids -> Sids \cup {None}]
        /\ sub_handles \in [Handles -> Sids \cup {None}]
        /\ info_sid \in [Sids -> Sids] /\ task_sid \in [Sids -> Sids]
        /\ sub_handle \in [Sids -> Handles \cup {None}]
        /\ live \in [Tracks -> Sids \cup {None}]
    BY Zenon DEF Init
  <2>4. /\ published \in [Sids -> BOOLEAN] /\ lost \in BOOLEAN /\ reassigned \in BOOLEAN
        /\ renumbered \in BOOLEAN
        /\ result_txs \in [Sids -> SUBSET Subscribers]
        /\ receivers \in [Sids -> SUBSET Subscribers]
    BY ZenonT(40) DEF Init
  <2>5. /\ subscription \in [Sids -> {"None", "Pending", "Active"}]
        /\ task \in [Sids -> {"none", "running", "closing", "ended"}]
        /\ call \in [Subscribers -> {"idle", "waiting", "streaming"}]
    BY Zenon DEF Init
  <2>6. info \in [Sids -> [track : Tracks, name : Sids]]
    <3>1. PICK k \in Tracks : k = CHOOSE j \in Tracks : TRUE
      BY Zenon, <1>1
    <3>2. info = [d \in Sids |-> [track |-> k, name |-> d]]
      BY ZenonT(40), <3>1 DEF Init
    <3>3. QED
      BY Zenon, <3>2
  <2>7. QED
    BY ZenonT(40), <2>1, <2>2, <2>3, <2>4, <2>5, <2>6 DEF TypeOK
<1>3. \A d \in Sids : descriptors[d] = None /\ subscription[d] = "None"
  BY Zenon DEF Init
<1>4. Catalog /\ Once /\ Idle /\ Asked
  BY Zenon, <1>3 DEF Catalog, Once, Idle, Asked
<1>5. Routes
  BY ZenonT(40) DEF Init, Routes
<1>6. Len(inq) = 0 /\ \A k \in Tracks : live[k] = None
  BY Zenon DEF Init
<1>7. Announced
  BY SMTT(30), <1>6 DEF Announced, Valid
<1>8. Told
  BY SMTT(30), <1>3, <1>6 DEF Told, NoUpdate, Known
<1>9. Distinct(inq, next_handle) /\ Carried /\ Routed
  <2>1. 1..0 = {}
    OBVIOUS
  <2>2. Distinct(inq, next_handle)
    BY Zenon, <1>6, <2>1 DEF Distinct
  <2>3. Carried /\ Routed
    BY Zenon, <1>3 DEF Carried, Routed, IsActive
  <2>4. QED
    BY Zenon, <2>2, <2>3
<1>10. QED
  BY Zenon, <1>2, <1>4, <1>5, <1>7, <1>8, <1>9 DEF RemoteInv

LEMMA Stuttering == ASSUME RemoteInv, UNCHANGED vars PROVE RemoteInv'
<1>1. UNCHANGED <<inq, outq, mgr, awaiting, descriptors, sub_handles, info_sid, published,
                  subscription, result_txs, sub_handle, task, task_sid, receivers, call, calls,
                  live, info, next_sid, next_handle, noise, renumbered, lost, reassigned>>
  BY Zenon DEF vars, queues, mgrVars, subVars, taskVars, appVars, sfuVars
<1>2. TypeOK'
  BY Zenon, TypeStep DEF RemoteInv
<1>3. (Catalog' <=> Catalog) /\ (Once' <=> Once) /\ (Idle' <=> Idle) /\ (Routes' <=> Routes)
  BY Zenon, <1>1 DEF Catalog, Once, Idle, Routes
<1>4. (Announced' <=> Announced) /\ (Told' <=> Told) /\ (Asked' <=> Asked)
  BY Zenon, <1>1 DEF Announced, Valid, Told, Known, Asked
<1>5. (Distinct(inq, next_handle)' <=> Distinct(inq, next_handle))
      /\ (Carried' <=> Carried) /\ (Routed' <=> Routed)
  BY Zenon, <1>1 DEF Distinct, Carried, Unheard, Routed, IsActive
<1>6. QED
  BY Zenon, <1>1, <1>2, <1>3, <1>4, <1>5 DEF RemoteInv

LEMMA RemoteStep == ASSUME RemoteInv, [Next]_vars PROVE RemoteInv'
<1>1. CASE UNCHANGED vars
  BY Zenon, <1>1, Stuttering
<1>2. CASE Next
  <2>1. TypeOK /\ TypeOK'
    BY Zenon, TypeStep DEF RemoteInv
  <2>2. /\ mgr' = "running" => mgr = "running"
        /\ ~lost' => ~lost
    BY Zenon, <1>2, <2>1, StillRunning
  <2>3. ASSUME mgr' = "running" PROVE Tables /\ Announced /\ Tables' /\ Announced'
    <3>1. Tables /\ Announced
      BY Zenon, <2>2, <2>3 DEF RemoteInv, Tables
    <3>2. QED
      BY Zenon, <1>2, <2>1, <2>3, <3>1, TablesStep, AnnouncedStep
  <2>4. ASSUME mgr' = "running", ~lost' PROVE Told /\ Told'
    <3>1. Told
      BY Zenon, <2>2, <2>4 DEF RemoteInv
    <3>2. QED
      BY Zenon, <1>2, <2>1, <2>3, <2>4, <3>1, ToldStep
  <2>5. ASSUME mgr' = "running", ~lost', next_handle' <= MaxHandles PROVE Asked'
    <3>1. next_handle <= MaxHandles => Asked
      BY Zenon, <2>2, <2>5 DEF RemoteInv
    <3>2. QED
      BY Zenon, <1>2, <2>1, <2>3, <2>4, <2>5, <3>1, AskedStep
  <2>6. ASSUME mgr' = "running", ~renumbered'
        PROVE  Distinct(inq', next_handle') /\ Carried' /\ Routed'
    <3>1. ~FullReconnect /\ Distinct(inq, next_handle) /\ Carried /\ Routed
      BY Zenon, <1>2, <2>1, <2>2, <2>6, StillNumbered DEF RemoteInv
    <3>2. Distinct(inq', next_handle') /\ Carried'
      BY Zenon, <1>2, <2>1, <2>6, <3>1, HandlesStep, CarriedStep
    <3>3. Routed'
      BY Zenon, <1>2, <2>1, <2>3, <2>6, <3>1, TablesStep
    <3>4. QED
      BY Zenon, <3>2, <3>3
  <2>7. QED
    BY Zenon, <2>1, <2>3, <2>4, <2>5, <2>6 DEF RemoteInv, Tables
<1>3. QED
  BY Zenon, <1>1, <1>2

\* The inductive invariant holds in every state.
THEOREM RemoteInvariance == Spec => []RemoteInv
<1>1. Init => RemoteInv
  BY Zenon, Beginning
<1>2. RemoteInv /\ [Next]_vars => RemoteInv'
  BY Zenon, RemoteStep
<1>3. QED
  BY <1>1, <1>2, PTL DEF Spec

\* The state of the manager, the tasks and the SFU keeps its types, and the
\* event channel its capacity.
THEOREM RemoteTypes == Spec => []TypeOK
<1>1. RemoteInv => TypeOK
  BY Zenon DEF RemoteInv
<1>2. QED
  BY <1>1, RemoteInvariance, PTL

\* In every state of a running manager, an entry of sub_handles leads to a
\* descriptor whose active subscription has that very handle: no packet goes to
\* a track that is not subscribed, through unsubscribing, reassigned SIDs,
\* publications that replace each other, and full reconnects.  Until the first
\* full reconnect every active subscription has such an entry, whatever the other
\* tracks do: no packet of it is thrown away.
THEOREM RoutesAreSound == Spec => []RoutingSound
<1>1. RemoteInv => RoutingSound
  BY Zenon DEF RemoteInv, Routes, Routed, RoutingSound
<1>2. QED
  BY <1>1, RemoteInvariance, PTL

\* As long as no event was dropped, the descriptors are exactly what the SFU
\* has told of, each under its present SID, which the application reads.
THEOREM CatalogIsTrue == Spec => []CatalogAgrees
<1>1. ASSUME RemoteInv PROVE CatalogAgrees
  <2>1. SUFFICES ASSUME mgr = "running" PROVE CatalogAgrees
    BY Zenon DEF CatalogAgrees
  <2>2. Catalog /\ DOMAIN inq = 1..Len(inq)
    <3>1. Catalog /\ inq \in Seq(Events)
      BY ZenonT(40), <1>1, <2>1 DEF RemoteInv, TypeOK
    <3>2. QED
      BY <3>1
  <2>3. ASSUME NEW k \in Tracks, ~lost,
               \A i \in DOMAIN inq : inq[i].type = "Publications" => inq[i].track # k
        PROVE  Known(k) = {live[k]} \ {None}
    <3>1. NoUpdate(inq, k)
      BY Zenon, <2>2, <2>3 DEF NoUpdate, IsUpdate
    <3>2. ~LastUpdate(inq, k, live[k])
      BY Zenon, <3>1 DEF NoUpdate, LastUpdate
    <3>3. Told
      BY Zenon, <1>1, <2>1, <2>3 DEF RemoteInv
    <3>4. QED
      BY ZenonT(40), <3>2, <3>3 DEF Told
  <2>4. QED
    BY Zenon, <2>2, <2>3 DEF CatalogAgrees, Catalog
<1>2. QED
  BY <1>1, RemoteInvariance, PTL

\* As long as no event was dropped, a pending subscription is never stranded:
\* its request or the answer to it is under way under the SID the track has
\* now, or an event in the channel will have it asked for again.
THEOREM PendingIsAsked == Spec => []PendingRequested
<1>1. ASSUME RemoteInv PROVE PendingRequested
  <2>1. DOMAIN inq = 1..Len(inq) /\ DOMAIN outq = 1..Len(outq)
    BY SMTT(30), <1>1 DEF RemoteInv, TypeOK
  <2>2. SUFFICES ASSUME mgr = "running", ~lost, next_handle <= MaxHandles, NEW d \in Sids,
                        descriptors[d] # None, subscription[descriptors[d]] = "Pending"
                 PROVE  \/ \E i \in DOMAIN outq : outq[i] = SfuUpdateSubscription(d, TRUE)
                        \/ \E i \in DOMAIN inq : Reaches(inq[i], d, info[d].track)
    BY Zenon DEF PendingRequested, Reaches, IsUpdate
  <2>3. Requested(outq, d) \/ Coming(inq, d, info[d].track)
    BY Zenon, <1>1, <2>2 DEF RemoteInv, Asked
  <2>4. QED
    BY ZenonT(40), <2>1, <2>3 DEF Requested, Coming
<1>2. QED
  BY <1>1, RemoteInvariance, PTL
=============================================================================
