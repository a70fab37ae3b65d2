------------------------- MODULE LocalTracksProofs -------------------------
(***************************************************************************)
(* For any number of publish_track() calls, handles, full reconnects and   *)
(* refusals, and any capacity of the channel: a publication that waits for *)
(* the SFU has an answer coming, and one that counts as Published is       *)
(* published or what will change that is on its way, as long as no event   *)
(* was dropped.                                                            *)
(***************************************************************************)
EXTENDS LocalTracks, TLAPS

Requests == [publish : BOOLEAN, handle : Handles]

\* An event that ends the publication h, or starts it again.
Ends(e, h) ==
    e.type = "Republish" \/ (e.type = "Unpublished" /\ e.handle = h)
Positive(h) == SfuPublishResponse(h, TRUE)
EndComing(h) == \E i \in 1..Len(inq) : Ends(inq[i], h)

\* A positive answer that is still in the channel is true of the SFU, or
\* something that ends the publication comes after it.
AnswersTrue ==
    \A h \in Handles : h \notin sfu =>
        \A i \in 1..Len(inq) : inq[i] = Positive(h) =>
            \E j \in (i + 1)..Len(inq) : Ends(inq[j], h)

\* A publication that counts as Published, or is about to.
Claimed(h) ==
    \/ descriptors[h] = "Active" /\ task[h] = "running" /\ state[h] = "Published"
    \/ checked = h

\* PublishedOrAsked without the requests and answers, which its proof can do
\* without.
PublishedOrEnds ==
    \A h \in Handles :
        Claimed(h) => descriptors[h] = "Active" /\ (h \in sfu \/ EndComing(h))

WaitsForSfu(h) ==
    \/ descriptors[h] = "Pending"
    \/ descriptors[h] = "Active" /\ task[h] = "running" /\ state[h] = "Republishing"

Coming(h) == Asked(h) \/ InQueue("Published", h) \/ WillRepublish \/ checked = h

Exact == (mgr = "running" /\ ~lost) => AnswersTrue /\ PublishedOrEnds

LocalInv == TypeOK /\ AnswerComing /\ Exact

-----------------------------------------------------------------------------
(* Events and sequences.                                                   *)

LEMMA EventParts ==
  ASSUME NEW e \in Events
  PROVE  /\ e.type = "Publish" => e.call \in Calls
         /\ e.type \in {"Cancelled", "Unpublish", "Published", "Unpublished"}
              => e.handle \in Handles
         /\ e.type = "Published" => e.ok \in BOOLEAN /\ e = SfuPublishResponse(e.handle, e.ok)
BY DEF Events, PublishRequest, PublishCancelled, UnpublishRequest, SfuPublishResponse,
       SfuUnpublishResponse, Event

LEMMA EventKinds ==
  /\ \A p \in Calls : PublishRequest(p) \in Events
  /\ \A h \in Handles : /\ PublishCancelled(h) \in Events /\ UnpublishRequest(h) \in Events
                        /\ SfuUnpublishResponse(h) \in Events
                        /\ \A ok \in BOOLEAN : SfuPublishResponse(h, ok) \in Events
                        /\ SfuPublishRequest(h) \in Requests
                        /\ SfuUnpublishRequest(h) \in Requests
  /\ Event("Republish") \in Events /\ Event("Shutdown") \in Events
BY DEF Events, Requests, SfuPublishRequest, SfuUnpublishRequest

LEMMA Appended ==
  ASSUME NEW S, NEW q \in Seq(S), NEW e \in S
  PROVE  /\ Append(q, e) \in Seq(S) /\ Len(Append(q, e)) = Len(q) + 1 /\ Len(q) \in Nat
         /\ \A i \in 1..Len(q) : Append(q, e)[i] = q[i]
         /\ Append(q, e)[Len(q) + 1] = e
OBVIOUS

LEMMA Tailed ==
  ASSUME NEW S, NEW q \in Seq(S), q # <<>>
  PROVE  /\ Head(q) \in S /\ Head(q) = q[1] /\ Tail(q) \in Seq(S)
         /\ Len(q) \in Nat \ {0} /\ Len(Tail(q)) = Len(q) - 1
         /\ \A i \in 1..(Len(q) - 1) : Tail(q)[i] = q[i + 1]
OBVIOUS

LEMMA Queued == ASSUME TypeOK PROVE inq \in Seq(Events) /\ Len(inq) \in Nat
BY DEF TypeOK

LEMMA Lengths == ASSUME TypeOK PROVE DOMAIN inq = 1..Len(inq) /\ DOMAIN outq = 1..Len(outq)
BY DEF TypeOK

LEMMA LengthsNext ==
  ASSUME TypeOK' PROVE DOMAIN inq' = 1..Len(inq') /\ DOMAIN outq' = 1..Len(outq')
BY DEF TypeOK

\* Events already in the channel stay there when another comes.
LEMMA SentStays ==
  ASSUME TypeOK, TypeOK', NEW e \in Events, inq' = inq \/ inq' = Append(inq, e),
         NEW h \in Handles
  PROVE  /\ InQueue("Published", h) => InQueue("Published", h)'
         /\ WillRepublish => WillRepublish'
         /\ EndComing(h) => EndComing(h)'
<1>1. inq \in Seq(Events)
  BY Zenon DEF TypeOK
<1>2. Len(inq) \in Nat /\ Len(inq') \in Nat /\ Len(inq') >= Len(inq)
      /\ \A i \in 1..Len(inq) : inq'[i] = inq[i]
  <2>1. CASE inq' = inq
    BY <1>1, <2>1
  <2>2. CASE inq' = Append(inq, e)
    BY <1>1, <2>2, Appended
  <2>3. QED
    BY Zenon, <2>1, <2>2
<1>3. \A i \in 1..Len(inq) : i \in 1..Len(inq') /\ inq'[i] = inq[i]
  BY <1>2
<1>4. DOMAIN inq = 1..Len(inq) /\ DOMAIN inq' = 1..Len(inq')
  BY Zenon, Lengths, LengthsNext
<1>5. QED
  BY Zenon, <1>3, <1>4 DEF InQueue, WillRepublish, EndComing

\* What comes last is in the channel.
LEMMA SentIsThere ==
  ASSUME TypeOK, TypeOK', NEW e \in Events, inq' = Append(inq, e), NEW h \in Handles
  PROVE  /\ e.type = "Published" /\ e.handle = h => InQueue("Published", h)'
         /\ e.type = "Republish" => WillRepublish'
         /\ Ends(e, h) => EndComing(h)'
<1>1. inq \in Seq(Events) /\ Len(inq) + 1 \in 1..Len(inq') /\ inq'[Len(inq) + 1] = e
  BY Appended DEF TypeOK
<1>2. DOMAIN inq' = 1..Len(inq')
  BY Zenon, LengthsNext
<1>3. QED
  BY Zenon, <1>1, <1>2 DEF InQueue, WillRepublish, EndComing

\* Taking an event leaves the others.
LEMMA OthersStay ==
  ASSUME TypeOK, TypeOK', inq # <<>>, inq' = Tail(inq), NEW h \in Handles
  PROVE  /\ InQueue("Published", h) /\ ~(Head(inq).type = "Published" /\ Head(inq).handle = h)
              => InQueue("Published", h)'
         /\ WillRepublish /\ Head(inq).type # "Republish" => WillRepublish'
         /\ EndComing(h) /\ ~Ends(Head(inq), h) => EndComing(h)'
<1>1. inq \in Seq(Events)
  BY Zenon DEF TypeOK
<1>2. /\ Head(inq) = inq[1] /\ Len(inq) \in Nat \ {0} /\ Len(inq') = Len(inq) - 1
      /\ \A i \in 1..(Len(inq) - 1) : inq'[i] = inq[i + 1]
  BY Zenon, <1>1, Tailed
<1>3. \A i \in 1..Len(inq) : i # 1 => i - 1 \in 1..Len(inq') /\ inq'[i - 1] = inq[i]
  BY <1>2
<1>4. DOMAIN inq = 1..Len(inq) /\ DOMAIN inq' = 1..Len(inq')
  BY Zenon, Lengths, LengthsNext
<1>5. InQueue("Published", h) /\ ~(Head(inq).type = "Published" /\ Head(inq).handle = h)
          => InQueue("Published", h)'
  BY ZenonT(40), <1>2, <1>3, <1>4 DEF InQueue
<1>6. WillRepublish /\ Head(inq).type # "Republish" => WillRepublish'
  BY ZenonT(40), <1>2, <1>3, <1>4 DEF WillRepublish
<1>7. EndComing(h) /\ ~Ends(Head(inq), h) => EndComing(h)'
  BY Zenon, <1>2, <1>3 DEF EndComing
<1>8. QED
  BY Zenon, <1>5, <1>6, <1>7

LEMMA AskedStays ==
  ASSUME TypeOK, TypeOK', NEW r \in Requests, outq' = outq \/ outq' = Append(outq, r),
         NEW h \in Handles
  PROVE  Asked(h) => Asked(h)'
<1>1. outq \in Seq(Requests)
  BY Zenon DEF TypeOK, Requests
<1>2. Len(outq) \in Nat /\ Len(outq') \in Nat /\ Len(outq') >= Len(outq)
      /\ \A i \in 1..Len(outq) : outq'[i] = outq[i]
  <2>1. CASE outq' = outq
    BY <1>1, <2>1
  <2>2. CASE outq' = Append(outq, r)
    BY <1>1, <2>2, Appended
  <2>3. QED
    BY Zenon, <2>1, <2>2
<1>3. \A i \in 1..Len(outq) : i \in 1..Len(outq') /\ outq'[i] = outq[i]
  BY <1>2
<1>4. DOMAIN outq = 1..Len(outq) /\ DOMAIN outq' = 1..Len(outq')
  BY Zenon, Lengths, LengthsNext
<1>5. QED
  BY Zenon, <1>3, <1>4 DEF Asked

LEMMA AskedNow ==
  ASSUME TypeOK, TypeOK', NEW h \in Handles, outq' = Append(outq, SfuPublishRequest(h))
  PROVE  Asked(h)'
<1>1. /\ outq \in Seq(Requests) /\ SfuPublishRequest(h) \in Requests
      /\ DOMAIN outq' = 1..Len(outq')
  BY EventKinds DEF TypeOK, Requests
<1>2. Len(outq) + 1 \in 1..Len(outq') /\ outq'[Len(outq) + 1] = SfuPublishRequest(h)
  BY <1>1, Appended
<1>3. QED
  BY Zenon, <1>1, <1>2 DEF Asked

\* Taking a request leaves the others.
LEMMA OthersAsked ==
  ASSUME TypeOK, TypeOK', outq # <<>>, outq' = Tail(outq), NEW h \in Handles
  PROVE  Asked(h) /\ Head(outq) # SfuPublishRequest(h) => Asked(h)'
<1>1. outq \in Seq(Requests)
  BY Zenon DEF TypeOK, Requests
<1>2. /\ Head(outq) = outq[1] /\ Len(outq) \in Nat \ {0} /\ Len(outq') = Len(outq) - 1
      /\ \A i \in 1..(Len(outq) - 1) : outq'[i] = outq[i + 1]
  BY Zenon, <1>1, Tailed
<1>3. \A i \in 1..Len(outq) : i # 1 => i - 1 \in 1..Len(outq') /\ outq'[i - 1] = outq[i]
  BY <1>2
<1>4. DOMAIN outq = 1..Len(outq) /\ DOMAIN outq' = 1..Len(outq')
  BY Zenon, Lengths, LengthsNext
<1>5. QED
  BY ZenonT(40), <1>2, <1>3, <1>4 DEF Asked

-----------------------------------------------------------------------------
(* Types.                                                                  *)

\* TypeOK in four groups.
QueuesOK ==
    /\ inq \in Seq(Events) /\ Len(inq) <= InCap
    /\ outq \in Seq([publish : BOOLEAN, handle : Handles]) /\ Len(outq) <= OutCap
MgrOK ==
    /\ mgr \in {"running", "stopping", "ended"} /\ awaiting \in Handles \cup {None}
    /\ checked \in Handles \cup {None}
    /\ value \in 0..MaxHandle
    /\ descriptors \in [Handles -> {"none", "Pending", "Active"}]
    /\ caller \in [Handles -> Calls \cup {None}]
    /\ \A h \in Handles : caller[h] # None <=> h <= value
PubOK ==
    /\ state \in [Handles -> PublishStates]
    /\ task \in [Handles -> {"none", "running", "leaving", "ended"}]
    /\ seen \in [Handles -> PublishStates]
    /\ forwarder \in [Handles -> {"none", "waiting", "orphan", "track", "error", "done"}]
AppOK ==
    /\ call \in [Calls -> {"new", "waiting", "returned", "timed_out"}]
    /\ held \subseteq Handles /\ watched \subseteq held /\ sfu \subseteq Handles
    /\ faults \in 0..MaxFaults /\ lost \in BOOLEAN

LEMMA TypeGroups == TypeOK <=> QueuesOK /\ MgrOK /\ PubOK /\ AppOK
BY Zenon DEF TypeOK, QueuesOK, MgrOK, PubOK, AppOK

LEMMA TypeGroupsNext == TypeOK' <=> QueuesOK' /\ MgrOK' /\ PubOK' /\ AppOK'
BY Zenon DEF TypeOK, QueuesOK, MgrOK, PubOK, AppOK

LEMMA GroupsStay ==
  ASSUME TypeOK
  PROVE  /\ UNCHANGED queues => QueuesOK'
         /\ UNCHANGED <<mgrVars, caller>> => MgrOK'
         /\ UNCHANGED <<state, taskVars, forwarder>> => PubOK'
         /\ UNCHANGED <<appVars, sfu, faults, lost>> => AppOK'
<1>1. QueuesOK /\ MgrOK /\ PubOK /\ AppOK
  BY Zenon, TypeGroups
<1>2. UNCHANGED queues => QueuesOK'
  BY Zenon, <1>1 DEF QueuesOK, queues
<1>3. UNCHANGED <<mgrVars, caller>> => MgrOK'
  BY Zenon, <1>1 DEF MgrOK, mgrVars
<1>4. UNCHANGED <<state, taskVars, forwarder>> => PubOK'
  BY Zenon, <1>1 DEF PubOK, taskVars
<1>5. UNCHANGED <<appVars, sfu, faults, lost>> => AppOK'
  BY Zenon, <1>1 DEF AppOK, appVars
<1>6. QED
  BY Zenon, <1>2, <1>3, <1>4, <1>5

\* Sending within the capacity, and taking, keep the channel's type.
LEMMA SendTypes ==
  ASSUME TypeOK, NEW e \in Events, UNCHANGED outq
  PROVE  /\ inq' = inq => QueuesOK'
         /\ Len(inq) < InCap /\ inq' = Append(inq, e) => QueuesOK'
         /\ TrySend(e) => QueuesOK' /\ lost' \in BOOLEAN
<1>1. inq \in Seq(Events) /\ Len(inq) <= InCap /\ lost \in BOOLEAN
      /\ outq \in Seq([publish : BOOLEAN, handle : Handles]) /\ Len(outq) <= OutCap
  BY Zenon DEF TypeOK
<1>2. inq' = inq => QueuesOK'
  BY Zenon, <1>1 DEF QueuesOK
<1>3. Len(inq) < InCap /\ inq' = Append(inq, e) => QueuesOK'
  BY <1>1, Appended, LocalTracksAssumption DEF QueuesOK
<1>4. TrySend(e) => QueuesOK' /\ lost' \in BOOLEAN
  BY Zenon, <1>1, <1>2, <1>3 DEF TrySend
<1>5. QED
  BY Zenon, <1>2, <1>3, <1>4

LEMMA TrySendTypes ==
  ASSUME TypeOK, NEW e \in Events, TrySend(e)
  PROVE  inq' \in Seq(Events) /\ Len(inq') <= InCap /\ lost' \in BOOLEAN
<1>1. inq \in Seq(Events) /\ Len(inq) <= InCap /\ lost \in BOOLEAN
  BY Zenon DEF TypeOK
<1>2. Append(inq, e) \in Seq(Events) /\ Len(Append(inq, e)) = Len(inq) + 1 /\ Len(inq) \in Nat
  BY Zenon, <1>1, Appended
<1>3. CASE inq' = inq /\ lost' = TRUE
  BY Zenon, <1>1, <1>3
<1>4. CASE inq' = Append(inq, e) /\ Len(inq) < InCap /\ lost' = lost
  BY <1>1, <1>2, <1>4, LocalTracksAssumption
<1>5. QED
  BY Zenon, <1>3, <1>4 DEF TrySend

LEMMA TakeTypes ==
  ASSUME TypeOK, NEW t, Take(t)
  PROVE  /\ inq' \in Seq(Events) /\ Len(inq') <= InCap /\ Head(inq) \in Events
         /\ inq # <<>> /\ inq' = Tail(inq) /\ Head(inq).type = t /\ mgr = "running"
<1>1. /\ inq \in Seq(Events) /\ Len(inq) <= InCap
      /\ inq # <<>> /\ inq' = Tail(inq) /\ Head(inq).type = t /\ mgr = "running"
  BY Zenon DEF TypeOK, Take
<1>2. QED
  BY <1>1, Tailed, LocalTracksAssumption

LEMMA StateTypes ==
  ASSUME TypeOK, NEW h \in Handles, NEW v \in PublishStates
  PROVE  StateAfter(h, v) \in [Handles -> PublishStates]
BY Zenon DEF TypeOK, StateAfter

LEMMA AppTypes ==
  ASSUME TypeOK,
         \/ \E p \in Calls : PublishTrack(p) \/ PublishTimeout(p)
         \/ \E h \in Handles : \/ Unpublish(h) \/ DropTrack(h) \/ WaitForUnpublish(h)
                               \/ WaitEnds(h) \/ Forward(h) \/ TaskStep(h)
  PROVE  TypeOK'
<1> USE LocalTracksAssumption
<1> SUFFICES QueuesOK' /\ MgrOK' /\ PubOK' /\ AppOK'
  BY Zenon, TypeGroupsNext
<1> USE TypeGroups, GroupsStay
<1>0. "Unpublished" \in PublishStates
  BY Zenon DEF PublishStates
<1>1. ASSUME NEW p \in Calls, PublishTrack(p) PROVE QueuesOK' /\ MgrOK' /\ PubOK' /\ AppOK'
  <2>1. QueuesOK'
    BY Zenon, <1>1, SendTypes, EventKinds DEF PublishTrack
  <2>2. UNCHANGED <<mgrVars, caller, state, taskVars, forwarder>>
    BY Zenon, <1>1 DEF PublishTrack, pubVars
  <2>3. AppOK'
    BY Zenon, <1>1 DEF PublishTrack, AppOK
  <2>4. QED
    BY Zenon, <2>1, <2>2, <2>3
<1>2. ASSUME NEW p \in Calls, PublishTimeout(p) PROVE QueuesOK' /\ MgrOK' /\ PubOK' /\ AppOK'
  <2>1. UNCHANGED <<queues, mgrVars, caller, state, taskVars, forwarder>>
    BY Zenon, <1>2 DEF PublishTimeout, pubVars
  <2>2. AppOK'
    BY Zenon, <1>2 DEF PublishTimeout, AppOK
  <2>3. QED
    BY Zenon, <2>1, <2>2
<1>3. ASSUME NEW h \in Handles, Unpublish(h) \/ DropTrack(h)
      PROVE  QueuesOK' /\ MgrOK' /\ PubOK' /\ AppOK'
  <2>1. /\ UNCHANGED <<queues, mgrVars, caller, taskVars, forwarder, call, watched, sfu, faults,
                       lost>>
        /\ state' = StateAfter(h, "Unpublished")
        /\ held' = held \/ (held' = held \ {h} /\ h \notin watched)
    BY Zenon, <1>3 DEF Unpublish, DropTrack, appVars
  <2>2. AppOK'
    BY Zenon, <2>1 DEF AppOK
  <2>3. state' \in [Handles -> PublishStates]
    BY Zenon, <1>0, <2>1, StateTypes
  <2>4. PubOK'
    BY Zenon, <2>1, <2>3 DEF PubOK, taskVars
  <2>5. QED
    BY Zenon, <2>1, <2>2, <2>4
<1>4. ASSUME NEW h \in Handles, ForwardResult(h) PROVE QueuesOK' /\ MgrOK' /\ PubOK' /\ AppOK'
  <2>1. UNCHANGED <<queues, mgrVars, caller>>
    BY Zenon, <1>4 DEF ForwardResult
  <2>2. AppOK'
    BY Zenon, <1>4 DEF ForwardResult, AppOK
  <2>3. state' \in [Handles -> PublishStates]
    <3>1. state' = state \/ state' = StateAfter(h, "Unpublished")
      BY Zenon, <1>4 DEF ForwardResult
    <3>2. QED
      BY ZenonT(40), <1>0, <3>1, StateTypes DEF PubOK
  <2>4. PubOK'
    BY Zenon, <1>4, <2>3 DEF ForwardResult, PubOK, taskVars
  <2>5. QED
    BY Zenon, <2>1, <2>2, <2>4
<1>5. ASSUME NEW h \in Handles, ForwardCancels(h) PROVE QueuesOK' /\ MgrOK' /\ PubOK' /\ AppOK'
  <2>1. QueuesOK' /\ lost' \in BOOLEAN
    BY Zenon, <1>5, SendTypes, EventKinds DEF ForwardCancels
  <2>2. UNCHANGED <<mgrVars, caller>>
    BY Zenon, <1>5 DEF ForwardCancels
  <2>3. PubOK'
    BY Zenon, <1>5 DEF ForwardCancels, PubOK, taskVars
  <2>4. AppOK'
    BY Zenon, <1>5, <2>1 DEF ForwardCancels, AppOK, appVars
  <2>5. QED
    BY Zenon, <2>1, <2>2, <2>3, <2>4
<1>6. ASSUME NEW h \in Handles, TaskSees(h) PROVE QueuesOK' /\ MgrOK' /\ PubOK' /\ AppOK'
  <2>1. UNCHANGED <<queues, mgrVars, caller, appVars, sfu, faults, lost>>
    BY Zenon, <1>6 DEF TaskSees
  <2>2. PubOK'
    BY Zenon, <1>6 DEF TaskSees, PubOK
  <2>3. QED
    BY Zenon, <2>1, <2>2
<1>7. ASSUME NEW h \in Handles, TaskLeaves(h) PROVE QueuesOK' /\ MgrOK' /\ PubOK' /\ AppOK'
  <2>1. UNCHANGED <<mgrVars, caller, appVars, sfu, faults, lost>>
    BY Zenon, <1>7 DEF TaskLeaves
  <2>2. QueuesOK'
    BY Zenon, <1>7, SendTypes, EventKinds DEF TaskLeaves
  <2>3. PubOK'
    BY Zenon, <1>7 DEF TaskLeaves, PubOK
  <2>4. QED
    BY Zenon, <2>1, <2>2, <2>3
<1>8. ASSUME NEW h \in Handles, WaitForUnpublish(h) \/ WaitEnds(h)
      PROVE  QueuesOK' /\ MgrOK' /\ PubOK' /\ AppOK'
  <2>1. UNCHANGED <<queues, mgrVars, caller, state, taskVars, forwarder>>
    BY Zenon, <1>8 DEF WaitForUnpublish, WaitEnds, pubVars
  <2>2. AppOK'
    BY Zenon, <1>8 DEF WaitForUnpublish, WaitEnds, AppOK
  <2>3. QED
    BY Zenon, <2>1, <2>2
<1>9. QED
  BY Zenon, <1>1, <1>2, <1>3, <1>4, <1>5, <1>6, <1>7, <1>8 DEF Forward, TaskStep

LEMMA SfuTypes ==
  ASSUME TypeOK,
         SfuTakes \/ FullReconnect \/ RoomCloses \/ \E h \in Handles : SfuUnpublishes(h)
  PROVE  TypeOK'
<1> USE LocalTracksAssumption
<1> SUFFICES QueuesOK' /\ MgrOK' /\ PubOK' /\ AppOK'
  BY Zenon, TypeGroupsNext
<1> USE TypeGroups, GroupsStay
<1>1. UNCHANGED <<mgrVars, caller, state, taskVars, forwarder, appVars>>
  BY Zenon DEF SfuTakes, FullReconnect, RoomCloses, SfuUnpublishes, localVars, pubVars
<1>2. ASSUME NEW e \in Events, TrySend(e)
      PROVE  inq' \in Seq(Events) /\ Len(inq') <= InCap /\ lost' \in BOOLEAN
  BY Zenon, <1>2, TrySendTypes
<1>3. /\ outq \in Seq(Requests) /\ Len(outq) <= OutCap
      /\ outq # <<>> => /\ Tail(outq) \in Seq(Requests) /\ Len(Tail(outq)) <= OutCap
                        /\ Head(outq).handle \in Handles
  <2>1. outq \in Seq(Requests) /\ Len(outq) <= OutCap
    BY Zenon DEF TypeOK, Requests
  <2>2. outq # <<>> => Tail(outq) \in Seq(Requests) /\ Head(outq) \in Requests
    BY Zenon, <2>1, Tailed
  <2>3. outq # <<>> => Len(Tail(outq)) <= OutCap
    <3>1. outq # <<>> => Len(outq) \in Nat /\ Len(Tail(outq)) = Len(outq) - 1
      BY Zenon, <2>1, Tailed
    <3>2. QED
      BY <2>1, <3>1
  <2>4. QED
    BY Zenon, <2>1, <2>2, <2>3 DEF Requests
<1>4. CASE SfuTakes
  <2>1. PICK h \in Handles, e \in Events :
           /\ TrySend(e) /\ outq' = Tail(outq) /\ outq # <<>>
           /\ sfu' = sfu \/ sfu' = sfu \cup {h} \/ sfu' = sfu \ {h}
           /\ faults' = faults \/ (faults < MaxFaults /\ faults' = faults + 1)
    BY Zenon, <1>3, <1>4, EventKinds DEF SfuTakes
  <2>2. QueuesOK'
    BY Zenon, <1>2, <1>3, <2>1 DEF QueuesOK, Requests
  <2>3. AppOK'
    BY <1>1, <1>2, <2>1 DEF AppOK, appVars
  <2>4. QED
    BY Zenon, <1>1, <2>2, <2>3
<1>5. CASE FullReconnect
  <2>1. /\ TrySend(Event("Republish")) /\ sfu' = {}
        /\ faults < MaxFaults /\ faults' = faults + 1
        /\ outq' = outq \/ (outq # <<>> /\ outq' = Tail(outq))
    BY Zenon, <1>5 DEF FullReconnect
  <2>2. inq' \in Seq(Events) /\ Len(inq') <= InCap /\ lost' \in BOOLEAN
    BY Zenon, <1>2, <2>1, EventKinds
  <2>3. QueuesOK'
    BY Zenon, <1>3, <2>1, <2>2 DEF QueuesOK, Requests
  <2>4. AppOK'
    BY <1>1, <2>1, <2>2 DEF AppOK, appVars
  <2>5. QED
    BY Zenon, <1>1, <2>3, <2>4
<1>6. CASE RoomCloses
  <2>1. TrySend(Event("Shutdown")) /\ UNCHANGED <<outq, sfu, faults>>
    BY Zenon, <1>6 DEF RoomCloses
  <2>2. QueuesOK' /\ lost' \in BOOLEAN
    BY Zenon, <2>1, EventKinds, SendTypes
  <2>3. AppOK'
    BY Zenon, <1>1, <2>1, <2>2 DEF AppOK, appVars
  <2>4. QED
    BY Zenon, <1>1, <2>2, <2>3
<1>7. ASSUME NEW h \in Handles, SfuUnpublishes(h) PROVE QueuesOK' /\ MgrOK' /\ PubOK' /\ AppOK'
  <2>1. /\ TrySend(SfuUnpublishResponse(h)) /\ UNCHANGED outq /\ sfu' = sfu \ {h}
        /\ faults < MaxFaults /\ faults' = faults + 1
    BY Zenon, <1>7 DEF SfuUnpublishes
  <2>2. QueuesOK' /\ lost' \in BOOLEAN
    BY Zenon, <2>1, EventKinds, SendTypes
  <2>3. AppOK'
    BY <1>1, <2>1, <2>2 DEF AppOK, appVars
  <2>4. QED
    BY Zenon, <1>1, <2>2, <2>3
<1>8. QED
  BY Zenon, <1>4, <1>5, <1>6, <1>7

AsksFor(r, A) == \A h \in A : \E i \in 1..Len(r) : r[i] = SfuPublishRequest(h)

\* The requests of on_republish_tracks: one for each active publication.
LEMMA Republications ==
  ASSUME TypeOK, NEW A \in SUBSET Handles, NEW q \in Orders(A),
         NEW r, r = outq \o SfuPublishRequests(q)
  PROVE  /\ r \in Seq(Requests) /\ Len(r) = Len(outq) + Len(q)
         /\ \A i \in 1..Len(outq) : i \in 1..Len(r) /\ r[i] = outq[i]
         /\ AsksFor(r, A)
<1>1. /\ q \in UNION {[1..m -> A] : m \in 0..MaxHandle}
      /\ \A x \in A : \E i \in DOMAIN q : q[i] = x
  BY Zenon DEF Orders
<1>2. PICK n \in Nat : q \in [1..n -> A]
  BY <1>1, LocalTracksAssumption
<1>3. /\ q \in [1..n -> A] /\ DOMAIN q = 1..n
      /\ \A x \in A : \E i \in 1..n : q[i] = x
  BY Zenon, <1>1, <1>2
<1>4. PICK t \in Seq(Requests) : /\ t = SfuPublishRequests(q)
                                 /\ Len(t) = n
                                 /\ \A i \in 1..n : t[i] = SfuPublishRequest(q[i])
  <2>1. \A i \in 1..n : SfuPublishRequest(q[i]) \in Requests
    BY Zenon, <1>3, EventKinds
  <2>2. [i \in 1..n |-> SfuPublishRequest(q[i])] \in Seq(Requests)
    BY <2>1
  <2>3. Len([i \in 1..n |-> SfuPublishRequest(q[i])]) = n
    OBVIOUS
  <2>4. QED
    BY Zenon, <1>3, <2>2, <2>3 DEF SfuPublishRequests
<1>5. outq \in Seq(Requests)
  BY Zenon DEF TypeOK, Requests
<1>6. r = outq \o t
  BY Zenon, <1>4
<1>7. /\ r \in Seq(Requests) /\ Len(r) = Len(outq) + n /\ Len(outq) \in Nat
      /\ \A i \in 1..Len(r) : r[i] = IF i <= Len(outq) THEN outq[i] ELSE t[i - Len(outq)]
  BY <1>4, <1>5, <1>6
<1>8. \A i \in 1..Len(outq) : i \in 1..Len(r) /\ r[i] = outq[i]
  BY <1>7
<1>9. ASSUME NEW h \in A PROVE \E i \in 1..Len(r) : r[i] = SfuPublishRequest(h)
  <2>1. PICK k \in 1..n : q[k] = h
    BY Zenon, <1>3
  <2>2. PICK m \in Nat : m = Len(outq) /\ Len(r) = m + n
    BY Zenon, <1>7
  <2>3. m + k \in 1..(m + n) /\ ~(m + k <= m) /\ (m + k) - m = k
    OBVIOUS
  <2>4. m + k \in 1..Len(r) /\ r[m + k] = t[k]
    BY Zenon, <1>7, <2>2, <2>3
  <2>5. QED
    BY Zenon, <1>4, <2>1, <2>4
<1>10. Len(q) = n
  BY <1>2
<1>11. QED
  BY Zenon, <1>7, <1>8, <1>9, <1>10 DEF AsksFor

\* What a manager step does to the channel and the requests.
LEMMA ManagerQueues ==
  ASSUME TypeOK, ManagerStep
  PROVE  QueuesOK'
<1>0. /\ inq \in Seq(Events) /\ Len(inq) <= InCap
      /\ outq \in Seq([publish : BOOLEAN, handle : Handles]) /\ Len(outq) <= OutCap
  BY Zenon DEF TypeOK
<1>1. CASE \/ OnPublishRequest \/ OnPublishCancelled \/ OnUnpublishRequest
           \/ OnSfuPublishResponse \/ OnSfuUnpublishResponse \/ OnShutdown
  <2>1. PICK t : Take(t) /\ t = Head(inq).type
    BY Zenon, <1>1
    DEF OnPublishRequest, PublishUpTo, OnPublishCancelled, OnUnpublishRequest,
        OnSfuPublishResponse, OnSfuUnpublishResponse, OnShutdown, Take
  <2>2. inq' \in Seq(Events) /\ Len(inq') <= InCap /\ Head(inq) \in Events
    BY Zenon, <2>1, TakeTypes
  <2>3. outq' = outq \/ \E r \in Requests : HasRoom(1) /\ outq' = Append(outq, r)
    <3>1. CASE OnPublishRequest
      <4>1. outq' = outq \/ (value + 1 \in Handles /\ HasRoom(1)
                             /\ outq' = Append(outq, SfuPublishRequest(value + 1)))
        BY <3>1, LocalTracksAssumption
        DEF OnPublishRequest, PublishUpTo, Allocate, TypeOK, Handles
      <4>2. QED
        BY Zenon, <4>1, EventKinds
    <3>2. CASE OnUnpublishRequest
      <4>1. /\ Head(inq).handle \in Handles /\ HasRoom(1)
            /\ outq' = Append(outq, SfuUnpublishRequest(Head(inq).handle))
        BY Zenon, <2>2, <3>2, EventParts DEF OnUnpublishRequest, Take
      <4>2. QED
        BY Zenon, <4>1, EventKinds
    <3>3. CASE OnSfuPublishResponse
      <4>1. /\ Head(inq).handle \in Handles
            /\ \/ outq' = outq
               \/ HasRoom(1) /\ outq' = Append(outq, SfuUnpublishRequest(Head(inq).handle))
        BY Zenon, <2>2, <3>3, EventParts
        DEF OnSfuPublishResponse, AnswerUnknown, AnswerPending, AnswerActive, Take
      <4>2. QED
        BY Zenon, <4>1, EventKinds
    <3>4. CASE OnPublishCancelled \/ OnSfuUnpublishResponse \/ OnShutdown
      BY Zenon, <3>4 DEF OnPublishCancelled, OnSfuUnpublishResponse, OnShutdown
    <3>5. QED
      BY Zenon, <1>1, <3>1, <3>2, <3>3, <3>4
  <2>4. outq' \in Seq([publish : BOOLEAN, handle : Handles]) /\ Len(outq') <= OutCap
    <3>1. outq \in Seq(Requests)
      BY Zenon, <1>0 DEF Requests
    <3>2. \A r \in Requests : /\ Append(outq, r) \in Seq(Requests)
                              /\ Len(Append(outq, r)) = Len(outq) + 1
      BY Zenon, <3>1, Appended
    <3>3. outq' \in Seq(Requests) /\ Len(outq') <= OutCap
      BY Zenon, <1>0, <2>3, <3>1, <3>2 DEF HasRoom
    <3>4. QED
      BY Zenon, <3>3 DEF Requests
  <2>5. QED
    BY Zenon, <2>2, <2>4 DEF QueuesOK
<1>2. CASE OnRepublishTracks
  <2>1. Take("Republish") /\ Republish({h \in Handles : descriptors[h] = "Active"}, {})
    BY Zenon, <1>2 DEF OnRepublishTracks
  <2>2. PICK A \in SUBSET Handles : A = {h \in Handles : descriptors[h] = "Active"}
    BY Zenon
  <2>3. PICK q \in Orders(A) : HasRoom(Len(q)) /\ outq' = outq \o SfuPublishRequests(q)
    BY Zenon, <2>1, <2>2 DEF Republish
  <2>4. outq' \in Seq(Requests) /\ Len(outq') <= OutCap
    BY Zenon, <2>3, Republications DEF HasRoom
  <2>5. inq' \in Seq(Events) /\ Len(inq') <= InCap
    BY Zenon, <2>1, TakeTypes
  <2>6. QED
    BY Zenon, <2>4, <2>5 DEF QueuesOK, Requests
<1>3. CASE SendPublished \/ \E h \in Handles : ShutdownNext(h)
  BY Zenon, <1>0, <1>3 DEF SendPublished, ShutdownNext, ShutdownStep, queues, QueuesOK
<1>4. CASE ShutdownEnd
  BY <1>0, <1>4, LocalTracksAssumption DEF ShutdownEnd, QueuesOK
<1>5. QED
  BY Zenon, <1>1, <1>2, <1>3, <1>4 DEF ManagerStep

LEMMA ManagerTypes ==
  ASSUME TypeOK, ManagerStep
  PROVE  TypeOK'
<1> USE LocalTracksAssumption
<1> SUFFICES MgrOK' /\ PubOK' /\ AppOK'
  BY Zenon, TypeGroupsNext, ManagerQueues
<1> QueuesOK /\ MgrOK /\ PubOK /\ AppOK
  BY Zenon, TypeGroups
<1>0. "Unpublished" \in PublishStates /\ "Published" \in PublishStates
      /\ "Republishing" \in PublishStates
  BY Zenon DEF PublishStates
<1>1. CASE OnPublishRequest
  <2>1. Head(inq) \in Events /\ Head(inq).type = "Publish"
    BY Zenon, <1>1, TakeTypes DEF OnPublishRequest, PublishUpTo
  <2>2. PICK p \in Calls : p = Head(inq).call
    BY Zenon, <2>1, EventParts
  <2>3. CASE value < MaxHandle
    <3>1. value + 1 \in Handles /\ value + 1 \in 0..MaxHandle
      BY <2>3 DEF MgrOK, Handles
    <3>2. Allocate(p, value + 1)
      BY Zenon, <1>1, <2>2, <2>3 DEF OnPublishRequest, PublishUpTo
    <3>3. UNCHANGED <<mgr, awaiting, checked, state, taskVars, held, watched, sfu, faults, lost>>
      BY Zenon, <1>1 DEF OnPublishRequest, PublishUpTo
    <3>4. descriptors' \in [Handles -> {"none", "Pending", "Active"}]
          /\ caller' \in [Handles -> Calls \cup {None}]
      BY Zenon, <3>1, <3>2 DEF Allocate, MgrOK
    <3>5. \A h \in Handles : caller'[h] # None <=> h <= value'
      BY <3>1, <3>2 DEF Allocate, MgrOK, Calls, Handles, None
    <3>6. MgrOK'
      BY Zenon, <3>1, <3>2, <3>3, <3>4, <3>5 DEF MgrOK, Allocate
    <3>7. PubOK'
      BY Zenon, <3>2, <3>3 DEF PubOK, Allocate, taskVars
    <3>8. AppOK'
      BY Zenon, <3>2, <3>3 DEF AppOK, Allocate
    <3>9. QED
      BY Zenon, <3>6, <3>7, <3>8
  <2>4. CASE ~(value < MaxHandle)
    <3>1. /\ call' = IF call[p] = "waiting" THEN [call EXCEPT ![p] = "returned"] ELSE call
          /\ UNCHANGED <<value, descriptors, forwarder, caller, outq, mgr, awaiting, checked,
                         state, taskVars, held, watched, sfu, faults, lost>>
      BY Zenon, <1>1, <2>2, <2>4 DEF OnPublishRequest, PublishUpTo
    <3>2. MgrOK' /\ PubOK'
      BY Zenon, <3>1 DEF MgrOK, PubOK, taskVars
    <3>3. AppOK'
      BY Zenon, <3>1 DEF AppOK
    <3>4. QED
      BY Zenon, <3>2, <3>3
  <2>5. QED
    BY Zenon, <2>3, <2>4
<1>2. CASE OnPublishCancelled
  BY Zenon, <1>2 DEF OnPublishCancelled, Orphaned, MgrOK, PubOK, AppOK, appVars, taskVars
<1>3. CASE OnUnpublishRequest \/ OnSfuUnpublishResponse
  <2>1. Head(inq) \in Events /\ Head(inq).type \in {"Unpublish", "Unpublished"}
    BY Zenon, <1>3, TakeTypes DEF OnUnpublishRequest, OnSfuUnpublishResponse
  <2>2. PICK h \in Handles : h = Head(inq).handle
    BY Zenon, <2>1, EventParts
  <2>3. /\ RemoveDescriptor(h)
        /\ UNCHANGED <<mgr, awaiting, checked, value, taskVars, caller, appVars, sfu, faults,
                       lost>>
    BY Zenon, <1>3, <2>2 DEF OnUnpublishRequest, OnSfuUnpublishResponse
  <2>4. MgrOK' /\ AppOK'
    BY Zenon, <2>3 DEF RemoveDescriptor, MgrOK, AppOK, appVars
  <2>5. state' \in [Handles -> PublishStates]
    BY <1>0, <2>3, StateTypes DEF RemoveDescriptor, PubOK
  <2>6. PubOK'
    BY Zenon, <2>3, <2>5 DEF RemoveDescriptor, Orphaned, PubOK, taskVars
  <2>7. QED
    BY Zenon, <2>4, <2>6
<1>4. CASE OnSfuPublishResponse
  <2>1. Head(inq) \in Events /\ Head(inq).type = "Published"
    BY Zenon, <1>4, TakeTypes DEF OnSfuPublishResponse
  <2>2. PICK h \in Handles, ok \in BOOLEAN : h = Head(inq).handle /\ ok = Head(inq).ok
    BY Zenon, <2>1, EventParts
  <2>3. /\ AnswerUnknown(h) \/ AnswerPending(h, ok) \/ AnswerActive(h, ok)
        /\ UNCHANGED <<mgr, awaiting, value, caller, appVars, sfu, faults, lost>>
    BY Zenon, <1>4, <2>2 DEF OnSfuPublishResponse
  <2>4. /\ descriptors' \in [Handles -> {"none", "Pending", "Active"}]
        /\ checked' \in Handles \cup {None}
    BY Zenon, <2>3 DEF AnswerUnknown, AnswerPending, AnswerActive, MgrOK
  <2>5. MgrOK' /\ AppOK'
    BY Zenon, <2>3, <2>4 DEF MgrOK, AppOK, appVars
  <2>6. CASE AnswerUnknown(h)
    BY Zenon, <2>5, <2>6 DEF AnswerUnknown, PubOK, taskVars
  <2>7. CASE AnswerPending(h, ok)
    BY <1>0, <2>5, <2>7 DEF AnswerPending, PubOK, taskVars
  <2>8. CASE AnswerActive(h, ok)
    BY Zenon, <2>5, <2>8 DEF AnswerActive, PubOK, taskVars
  <2>9. QED
    BY Zenon, <2>3, <2>6, <2>7, <2>8
<1>5. CASE OnRepublishTracks
  <2>1. Republish({h \in Handles : descriptors[h] = "Active"}, {})
    BY Zenon, <1>5 DEF OnRepublishTracks
  <2>2. MgrOK' /\ AppOK'
    BY Zenon, <2>1 DEF Republish, MgrOK, AppOK, appVars
  <2>3. PubOK'
    BY Zenon, <1>0, <2>1 DEF Republish, PubOK, taskVars
  <2>4. QED
    BY Zenon, <2>2, <2>3
<1>6. CASE OnShutdown
  BY Zenon, <1>6 DEF OnShutdown, MgrOK, PubOK, AppOK, pubVars, appVars, taskVars
<1>7. ASSUME NEW h \in Handles, ShutdownNext(h) PROVE MgrOK' /\ PubOK' /\ AppOK'
  <2>1. MgrOK' /\ AppOK'
    BY Zenon, <1>7 DEF ShutdownNext, ShutdownStep, MgrOK, AppOK, appVars
  <2>2. state' \in [Handles -> PublishStates]
    BY <1>0, <1>7, StateTypes DEF ShutdownNext, ShutdownStep, PubOK
  <2>3. PubOK'
    BY Zenon, <1>7, <2>2 DEF ShutdownNext, ShutdownStep, PubOK, taskVars
  <2>4. QED
    BY Zenon, <2>1, <2>3
<1>8. CASE ShutdownEnd
  BY Zenon, <1>8 DEF ShutdownEnd, MgrOK, PubOK, AppOK, pubVars, taskVars
<1>9. CASE SendPublished
  <2>1. PICK h \in Handles : h = checked
    BY Zenon, <1>9 DEF SendPublished, MgrOK
  <2>2. /\ UNCHANGED <<mgr, awaiting, value, descriptors, caller, taskVars, forwarder, appVars,
                       sfu, faults, lost>>
        /\ checked' = None /\ state' = StateAfter(h, "Published")
    BY Zenon, <1>9, <2>1 DEF SendPublished
  <2>3. MgrOK' /\ AppOK'
    BY Zenon, <2>2 DEF MgrOK, AppOK, appVars
  <2>4. state' \in [Handles -> PublishStates]
    BY Zenon, <1>0, <2>2, StateTypes
  <2>5. PubOK'
    BY Zenon, <2>2, <2>4 DEF PubOK, taskVars
  <2>6. QED
    BY Zenon, <2>3, <2>5
<1>10. QED
  BY Zenon, <1>1, <1>2, <1>3, <1>4, <1>5, <1>6, <1>7, <1>8, <1>9 DEF ManagerStep

-----------------------------------------------------------------------------
(* Answers.                                                                *)

\* A manager that runs has run before, and what was lost stays lost.
LEMMA StillRunning ==
  ASSUME TypeOK, Next, mgr' = "running", ~lost'
  PROVE  mgr = "running" /\ ~lost
<1>1. lost \in BOOLEAN
  BY Zenon DEF TypeOK
<1>2. CASE \E p \in Calls : PublishTrack(p) \/ PublishTimeout(p)
  BY <1>2 DEF PublishTrack, PublishTimeout, mgrVars
<1>3. CASE \/ \E h \in Handles : \/ Unpublish(h) \/ DropTrack(h)
                                 \/ WaitForUnpublish(h) \/ WaitEnds(h)
           \/ \E h \in Handles : Forward(h) \/ TaskStep(h) \/ SfuUnpublishes(h)
  BY Zenon, <1>1, <1>3
  DEF Unpublish, DropTrack, WaitForUnpublish, WaitEnds, Forward, ForwardResult, ForwardCancels, TaskStep, TaskSees, TaskLeaves,
      SfuUnpublishes, TrySend, localVars, mgrVars
<1>4. CASE ManagerStep
  <2>1. CASE OnPublishRequest \/ OnPublishCancelled \/ OnUnpublishRequest
    BY Zenon, <1>1, <2>1 DEF OnPublishRequest, PublishUpTo, OnPublishCancelled, OnUnpublishRequest
  <2>2. CASE OnSfuPublishResponse \/ OnSfuUnpublishResponse
    BY <2>2 DEF OnSfuPublishResponse, OnSfuUnpublishResponse
  <2>3. CASE OnRepublishTracks
    BY Zenon, <2>3 DEF OnRepublishTracks, Republish
  <2>4. CASE OnShutdown \/ (\E h \in Handles : ShutdownNext(h)) \/ ShutdownEnd
    BY Zenon, <2>4 DEF OnShutdown, ShutdownNext, ShutdownStep, ShutdownEnd
  <2>5. CASE SendPublished
    BY <2>5 DEF SendPublished
  <2>6. QED
    BY Zenon, <1>4, <2>1, <2>2, <2>3, <2>4, <2>5 DEF ManagerStep
<1>5. CASE SfuTakes \/ FullReconnect \/ RoomCloses
  BY Zenon, <1>1, <1>5 DEF SfuTakes, FullReconnect, RoomCloses, TrySend, localVars, mgrVars
<1>6. QED
  BY Zenon, <1>2, <1>3, <1>4, <1>5 DEF Next

\* A new event keeps AnswersTrue if it says what the SFU has done.
LEMMA AnswersStay ==
  ASSUME TypeOK, TypeOK', AnswersTrue, NEW e \in Events,
         \/ inq' = inq /\ sfu' = sfu
         \/ /\ inq' = Append(inq, e)
            /\ \A h \in Handles : h \notin sfu' => h \notin sfu \/ Ends(e, h)
            /\ \A h \in Handles : e = Positive(h) => h \in sfu'
  PROVE  AnswersTrue'
<1>1. CASE inq' = inq /\ sfu' = sfu
  BY Zenon, <1>1 DEF AnswersTrue
<1>2. CASE /\ inq' = Append(inq, e)
           /\ \A h \in Handles : h \notin sfu' => h \notin sfu \/ Ends(e, h)
           /\ \A h \in Handles : e = Positive(h) => h \in sfu'
  <2>1. PICK n \in Nat : n = Len(inq)
    BY Zenon, Queued
  <2>2. /\ Len(inq') = n + 1 /\ inq'[n + 1] = e
        /\ \A i \in 1..n : inq'[i] = inq[i]
    BY <1>2, <2>1, Queued, Appended
  <2>3. SUFFICES ASSUME NEW h \in Handles, h \notin sfu', NEW i \in 1..(n + 1),
                        inq'[i] = Positive(h)
                 PROVE  \E j \in (i + 1)..(n + 1) : Ends(inq'[j], h)
    BY Zenon, <2>2 DEF AnswersTrue
  <2>4. i # n + 1
    BY Zenon, <1>2, <2>2, <2>3
  <2>5. i \in 1..n /\ inq[i] = Positive(h)
    BY <2>2, <2>3, <2>4
  <2>6. CASE Ends(e, h)
    <3>1. n + 1 \in (i + 1)..(n + 1)
      BY <2>5
    <3>2. QED
      BY Zenon, <2>2, <2>6, <3>1
  <2>7. CASE h \notin sfu
    <3>1. PICK j \in (i + 1)..n : Ends(inq[j], h)
      BY Zenon, <2>1, <2>5, <2>7 DEF AnswersTrue
    <3>2. j \in 1..n /\ j \in (i + 1)..(n + 1)
      OBVIOUS
    <3>3. QED
      BY Zenon, <2>2, <3>1, <3>2
  <2>8. QED
    BY Zenon, <1>2, <2>3, <2>6, <2>7
<1>3. QED
  BY Zenon, <1>1, <1>2

LEMMA AnswersLeft ==
  ASSUME TypeOK, AnswersTrue, inq # <<>>, inq' = Tail(inq), sfu' = sfu
  PROVE  /\ AnswersTrue'
         /\ \A h \in Handles : Head(inq) = Positive(h)
                                  => h \in sfu \/ EndComing(h)'
<1>1. PICK n \in Nat : n + 1 = Len(inq)
  <2>1. Len(inq) \in Nat \ {0}
    BY Zenon, Tailed DEF TypeOK
  <2>2. Len(inq) - 1 \in Nat /\ (Len(inq) - 1) + 1 = Len(inq)
    BY <2>1
  <2>3. QED
    BY Zenon, <2>2
<1>2. /\ Len(inq') = n /\ Head(inq) = inq[1] /\ \A i \in 1..n : inq'[i] = inq[i + 1]
  <2>1. /\ Head(inq) = inq[1] /\ Len(Tail(inq)) = Len(inq) - 1
        /\ \A i \in 1..(Len(inq) - 1) : Tail(inq)[i] = inq[i + 1]
    BY ZenonT(40), Tailed DEF TypeOK
  <2>2. Len(inq) - 1 = n
    BY <1>1
  <2>3. QED
    BY Zenon, <2>1, <2>2
<1>3. ASSUME NEW h \in Handles, h \notin sfu, NEW i \in 1..(n + 1),
             inq[i] = Positive(h)
      PROVE  \E j \in i..n : j \in 1..n /\ Ends(inq'[j], h)
  <2>1. PICK j \in (i + 1)..(n + 1) : Ends(inq[j], h)
    BY Zenon, <1>1, <1>3 DEF AnswersTrue
  <2>2. j - 1 \in i..n /\ j - 1 \in 1..n /\ (j - 1) + 1 = j
    OBVIOUS
  <2>3. inq'[j - 1] = inq[j]
    BY Zenon, <1>2, <2>2
  <2>4. QED
    BY Zenon, <2>1, <2>2, <2>3
<1>4. AnswersTrue'
  <2>1. SUFFICES ASSUME NEW h \in Handles, h \notin sfu, NEW i \in 1..n,
                        inq'[i] = Positive(h)
                 PROVE  \E j \in (i + 1)..n : Ends(inq'[j], h)
    BY Zenon, <1>2 DEF AnswersTrue
  <2>2. i + 1 \in 1..(n + 1) /\ inq[i + 1] = Positive(h)
    BY <1>2, <2>1
  <2>3. QED
    BY Zenon, <1>3, <2>1, <2>2
<1>5. ASSUME NEW h \in Handles, Head(inq) = Positive(h), h \notin sfu
      PROVE  EndComing(h)'
  <2>1. 1 \in 1..(n + 1) /\ inq[1] = Positive(h)
    BY <1>2, <1>5
  <2>2. PICK j \in 1..n : Ends(inq'[j], h)
    BY Zenon, <1>3, <1>5, <2>1
  <2>3. QED
    BY Zenon, <1>2, <2>2 DEF EndComing
<1>6. QED
  BY Zenon, <1>4, <1>5

\* What the steps of the application and of the tasks leave alone.
AppStep ==
    \/ \E p \in Calls : PublishTrack(p) \/ PublishTimeout(p)
    \/ \E h \in Handles : \/ Unpublish(h) \/ DropTrack(h) \/ WaitForUnpublish(h)
                          \/ WaitEnds(h) \/ Forward(h) \/ TaskStep(h)

LEMMA AppLeaves ==
  ASSUME TypeOK, AppStep
  PROVE  /\ UNCHANGED <<outq, descriptors, checked, sfu>>
         /\ \E e \in Events : /\ e.type # "Published"
                              /\ inq' = inq \/ inq' = Append(inq, e)
         /\ \A h \in Handles : /\ task'[h] = "running" => task[h] = "running"
                               /\ state'[h] = state[h] \/ state'[h] = "Unpublished"
<1>0. TypeOK
  BY Zenon
<1>1. UNCHANGED <<outq, descriptors, checked, sfu>>
  BY Zenon DEF AppStep, PublishTrack, PublishTimeout, Unpublish, DropTrack, WaitForUnpublish,
         WaitEnds, Forward, ForwardResult,
         ForwardCancels, TaskStep, TaskSees, TaskLeaves, queues, mgrVars
<1>2. \E e \in Events : e.type # "Published" /\ (inq' = inq \/ inq' = Append(inq, e))
  <2>1. \A p \in Calls : PublishRequest(p) \in Events /\ PublishRequest(p).type # "Published"
    BY Zenon, EventKinds DEF PublishRequest
  <2>2. \A h \in Handles : /\ PublishCancelled(h) \in Events /\ UnpublishRequest(h) \in Events
                           /\ PublishCancelled(h).type # "Published"
                           /\ UnpublishRequest(h).type # "Published"
    BY Zenon, EventKinds DEF PublishCancelled, UnpublishRequest
  <2>3. Event("Shutdown") \in Events /\ Event("Shutdown").type # "Published"
    BY Zenon, EventKinds DEF Event
  <2>4. CASE \E p \in Calls : PublishTrack(p)
    BY Zenon, <2>1, <2>4 DEF PublishTrack
  <2>5. CASE \E h \in Handles : ForwardCancels(h) \/ TaskLeaves(h)
    BY Zenon, <2>2, <2>5 DEF ForwardCancels, TaskLeaves, TrySend
  <2>6. CASE \/ \E p \in Calls : PublishTimeout(p)
             \/ \E h \in Handles : \/ Unpublish(h) \/ DropTrack(h) \/ WaitForUnpublish(h)
                                   \/ WaitEnds(h) \/ ForwardResult(h) \/ TaskSees(h)
    BY Zenon, <2>3, <2>6 DEF PublishTimeout, Unpublish, DropTrack, WaitForUnpublish, WaitEnds,
                             ForwardResult, TaskSees, queues
  <2>7. QED
    BY Zenon, <2>4, <2>5, <2>6 DEF AppStep, Forward, TaskStep
<1>3. ASSUME NEW h \in Handles
      PROVE  /\ task'[h] = "running" => task[h] = "running"
             /\ state'[h] = state[h] \/ state'[h] = "Unpublished"
  <2>1. task \in [Handles -> {"none", "running", "leaving", "ended"}]
        /\ state \in [Handles -> PublishStates]
    BY Zenon DEF TypeOK
  <2>2. task'[h] = "running" => task[h] = "running"
    BY Zenon, <2>1
    DEF AppStep, PublishTrack, PublishTimeout, Unpublish, DropTrack, WaitForUnpublish,
         WaitEnds, Forward, ForwardResult,
        ForwardCancels, TaskStep, TaskSees, TaskLeaves, pubVars, taskVars
  <2>3. state'[h] = state[h] \/ state'[h] = "Unpublished"
    BY Zenon, <2>1
    DEF AppStep, PublishTrack, PublishTimeout, Unpublish, DropTrack, WaitForUnpublish,
         WaitEnds, Forward, ForwardResult,
        ForwardCancels, TaskStep, TaskSees, TaskLeaves, pubVars, StateAfter
  <2>4. QED
    BY Zenon, <2>2, <2>3
<1>4. QED
  BY Zenon, <1>1, <1>2, <1>3

Good == (\A h \in Handles : WaitsForSfu(h) => Coming(h)) /\ AnswersTrue /\ PublishedOrEnds

LEMMA AppGood ==
  ASSUME TypeOK, TypeOK', Good, AppStep
  PROVE  Good'
<1>1. PICK e \in Events : e.type # "Published" /\ (inq' = inq \/ inq' = Append(inq, e))
  BY Zenon, AppLeaves
<1>2. UNCHANGED <<outq, descriptors, checked, sfu>>
  BY Zenon, AppLeaves
<1>3. AnswersTrue'
  <2>1. \A h \in Handles : e # Positive(h)
    BY <1>1 DEF Positive, SfuPublishResponse
  <2>2. QED
    BY Zenon, <1>1, <1>2, <2>1, AnswersStay DEF Good
<1>4. ASSUME NEW h \in Handles
      PROVE  /\ WaitsForSfu(h)' => Coming(h)'
             /\ Claimed(h)' => descriptors'[h] = "Active" /\ (h \in sfu' \/ EndComing(h)')
  <2>1. /\ task'[h] = "running" => task[h] = "running"
        /\ state'[h] = state[h] \/ state'[h] = "Unpublished"
    BY Zenon, AppLeaves
  <2>2. WaitsForSfu(h)' => WaitsForSfu(h)
    BY Zenon, <1>2, <2>1 DEF WaitsForSfu
  <2>3. /\ InQueue("Published", h) => InQueue("Published", h)'
        /\ WillRepublish => WillRepublish'
        /\ EndComing(h) => EndComing(h)'
    BY Zenon, <1>1, SentStays
  <2>4. Asked(h) => Asked(h)'
    BY Zenon, <1>2 DEF Asked
  <2>5. WaitsForSfu(h)' => Coming(h)'
    BY Zenon, <1>2, <2>2, <2>3, <2>4 DEF Coming, Good
  <2>6. ASSUME Claimed(h)' PROVE descriptors'[h] = "Active" /\ (h \in sfu' \/ EndComing(h)')
    <3>1. Claimed(h)
      BY Zenon, <1>2, <2>1, <2>6 DEF Claimed
    <3>2. descriptors[h] = "Active" /\ (h \in sfu \/ EndComing(h))
      BY Zenon, <3>1 DEF Good, PublishedOrEnds
    <3>3. QED
      BY Zenon, <1>2, <2>3, <3>2
  <2>7. QED
    BY Zenon, <2>5, <2>6
<1>5. QED
  BY Zenon, <1>3, <1>4 DEF Good, PublishedOrEnds

LEMMA EventTypes ==
  /\ Event("Republish").type = "Republish" /\ Event("Shutdown").type = "Shutdown"
  /\ \A h \in Handles : /\ SfuUnpublishResponse(h).type = "Unpublished"
                        /\ SfuUnpublishResponse(h).handle = h
BY Zenon DEF Event, SfuUnpublishResponse

Negative(h) == SfuPublishResponse(h, FALSE)

LEMMA Answers ==
  ASSUME NEW h \in Handles
  PROVE  /\ Positive(h) \in Events /\ Positive(h).type = "Published" /\ Positive(h).handle = h
         /\ Negative(h) \in Events /\ Negative(h).type = "Published" /\ Negative(h).handle = h
         /\ Positive(h).ok /\ ~Negative(h).ok
<1>1. Positive(h) \in Events /\ Negative(h) \in Events
  BY Zenon, EventKinds DEF Positive, Negative
<1>2. /\ Positive(h).type = "Published" /\ Positive(h).handle = h
      /\ Negative(h).type = "Published" /\ Negative(h).handle = h
  BY Zenon DEF Positive, Negative, SfuPublishResponse
<1>3. Positive(h).ok /\ ~Negative(h).ok
  BY Zenon DEF Positive, Negative, SfuPublishResponse
<1>4. QED
  BY Zenon, <1>1, <1>2, <1>3

LEMMA RequestKinds ==
  \A h \in Handles : /\ SfuPublishRequest(h).publish
                     /\ SfuPublishRequest(h).handle = h
BY Zenon DEF SfuPublishRequest

\* The events of the SFU are true of what it has.
LEMMA SfuGood ==
  ASSUME TypeOK, TypeOK', Good, mgr = "running", ~lost',
         SfuTakes \/ FullReconnect \/ RoomCloses \/ \E h \in Handles : SfuUnpublishes(h)
  PROVE  Good'
<1>1. UNCHANGED <<descriptors, checked, task, state>>
  BY Zenon DEF SfuTakes, FullReconnect, RoomCloses, SfuUnpublishes, localVars, mgrVars, pubVars,
         taskVars
\* Enough for any of these steps: what it says, and what stays.
<1>2. ASSUME NEW e \in Events, inq' = Append(inq, e),
             \A h \in Handles : h \notin sfu' => h \notin sfu \/ Ends(e, h),
             \A h \in Handles : e = Positive(h) => h \in sfu',
             \A h \in Handles : Asked(h) => Coming(h)'
      PROVE  Good'
  <2>1. AnswersTrue'
    BY Zenon, <1>2, AnswersStay DEF Good
  <2>2. ASSUME NEW h \in Handles, WaitsForSfu(h)' PROVE Coming(h)'
    <3>1. WaitsForSfu(h)
      BY Zenon, <1>1, <2>2 DEF WaitsForSfu
    <3>2. Asked(h) \/ InQueue("Published", h) \/ WillRepublish \/ checked' = h
      BY Zenon, <1>1, <3>1 DEF Good, Coming
    <3>3. /\ InQueue("Published", h) => InQueue("Published", h)'
          /\ WillRepublish => WillRepublish'
      BY Zenon, <1>2, SentStays
    <3>4. QED
      BY Zenon, <1>2, <3>2, <3>3 DEF Coming
  <2>3. ASSUME NEW h \in Handles, Claimed(h)'
        PROVE  descriptors'[h] = "Active" /\ (h \in sfu' \/ EndComing(h)')
    <3>1. descriptors'[h] = "Active" /\ (h \in sfu \/ EndComing(h))
      BY Zenon, <1>1, <2>3 DEF Good, PublishedOrEnds, Claimed
    <3>2. EndComing(h) => EndComing(h)'
      BY Zenon, <1>2, SentStays
    <3>3. Ends(e, h) => EndComing(h)'
      BY Zenon, <1>2, SentIsThere
    <3>4. QED
      BY Zenon, <1>2, <3>1, <3>2, <3>3
  <2>4. QED
    BY Zenon, <2>1, <2>2, <2>3 DEF Good, PublishedOrEnds
<1>3. ASSUME NEW e \in Events, TrySend(e) PROVE inq' = Append(inq, e)
  BY Zenon, <1>3 DEF TrySend
<1>4. CASE SfuTakes
  <2>1. PICK h \in Handles : h = Head(outq).handle /\ outq # <<>> /\ outq' = Tail(outq)
    <3>1. outq # <<>> /\ outq' = Tail(outq) /\ outq \in Seq(Requests)
      BY Zenon, <1>4 DEF SfuTakes, TypeOK, Requests
    <3>2. Head(outq) \in Requests
      BY Zenon, <3>1, Tailed
    <3>3. QED
      BY Zenon, <3>1, <3>2 DEF Requests
  <2>2. ASSUME NEW g \in Handles, g # h \/ ~Head(outq).publish PROVE Asked(g) => Asked(g)'
    <3>1. Head(outq) # SfuPublishRequest(g)
      <4>1. CASE g # h
        BY Zenon, <2>1, <4>1, RequestKinds
      <4>2. CASE ~Head(outq).publish
        BY Zenon, <4>2, RequestKinds
      <4>3. QED
        BY Zenon, <2>2, <4>1, <4>2
    <3>2. QED
      BY Zenon, <2>1, <3>1, OthersAsked
  <2>3. CASE Head(outq).publish /\ sfu' = sfu \cup {h} /\ TrySend(Positive(h))
    <3>1. Positive(h) \in Events /\ Positive(h).type = "Published" /\ Positive(h).handle = h
      BY Zenon, Answers
    <3>2. inq' = Append(inq, Positive(h))
      BY Zenon, <1>3, <2>3, <3>1
    <3>3. \A g \in Handles : Positive(h) = Positive(g) => g \in sfu'
      BY Zenon, <2>3, <3>1, Answers
    <3>4. InQueue("Published", h)'
      BY Zenon, <3>1, <3>2, SentIsThere
    <3>5. \A g \in Handles : Asked(g) => Coming(g)'
      BY Zenon, <2>2, <3>4 DEF Coming
    <3>6. QED
      BY Zenon, <1>2, <2>3, <3>1, <3>2, <3>3, <3>5
  <2>4. CASE Head(outq).publish /\ sfu' = sfu /\ TrySend(Negative(h))
    <3>1. Negative(h) \in Events /\ Negative(h).type = "Published" /\ Negative(h).handle = h
      BY Zenon, Answers
    <3>2. inq' = Append(inq, Negative(h))
      BY Zenon, <1>3, <2>4, <3>1
    <3>3. \A g \in Handles : Negative(h) # Positive(g)
      BY Zenon, Answers
    <3>4. InQueue("Published", h)'
      BY Zenon, <3>1, <3>2, SentIsThere
    <3>5. \A g \in Handles : Asked(g) => Coming(g)'
      BY Zenon, <2>2, <3>4 DEF Coming
    <3>6. QED
      BY Zenon, <1>2, <2>4, <3>1, <3>2, <3>3, <3>5
  <2>5. CASE ~Head(outq).publish /\ sfu' = sfu \ {h} /\ TrySend(SfuUnpublishResponse(h))
    <3>1. PICK e \in Events : /\ e = SfuUnpublishResponse(h) /\ inq' = Append(inq, e)
                              /\ e.type = "Unpublished" /\ e.handle = h
      BY Zenon, <1>3, <2>5, EventKinds, EventTypes
    <3>2. Ends(e, h) /\ \A g \in Handles : e # Positive(g)
      BY Zenon, <3>1, Answers DEF Ends
    <3>3. \A g \in Handles : Asked(g) => Coming(g)'
      BY Zenon, <2>2, <2>5 DEF Coming
    <3>4. QED
      BY Zenon, <1>2, <2>5, <3>1, <3>2, <3>3
  <2>6. QED
    BY Zenon, <1>4, <2>1, <2>3, <2>4, <2>5 DEF SfuTakes, Positive, Negative
<1>5. CASE FullReconnect
  <2>1. PICK e \in Events : /\ e = Event("Republish") /\ inq' = Append(inq, e)
                            /\ e.type = "Republish"
    BY Zenon, <1>3, <1>5, EventKinds, EventTypes DEF FullReconnect
  <2>2. \A h \in Handles : Ends(e, h) /\ e # Positive(h)
    BY Zenon, <2>1, Answers DEF Ends
  <2>3. \A h \in Handles : Coming(h)'
    BY Zenon, <2>1, SentIsThere DEF Coming
  <2>4. QED
    BY Zenon, <1>2, <2>1, <2>2, <2>3
<1>6. CASE RoomCloses
  <2>1. PICK e \in Events : /\ e = Event("Shutdown") /\ inq' = Append(inq, e)
                            /\ e.type = "Shutdown"
    BY Zenon, <1>3, <1>6, EventKinds, EventTypes DEF RoomCloses
  <2>2. \A h \in Handles : e # Positive(h)
    BY Zenon, <2>1, Answers
  <2>3. UNCHANGED <<outq, sfu>>
    BY Zenon, <1>6 DEF RoomCloses
  <2>4. \A h \in Handles : Asked(h) => Coming(h)'
    BY Zenon, <2>3 DEF Coming, Asked
  <2>5. QED
    BY Zenon, <1>2, <2>1, <2>2, <2>3, <2>4
<1>7. ASSUME NEW h \in Handles, SfuUnpublishes(h) PROVE Good'
  <2>1. PICK e \in Events : /\ e = SfuUnpublishResponse(h) /\ inq' = Append(inq, e)
                            /\ e.type = "Unpublished" /\ e.handle = h
    BY Zenon, <1>3, <1>7, EventKinds, EventTypes DEF SfuUnpublishes
  <2>2. Ends(e, h) /\ \A g \in Handles : e # Positive(g)
    BY Zenon, <2>1, Answers DEF Ends
  <2>3. outq' = outq /\ sfu' = sfu \ {h}
    BY Zenon, <1>7 DEF SfuUnpublishes
  <2>4. \A g \in Handles : Asked(g) => Coming(g)'
    BY Zenon, <2>3 DEF Coming, Asked
  <2>5. QED
    BY Zenon, <1>2, <2>1, <2>2, <2>3, <2>4
<1>8. QED
  BY Zenon, <1>4, <1>5, <1>6, <1>7

\* A handler of the manager is good for the other publications, and for its own.
LEMMA TakenGood ==
  ASSUME TypeOK, TypeOK', Good, NEW t, Take(t), t # "Republish", sfu' = sfu,
         NEW k \in Handles,
         t \in {"Published", "Unpublished"} => Head(inq).handle = k,
         \A h \in Handles \ {k} :
             descriptors'[h] = descriptors[h] /\ task'[h] = task[h] /\ state'[h] = state[h],
         \A h \in Handles : Asked(h) => Asked(h)',
         WaitsForSfu(k)' => Asked(k)' \/ checked' = k \/ (WaitsForSfu(k) /\ t # "Published"),
         \/ checked' = None
         \/ checked' = k /\ descriptors'[k] = "Active" /\ Head(inq) = Positive(k),
         (descriptors'[k] = "Active" /\ task'[k] = "running" /\ state'[k] = "Published")
             => \/ Head(inq) = Positive(k)
                \/ /\ descriptors[k] = "Active" /\ task[k] = "running" /\ state[k] = "Published"
                   /\ t # "Unpublished"
  PROVE  Good'
<1>0. \A h \in Handles : h # None
  BY LocalTracksAssumption DEF Handles, None
<1>1. inq # <<>> /\ inq' = Tail(inq) /\ Head(inq).type = t /\ checked = None
  BY Zenon DEF Take
<1>2. AnswersTrue' /\ (Head(inq) = Positive(k) => k \in sfu \/ EndComing(k)')
  BY Zenon, <1>1, AnswersLeft DEF Good
<1>3. ASSUME NEW h \in Handles, WaitsForSfu(h)' PROVE Coming(h)'
  <2>1. CASE Asked(h)' \/ checked' = h
    BY ZenonT(40), <2>1 DEF Coming
  <2>2. CASE WaitsForSfu(h) /\ ~(t = "Published" /\ Head(inq).handle = h)
    <3>1. Asked(h) \/ InQueue("Published", h) \/ WillRepublish
      BY Zenon, <1>0, <1>1, <2>2 DEF Good, Coming
    <3>2. /\ InQueue("Published", h) => InQueue("Published", h)'
          /\ WillRepublish => WillRepublish'
      BY Zenon, <1>1, <2>2, OthersStay
    <3>3. QED
      BY Zenon, <3>1, <3>2 DEF Coming
  <2>3. CASE h # k
    <3>1. WaitsForSfu(h)
      BY Zenon, <1>3, <2>3 DEF WaitsForSfu
    <3>2. QED
      BY Zenon, <2>2, <2>3, <3>1
  <2>4. QED
    BY Zenon, <1>3, <2>1, <2>2, <2>3
<1>4. ASSUME NEW h \in Handles, Claimed(h)'
      PROVE  descriptors'[h] = "Active" /\ (h \in sfu' \/ EndComing(h)')
  <2>1. CASE h = k /\ Head(inq) = Positive(k) /\ descriptors'[k] = "Active"
    BY Zenon, <1>2, <2>1
  <2>2. CASE /\ descriptors[h] = "Active" /\ task[h] = "running" /\ state[h] = "Published"
             /\ ~(t = "Unpublished" /\ Head(inq).handle = h) /\ descriptors'[h] = "Active"
    <3>1. h \in sfu \/ EndComing(h)
      BY Zenon, <2>2 DEF Good, PublishedOrEnds, Claimed
    <3>2. ~Ends(Head(inq), h)
      BY Zenon, <1>1, <2>2 DEF Ends
    <3>3. EndComing(h) => EndComing(h)'
      BY Zenon, <1>1, <3>2, OthersStay
    <3>4. QED
      BY Zenon, <2>2, <3>1, <3>3
  <2>3. CASE checked' = h
    BY Zenon, <1>0, <2>1, <2>3
  <2>4. CASE descriptors'[h] = "Active" /\ task'[h] = "running" /\ state'[h] = "Published"
    BY Zenon, <2>1, <2>2, <2>4
  <2>5. QED
    BY Zenon, <1>4, <2>3, <2>4 DEF Claimed
<1>5. QED
  BY Zenon, <1>2, <1>3, <1>4 DEF Good, PublishedOrEnds

\* on_republish_tracks asks for all that it leaves waiting.
LEMMA RepublishGood ==
  ASSUME TypeOK, TypeOK', Good, OnRepublishTracks
  PROVE  Good'
<1>1. Take("Republish") /\ Republish({h \in Handles : descriptors[h] = "Active"}, {})
  BY Zenon DEF OnRepublishTracks
<1>2. inq # <<>> /\ inq' = Tail(inq) /\ sfu' = sfu /\ task' = task /\ checked' = None
  BY Zenon, <1>1 DEF Take, Republish, taskVars
<1>3. AnswersTrue'
  BY Zenon, <1>2, AnswersLeft DEF Good
<1>4. PICK A \in SUBSET Handles : A = {h \in Handles : descriptors[h] = "Active"}
  BY Zenon
<1>5. PICK q \in Orders(A) : outq' = outq \o SfuPublishRequests(q)
  BY Zenon, <1>1, <1>4 DEF Republish
<1>6. \A h \in A : \E i \in 1..Len(outq') : outq'[i] = SfuPublishRequest(h)
  <2>1. AsksFor(outq', A)
    BY Zenon, <1>5, Republications
  <2>2. QED
    BY Zenon, <2>1 DEF AsksFor
<1>7. DOMAIN outq' = 1..Len(outq')
  BY Zenon, LengthsNext
<1>8. \A h \in A : Asked(h)'
  BY Zenon, <1>6, <1>7 DEF Asked
<1>9. ASSUME NEW h \in Handles
      PROVE  /\ descriptors'[h] # "Pending"
             /\ descriptors'[h] = "Active" => descriptors[h] = "Active"
             /\ descriptors'[h] = "Active" /\ task'[h] = "running" => state'[h] = "Republishing"
  BY Zenon, <1>1, <1>2 DEF Republish, Heard
<1>10. \A h \in Handles : WaitsForSfu(h)' => Coming(h)'
  BY Zenon, <1>4, <1>8, <1>9 DEF WaitsForSfu, Coming
<1>11. PublishedOrEnds'
  <2>1. \A h \in Handles : h # None
    BY LocalTracksAssumption DEF Handles, None
  <2>2. \A h \in Handles : ~Claimed(h)'
    BY Zenon, <1>2, <1>9, <2>1 DEF Claimed
  <2>3. QED
    BY Zenon, <2>2 DEF PublishedOrEnds
<1>12. QED
  BY Zenon, <1>3, <1>10, <1>11 DEF Good

\* What is sent as Published was found true when its answer came.
LEMMA SendGood ==
  ASSUME TypeOK, Good, SendPublished
  PROVE  Good'
<1>1. PICK k \in Handles : k = checked
  BY Zenon DEF SendPublished, TypeOK
<1>2. /\ UNCHANGED <<inq, outq, descriptors, task, sfu>> /\ checked' = None
      /\ state' = StateAfter(k, "Published")
  BY Zenon, <1>1 DEF SendPublished, queues, taskVars
<1>3. state \in [Handles -> PublishStates] /\ \A h \in Handles : h # None
  BY LocalTracksAssumption DEF TypeOK, Handles, None
<1>4. descriptors[k] = "Active" /\ (k \in sfu \/ EndComing(k))
  BY Zenon, <1>1 DEF Good, PublishedOrEnds, Claimed
<1>5. \A h \in Handles : h # k => state'[h] = state[h]
  BY Zenon, <1>2, <1>3 DEF StateAfter
<1>6. task[k] = "running" => state'[k] = "Published"
  BY Zenon, <1>2, <1>3 DEF StateAfter, Heard
<1>7. AnswersTrue'
  BY Zenon, <1>2 DEF Good, AnswersTrue
<1>8. ASSUME NEW h \in Handles, WaitsForSfu(h)' PROVE Coming(h)'
  <2>1. h # k
    BY Zenon, <1>2, <1>4, <1>6, <1>8 DEF WaitsForSfu
  <2>2. WaitsForSfu(h)
    BY Zenon, <1>2, <1>5, <1>8, <2>1 DEF WaitsForSfu
  <2>3. Asked(h) \/ InQueue("Published", h) \/ WillRepublish
    BY Zenon, <1>1, <2>1, <2>2 DEF Good, Coming
  <2>4. QED
    BY Zenon, <1>2, <2>3 DEF Coming, Asked, InQueue, WillRepublish
<1>9. ASSUME NEW h \in Handles, Claimed(h)'
      PROVE  descriptors'[h] = "Active" /\ (h \in sfu' \/ EndComing(h)')
  <2>1. EndComing(h)' <=> EndComing(h)
    BY Zenon, <1>2 DEF EndComing
  <2>2. CASE h = k
    BY Zenon, <1>2, <1>4, <2>1, <2>2
  <2>3. CASE h # k
    <3>1. Claimed(h)
      BY Zenon, <1>2, <1>3, <1>5, <1>9, <2>3 DEF Claimed
    <3>2. QED
      BY Zenon, <1>2, <2>1, <3>1 DEF Good, PublishedOrEnds
  <2>4. QED
    BY Zenon, <2>2, <2>3
<1>10. QED
  BY Zenon, <1>7, <1>8, <1>9 DEF Good, PublishedOrEnds

LEMMA ManagerGood ==
  ASSUME TypeOK, TypeOK', Good, ManagerStep, mgr' = "running"
  PROVE  Good'
<1> USE DEF mgrVars, taskVars, appVars
<1>0. /\ descriptors \in [Handles -> {"none", "Pending", "Active"}]
      /\ task \in [Handles -> {"none", "running", "leaving", "ended"}]
      /\ state \in [Handles -> PublishStates]
  BY Zenon DEF TypeOK
<1>1. CASE OnPublishRequest
  <2>1. /\ Take("Publish") /\ sfu' = sfu /\ task' = task /\ state' = state
        /\ checked' = None
    BY Zenon, <1>1 DEF OnPublishRequest, PublishUpTo, Take
  <2>2. CASE value < MaxHandle
    <3>1. PICK k \in Handles : k = value + 1
      BY <2>2, LocalTracksAssumption DEF TypeOK, Handles
    <3>2. /\ descriptors' = [descriptors EXCEPT ![k] = "Pending"]
          /\ outq' = Append(outq, SfuPublishRequest(k))
      BY Zenon, <1>1, <2>2, <3>1 DEF OnPublishRequest, PublishUpTo, Allocate
    <3>3. Asked(k)' /\ \A h \in Handles : Asked(h) => Asked(h)'
      <4>1. Asked(k)'
        BY Zenon, <3>2, AskedNow
      <4>2. SfuPublishRequest(k) \in Requests
        BY Zenon, EventKinds
      <4>3. QED
        BY Zenon, <3>2, <4>1, <4>2, AskedStays
    <3>4. /\ descriptors'[k] = "Pending"
          /\ \A h \in Handles \ {k} : descriptors'[h] = descriptors[h]
      BY Zenon, <1>0, <3>2
    <3>5. QED
      BY <2>1, <3>3, <3>4, TakenGood
  <2>3. CASE ~(value < MaxHandle)
    <3>1. UNCHANGED <<descriptors, outq>>
      BY Zenon, <1>1, <2>3 DEF OnPublishRequest, PublishUpTo
    <3>2. \A h \in Handles : Asked(h) => Asked(h)'
      BY Zenon, <3>1 DEF Asked
    <3>3. ASSUME NEW k \in Handles PROVE Good'
      <4>1. WaitsForSfu(k)' => WaitsForSfu(k)
        BY Zenon, <2>1, <3>1 DEF WaitsForSfu
      <4>2. /\ descriptors' = descriptors /\ task' = task /\ state' = state
            /\ Take("Publish") /\ sfu' = sfu /\ checked' = None
        BY Zenon, <2>1, <3>1
      <4>3. \A h \in Handles :
              descriptors'[h] = descriptors[h] /\ task'[h] = task[h] /\ state'[h] = state[h]
        BY Zenon, <4>2
      <4>4. "Publish" \notin {"Republish", "Published", "Unpublished"}
        BY Zenon
      <4>5. QED
        BY Zenon, <3>2, <4>1, <4>2, <4>3, <4>4, TakenGood
    <3>4. CASE Handles = {}
      <4>1. AnswersTrue' /\ PublishedOrEnds'
        BY Zenon, <3>4 DEF AnswersTrue, PublishedOrEnds
      <4>2. QED
        BY Zenon, <3>4, <4>1 DEF Good
    <3>5. QED
      BY Zenon, <3>3, <3>4
  <2>4. QED
    BY Zenon, <2>2, <2>3
<1>2. CASE OnPublishCancelled
  <2>1. /\ Take("Cancelled") /\ sfu' = sfu /\ task' = task /\ state' = state /\ outq' = outq
        /\ descriptors' = [descriptors EXCEPT ![Head(inq).handle] = "none"]
        /\ checked' = None
    BY Zenon, <1>2 DEF OnPublishCancelled, Take
  <2>2. PICK k \in Handles : k = Head(inq).handle
    BY Zenon, <2>1, TakeTypes, EventParts
  <2>3. \A h \in Handles : Asked(h) => Asked(h)'
    BY Zenon, <2>1 DEF Asked
  <2>4. ~WaitsForSfu(k)'
    BY Zenon, <1>0, <2>1, <2>2 DEF WaitsForSfu
  <2>5. QED
    BY Zenon, <1>0, <2>1, <2>2, <2>3, <2>4, TakenGood
<1>3. CASE OnUnpublishRequest \/ OnSfuUnpublishResponse
  <2>1. PICK t \in {"Unpublish", "Unpublished"} :
           /\ Take(t) /\ RemoveDescriptor(Head(inq).handle) /\ sfu' = sfu /\ task' = task
           /\ \/ outq' = Append(outq, SfuUnpublishRequest(Head(inq).handle))
              \/ outq' = outq
           /\ checked' = None
    BY Zenon, <1>3 DEF OnUnpublishRequest, OnSfuUnpublishResponse, Take
  <2>2. PICK k \in Handles : k = Head(inq).handle
    BY Zenon, <2>1, TakeTypes, EventParts
  <2>3. \A h \in Handles : Asked(h) => Asked(h)'
    BY Zenon, <2>1, <2>2, AskedStays, EventKinds
  <2>4. /\ descriptors'[k] = "none"
        /\ \A h \in Handles \ {k} : descriptors'[h] = descriptors[h] /\ state'[h] = state[h]
    BY Zenon, <1>0, <2>1, <2>2 DEF RemoveDescriptor, StateAfter
  <2>5. ~WaitsForSfu(k)'
    BY Zenon, <2>4 DEF WaitsForSfu
  <2>6. QED
    BY ZenonT(40), <2>1, <2>2, <2>3, <2>4, <2>5, TakenGood
<1>4. CASE OnSfuPublishResponse
  <2>1. Take("Published") /\ sfu' = sfu
    BY Zenon, <1>4 DEF OnSfuPublishResponse
  <2>2. Head(inq) \in Events /\ Head(inq).type = "Published"
    BY Zenon, <2>1, TakeTypes
  <2>3. PICK k \in Handles, ok \in BOOLEAN : k = Head(inq).handle /\ ok = Head(inq).ok
                                             /\ Head(inq) = SfuPublishResponse(k, ok)
    BY Zenon, <2>2, EventParts
  <2>4. AnswerUnknown(k) \/ AnswerPending(k, ok) \/ AnswerActive(k, ok)
    BY Zenon, <1>4, <2>3 DEF OnSfuPublishResponse
  <2>5. outq' = outq \/ outq' = Append(outq, SfuUnpublishRequest(k))
    BY Zenon, <2>4 DEF AnswerUnknown, AnswerPending, AnswerActive
  <2>6. \A h \in Handles : Asked(h) => Asked(h)'
    BY Zenon, <2>5, AskedStays, EventKinds
  <2>7. \A h \in Handles \ {k} : /\ descriptors'[h] = descriptors[h] /\ task'[h] = task[h]
                                 /\ state'[h] = state[h]
    BY Zenon, <1>0, <2>4 DEF AnswerUnknown, AnswerPending, AnswerActive, StateAfter
  <2>8. WaitsForSfu(k)' => checked' = k
    BY ZenonT(40), <1>0, <2>4 DEF AnswerUnknown, AnswerPending, AnswerActive, WaitsForSfu
  <2>9. descriptors'[k] = "Active" => ok
    BY Zenon, <1>0, <2>4 DEF AnswerUnknown, AnswerPending, AnswerActive
  <2>10. ok => Head(inq) = Positive(k)
    BY Zenon, <2>3 DEF Positive
  <2>11. checked' = None \/ (checked' = k /\ descriptors'[k] = "Active")
    BY Zenon, <2>1, <2>4 DEF AnswerUnknown, AnswerPending, AnswerActive, Take
  <2>12. QED
    BY Zenon, <2>1, <2>3, <2>6, <2>7, <2>8, <2>9, <2>10, <2>11, TakenGood
<1>5. CASE OnRepublishTracks
  BY Zenon, <1>5, RepublishGood
<1>6. CASE SendPublished
  BY Zenon, <1>6, SendGood
<1>7. QED
  BY Zenon, <1>1, <1>2, <1>3, <1>4, <1>5, <1>6
  DEF ManagerStep, OnShutdown, ShutdownNext, ShutdownStep, ShutdownEnd

-----------------------------------------------------------------------------
(* The theorems.                                                           *)

LEMMA GoodIs == Exact /\ AnswerComing <=> (mgr = "running" /\ ~lost => Good)
BY Zenon DEF Exact, AnswerComing, Good, WaitsForSfu, Coming

LEMMA LocalInit == ASSUME Init PROVE LocalInv
<1> USE LocalTracksAssumption
<1>1. <<>> \in Seq(Events) /\ <<>> \in Seq([publish : BOOLEAN, handle : Handles])
      /\ Len(<<>>) = 0 /\ 0 \in 0..MaxHandle /\ 0 \in 0..MaxFaults
  OBVIOUS
<1>2. QueuesOK
  BY <1>1 DEF Init, QueuesOK
<1>3. MgrOK
  BY <1>1 DEF Init, MgrOK, None, Handles
<1>4. PubOK /\ AppOK
  BY Zenon, <1>1 DEF Init, PubOK, AppOK, PublishStates
<1>5. AnswerComing /\ Exact
  <2>1. \A h \in Handles : h # None
    BY LocalTracksAssumption DEF Handles, None
  <2>2. AnswerComing
    BY Zenon DEF Init, AnswerComing
  <2>3. PublishedOrEnds
    BY Zenon, <2>1 DEF Init, PublishedOrEnds, Claimed
  <2>4. AnswersTrue
    BY DEF Init, AnswersTrue
  <2>5. QED
    BY Zenon, <2>2, <2>3, <2>4 DEF Exact
<1>6. QED
  BY Zenon, <1>2, <1>3, <1>4, <1>5, TypeGroups DEF LocalInv

LEMMA LocalNext == ASSUME LocalInv, [Next]_vars PROVE LocalInv'
<1>1. CASE UNCHANGED vars
  <2>1. UNCHANGED <<inq, outq, mgr, awaiting, checked, value, descriptors, state, task, seen,
                    forwarder, caller, call, held, watched, sfu, faults, lost>>
    BY Zenon, <1>1 DEF vars, queues, mgrVars, pubVars, taskVars, appVars
  <2>2. TypeOK'
    BY Zenon, <2>1 DEF LocalInv, TypeOK
  <2>3. AnswerComing'
    BY ZenonT(40), <2>1 DEF LocalInv, AnswerComing, Asked, InQueue, WillRepublish
  <2>4. Exact'
    BY Zenon, <2>1 DEF LocalInv, Exact, AnswersTrue, PublishedOrEnds, Claimed, EndComing
  <2>5. QED
    BY Zenon, <2>2, <2>3, <2>4 DEF LocalInv
<1>2. CASE Next
  <2>1. TypeOK'
    BY Zenon, <1>2, AppTypes, SfuTypes, ManagerTypes DEF LocalInv, Next
  <2>2. ASSUME mgr' = "running", ~lost' PROVE Good'
    <3>1. mgr = "running" /\ ~lost
      BY Zenon, <1>2, <2>2, StillRunning DEF LocalInv
    <3>2. TypeOK /\ Good
      BY Zenon, <3>1, GoodIs DEF LocalInv
    <3>3. QED
      BY Zenon, <1>2, <2>1, <2>2, <3>1, <3>2, AppGood, SfuGood, ManagerGood DEF Next, AppStep
  <2>3. (mgr = "running" /\ ~lost => Good)'
    BY Zenon, <2>2
  <2>4. Exact' /\ AnswerComing'
    BY Zenon, <2>3 DEF Exact, AnswerComing, Good, WaitsForSfu, Coming
  <2>5. QED
    BY Zenon, <2>1, <2>4 DEF LocalInv
<1>3. QED
  BY Zenon, <1>1, <1>2

\* The invariant holds in every state the local manager, its tasks, the
\* application and the SFU can reach.
THEOREM LocalInvariant == Spec => []LocalInv
<1>1. QED
  BY LocalInit, LocalNext, PTL DEF Spec

\* A publication that waits for the SFU, the first time or after a full
\* reconnect, has its answer coming.
THEOREM AnswersCome == Spec => []AnswerComing
<1>1. LocalInv => AnswerComing
  BY Zenon DEF LocalInv
<1>2. QED
  BY <1>1, LocalInvariant, PTL

\* A publication that counts as Published is on the SFU of the present session,
\* or what will change that is on its way.
THEOREM PublishedIsOnSfu == Spec => []PublishedOrAsked
<1>1. ASSUME LocalInv PROVE PublishedOrAsked
  <2>1. SUFFICES ASSUME mgr = "running", ~lost, NEW h \in Handles,
                        descriptors[h] = "Active", task[h] = "running", state[h] = "Published"
                 PROVE  h \in sfu \/ WillRepublish \/ InQueue("Unpublished", h)
    BY Zenon DEF PublishedOrAsked
  <2>2. h \in sfu \/ EndComing(h)
    BY Zenon, <1>1, <2>1 DEF LocalInv, Exact, PublishedOrEnds, Claimed
  <2>3. EndComing(h) => WillRepublish \/ InQueue("Unpublished", h)
    BY Zenon, <1>1, Lengths DEF LocalInv, EndComing, Ends, WillRepublish, InQueue
  <2>4. QED
    BY Zenon, <2>2, <2>3
<1>2. QED
  BY <1>1, LocalInvariant, PTL

\* The channel stays within its capacity, no handle is given out beyond the
\* largest, and each belongs to one call.
THEOREM LocalTypes == Spec => []TypeOK
<1>1. LocalInv => TypeOK
  BY Zenon DEF LocalInv
<1>2. QED
  BY <1>1, LocalInvariant, PTL
=============================================================================
