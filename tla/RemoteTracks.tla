---------------------------- MODULE RemoteTracks ----------------------------
(***************************************************************************)
(* Data tracks published by other participants: the remote Manager actor,  *)
(* one TrackTask per active subscription, the application's subscribers and*)
(* the SFU.                                                                *)
(*                                                                         *)
(* The manager takes one event at a time from a bounded channel.  The SFU's*)
(* events and Shutdown come by try_send and are dropped when it is full;   *)
(* subscribers and track tasks wait for room.  What it asks of the SFU goes*)
(* through a second bounded channel, for which it waits; the events for the*)
(* application in it are taken out at once.  A publisher has one track at a*)
(* time, which its identity and pub_handle name, so the list of tracks in  *)
(* an update has at most one member; an update of several publishers is one*)
(* event for each.  Every publication has a new SID, and a RemoteDataTrack *)
(* is named by the SID it was created with.                                *)
(***************************************************************************)
EXTENDS Integers, Sequences

CONSTANTS Subscribers,   \* tasks of the application that call subscribe()
          Tracks,        \* (publisher identity, pub_handle)
          InCap,         \* EVENT_BUFFER_COUNT, of event_in
          OutCap,        \* EVENT_BUFFER_COUNT, of event_out
          MaxSids,       \* bound: publications
          MaxHandles,    \* bound: subscriber handles of one session
          MaxCalls,      \* bound: calls of subscribe()
          MaxNoise       \* bound: packets, repeated updates, full reconnects
                         \* of this participant

Nobody == "nobody"   \* the result_rx of a request that timed out

ASSUME RemoteTracksAssumption ==
    /\ Tracks # {} /\ Nobody \notin Subscribers
    /\ InCap \in Nat /\ MaxSids \in Nat /\ MaxHandles \in Nat
    /\ MaxCalls \in Nat /\ MaxNoise \in Nat
    /\ OutCap \in Nat /\ OutCap >= MaxSids   \* room for a whole resend

Sids == 1..MaxSids
Handles == 1..MaxHandles
None == 0

VARIABLES
    \* Manager
    inq, outq,     \* event_in, event_out
    mgr,           \* "running", "stopping" (in shutdown()), "ended"
    awaiting,      \* the track whose task_handle shutdown() awaits
    descriptors,   \* [Sids -> the track object described there, or None]
    sub_handles,   \* [Handles -> Sids or None]
    \* per track object: info.sid, published_tx, SubscriptionState, TrackTask
    info_sid, published, subscription, result_txs, sub_handle, task, task_sid,
    receivers,     \* subscribers that hold a receiver of frame_tx
    \* application
    call,          \* [Subscribers -> "idle", "waiting", "streaming"]
    calls,
    \* SFU
    live,          \* [Tracks -> SID of its publication, or None]
    info,          \* [Sids -> DataTrackInfo]; a name (with uses_e2ee) is
                   \* called by the first SID that had it
    next_sid, next_handle, noise,
    \* history
    renumbered,    \* the SFU has begun to count this participant's handles anew
    lost,          \* an event was dropped by try_send
    reassigned     \* handle_sid_reassigned has moved a descriptor

queues == <<inq, outq>>
mgrVars == <<mgr, awaiting, descriptors, sub_handles>>
subVars == <<subscription, result_txs, sub_handle>>
taskVars == <<task, task_sid>>
appVars == <<receivers, call, calls>>
sfuVars == <<live, info, next_sid, next_handle, noise, renumbered>>
vars == <<queues, mgrVars, info_sid, published, subVars, taskVars, appVars,
          sfuVars, lost, reassigned>>

SubscribeRequest(sid, s) == [type |-> "Subscribe", sid |-> sid, by |-> s]
UnsubscribeRequest(sid) == [type |-> "Unsubscribe", sid |-> sid]
SfuPublicationUpdates(k, sid) == [type |-> "Publications", track |-> k, sid |-> sid]
SfuSubscriberHandles(h, sid) == [type |-> "Handles", handle |-> h, sid |-> sid]
Event(type) == [type |-> type]
SfuUpdateSubscription(sid, subscribe) == [sid |-> sid, subscribe |-> subscribe]

Events ==
    {SubscribeRequest(d, s) : d \in Sids, s \in Subscribers \cup {Nobody}}
    \cup {UnsubscribeRequest(d) : d \in Sids}
    \cup {SfuPublicationUpdates(k, d) : k \in Tracks, d \in Sids \cup {None}}
    \cup {SfuSubscriberHandles(h, d) : h \in Handles, d \in Sids}
    \cup {Event("Packet"), Event("Resend"), Event("Shutdown")}

\* The types of the manager's, the tasks' and the SFU's state; the channel
\* never holds more than its capacity.
TypeOK ==
    /\ inq \in Seq(Events) /\ Len(inq) <= InCap
    /\ outq \in Seq([sid : Sids, subscribe : BOOLEAN])
    /\ mgr \in {"running", "stopping", "ended"}
    /\ awaiting \in Sids \cup {None}
    /\ descriptors \in [Sids -> Sids \cup {None}]
    /\ sub_handles \in [Handles -> Sids \cup {None}]
    /\ info_sid \in [Sids -> Sids]
    /\ published \in [Sids -> BOOLEAN]
    /\ subscription \in [Sids -> {"None", "Pending", "Active"}]
    /\ result_txs \in [Sids -> SUBSET Subscribers]
    /\ sub_handle \in [Sids -> Handles \cup {None}]
    /\ task \in [Sids -> {"none", "running", "closing", "ended"}]
    /\ task_sid \in [Sids -> Sids]
    /\ receivers \in [Sids -> SUBSET Subscribers]
    /\ call \in [Subscribers -> {"idle", "waiting", "streaming"}]
    /\ calls \in 0..MaxCalls
    /\ live \in [Tracks -> Sids \cup {None}]
    /\ info \in [Sids -> [track : Tracks, name : Sids]]
    /\ next_sid \in 1..(MaxSids + 1) /\ next_handle \in 1..(MaxHandles + 1)
    /\ noise \in 0..MaxNoise /\ renumbered \in BOOLEAN
    /\ lost \in BOOLEAN /\ reassigned \in BOOLEAN

Init ==
    /\ inq = <<>> /\ outq = <<>> /\ mgr = "running" /\ awaiting = None
    /\ descriptors = [d \in Sids |-> None]
    /\ sub_handles = [h \in Handles |-> None]
    /\ info_sid = [d \in Sids |-> d]
    /\ published = [d \in Sids |-> FALSE]
    /\ subscription = [d \in Sids |-> "None"]
    /\ result_txs = [d \in Sids |-> {}]
    /\ sub_handle = [d \in Sids |-> None]
    /\ task = [d \in Sids |-> "none"] /\ task_sid = [d \in Sids |-> d]
    /\ receivers = [d \in Sids |-> {}]
    /\ call = [s \in Subscribers |-> "idle"] /\ calls = 0
    /\ live = [k \in Tracks |-> None]
    /\ info = [d \in Sids |-> [track |-> CHOOSE k \in Tracks : TRUE, name |-> d]]
    /\ next_sid = 1 /\ next_handle = 1 /\ noise = 0
    /\ renumbered = FALSE /\ lost = FALSE /\ reassigned = FALSE

----------------------------------------------------------------------------
(* The application.                                                        *)

\* subscribe(): its request is in the channel, the call awaits result_rx.  A
\* subscriber has the track object since TrackPublished.
Subscribe(s, o) ==
    /\ call[s] = "idle" /\ calls < MaxCalls /\ calls' = calls + 1
    /\ published[o] /\ mgr # "ended" /\ Len(inq) < InCap
    /\ inq' = Append(inq, SubscribeRequest(info_sid[o], s))
    /\ call' = [call EXCEPT ![s] = "waiting"]
    /\ UNCHANGED <<outq, mgrVars, info_sid, published, subVars, taskVars,
                   receivers, sfuVars, lost, reassigned>>

Withdraw(e, s) ==
    IF e.type = "Subscribe" /\ e.by = s THEN SubscribeRequest(e.sid, Nobody) ELSE e

\* The timeout of 10 s: result_rx is dropped, the request itself stays.
SubscribeTimeout(s) ==
    /\ call[s] = "waiting"
    /\ call' = [call EXCEPT ![s] = "idle"]
    /\ inq' = [i \in DOMAIN inq |-> Withdraw(inq[i], s)]
    /\ result_txs' = [o \in Sids |-> result_txs[o] \ {s}]
    /\ UNCHANGED <<outq, mgrVars, info_sid, published, subscription, sub_handle,
                   taskVars, receivers, calls, sfuVars, lost, reassigned>>

\* The DataTrackStream is dropped.
DropStream(s) ==
    /\ call[s] = "streaming"
    /\ call' = [call EXCEPT ![s] = "idle"]
    /\ receivers' = [o \in Sids |-> receivers[o] \ {s}]
    /\ UNCHANGED <<queues, mgrVars, info_sid, published, subVars, taskVars,
                   calls, sfuVars, lost, reassigned>>

\* Calls return: an error for a waiting one, the end of its stream for a
\* streaming one.
Return(S) == call' = [s \in Subscribers |-> IF s \in S THEN "idle" ELSE call[s]]

----------------------------------------------------------------------------
(* TrackTask::run.                                                         *)

Described(o) == \E d \in Sids : descriptors[d] = o

\* The publication has ended (this branch comes first): the task ends, with it
\* the last frame_tx, and the streams end.
TaskUnpublished(o) ==
    /\ task[o] = "running" /\ ~published[o]
    /\ task' = [task EXCEPT ![o] = "ended"]
    /\ Return(receivers[o]) /\ receivers' = [receivers EXCEPT ![o] = {}]
    /\ UNCHANGED <<queues, mgrVars, info_sid, published, subVars, task_sid,
                   calls, sfuVars, lost, reassigned>>

\* No receiver is left: the SID of the moment goes into an UnsubscribeRequest.
TaskClosing(o) ==
    /\ task[o] = "running" /\ published[o] /\ receivers[o] = {}
    /\ task' = [task EXCEPT ![o] = "closing"]
    /\ task_sid' = [task_sid EXCEPT ![o] = info_sid[o]]
    /\ UNCHANGED <<queues, mgrVars, info_sid, published, subVars, appVars,
                   sfuVars, lost, reassigned>>

\* The request finds room in the channel (or nobody at its other end) and the
\* task ends.
TaskUnsubscribes(o) ==
    /\ task[o] = "closing"
    /\ \/ /\ mgr # "ended" /\ Len(inq) < InCap
          /\ inq' = Append(inq, UnsubscribeRequest(task_sid[o]))
       \/ mgr = "ended" /\ UNCHANGED inq
    /\ task' = [task EXCEPT ![o] = "ended"]
    /\ IF Described(o)
         THEN UNCHANGED <<receivers, call>>
         ELSE Return(receivers[o]) /\ receivers' = [receivers EXCEPT ![o] = {}]
    /\ UNCHANGED <<outq, mgrVars, info_sid, published, subVars, task_sid,
                   calls, sfuVars, lost, reassigned>>

----------------------------------------------------------------------------
(* Manager::run: one event at a time.                                      *)

Take(type) ==
    /\ mgr = "running" /\ inq # <<>> /\ Head(inq).type = type
    /\ inq' = Tail(inq)

\* event_out_tx.send(..).await: there is room for n more requests to the SFU.
HasRoom(n) == Len(outq) + n <= OutCap

\* Mutant: the result_tx of the latest call replaces those that wait.
OnlyLatest(waiters, by) == by

\* result_txs.push: one more call waits for the pending subscription.
Joined(waiters, by) == waiters \cup by

OnSubscribeRequest ==
    LET sid == Head(inq).sid
        o == descriptors[sid]
        by == {Head(inq).by} \ {Nobody}
    IN  /\ Take("Subscribe")
        /\ IF o = None
             THEN /\ Return(by)
                  /\ UNCHANGED <<outq, subscription, result_txs, receivers>>
             ELSE \/ /\ subscription[o] = "None" /\ HasRoom(1)
                     /\ outq' = Append(outq, SfuUpdateSubscription(sid, TRUE))
                     /\ subscription' = [subscription EXCEPT ![o] = "Pending"]
                     /\ result_txs' = [result_txs EXCEPT ![o] = by]
                     /\ UNCHANGED <<receivers, call>>
                  \/ /\ subscription[o] = "Pending"
                     /\ result_txs' = [result_txs EXCEPT ![o] = Joined(@, by)]
                     /\ UNCHANGED <<outq, subscription, receivers, call>>
                  \/ /\ subscription[o] = "Active"
                     /\ receivers' = [receivers EXCEPT ![o] = @ \cup by]
                     /\ call' = [s \in Subscribers |->
                                   IF s \in by THEN "streaming" ELSE call[s]]
                     /\ UNCHANGED <<outq, subscription, result_txs>>
        /\ UNCHANGED <<mgrVars, info_sid, published, sub_handle, taskVars,
                       calls, sfuVars, lost, reassigned>>

\* The subscription under `sid` is dropped if `drop`, and its handles are
\* `routes` then.  Its task has ended before, so this closes frame_tx: the
\* streams of those who subscribed in between end.
Unsubscribe(sid, drop, routes) ==
    LET o == descriptors[sid]
    IN  /\ IF drop
             THEN /\ HasRoom(1)
                  /\ subscription' = [subscription EXCEPT ![o] = "None"]
                  /\ sub_handles' = routes
                  /\ outq' = Append(outq, SfuUpdateSubscription(sid, FALSE))
                  /\ Return(receivers[o])
                  /\ receivers' = [receivers EXCEPT ![o] = {}]
             ELSE UNCHANGED <<subscription, sub_handles, outq, receivers, call>>
        /\ UNCHANGED <<mgr, awaiting, descriptors, info_sid, published,
                       result_txs, sub_handle, taskVars, calls, sfuVars, lost,
                       reassigned>>

IsActive(sid) ==
    descriptors[sid] # None /\ subscription[descriptors[sid]] = "Active"
WithoutRoute(sid) == [sub_handles EXCEPT ![sub_handle[descriptors[sid]]] = None]

\* Mutants: the route stays in the index; a subscription that has receivers
\* again is kept.
UnsubscribeKeepsRoute ==
    LET sid == Head(inq).sid
    IN  Take("Unsubscribe") /\ Unsubscribe(sid, IsActive(sid), sub_handles)
UnsubscribeUnlessUsed ==
    LET sid == Head(inq).sid
    IN  /\ Take("Unsubscribe")
        /\ Unsubscribe(sid, IsActive(sid) /\ receivers[descriptors[sid]] = {},
                       WithoutRoute(sid))

OnUnsubscribeRequest ==
    LET sid == Head(inq).sid
    IN  Take("Unsubscribe") /\ Unsubscribe(sid, IsActive(sid), WithoutRoute(sid))

\* handle_track_published.
HandleTrackPublished(sid) ==
    /\ descriptors' = [descriptors EXCEPT ![sid] = sid]
    /\ info_sid' = [info_sid EXCEPT ![sid] = sid]
    /\ published' = [published EXCEPT ![sid] = TRUE]
    /\ UNCHANGED <<sub_handles, subVars, receivers, call, outq, reassigned>>

\* The descriptor moves from its old SID to the new one with its subscription;
\* the application reads `sids`, and the subscription is requested again under
\* the new SID if it is in one of the states `asked`.
Reassign(old, sid, sids, asked) ==
    LET o == descriptors[old]
    IN  /\ descriptors' = [descriptors EXCEPT ![old] = None, ![sid] = o]
        /\ info_sid' = sids
        /\ subscription[o] \in asked => HasRoom(1)
        /\ outq' = IF subscription[o] \in asked
                     THEN Append(outq, SfuUpdateSubscription(sid, TRUE)) ELSE outq
        /\ sub_handles' = IF subscription[o] = "Active"
                            THEN [sub_handles EXCEPT ![sub_handle[o]] = sid]
                            ELSE sub_handles
        /\ reassigned' = TRUE
        /\ UNCHANGED <<published, subVars, receivers, call>>

\* Mutants: the track keeps its old SID for the application; only an active
\* subscription is requested again.
ReassignKeepsSid(old, sid) == Reassign(old, sid, info_sid, {"Pending", "Active"})
ReassignActiveOnly(old, sid) ==
    Reassign(old, sid, [info_sid EXCEPT ![descriptors[old]] = sid], {"Active"})

\* handle_sid_reassigned.
HandleSidReassigned(old, sid) ==
    Reassign(old, sid, [info_sid EXCEPT ![descriptors[old]] = sid],
             {"Pending", "Active"})

\* handle_track_unpublished: waiting calls lose their result_tx; the streams
\* end with the task, if it has not ended before.
HandleTrackUnpublished(old, new) ==
    LET o == descriptors[old]
    IN  /\ descriptors' = [d \in Sids |-> CASE d = old -> None
                                            [] d = new -> new
                                            [] OTHER -> descriptors[d]]
        /\ sub_handles' = IF subscription[o] = "Active"
                            THEN [sub_handles EXCEPT ![sub_handle[o]] = None]
                            ELSE sub_handles
        /\ published' = [d \in Sids |-> IF d = o THEN FALSE
                                        ELSE d = new \/ published[d]]
        /\ info_sid' = [d \in Sids |-> IF d = new THEN new ELSE info_sid[d]]
        /\ subscription' = [subscription EXCEPT ![o] = "None"]
        /\ result_txs' = [result_txs EXCEPT ![o] = {}]
        /\ IF task[o] \in {"running", "closing"}
             THEN Return(result_txs[o]) /\ UNCHANGED receivers
             ELSE /\ Return(result_txs[o] \cup receivers[o])
                  /\ receivers' = [receivers EXCEPT ![o] = {}]
        /\ UNCHANGED <<sub_handle, outq, reassigned>>

\* The descriptors under (publisher identity, pub_handle).
Known(k) == {d \in Sids : descriptors[d] # None /\ info[descriptors[d]].track = k}

\* on_sfu_publication_updates for the publisher of one track: a new SID is a
\* reassignment if nothing else of the info has changed, otherwise a new
\* publication (and the end of the old one); no SID is the end of it.
OnSfuPublicationUpdates ==
    LET k == Head(inq).track
        sid == Head(inq).sid
        old == CHOOSE d \in Known(k) : TRUE
    IN  /\ Take("Publications")
        /\ \/ /\ sid # None /\ Known(k) = {}
              /\ HandleTrackPublished(sid)
           \/ /\ sid # None /\ Known(k) # {} /\ sid \notin Known(k)
              /\ IF info[descriptors[old]].name = info[sid].name
                   THEN HandleSidReassigned(old, sid)
                   ELSE HandleTrackUnpublished(old, sid)
           \/ /\ sid = None /\ Known(k) # {}
              /\ HandleTrackUnpublished(old, None)
           \/ /\ sid \in Known(k) \/ (sid = None /\ Known(k) = {})
              /\ UNCHANGED <<descriptors, sub_handles, info_sid, published,
                             subVars, receivers, call, outq, reassigned>>
        /\ UNCHANGED <<mgr, awaiting, taskVars, calls, sfuVars, lost>>

\* on_sfu_subscriber_handles, register_subscriber_handle: an active
\* subscription changes its handle, a pending one becomes active and its
\* waiting calls get their streams.
OnSfuSubscriberHandles ==
    LET h == Head(inq).handle
        sid == Head(inq).sid
        o == descriptors[sid]
    IN  /\ Take("Handles")
        /\ IF o = None \/ subscription[o] = "None"
             THEN UNCHANGED <<sub_handles, subVars, task, receivers, call>>
             ELSE /\ sub_handles' =
                        [g \in Handles |->
                            IF g = h THEN sid
                            ELSE IF subscription[o] = "Active" /\ g = sub_handle[o] THEN None
                            ELSE sub_handles[g]]
                  /\ sub_handle' = [sub_handle EXCEPT ![o] = h]
                  /\ IF subscription[o] = "Active"
                       THEN UNCHANGED <<subscription, result_txs, task, receivers, call>>
                       ELSE /\ subscription' = [subscription EXCEPT ![o] = "Active"]
                            /\ task' = [task EXCEPT ![o] = "running"]
                            /\ receivers' = [receivers EXCEPT ![o] = result_txs[o]]
                            /\ call' = [s \in Subscribers |->
                                          IF s \in result_txs[o] THEN "streaming"
                                          ELSE call[s]]
                            /\ result_txs' = [result_txs EXCEPT ![o] = {}]
        /\ UNCHANGED <<outq, mgr, awaiting, descriptors, info_sid, published,
                       task_sid, calls, sfuVars, lost, reassigned>>

\* on_packet_received only passes the packet on to the track's task.
OnPacketReceived ==
    /\ Take("Packet")
    /\ UNCHANGED <<outq, mgrVars, info_sid, published, subVars, taskVars,
                   appVars, sfuVars, lost, reassigned>>

\* The orders in which the members of S can come, each once.
Orders(S) ==
    {q \in UNION {[1..n -> S] : n \in 0..MaxSids} :
        /\ \A x \in S : \E i \in DOMAIN q : q[i] = x
        /\ \A i, j \in DOMAIN q : q[i] = q[j] => i = j}

\* on_resend_subscription_updates, in the order of the hash map.
OnResendSubscriptionUpdates ==
    LET wanted == {d \in Sids : /\ descriptors[d] # None
                                /\ subscription[descriptors[d]] # "None"}
    IN  /\ Take("Resend")
        /\ \E q \in Orders(wanted) :
              /\ HasRoom(Len(q))
              /\ outq' = outq \o [i \in DOMAIN q |-> SfuUpdateSubscription(q[i], TRUE)]
        /\ UNCHANGED <<mgrVars, info_sid, published, subVars, taskVars, appVars,
                       sfuVars, lost, reassigned>>

OnShutdown ==
    /\ Take("Shutdown")
    /\ mgr' = "stopping"
    /\ UNCHANGED <<outq, awaiting, descriptors, sub_handles, info_sid, published,
                   subVars, taskVars, appVars, sfuVars, lost, reassigned>>

\* shutdown() awaits the task of each active subscription before it goes on.
Awaited == awaiting # None => task[awaiting] = "ended"

\* One turn of the loop in shutdown().
ShutdownNext(d) ==
    LET o == descriptors[d]
    IN  /\ mgr = "stopping" /\ Awaited /\ o # None
        /\ descriptors' = [descriptors EXCEPT ![d] = None]
        /\ published' = [published EXCEPT ![o] = FALSE]
        /\ awaiting' = IF subscription[o] = "Active" THEN o ELSE None
        /\ subscription' = [subscription EXCEPT ![o] = "None"]
        /\ result_txs' = [result_txs EXCEPT ![o] = {}]
        /\ IF task[o] \in {"running", "closing"}
             THEN Return(result_txs[o]) /\ UNCHANGED receivers
             ELSE /\ Return(result_txs[o] \cup receivers[o])
                  /\ receivers' = [receivers EXCEPT ![o] = {}]
        /\ UNCHANGED <<queues, mgr, sub_handles, info_sid, sub_handle, taskVars,
                       calls, sfuVars, lost, reassigned>>

\* run() returns; what is left in the channel is dropped with it.
ShutdownEnd ==
    /\ mgr = "stopping" /\ Awaited /\ \A d \in Sids : descriptors[d] = None
    /\ mgr' = "ended"
    /\ Return({s \in Subscribers : call[s] = "waiting"})
    /\ inq' = <<>>
    /\ UNCHANGED <<outq, awaiting, descriptors, sub_handles, info_sid, published,
                   subVars, taskVars, receivers, calls, sfuVars, lost, reassigned>>

----------------------------------------------------------------------------
(* The room and the SFU.                                                   *)

\* ManagerInput::send.
TrySend(e) ==
    /\ mgr # "ended"
    /\ IF Len(inq) < InCap
         THEN inq' = Append(inq, e) /\ UNCHANGED lost
         ELSE lost' = TRUE /\ UNCHANGED inq

localVars == <<mgrVars, info_sid, published, subVars, taskVars, appVars, reassigned>>

\* A track is published, or published anew after its publisher's full
\* reconnect: by the name it had, or another if the publisher started afresh.
SfuPublish(k) ==
    /\ next_sid <= MaxSids /\ next_sid' = next_sid + 1
    /\ live' = [live EXCEPT ![k] = next_sid]
    /\ \E n \in {next_sid} \cup {info[d].name : d \in {e \in 1..(next_sid - 1) :
                                                        info[e].track = k}} :
          info' = [info EXCEPT ![next_sid] = [track |-> k, name |-> n]]
    /\ TrySend(SfuPublicationUpdates(k, next_sid))
    /\ UNCHANGED <<localVars, outq, next_handle, noise, renumbered>>

SfuUnpublish(k) ==
    /\ live[k] # None /\ live' = [live EXCEPT ![k] = None]
    /\ TrySend(SfuPublicationUpdates(k, None))
    /\ UNCHANGED <<localVars, outq, info, next_sid, next_handle, noise, renumbered>>

\* The SFU takes an UpdateDataSubscription and assigns a handle.
SfuTakes ==
    LET update == Head(outq)
    IN  /\ outq # <<>> /\ outq' = Tail(outq)
        /\ IF /\ update.subscribe /\ next_handle <= MaxHandles
              /\ \E k \in Tracks : live[k] = update.sid
             THEN /\ TrySend(SfuSubscriberHandles(next_handle, update.sid))
                  /\ next_handle' = next_handle + 1
             ELSE UNCHANGED <<inq, lost, next_handle>>
        /\ UNCHANGED <<localVars, live, info, next_sid, noise, renumbered>>

\* A packet of some track, or an update that changes nothing.
SfuNoise ==
    /\ noise < MaxNoise /\ noise' = noise + 1
    /\ \/ TrySend(Event("Packet"))
       \/ \E k \in Tracks : TrySend(SfuPublicationUpdates(k, live[k]))
    /\ UNCHANGED <<localVars, outq, live, info, next_sid, next_handle, renumbered>>

\* This participant reconnects in full: a new session on the SFU, without
\* subscriptions and with handles from the beginning; handle_restarted.
FullReconnect ==
    /\ noise < MaxNoise /\ noise' = noise + 1
    /\ outq' = <<>> /\ next_handle' = 1 /\ renumbered' = TRUE
    /\ TrySend(Event("Resend"))
    /\ UNCHANGED <<localVars, live, info, next_sid>>

\* remote_dt_forward_task when the room closes, and later the DropGuard.
RoomCloses ==
    /\ mgr = "running"
    /\ \A i \in DOMAIN inq : inq[i].type # "Shutdown"
    /\ TrySend(Event("Shutdown"))
    /\ UNCHANGED <<localVars, outq, sfuVars>>

----------------------------------------------------------------------------
ManagerStep ==
    \/ OnSubscribeRequest \/ OnUnsubscribeRequest \/ OnSfuPublicationUpdates
    \/ OnSfuSubscriberHandles \/ OnPacketReceived \/ OnResendSubscriptionUpdates
    \/ OnShutdown \/ (\E d \in Sids : ShutdownNext(d)) \/ ShutdownEnd
TaskStep(o) == TaskUnpublished(o) \/ TaskClosing(o) \/ TaskUnsubscribes(o)

Next ==
    \/ \E s \in Subscribers : \/ \E o \in Sids : Subscribe(s, o)
                              \/ SubscribeTimeout(s) \/ DropStream(s)
    \/ ManagerStep
    \/ \E o \in Sids : TaskStep(o)
    \/ \E k \in Tracks : SfuPublish(k) \/ SfuUnpublish(k)
    \/ SfuTakes \/ SfuNoise \/ FullReconnect \/ RoomCloses

Spec == Init /\ [][Next]_vars

\* The manager, the track tasks and the task that forwards event_out are spawned
\* tasks of the runtime and run on; nothing is assumed of the application, the
\* SFU's own steps and the room.
FairSpec ==
    /\ Spec /\ WF_vars(ManagerStep) /\ WF_vars(SfuTakes)
    /\ \A o \in Sids : WF_vars(TaskStep(o))

----------------------------------------------------------------------------
(* Properties.                                                             *)

\* A handle leads to a descriptor whose active subscription has that very handle,
\* through unsubscribing, reassigned SIDs, and handles that come again after a
\* full reconnect: a packet is never handed to a track that is not subscribed.
\* And every active subscription is found by its handle, so that no packet of it
\* is thrown away, until the SFU counts the handles anew.
RoutingSound ==
    mgr = "running" =>
        /\ \A h \in Handles : sub_handles[h] # None =>
              LET o == descriptors[sub_handles[h]]
              IN  o # None /\ subscription[o] = "Active" /\ sub_handle[o] = h
        /\ ~renumbered =>
              \A d \in Sids : IsActive(d) => sub_handles[sub_handle[descriptors[d]]] = d

\* The second half without the exemption: after a full reconnect every active
\* subscription is found by its handle, except one whose old handle has gone to
\* another subscription and whose new one has not come yet.
RoutesSurvive ==
    mgr = "running" =>
        \A d \in Sids : IsActive(d) =>
            LET h == sub_handle[descriptors[d]]
            IN  \/ sub_handles[h] = d
                \/ \E e \in Sids \ {d} : IsActive(e) /\ sub_handle[descriptors[e]] = h

\* A pending subscription has been asked for under the SID the track has now:
\* the request or the SFU's handle is on its way, or will be when the events in
\* the channel are handled.  A reassigned SID or a full reconnect between
\* subscribe() and the handle does not strand the callers.
PendingRequested ==
    \A d \in Sids :
        (/\ mgr = "running" /\ ~lost /\ next_handle <= MaxHandles
         /\ descriptors[d] # None /\ subscription[descriptors[d]] = "Pending")
        => \/ \E i \in DOMAIN outq : outq[i] = SfuUpdateSubscription(d, TRUE)
           \/ \E i \in DOMAIN inq :
                 \/ inq[i].type = "Handles" /\ inq[i].sid = d
                 \/ inq[i].type = "Resend"
                 \/ /\ inq[i].type = "Publications" /\ inq[i].sid # d
                    /\ inq[i].track = info[d].track

\* As long as no event was dropped, the manager describes exactly the
\* publications the SFU told it of: each under its present SID, which is the
\* SID the application reads, and none twice.
CatalogAgrees ==
    mgr = "running" =>
        /\ \A d \in Sids : descriptors[d] # None =>
              info_sid[descriptors[d]] = d /\ published[descriptors[d]]
        /\ \A k \in Tracks :
              (~lost /\ \A i \in DOMAIN inq : inq[i].type = "Publications"
                                                => inq[i].track # k)
                  => Known(k) = {live[k]} \ {None}

Dead(o) == Described(o) /\ subscription[o] = "Active" /\ task[o] = "ended"

\* A subscription whose task has ended, because the last stream was dropped,
\* is about to be taken down: the request that does so, under the SID the track
\* has now, is in the channel, whatever came before it there.  Until then a new
\* subscriber may join, whose stream then ends.  This needs that no SID was
\* reassigned.
DeadPipelineReleased ==
    mgr = "running" /\ ~reassigned =>
        \A d \in Sids : descriptors[d] # None /\ Dead(descriptors[d]) =>
            \E i \in DOMAIN inq : inq[i] = UnsubscribeRequest(d)

\* What the release comes to, without that exemption: a subscription without a
\* task is not left active, so no subscriber stays with a pipeline that is dead.
DeadPipelineEnds == \A o \in Sids : Dead(o) ~> ~Dead(o)

\* No call of subscribe() is forgotten and no stream left open with nobody at its
\* other end: a waiting call is in the channel or in the result_txs of a described
\* track, and a stream belongs to a track whose task runs or whose subscription is
\* still there to be taken down.  Timeouts, unpublishing, reassigned SIDs and
\* shutdown() included.
CallsOwed ==
    \A s \in Subscribers :
        /\ call[s] = "waiting" =>
              \/ \E i \in DOMAIN inq : inq[i].type = "Subscribe" /\ inq[i].by = s
              \/ \E d \in Sids : descriptors[d] # None /\ s \in result_txs[descriptors[d]]
        /\ call[s] = "streaming" =>
              \E o \in Sids : s \in receivers[o]
                              /\ (task[o] \in {"running", "closing"} \/ Dead(o))

\* shutdown() awaits a task that itself waits for room in the channel, which
\* nobody empties any more.
Stuck == mgr = "stopping" /\ Len(inq) = InCap /\ \E o \in Sids : task[o] = "closing"

\* The streams of a track that is no longer published end.
UnpublishEndsStreams ==
    \A o \in Sids : (~published[o]) ~> (published[o] \/ receivers[o] = {} \/ Stuck)

\* shutdown() ends: every task it awaits comes to its end, whatever it was
\* doing, unless the channel has filled up before that task.
ShutdownEnds == (mgr = "stopping") ~> (mgr = "ended" \/ Stuck)

\* The same without the exemption: there is always room for the last request of
\* the task that shutdown() awaits.
ShutdownHasRoom == ~Stuck
=============================================================================
