---------------------------- MODULE LocalTracks ----------------------------
(***************************************************************************)
(* Data tracks published by this participant: the local Manager actor, one *)
(* TrackTask per publication, the task that forwards the result of each    *)
(* publish_track(), the application and the SFU.                           *)
(*                                                                         *)
(* As in RemoteTracks the manager takes one event at a time from a bounded *)
(* channel; a TrackTask waits for room in it, everybody else uses try_send.*)
(* What the manager asks of the SFU waits in event_out while the engine    *)
(* reconnects.  A publication is known by its pub_handle.                  *)
(***************************************************************************)
EXTENDS Integers, Sequences

CONSTANTS MaxCalls,   \* bound: calls of publish_track()
          MaxHandle,  \* largest value of a Handle (u16)
          InCap,      \* EVENT_BUFFER_COUNT of the events that come in
          OutCap,     \* EVENT_BUFFER_COUNT of the requests that go out
          MaxFaults   \* bound: full reconnects, refusals and unpublications by
                      \* the SFU

ASSUME LocalTracksAssumption ==
    /\ MaxCalls \in Nat /\ MaxHandle \in Nat /\ MaxFaults \in Nat
    /\ InCap \in Nat /\ OutCap \in Nat /\ OutCap >= MaxHandle

Calls == 1..MaxCalls
Handles == 1..MaxHandle
None == 0

VARIABLES
    \* Manager
    inq, outq, mgr,
    awaiting,      \* the task that shutdown() awaits
    checked,       \* the publication found Republishing when its answer came
    value,         \* HandleAllocator
    descriptors,   \* [Handles -> "none", "Pending", "Active"]
    \* per publication
    state,         \* the PublishState in the watch channel
    task, seen,    \* TrackTask and its copy of the state
    forwarder,     \* forward_publish_result
    caller,        \* the call that gets its result
    \* application
    call,          \* [Calls -> "new", "waiting", "returned", "timed_out"]
    held,          \* publications whose LocalDataTrack the application has
    watched,       \* publications with a call of wait_for_unpublish()
    \* SFU
    sfu,           \* publications of the session
    faults, lost

queues == <<inq, outq>>
mgrVars == <<mgr, awaiting, checked, value, descriptors>>
taskVars == <<task, seen>>
pubVars == <<state, taskVars, forwarder, caller>>
appVars == <<call, held, watched>>
vars == <<queues, mgrVars, pubVars, appVars, sfu, faults, lost>>

PublishRequest(p) == [type |-> "Publish", call |-> p]
PublishCancelled(h) == [type |-> "Cancelled", handle |-> h]
UnpublishRequest(h) == [type |-> "Unpublish", handle |-> h]
SfuPublishResponse(h, ok) == [type |-> "Published", handle |-> h, ok |-> ok]
SfuUnpublishResponse(h) == [type |-> "Unpublished", handle |-> h]
Event(type) == [type |-> type]
SfuPublishRequest(h) == [publish |-> TRUE, handle |-> h]
SfuUnpublishRequest(h) == [publish |-> FALSE, handle |-> h]

Events == {PublishRequest(p) : p \in Calls}
    \cup {PublishCancelled(h) : h \in Handles}
    \cup {UnpublishRequest(h) : h \in Handles}
    \cup {SfuPublishResponse(h, ok) : h \in Handles, ok \in BOOLEAN}
    \cup {SfuUnpublishResponse(h) : h \in Handles}
    \cup {Event("Republish"), Event("Shutdown")}
PublishStates == {"none", "Published", "Republishing", "Unpublished"}

\* The types of the manager's, the tasks' and the application's state, the
\* channel within its capacity and a publication per handle at most.
TypeOK ==
    /\ inq \in Seq(Events) /\ Len(inq) <= InCap
    /\ outq \in Seq([publish : BOOLEAN, handle : Handles]) /\ Len(outq) <= OutCap
    /\ mgr \in {"running", "stopping", "ended"}
    /\ awaiting \in Handles \cup {None} /\ checked \in Handles \cup {None}
    /\ value \in 0..MaxHandle
    /\ descriptors \in [Handles -> {"none", "Pending", "Active"}]
    /\ state \in [Handles -> PublishStates]
    /\ task \in [Handles -> {"none", "running", "leaving", "ended"}]
    /\ seen \in [Handles -> PublishStates]
    /\ forwarder \in [Handles -> {"none", "waiting", "orphan", "track", "error", "done"}]
    /\ caller \in [Handles -> Calls \cup {None}]
    /\ \A h \in Handles : caller[h] # None <=> h <= value
    /\ call \in [Calls -> {"new", "waiting", "returned", "timed_out"}]
    /\ held \subseteq Handles /\ watched \subseteq held /\ sfu \subseteq Handles
    /\ faults \in 0..MaxFaults /\ lost \in BOOLEAN

Init ==
    /\ inq = <<>> /\ outq = <<>> /\ mgr = "running" /\ awaiting = None /\ checked = None
    /\ value = 0 /\ descriptors = [h \in Handles |-> "none"]
    /\ state = [h \in Handles |-> "none"]
    /\ task = [h \in Handles |-> "none"] /\ seen = [h \in Handles |-> "none"]
    /\ forwarder = [h \in Handles |-> "none"]
    /\ caller = [h \in Handles |-> None]
    /\ call = [p \in Calls |-> "new"] /\ held = {} /\ watched = {}
    /\ sfu = {} /\ faults = 0 /\ lost = FALSE

\* The receivers of the state: the task has one, and every wait_for_unpublish().
Heard(h) == task[h] \in {"running", "leaving"} \/ h \in watched

\* watch::Sender::send: without a receiver the value stays as it is.
StateAfter(h, v) == IF Heard(h) THEN [state EXCEPT ![h] = v] ELSE state

\* ManagerInput::send and the other users of try_send.
TrySend(e) ==
    IF mgr # "ended" /\ Len(inq) < InCap
      THEN inq' = Append(inq, e) /\ UNCHANGED lost
      ELSE lost' = TRUE /\ UNCHANGED inq

\* The manager waits until event_out takes n more requests.
HasRoom(n) == Len(outq) + n <= OutCap

----------------------------------------------------------------------------
(* The application and the forwarding task.                                *)

\* publish_track(): refused with Disconnected if the channel is full.
PublishTrack(p) ==
    /\ call[p] = "new" /\ mgr # "ended"
    /\ IF Len(inq) < InCap
         THEN /\ inq' = Append(inq, PublishRequest(p))
              /\ call' = [call EXCEPT ![p] = "waiting"]
         ELSE call' = [call EXCEPT ![p] = "returned"] /\ UNCHANGED inq
    /\ UNCHANGED <<outq, mgrVars, pubVars, held, watched, sfu, faults, lost>>

\* PUBLISH_TIMEOUT.
PublishTimeout(p) ==
    /\ call[p] = "waiting"
    /\ call' = [call EXCEPT ![p] = "timed_out"]
    /\ UNCHANGED <<queues, mgrVars, pubVars, held, watched, sfu, faults, lost>>

\* unpublish(), which may be called more than once.
Unpublish(h) ==
    /\ h \in held
    /\ state' = StateAfter(h, "Unpublished")
    /\ UNCHANGED <<queues, mgrVars, taskVars, forwarder, caller, appVars, sfu,
                   faults, lost>>

\* The last LocalDataTrack of the publication is dropped, which unpublishes it,
\* once more if unpublish() was called.
DropTrack(h) ==
    /\ h \in held /\ h \notin watched
    /\ held' = held \ {h}
    /\ state' = StateAfter(h, "Unpublished")
    /\ UNCHANGED <<queues, mgrVars, taskVars, forwarder, caller, call, watched, sfu,
                   faults, lost>>

\* wait_for_unpublish(): called, returns, is abandoned.
WaitForUnpublish(h) ==
    /\ h \in held /\ watched' = watched \cup {h}
    /\ UNCHANGED <<queues, mgrVars, pubVars, call, held, sfu, faults, lost>>

WaitEnds(h) ==
    /\ h \in watched /\ watched' = watched \ {h}
    /\ UNCHANGED <<queues, mgrVars, pubVars, call, held, sfu, faults, lost>>

WaitReturns(h) == state[h] = "Unpublished" /\ WaitEnds(h)

Waits(h) == call[caller[h]] = "waiting"

\* forward_publish_result: the result goes to the call; if that has timed out
\* the track is dropped, which unpublishes it.
ForwardResult(h) ==
    /\ forwarder[h] \in {"track", "error"}
    /\ forwarder' = [forwarder EXCEPT ![h] = "done"]
    /\ call' = IF Waits(h) THEN [call EXCEPT ![caller[h]] = "returned"] ELSE call
    /\ IF forwarder[h] = "track" /\ Waits(h)
         THEN held' = held \cup {h} /\ UNCHANGED state
         ELSE /\ UNCHANGED held
              /\ state' = IF forwarder[h] = "track"
                            THEN StateAfter(h, "Unpublished") ELSE state
    /\ UNCHANGED <<queues, mgrVars, taskVars, caller, watched, sfu, faults, lost>>

\* The call has timed out before there was a result.
ForwardCancels(h) ==
    /\ forwarder[h] \in {"waiting", "orphan"} /\ ~Waits(h)
    /\ forwarder' = [forwarder EXCEPT ![h] = "done"]
    /\ TrySend(PublishCancelled(h))
    /\ UNCHANGED <<outq, mgrVars, state, taskVars, caller, appVars, sfu, faults>>

----------------------------------------------------------------------------
(* TrackTask::run.                                                         *)

\* The state has changed since the task looked; Unpublished ends its loop.
TaskSees(h) ==
    /\ task[h] = "running" /\ seen[h] # state[h]
    /\ seen' = [seen EXCEPT ![h] = state[h]]
    /\ task' = [task EXCEPT ![h] = IF state[h] = "Unpublished" THEN "leaving" ELSE @]
    /\ UNCHANGED <<queues, mgrVars, state, forwarder, caller, appVars, sfu,
                   faults, lost>>

\* Mutant: the task ends without a word.
TaskLeavesSilently(h) ==
    /\ task[h] = "leaving"
    /\ task' = [task EXCEPT ![h] = "ended"]
    /\ UNCHANGED <<queues, mgrVars, state, seen, forwarder, caller, appVars, sfu,
                   faults, lost>>

\* The UnpublishRequest finds room (or nobody) in the channel.
TaskLeaves(h) ==
    /\ task[h] = "leaving"
    /\ \/ /\ mgr # "ended" /\ Len(inq) < InCap
          /\ inq' = Append(inq, UnpublishRequest(h))
       \/ mgr = "ended" /\ UNCHANGED inq
    /\ task' = [task EXCEPT ![h] = "ended"]
    /\ UNCHANGED <<outq, mgrVars, state, seen, forwarder, caller, appVars, sfu,
                   faults, lost>>

----------------------------------------------------------------------------
(* Manager::run.                                                           *)

Take(type) ==
    /\ mgr = "running" /\ checked = None
    /\ inq # <<>> /\ Head(inq).type = type
    /\ inq' = Tail(inq)

\* The new publication `h` of a call.
Allocate(p, h) ==
    /\ value' = h
    /\ descriptors' = [descriptors EXCEPT ![h] = "Pending"]
    /\ forwarder' = [forwarder EXCEPT ![h] = "waiting"]
    /\ caller' = [caller EXCEPT ![h] = p]
    /\ HasRoom(1) /\ outq' = Append(outq, SfuPublishRequest(h))
    /\ UNCHANGED call

\* The handles are used up: LimitReached.
PublishUpTo(last) ==
    LET p == Head(inq).call
    IN  /\ Take("Publish")
        /\ IF value < last
             THEN Allocate(p, value + 1)
             ELSE /\ call' = IF call[p] = "waiting"
                               THEN [call EXCEPT ![p] = "returned"] ELSE call
                  /\ UNCHANGED <<value, descriptors, forwarder, caller, outq>>
        /\ UNCHANGED <<mgr, awaiting, checked, state, taskVars, held, watched, sfu,
                       faults, lost>>

OnPublishRequest == PublishUpTo(MaxHandle)

\* The result_tx of a pending publication is dropped without a result.
Orphaned(h) ==
    IF forwarder[h] = "waiting" THEN [forwarder EXCEPT ![h] = "orphan"] ELSE forwarder

OnPublishCancelled ==
    LET h == Head(inq).handle
    IN  /\ Take("Cancelled")
        /\ descriptors' = [descriptors EXCEPT ![h] = "none"]
        /\ forwarder' = Orphaned(h)
        /\ UNCHANGED <<outq, mgr, awaiting, checked, value, state, taskVars, caller,
                       appVars, sfu, faults, lost>>

\* remove_descriptor.
RemoveDescriptor(h) ==
    /\ descriptors' = [descriptors EXCEPT ![h] = "none"]
    /\ IF descriptors[h] = "Active"
         THEN state' = StateAfter(h, "Unpublished") /\ UNCHANGED forwarder
         ELSE forwarder' = Orphaned(h) /\ UNCHANGED state

OnUnpublishRequest ==
    LET h == Head(inq).handle
    IN  /\ Take("Unpublish")
        /\ RemoveDescriptor(h)
        /\ HasRoom(1) /\ outq' = Append(outq, SfuUnpublishRequest(h))
        /\ UNCHANGED <<mgr, awaiting, checked, value, taskVars, caller, appVars, sfu,
                       faults, lost>>

\* Mutant: the SFU's unpublication is only logged.
UnpublishResponseIgnored ==
    /\ Take("Unpublished")
    /\ UNCHANGED <<outq, mgr, awaiting, checked, value, descriptors, pubVars, appVars, sfu,
                   faults, lost>>

OnSfuUnpublishResponse ==
    /\ Take("Unpublished")
    /\ RemoveDescriptor(Head(inq).handle)
    /\ UNCHANGED <<outq, mgr, awaiting, checked, value, taskVars, caller, appVars, sfu,
                   faults, lost>>

\* An answer for a publication that is not (or no longer) known.
AnswerUnknown(h) ==
    /\ descriptors[h] = "none"
    /\ HasRoom(1) /\ outq' = Append(outq, SfuUnpublishRequest(h))
    /\ UNCHANGED <<checked, descriptors, state, taskVars, forwarder>>

\* The first answer; is_closed() when the forwarding task has given up.
AnswerPending(h, ok) ==
    /\ descriptors[h] = "Pending" /\ UNCHANGED <<outq, checked>>
    /\ IF forwarder[h] = "waiting" /\ ok
         THEN /\ descriptors' = [descriptors EXCEPT ![h] = "Active"]
              /\ state' = [state EXCEPT ![h] = "Published"]
              /\ seen' = [seen EXCEPT ![h] = "Published"]
              /\ task' = [task EXCEPT ![h] = "running"]
              /\ forwarder' = [forwarder EXCEPT ![h] = "track"]
         ELSE /\ descriptors' = [descriptors EXCEPT ![h] = "none"]
              /\ forwarder' = IF forwarder[h] = "waiting"
                                THEN [forwarder EXCEPT ![h] = "error"] ELSE forwarder
              /\ UNCHANGED <<state, taskVars>>

\* An answer to a republication.  The descriptor was taken out of the map: it
\* goes back only if the track was Republishing and the answer is Ok.
AnswerActive(h, ok) ==
    /\ descriptors[h] = "Active" /\ UNCHANGED <<outq, state, taskVars, forwarder>>
    /\ IF state[h] = "Republishing" /\ ok
         THEN checked' = h /\ UNCHANGED descriptors
         ELSE descriptors' = [descriptors EXCEPT ![h] = "none"] /\ UNCHANGED checked

OnSfuPublishResponse ==
    LET h == Head(inq).handle
        ok == Head(inq).ok
    IN  /\ Take("Published")
        /\ AnswerUnknown(h) \/ AnswerPending(h, ok) \/ AnswerActive(h, ok)
        /\ UNCHANGED <<mgr, awaiting, value, caller, appVars, sfu, faults, lost>>

\* The state is sent after it was looked at, whatever it has become since.
SendPublished ==
    /\ checked # None /\ checked' = None
    /\ state' = StateAfter(checked, "Published")
    /\ UNCHANGED <<queues, mgr, awaiting, value, descriptors, taskVars, forwarder,
                   caller, appVars, sfu, faults, lost>>

\* The orders in which the members of S can come, each once.
Orders(S) ==
    {q \in UNION {[1..n -> S] : n \in 0..MaxHandle} :
        /\ \A x \in S : \E i \in DOMAIN q : q[i] = x
        /\ \A i, j \in DOMAIN q : q[i] = q[j] => i = j}

SfuPublishRequests(q) == [i \in DOMAIN q |-> SfuPublishRequest(q[i])]

\* Pending publications are told Disconnected (but for those in `kept`), active
\* ones become Republishing and are requested again in the order of the hash map.
Republish(again, kept) ==
    LET active == {h \in Handles : descriptors[h] = "Active"}
        pending == {h \in Handles : descriptors[h] = "Pending"} \ kept
    IN  /\ descriptors' = [h \in Handles |-> IF h \in pending THEN "none" ELSE descriptors[h]]
        /\ forwarder' = [h \in Handles |-> IF h \in pending /\ forwarder[h] = "waiting"
                                             THEN "error" ELSE forwarder[h]]
        /\ state' = [h \in Handles |-> IF h \in active /\ Heard(h)
                                         THEN "Republishing" ELSE state[h]]
        /\ \E q \in Orders(again) : HasRoom(Len(q)) /\ outq' = outq \o SfuPublishRequests(q)
        /\ UNCHANGED <<mgr, awaiting, checked, value, taskVars, caller, appVars, sfu, faults, lost>>

\* Mutants: the active ones are not requested; the pending ones stay pending.
RepublishUnasked == Take("Republish") /\ Republish({}, {})
RepublishKeepsPending ==
    Take("Republish") /\ Republish({h \in Handles : descriptors[h] = "Active"}, Handles)

OnRepublishTracks ==
    Take("Republish") /\ Republish({h \in Handles : descriptors[h] = "Active"}, {})

OnShutdown ==
    /\ Take("Shutdown")
    /\ mgr' = "stopping"
    /\ UNCHANGED <<outq, awaiting, checked, value, descriptors, pubVars, appVars, sfu,
                   faults, lost>>

Awaited == awaiting # None => task[awaiting] = "ended"

ShutdownStep(h, after) ==
    /\ mgr = "stopping" /\ Awaited /\ descriptors[h] # "none"
    /\ descriptors' = [descriptors EXCEPT ![h] = "none"]
    /\ IF descriptors[h] = "Active"
         THEN state' = after /\ awaiting' = h /\ UNCHANGED forwarder
         ELSE /\ forwarder' = IF forwarder[h] = "waiting"
                                THEN [forwarder EXCEPT ![h] = "error"] ELSE forwarder
              /\ awaiting' = None /\ UNCHANGED state
    /\ UNCHANGED <<queues, mgr, checked, value, taskVars, caller, appVars, sfu,
                   faults, lost>>

\* One turn of the loop in shutdown().
ShutdownNext(h) == ShutdownStep(h, StateAfter(h, "Unpublished"))

\* run() returns; the requests left in the channel are dropped with it.
ShutdownEnd ==
    /\ mgr = "stopping" /\ Awaited /\ \A h \in Handles : descriptors[h] = "none"
    /\ mgr' = "ended"
    /\ call' = [p \in Calls |-> IF \E i \in DOMAIN inq : inq[i] = PublishRequest(p)
                                     /\ call[p] = "waiting"
                                  THEN "returned" ELSE call[p]]
    /\ inq' = <<>>
    /\ UNCHANGED <<outq, awaiting, checked, value, descriptors, pubVars, held, watched, sfu,
                   faults, lost>>

----------------------------------------------------------------------------
(* The room and the SFU.                                                   *)

localVars == <<mgrVars, pubVars, appVars>>

\* local_dt_forward_task passes a request on and the SFU answers it.
SfuTakes ==
    LET h == Head(outq).handle
    IN  /\ outq # <<>> /\ outq' = Tail(outq)
        /\ \/ /\ Head(outq).publish /\ sfu' = sfu \cup {h}
              /\ TrySend(SfuPublishResponse(h, TRUE)) /\ UNCHANGED faults
           \/ /\ Head(outq).publish /\ UNCHANGED sfu
              /\ faults < MaxFaults /\ faults' = faults + 1
              /\ TrySend(SfuPublishResponse(h, FALSE))
           \/ /\ ~Head(outq).publish /\ sfu' = sfu \ {h}
              /\ TrySend(SfuUnpublishResponse(h)) /\ UNCHANGED faults
        /\ UNCHANGED localVars

\* The SFU ends a publication by itself.
SfuUnpublishes(h) ==
    /\ faults < MaxFaults /\ faults' = faults + 1
    /\ h \in sfu /\ sfu' = sfu \ {h}
    /\ TrySend(SfuUnpublishResponse(h))
    /\ UNCHANGED <<localVars, outq>>

\* A full reconnect: a new session without publications; a request that went
\* into the old one may have gone with it.  handle_restarted follows.
FullReconnect ==
    /\ faults < MaxFaults /\ faults' = faults + 1
    /\ sfu' = {}
    /\ outq' = outq \/ (outq # <<>> /\ outq' = Tail(outq))
    /\ TrySend(Event("Republish"))
    /\ UNCHANGED localVars

\* local_dt_forward_task when the room closes, and later the DropGuard.
RoomCloses ==
    /\ mgr = "running"
    /\ \A i \in DOMAIN inq : inq[i].type # "Shutdown"
    /\ TrySend(Event("Shutdown"))
    /\ UNCHANGED <<localVars, outq, sfu, faults>>

----------------------------------------------------------------------------
ManagerStep ==
    \/ OnPublishRequest \/ OnPublishCancelled \/ OnUnpublishRequest
    \/ OnSfuPublishResponse \/ SendPublished \/ OnSfuUnpublishResponse
    \/ OnRepublishTracks
    \/ OnShutdown \/ (\E h \in Handles : ShutdownNext(h)) \/ ShutdownEnd
TaskStep(h) == TaskSees(h) \/ TaskLeaves(h)
Forward(h) == ForwardResult(h) \/ ForwardCancels(h)

Next ==
    \/ \E p \in Calls : PublishTrack(p) \/ PublishTimeout(p)
    \/ \E h \in Handles : Unpublish(h) \/ DropTrack(h) \/ WaitForUnpublish(h) \/ WaitEnds(h)
    \/ \E h \in Handles : Forward(h) \/ TaskStep(h) \/ SfuUnpublishes(h)
    \/ ManagerStep \/ SfuTakes \/ FullReconnect \/ RoomCloses

Spec == Init /\ [][Next]_vars

\* Spawned tasks of the runtime run on, and requests reach an SFU that answers.
\* A timeout need not come before a result, and nobody has to call, unpublish,
\* reconnect or close.
FairSpec ==
    /\ Spec /\ WF_vars(ManagerStep) /\ WF_vars(SfuTakes)
    /\ \A h \in Handles : WF_vars(TaskStep(h)) /\ WF_vars(Forward(h))
                             /\ WF_vars(WaitReturns(h))

----------------------------------------------------------------------------
(* Properties.                                                             *)

InQueue(type, h) == \E i \in DOMAIN inq : inq[i].type = type /\ inq[i].handle = h
Asked(h) == \E i \in DOMAIN outq : outq[i] = SfuPublishRequest(h)
WillRepublish == \E i \in DOMAIN inq : inq[i].type = "Republish"

\* A publication that waits for the SFU, the first time or after a full
\* reconnect, waits for an answer that is on its way: its request has not gone
\* lost between two sessions.
AnswerComing ==
    (mgr = "running" /\ ~lost) =>
        \A h \in Handles :
            (\/ descriptors[h] = "Pending"
             \/ /\ descriptors[h] = "Active" /\ task[h] = "running"
                /\ state[h] = "Republishing")
            => Asked(h) \/ InQueue("Published", h) \/ WillRepublish \/ checked = h

\* A publication that counts as Published is published on the SFU of the
\* present session, or what will change that is on its way.
PublishedOrAsked ==
    (mgr = "running" /\ ~lost) =>
        \A h \in Handles :
            (descriptors[h] = "Active" /\ task[h] = "running" /\ state[h] = "Published")
            => \/ h \in sfu \/ Asked(h) \/ WillRepublish
               \/ InQueue("Published", h) \/ InQueue("Unpublished", h)

\* shutdown() awaits a task that waits for room in the channel, which nobody
\* empties any more.
Stuck == mgr = "stopping" /\ Len(inq) = InCap /\ \E h \in Handles : task[h] = "leaving"

\* Every call of publish_track() gets a result by itself, not by its timeout:
\* from the SFU, from a reconnect, from the limit of handles or from shutdown.
PublishReturns ==
    \A p \in Calls : (call[p] = "waiting") ~> (call[p] # "waiting" \/ lost \/ Stuck)

\* What the track task has given up is taken off the SFU, also when a full
\* reconnect has requested it again in between.
EndedIsUnpublished ==
    \A h \in Handles :
        (task[h] \in {"leaving", "ended"}) ~> (h \notin sfu \/ mgr # "running")

\* shutdown() ends, unless the requests of the tasks it has told to end fill
\* the channel.
ShutdownEndsOrFills == (mgr = "stopping") ~> (mgr = "ended" \/ Stuck)

\* The manager runs until it receives Shutdown, and no longer.
ShutdownEnds == (mgr = "stopping") ~> (mgr = "ended")

\* What the application has given up, by unpublish(), by dropping the track or
\* by not waiting for it, does not stay published on the SFU.
GivenUpIsUnpublished ==
    \A h \in Handles :
        (/\ caller[h] # None /\ h \notin held /\ forwarder[h] = "done"
         /\ h \in sfu) ~> (h \notin sfu \/ mgr # "running" \/ lost)

\* As long as the track task runs the manager knows its publication: a second
\* answer does not take the descriptor away.
RunningIsKnown ==
    mgr = "running" =>
        \A h \in Handles :
            (task[h] = "running" /\ state[h] # "Unpublished") => descriptors[h] = "Active"

\* Unpublished is final: neither a full reconnect nor an answer of the SFU, come
\* since, puts another state in its place.
UnpublishedIsFinal ==
    [][\A h \in Handles : state[h] = "Unpublished" => state'[h] = "Unpublished"]_vars

\* wait_for_unpublish() returns once the manager has given up the publication.
WaitersReturn ==
    \A h \in Handles :
        (h \in watched /\ caller[h] # None /\ descriptors[h] = "none") ~> (h \notin watched)
=============================================================================
