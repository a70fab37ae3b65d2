---------------------------- MODULE Negotiation ----------------------------
(***************************************************************************)
(* Publisher negotiation of one RtcSession: the NegotiationQueue (fast     *)
(* publish) or the debouncer, the publisher's PeerTransport, the signal    *)
(* task that applies answers and trickled candidates, and the server.      *)
(*                                                                         *)
(* What has to be negotiated is abstracted to a count: `wanted` is the     *)
(* number of calls of publisher_negotiation_needed so far, an offer carries*)
(* the count at the moment create_offer ran, and an answer the count of the*)
(* offer it answers.  The runtime is multi-threaded: a call is two steps   *)
(* (load waiting_for_answer; act under the lock of `state`), and the       *)
(* negotiation task takes one step per lock or await.                      *)
(***************************************************************************)
EXTENDS Integers, Sequences

CONSTANTS Callers,      \* threads that call publisher_negotiation_needed
          Tasks,        \* identities of spawned negotiation tasks
          Candidates,   \* ICE candidates the server trickles
          MaxNeeds,     \* bound: calls of publisher_negotiation_needed
          MaxRestarts,  \* bound: ICE restarts (restart_publisher)
          MaxFaults     \* bound: errors of the peer connection, messages
                        \* lost with a signal link, close

ASSUME NegotiationAssumption ==
    /\ MaxNeeds \in Nat /\ MaxRestarts \in Nat
    /\ MaxFaults \in Nat

VARIABLES
    fast_publish, single_pc_mode,  \* of the JoinResponse, constant since
    \* NegotiationQueue, debouncer and callers
    state, task_running, waiting_for_answer,
    permit,        \* the waker holds a notification
    loop,          \* [Tasks -> where execute_negotiation_with_retry is]
    debouncer,     \* "none", "sleep", "future", "sent"
    call,          \* [Callers -> where publisher_negotiation_needed is]
    wanted,
    \* TransportInner and what the peer connection knows
    pending_initial_offer, renegotiate, restarting_ice, pending_candidates,
    signaling,     \* "stable", "have_local_offer", "closed"
    has_remote,    \* current_remote_description().is_some()
    offered,       \* count carried by the latest local offer
    applied,       \* candidates handed to the peer connection
    \* signal task and the wire
    handler,       \* "idle", "renegotiate", "notify"
    to_server, to_client,
    \* history
    accepted,      \* highest count create_and_send_offer returned Ok for
    answered,      \* highest count of an applied answer
    crossed,       \* an answer was applied to another offer than its own
    fails, losses, restarts

queueVars == <<state, task_running, waiting_for_answer, permit, loop>>
callVars == <<debouncer, call, wanted>>
transportVars == <<pending_initial_offer, renegotiate, restarting_ice,
                   pending_candidates, signaling, has_remote, offered, applied>>
modeVars == <<fast_publish, single_pc_mode>>
vars == <<modeVars, queueVars, callVars, transportVars, handler, to_server,
          to_client, accepted, answered, crossed, fails, losses, restarts>>

States == {"Idle", "InProgress", "PendingRetry"}
LoopPcs == {"none", "start", "offer", "await", "unwait", "check", "exit"}
Answer(n) == [type |-> "answer", count |-> n]
Trickle(c) == [type |-> "trickle", candidate |-> c]
Msgs == {Answer(n) : n \in 0..MaxNeeds} \cup {Trickle(c) : c \in Candidates}

\* The type of every variable: the queue's enum, the peer connection's
\* signalling states and the counters within their bounds; a candidate is
\* either buffered or handed over.
TypeOK ==
    /\ fast_publish \in BOOLEAN /\ single_pc_mode \in BOOLEAN
    /\ state \in States
    /\ task_running \in BOOLEAN /\ waiting_for_answer \in BOOLEAN
    /\ permit \in BOOLEAN
    /\ loop \in [Tasks -> LoopPcs]
    /\ debouncer \in {"none", "sleep", "future", "sent"}
    /\ call \in [Callers -> {"idle", "mark", "queue"}]
    /\ wanted \in 0..MaxNeeds
    /\ pending_initial_offer \in BOOLEAN /\ renegotiate \in BOOLEAN
    /\ restarting_ice \in BOOLEAN
    /\ pending_candidates \subseteq Candidates
    /\ signaling \in {"stable", "have_local_offer", "closed"}
    /\ has_remote \in BOOLEAN
    /\ offered \in 0..MaxNeeds
    /\ applied \subseteq Candidates
    /\ applied \cap pending_candidates = {}
    /\ handler \in {"idle", "renegotiate", "notify"}
    /\ to_server \in Seq(0..MaxNeeds)
    /\ to_client \in Seq(Msgs)
    /\ accepted \in 0..MaxNeeds /\ answered \in 0..MaxNeeds
    /\ crossed \in BOOLEAN
    /\ fails \in 0..MaxFaults /\ losses \in 0..MaxFaults
    /\ restarts \in 0..MaxRestarts

\* RtcSession::connect: in single-PC mode the initial offer went out with the
\* JoinRequest and is kept aside until its answer comes.
Init ==
    /\ fast_publish \in BOOLEAN /\ single_pc_mode \in BOOLEAN
    /\ state = "Idle" /\ task_running = FALSE /\ waiting_for_answer = FALSE
    /\ permit = FALSE /\ loop = [t \in Tasks |-> "none"]
    /\ debouncer = "none" /\ call = [c \in Callers |-> "idle"] /\ wanted = 0
    /\ pending_initial_offer = single_pc_mode
    /\ renegotiate = FALSE /\ restarting_ice = FALSE
    /\ pending_candidates = {} /\ signaling = "stable" /\ has_remote = FALSE
    /\ offered = 0 /\ applied = {} /\ handler = "idle"
    /\ to_server = IF single_pc_mode THEN <<0>> ELSE <<>>
    /\ to_client = <<>>
    /\ accepted = 0 /\ answered = 0 /\ crossed = FALSE
    /\ fails = 0 /\ losses = 0 /\ restarts = 0

----------------------------------------------------------------------------
(* PeerTransport.  `inner` is held over each whole operation.              *)

MayFail == fails + losses < MaxFaults

\* create_and_send_offer puts the offer off: the initial offer or an earlier
\* one is unanswered (and this is no ICE restart that could cancel it).
Deferred(ice_restart) ==
    \/ pending_initial_offer
    \/ signaling = "have_local_offer" /\ ~(ice_restart /\ has_remote)

\* create_and_send_offer returns Ok: the offer is deferred, the peer
\* connection is closed, or a new offer is set and handed to on_offer.
CreateAndSendOffer(ice_restart) ==
    /\ restarting_ice' = (restarting_ice \/ ice_restart)
    /\ renegotiate' = (renegotiate \/ Deferred(ice_restart))
    /\ IF Deferred(ice_restart) \/ signaling = "closed"
         THEN UNCHANGED <<signaling, offered, to_server>>
         ELSE /\ signaling' = "have_local_offer"
              /\ offered' = wanted
              /\ to_server' = Append(to_server, wanted)
    /\ accepted' = wanted
    /\ UNCHANGED <<pending_initial_offer, pending_candidates, has_remote,
                   applied, fails>>

\* create_and_send_offer returns Err: an ICE restart could not cancel the old
\* offer, or create_offer or set_local_description failed, after it may have.
FailToOffer(ice_restart) ==
    /\ MayFail /\ fails' = fails + 1
    /\ ~Deferred(ice_restart) /\ signaling # "closed"
    /\ restarting_ice' = (restarting_ice \/ ice_restart)
    /\ signaling' \in {signaling, "stable"}
    /\ UNCHANGED <<pending_initial_offer, renegotiate, pending_candidates,
                   has_remote, offered, applied, to_server, accepted>>

\* The answer is applied: the kept initial offer becomes the local description,
\* `flushed` of the buffered candidates are added and `kept` stay, `flag` is
\* the new value of renegotiate.
ApplyAnswer(count, flushed, kept, flag, next) ==
    /\ pending_initial_offer' = FALSE
    /\ signaling' = "stable" /\ has_remote' = TRUE
    /\ applied' = applied \cup flushed
    /\ pending_candidates' = kept
    /\ restarting_ice' = FALSE
    /\ renegotiate' = flag
    /\ handler' = next
    /\ answered' = IF count > answered THEN count ELSE answered
    /\ crossed' = (crossed \/ count # offered)
    /\ UNCHANGED <<offered, fails>>

AfterAnswer == IF renegotiate THEN "renegotiate" ELSE "notify"

\* Mutants of set_remote_description: candidates dropped, the flag cleared
\* unseen.
DropsCandidates(count) == ApplyAnswer(count, {}, {}, FALSE, AfterAnswer)
ForgetsDeferred(count) == ApplyAnswer(count, pending_candidates, {}, FALSE, "notify")

\* set_remote_description up to drop(inner): the buffered candidates are
\* drained into the peer connection and a deferred renegotiation is taken out
\* of the flag.
SetRemoteDescription(count) ==
    ApplyAnswer(count, pending_candidates, {}, FALSE, AfterAnswer)

\* An answer can be set only against a local offer.
ExpectsAnswer == pending_initial_offer \/ signaling = "have_local_offer"

\* add_ice_candidate.
AddIceCandidate(c) ==
    IF has_remote /\ ~restarting_ice
      THEN applied' = applied \cup {c} /\ UNCHANGED pending_candidates
      ELSE pending_candidates' = pending_candidates \cup {c} /\ UNCHANGED applied

\* PeerTransport::close: drops the kept initial offer when `inner` is free.
Close ==
    /\ MayFail /\ signaling # "closed"
    /\ signaling' = "closed"
    /\ pending_initial_offer' \in {FALSE, pending_initial_offer}
    /\ UNCHANGED <<modeVars, queueVars, callVars, renegotiate, restarting_ice,
                   pending_candidates, has_remote, offered, applied, handler,
                   to_server, to_client, accepted, answered, crossed, fails,
                   losses, restarts>>

----------------------------------------------------------------------------
(* publisher_negotiation_needed and the negotiation task.                  *)

wireVars == <<handler, to_client, answered, crossed, losses, restarts>>

\* debounce_negotiation: call() succeeds as long as the debouncer's task
\* lives, whether it still sleeps or already runs its future.
Debounce == debouncer' = IF debouncer = "none" THEN "sleep" ELSE debouncer

\* publisher_negotiation_needed up to its load of waiting_for_answer.
Need(c) ==
    /\ call[c] = "idle" /\ wanted < MaxNeeds
    /\ wanted' = wanted + 1
    /\ IF fast_publish
         THEN /\ call' = [call EXCEPT ![c] =
                             IF waiting_for_answer THEN "mark" ELSE "queue"]
              /\ UNCHANGED debouncer
         ELSE Debounce /\ UNCHANGED call
    /\ UNCHANGED <<modeVars, queueVars, transportVars, wireVars, to_server,
                   accepted, fails>>

\* The answer was awaited when it was loaded: mark for retry.
MarkRetry(c) ==
    /\ call[c] = "mark"
    /\ state' = "PendingRetry"
    /\ call' = [call EXCEPT ![c] = "idle"]
    /\ UNCHANGED <<modeVars, task_running, waiting_for_answer, permit, loop,
                   debouncer, wanted, transportVars, wireVars, to_server,
                   accepted, fails>>

\* The identity of the next spawned task: which one it is does not matter.
FreshTask ==
    LET free == {t \in Tasks : loop[t] = "none"}
    IN  IF free = {} THEN {} ELSE {CHOOSE t \in free : TRUE}

\* Mutant: the check of task_running dropped.
QueueWithoutSwap(c) ==
    /\ call[c] = "queue"
    /\ call' = [call EXCEPT ![c] = "idle"]
    /\ IF state = "Idle"
         THEN /\ state' = "InProgress" /\ task_running' = TRUE
              /\ \E t \in FreshTask : loop' = [loop EXCEPT ![t] = "start"]
         ELSE state' = "PendingRetry" /\ UNCHANGED <<task_running, loop>>
    /\ UNCHANGED <<modeVars, waiting_for_answer, permit, debouncer, wanted,
                   transportVars, wireVars, to_server, accepted, fails>>

\* queue_negotiation, under the lock of `state`.
QueueNegotiation(c) ==
    /\ call[c] = "queue"
    /\ call' = [call EXCEPT ![c] = "idle"]
    /\ IF state = "Idle" /\ ~task_running
         THEN /\ state' = "InProgress" /\ task_running' = TRUE
              /\ \E t \in FreshTask : loop' = [loop EXCEPT ![t] = "start"]
         ELSE state' = "PendingRetry" /\ UNCHANGED <<task_running, loop>>
    /\ UNCHANGED <<modeVars, waiting_for_answer, permit, debouncer, wanted,
                   transportVars, wireVars, to_server, accepted, fails>>

Goto(t, pc) == loop' = [loop EXCEPT ![t] = pc]

\* waiting_for_answer is set before the offer is created.
StartWaiting(t) ==
    /\ loop[t] = "start" /\ Goto(t, "offer")
    /\ waiting_for_answer' = TRUE
    /\ UNCHANGED <<modeVars, state, task_running, permit, callVars,
                   transportVars, wireVars, to_server, accepted, fails>>

\* The task's create_and_send_offer.
TaskOffer(t) ==
    /\ loop[t] = "offer"
    /\ \/ CreateAndSendOffer(FALSE) /\ Goto(t, "await")
       \/ FailToOffer(FALSE) /\ Goto(t, "unwait")
    /\ UNCHANGED <<modeVars, state, task_running, waiting_for_answer, permit,
                   callVars, wireVars>>

\* The select of waker.notified() and the timeout of 10 s.
AwaitAnswer(t) ==
    /\ loop[t] = "await"
    /\ \/ permit /\ permit' = FALSE /\ Goto(t, "check")
       \/ Goto(t, "unwait") /\ UNCHANGED permit
    /\ UNCHANGED <<modeVars, state, task_running, waiting_for_answer, callVars,
                   transportVars, wireVars, to_server, accepted, fails>>

\* After an error or the timeout: no longer waiting.
StopWaiting(t) ==
    /\ loop[t] = "unwait" /\ Goto(t, "check")
    /\ waiting_for_answer' = FALSE
    /\ UNCHANGED <<modeVars, state, task_running, permit, callVars,
                   transportVars, wireVars, to_server, accepted, fails>>

\* The loop's last look at `state`: once more, or Idle and leave.
CheckRetry(t) ==
    /\ loop[t] = "check"
    /\ IF state = "PendingRetry"
         THEN state' = "InProgress" /\ Goto(t, "start")
         ELSE state' = "Idle" /\ Goto(t, "exit")
    /\ UNCHANGED <<modeVars, task_running, waiting_for_answer, permit, callVars,
                   transportVars, wireVars, to_server, accepted, fails>>

\* The spawned task clears task_running after the loop has returned.
TaskExit(t) ==
    /\ loop[t] = "exit" /\ Goto(t, "none")
    /\ task_running' = FALSE
    /\ UNCHANGED <<modeVars, state, waiting_for_answer, permit, callVars,
                   transportVars, wireVars, to_server, accepted, fails>>

\* debounce_task: the sleep ends, the future runs to its end, the task ends.
DebouncerStep ==
    /\ \/ /\ debouncer = "sleep" /\ debouncer' = "future"
          /\ UNCHANGED <<transportVars, to_server, accepted, fails>>
       \/ /\ debouncer = "future" /\ debouncer' = "sent"
          /\ CreateAndSendOffer(FALSE) \/ FailToOffer(FALSE)
       \/ /\ debouncer = "sent" /\ debouncer' = "none"
          /\ UNCHANGED <<transportVars, to_server, accepted, fails>>
    /\ UNCHANGED <<modeVars, queueVars, call, wanted, wireVars>>

\* restart_publisher, called by the engine on a resume.
RestartPublisher ==
    /\ restarts < MaxRestarts /\ restarts' = restarts + 1
    /\ single_pc_mode \/ wanted > 0
    /\ CreateAndSendOffer(TRUE) \/ FailToOffer(TRUE)
    /\ UNCHANGED <<modeVars, queueVars, callVars, handler, to_client, answered,
                   crossed, losses>>

----------------------------------------------------------------------------
(* signal_task: on_signal_event, one message at a time, and the server.    *)

\* Message::Answer: set_remote_description, whose error ends the handler.
OnAnswer ==
    /\ handler = "idle" /\ to_client # <<>> /\ Head(to_client).type = "answer"
    /\ to_client' = Tail(to_client)
    /\ IF ExpectsAnswer /\ signaling # "closed"
         THEN SetRemoteDescription(Head(to_client).count)
         ELSE /\ pending_initial_offer' = FALSE
              /\ UNCHANGED <<renegotiate, restarting_ice, pending_candidates,
                             signaling, has_remote, offered, applied, handler,
                             answered, crossed, fails>>
    /\ UNCHANGED <<modeVars, queueVars, callVars, to_server, accepted, losses,
                   restarts>>

\* The peer connection refuses the kept initial offer as local description, the
\* answer, or a buffered candidate.  The first two leave the rest as it is; a
\* refused candidate takes those after it with it, `added` came before it.  Both
\* flags stay and nobody is notified.
RefuseDescription ==
    /\ signaling' \in IF pending_initial_offer THEN {signaling, "have_local_offer"}
                                               ELSE {signaling}
    /\ UNCHANGED <<pending_candidates, has_remote, applied, answered, crossed>>

RefuseCandidate(count) ==
    /\ \E added \in SUBSET pending_candidates :
          added # pending_candidates /\ applied' = applied \cup added
    /\ pending_candidates' = {}
    /\ signaling' = "stable" /\ has_remote' = TRUE
    /\ answered' = IF count > answered THEN count ELSE answered
    /\ crossed' = (crossed \/ count # offered)

OnAnswerFails ==
    /\ handler = "idle" /\ to_client # <<>> /\ Head(to_client).type = "answer"
    /\ ExpectsAnswer /\ signaling # "closed"
    /\ MayFail /\ fails' = fails + 1
    /\ to_client' = Tail(to_client)
    /\ pending_initial_offer' = FALSE
    /\ RefuseDescription \/ RefuseCandidate(Head(to_client).count)
    /\ UNCHANGED <<modeVars, queueVars, callVars, renegotiate, restarting_ice,
                   offered, handler, to_server, accepted, losses, restarts>>

\* Mutant: the deferred offer is not made.
SkipsRenegotiation ==
    /\ handler = "renegotiate" /\ handler' = "notify"
    /\ UNCHANGED <<modeVars, queueVars, callVars, transportVars, to_server,
                   to_client, accepted, answered, crossed, fails, losses, restarts>>

\* The end of set_remote_description: the deferred offer, `inner` released
\* and taken again.
OnAnswerRenegotiate ==
    /\ handler = "renegotiate"
    /\ \/ CreateAndSendOffer(FALSE) /\ handler' = "notify"
       \/ FailToOffer(FALSE) /\ handler' = "idle"
    /\ UNCHANGED <<modeVars, queueVars, callVars, to_client, answered,
                   crossed, losses, restarts>>

\* The rest of the handler: wake the negotiation task in fast mode.
OnAnswerNotify ==
    /\ handler = "notify" /\ handler' = "idle"
    /\ IF fast_publish
         THEN /\ permit' = (permit \/ waiting_for_answer)
              /\ waiting_for_answer' = FALSE
         ELSE UNCHANGED <<permit, waiting_for_answer>>
    /\ UNCHANGED <<modeVars, state, task_running, loop, callVars, transportVars,
                   to_server, to_client, accepted, answered, crossed, fails,
                   losses, restarts>>

\* Message::Trickle.
OnTrickle ==
    /\ handler = "idle" /\ to_client # <<>> /\ Head(to_client).type = "trickle"
    /\ to_client' = Tail(to_client)
    /\ AddIceCandidate(Head(to_client).candidate)
    /\ UNCHANGED <<modeVars, queueVars, callVars, pending_initial_offer,
                   renegotiate, restarting_ice, signaling, has_remote, offered,
                   handler, to_server, accepted, answered, crossed, fails,
                   losses, restarts>>

\* The server answers the offers in order and trickles its candidates.
ServerAnswers ==
    /\ to_server # <<>>
    /\ to_server' = Tail(to_server)
    /\ to_client' = Append(to_client, Answer(Head(to_server)))
    /\ UNCHANGED <<modeVars, queueVars, callVars, transportVars, handler,
                   accepted, answered, crossed, fails, losses, restarts>>

ServerTrickles(c) ==
    /\ c \notin pending_candidates \cup applied
    /\ \A i \in 1..Len(to_client) : to_client[i] # Trickle(c)
    /\ to_client' = Append(to_client, Trickle(c))
    /\ UNCHANGED <<modeVars, queueVars, callVars, transportVars, handler,
                   to_server, accepted, answered, crossed, fails, losses, restarts>>

\* A message is lost with the signal connection that carried it.
Lose ==
    /\ MayFail /\ losses' = losses + 1
    /\ \/ to_server # <<>> /\ to_server' = Tail(to_server) /\ UNCHANGED to_client
       \/ to_client # <<>> /\ to_client' = Tail(to_client) /\ UNCHANGED to_server
    /\ UNCHANGED <<modeVars, queueVars, callVars, transportVars, handler,
                   accepted, answered, crossed, fails, restarts>>

----------------------------------------------------------------------------
TaskStep(t) == StartWaiting(t) \/ TaskOffer(t) \/ AwaitAnswer(t)
               \/ StopWaiting(t) \/ CheckRetry(t) \/ TaskExit(t)
CallStep(c) == MarkRetry(c) \/ QueueNegotiation(c)
SignalStep == OnAnswer \/ OnAnswerRenegotiate \/ OnAnswerNotify \/ OnTrickle

Next ==
    \/ \E c \in Callers : Need(c) \/ CallStep(c)
    \/ \E t \in Tasks : TaskStep(t)
    \/ DebouncerStep \/ RestartPublisher
    \/ SignalStep \/ OnAnswerFails
    \/ ServerAnswers \/ \E c \in Candidates : ServerTrickles(c)
    \/ Lose \/ Close

Spec == Init /\ [][Next]_vars

\* Spawned tasks and entered functions run on; the server answers.  Nobody is
\* obliged to call, to restart, to fail, to lose or to close.
Fairness ==
    /\ \A c \in Callers : WF_vars(CallStep(c))
    /\ \A t \in Tasks : WF_vars(TaskStep(t))
    /\ WF_vars(DebouncerStep) /\ WF_vars(SignalStep) /\ WF_vars(ServerAnswers)

FairSpec == Spec /\ Fairness

----------------------------------------------------------------------------
(* Properties.                                                             *)

Running(t) == loop[t] # "none"

\* Never two negotiation tasks: task_running, swapped by queue_negotiation and
\* cleared only after the loop has returned, keeps a second task out even
\* while `state` is Idle again, so two loops never share one waker and one
\* waiting_for_answer.
OneNegotiationTask ==
    /\ \A t, u \in Tasks : Running(t) /\ Running(u) => t = u
    /\ \A t \in Tasks : Running(t) => task_running

\* What create_and_send_offer took on with Ok is in the latest offer, or is
\* remembered for the answer that is still out: `renegotiate` never loses a
\* deferred offer, whichever of the task, the debouncer, an ICE restart and
\* the answer's handler come in between.
DeferredKept ==
    \/ accepted <= offered
    \/ renegotiate
    \/ handler = "renegotiate"
    \/ fails > 0
    \/ signaling = "closed"

\* A deferred offer waits for an answer that can come: the flag is never left
\* behind in a stable peer connection, where nothing would look at it.
DeferredAwaitsAnswer ==
    renegotiate => ExpectsAnswer \/ fails > 0 \/ signaling = "closed"

\* No error, loss or close, and no ICE restart whose cancelled offer was
\* answered all the same, its answer taken for the new offer's.
Undisturbed == fails = 0 /\ losses = 0 /\ ~crossed /\ signaling # "closed"

\* What the transport took on is negotiated: as long as no error, loss or
\* close interferes, an answer that covers it is applied.
AcceptedIsAnswered ==
    \A n \in 1..MaxNeeds :
        (accepted >= n) ~> (answered >= n \/ ~Undisturbed)

\* The negotiation task always ends: answered, timed out or failed, it comes
\* to its last look and leaves.
TaskEnds == task_running ~> ~task_running

\* A buffered candidate reaches the peer connection once the answer of the
\* offer in flight (the initial one, an ICE restart's) has come.
CandidateApplied ==
    \A c \in Candidates :
        (c \in pending_candidates /\ ExpectsAnswer)
            ~> (c \in applied \/ ~Undisturbed)

\* A negotiation that publisher_negotiation_needed or queue_negotiation marks
\* for retry is retried: some task finds PendingRetry and goes round again.
MarkedRetryRuns == (state = "PendingRetry") ~> (state = "InProgress")

\* A change of the tracks for which a negotiation was asked is negotiated, also
\* when it was asked for while a task or the debouncer's future was running.
NeedIsAnswered ==
    \A n \in 1..MaxNeeds : (wanted >= n) ~> (answered >= n \/ ~Undisturbed)

\* An answer is applied to the offer that it answers.
AnswersMatch == ~crossed
=============================================================================
