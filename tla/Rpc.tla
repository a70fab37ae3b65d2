--------------------------------- MODULE Rpc ---------------------------------
(***************************************************************************)
(* Remote procedure calls between two participants: RpcClientManager at    *)
(* the caller, RpcServerManager at the recipient, and the reliable channel *)
(* between them with the faults that ReliableChannel and DataStream leave  *)
(* in it.  A request is a v1 packet or a v2 text stream, an ack and an     *)
(* error are always packets, a v2 success is a text stream.                *)
(*                                                                         *)
(* A call is known by its request id, all calls are of one method, and of  *)
(* a payload only its being larger than MAX_V1_PAYLOAD_BYTES counts.       *)
(***************************************************************************)
EXTENDS Integers, Sequences

CONSTANTS Calls,        \* request ids
          ServerInfos,  \* versions the SFU may announce: "empty", "old", "new"
          MaxFaults     \* bound: failed publications, lost and replayed messages

ASSUME RpcAssumption == MaxFaults \in Nat

VARIABLES
    \* perform_rpc(), one future per call
    server,            \* the version in the join response
    stage,             \* "idle", "sending", "sent", "ack", "response", "done"
    via,               \* 1 or 2: the transport chosen
    result,            \* what perform_rpc() returned
    \* RpcClientManager: the senders in the maps, and what the receivers hold
    pending_acks, pending_responses, acked, answer,
    readers,           \* handle_v2_response_stream tasks reading their stream
    \* RpcServerManager and its tasks
    present,           \* the recipient is in the room
    handlers,          \* the method is registered
    tasks,             \* handle_v1_request / handle_v2_request_stream
    \* the channel
    toServer, toClient, faults,
    \* history
    copies,            \* requests taken from the channel
    replayed,          \* of these, how many the channel delivered again
    invoked,           \* how often the handler was called
    skipped,           \* how many tasks have answered without calling it
    delivered          \* a response came while perform_rpc() was waiting

client == <<server, stage, via, result, pending_acks, pending_responses, acked, answer>>
servers == <<present, handlers, tasks>>
history == <<copies, replayed, invoked, skipped, delivered>>
vars == <<client, readers, servers, toServer, toClient, faults, history>>

None == "none"

\* The answers of a recipient, and what perform_rpc() returns by itself.
Errors == {"UnsupportedMethod", "UnsupportedVersion", "ResponsePayloadTooLarge",
           "ApplicationError", "HandlerError", "SendFailed"}
Answers == {"Payload", "LargePayload"} \cup Errors
Local == {"RequestPayloadTooLarge", "UnsupportedServer", "SendFailed",
          "ConnectionTimeout", "ResponseTimeout", "Panicked", "Cancelled"}

Request(c, version, whole) ==
    [call |-> c, via |-> via[c], version |-> version, whole |-> whole]
Ack(c) == [kind |-> "ack", call |-> c]
Response(c, a) == [kind |-> "response", call |-> c, answer |-> a]
ResponseStream(c, a, whole) ==
    [kind |-> "stream", call |-> c, answer |-> a, whole |-> whole]

Init ==
    /\ server \in ServerInfos
    /\ stage = [c \in Calls |-> "idle"] /\ via = [c \in Calls |-> 1]
    /\ result = [c \in Calls |-> None]
    /\ pending_acks = {} /\ pending_responses = {}
    /\ acked = {} /\ answer = [c \in Calls |-> None] /\ readers = {}
    /\ present = TRUE /\ handlers \in BOOLEAN /\ tasks = {}
    /\ toServer = <<>> /\ toClient = <<>> /\ faults = 0
    /\ copies = [c \in Calls |-> 0] /\ replayed = [c \in Calls |-> 0]
    /\ invoked = [c \in Calls |-> 0] /\ skipped = [c \in Calls |-> 0]
    /\ delivered = {}

Fault == faults < MaxFaults /\ faults' = faults + 1

----------------------------------------------------------------------------
(* The caller.                                                             *)

\* What the future waits for; a cancelled future takes its receivers along.
Waiting(c) == stage[c] \in {"sending", "sent", "ack", "response"}

Returns(c, r) == stage' = [stage EXCEPT ![c] = "done"] /\ result' = [result EXCEPT ![c] = r]

\* SessionTransport::server_version(): is_empty().then(..) keeps the version
\* only when it is empty.
ServerVersion == IF server = "empty" THEN server ELSE None

\* Why perform_rpc() ends before anything is registered: Version::parse()
\* of an empty string fails and is unwrapped.
Refusal(v, large) ==
    IF ServerVersion = "empty" THEN "Panicked"
    ELSE IF ServerVersion = "old" THEN "UnsupportedServer"
    ELSE IF v = 1 /\ large THEN "RequestPayloadTooLarge" ELSE None

\* Mutant: the response is not registered before the request is sent.
RegisterAckOnly(c) ==
    /\ pending_acks' = pending_acks \cup {c}
    /\ UNCHANGED pending_responses

\* Both senders enter the maps before the request is sent.
Register(c) ==
    /\ pending_acks' = pending_acks \cup {c}
    /\ pending_responses' = pending_responses \cup {c}

PerformRpc(c) ==
    /\ stage[c] = "idle"
    /\ \E v \in {1, 2}, large \in BOOLEAN :
        /\ v = 2 => present    \* an unknown identity has the default protocol
        /\ via' = [via EXCEPT ![c] = v]
        /\ IF Refusal(v, large) # None
           THEN Returns(c, Refusal(v, large)) /\ UNCHANGED <<pending_acks, pending_responses>>
           ELSE /\ stage' = [stage EXCEPT ![c] = "sending"]
                /\ Register(c) /\ UNCHANGED result
    /\ UNCHANGED <<server, acked, answer, readers, servers, toServer, toClient, faults,
                   history>>

\* send_v1_request(), send_v2_request(): the request is on its way before the
\* future resumes.  A version other than ours is that of another SDK.
SendRequest(c) ==
    /\ stage[c] = "sending" /\ stage' = [stage EXCEPT ![c] = "sent"]
    /\ \E version \in {via[c], 3} :
        toServer' = IF present THEN Append(toServer, Request(c, version, TRUE)) ELSE toServer
    /\ UNCHANGED <<server, via, result, pending_acks, pending_responses, acked, answer,
                   readers, servers, toClient, faults, history>>

Forget(c) ==
    /\ pending_acks' = pending_acks \ {c}
    /\ pending_responses' = pending_responses \ {c}

\* Of a v2 request that is given up some or all packets may have left.
GivenUp(c) ==
    \/ UNCHANGED toServer
    \/ /\ via[c] = 2 /\ present
       /\ \E whole \in BOOLEAN : toServer' = Append(toServer, Request(c, 2, whole))

SendFails(c) ==
    /\ stage[c] = "sending" /\ Fault /\ GivenUp(c)
    /\ Returns(c, "SendFailed") /\ Forget(c)
    /\ UNCHANGED <<server, via, acked, answer, readers, servers, toClient, history>>

SendReturns(c) ==
    /\ stage[c] = "sent" /\ stage' = [stage EXCEPT ![c] = "ack"]
    /\ UNCHANGED <<server, via, result, pending_acks, pending_responses, acked, answer,
                   readers, servers, toServer, toClient, faults, history>>

\* Mutant: only the ack is forgotten.
AckTimesOutKeeping(c) ==
    /\ stage[c] = "ack" /\ c \notin acked
    /\ Returns(c, "ConnectionTimeout")
    /\ pending_acks' = pending_acks \ {c}
    /\ UNCHANGED <<server, via, pending_responses, acked, answer, readers, servers,
                   toServer, toClient, faults, history>>

AckTimesOut(c) ==
    /\ stage[c] = "ack" /\ c \notin acked
    /\ Returns(c, "ConnectionTimeout") /\ Forget(c)
    /\ UNCHANGED <<server, via, acked, answer, readers, servers, toServer, toClient,
                   faults, history>>

AckSeen(c) ==
    /\ stage[c] = "ack" /\ c \in acked
    /\ stage' = [stage EXCEPT ![c] = "response"]
    /\ UNCHANGED <<server, via, result, pending_acks, pending_responses, acked, answer,
                   readers, servers, toServer, toClient, faults, history>>

ResponseTimesOut(c) ==
    /\ stage[c] = "response" /\ answer[c] = None
    /\ Returns(c, "ResponseTimeout")
    /\ pending_responses' = pending_responses \ {c}
    /\ UNCHANGED <<server, via, pending_acks, acked, answer, readers, servers, toServer,
                   toClient, faults, history>>

ResponseSeen(c) ==
    /\ stage[c] = "response" /\ answer[c] # None
    /\ Returns(c, answer[c])
    /\ UNCHANGED <<server, via, pending_acks, pending_responses, acked, answer, readers,
                   servers, toServer, toClient, faults, history>>

\* The caller drops the future; its entries stay in the maps.
Cancel(c) ==
    /\ Waiting(c) /\ Returns(c, "Cancelled")
    /\ IF stage[c] = "sending" THEN GivenUp(c) ELSE UNCHANGED toServer
    /\ UNCHANGED <<server, via, pending_acks, pending_responses, acked, answer, readers,
                   servers, toClient, faults, history>>

----------------------------------------------------------------------------
(* What the caller's room hands to RpcClientManager.                       *)

HandleIncomingRpcAck(c) ==
    /\ pending_acks' = pending_acks \ {c}
    /\ acked' = IF c \in pending_acks /\ Waiting(c) THEN acked \cup {c} ELSE acked

\* handle_v1_response_packet, and the end of handle_v2_response_stream.
Resolve(c, a) ==
    /\ pending_responses' = pending_responses \ {c}
    /\ answer' = IF c \in pending_responses /\ Waiting(c)
                 THEN [answer EXCEPT ![c] = a] ELSE answer
    /\ delivered' = IF Waiting(c) THEN delivered \cup {c} ELSE delivered

Take(kind) == toClient # <<>> /\ Head(toClient).kind = kind /\ toClient' = Tail(toClient)

ReceiveAck ==
    /\ Take("ack") /\ HandleIncomingRpcAck(Head(toClient).call)
    /\ UNCHANGED <<server, stage, via, result, pending_responses, answer, readers, servers,
                   toServer, faults, history>>

ReceiveResponse ==
    /\ Take("response") /\ Resolve(Head(toClient).call, Head(toClient).answer)
    /\ UNCHANGED <<server, stage, via, result, pending_acks, acked, readers, servers,
                   toServer, faults, copies, replayed, invoked, skipped>>

ReceiveStream ==
    /\ Take("stream") /\ readers' = readers \cup {Head(toClient)}
    /\ UNCHANGED <<client, servers, toServer, faults, history>>

\* read_all() of a response stream: what is incomplete, or loses a packet,
\* ends in an error.
ReadResponse ==
    /\ \E m \in readers :
        /\ readers' = readers \ {m}
        /\ \/ m.whole /\ Resolve(m.call, m.answer) /\ UNCHANGED faults
           \/ ~m.whole /\ Resolve(m.call, "ApplicationError") /\ UNCHANGED faults
           \/ m.whole /\ Fault /\ Resolve(m.call, "ApplicationError")
    /\ UNCHANGED <<server, stage, via, result, pending_acks, acked, servers, toServer,
                   toClient, copies, replayed, invoked, skipped>>

----------------------------------------------------------------------------
(* The recipient.  Every request has a task of its own.                    *)

RegisterMethod ==
    /\ present /\ ~handlers /\ handlers' = TRUE
    /\ UNCHANGED <<client, readers, present, tasks, toServer, toClient, faults, history>>

UnregisterMethod ==
    /\ present /\ handlers /\ handlers' = FALSE
    /\ UNCHANGED <<client, readers, present, tasks, toServer, toClient, faults, history>>

ReceiveRequest ==
    /\ toServer # <<>> /\ toServer' = Tail(toServer)
    /\ LET m == Head(toServer) IN
        /\ copies' = [copies EXCEPT ![m.call] = @ + 1]
        /\ tasks' = tasks \cup {[request |-> m, copy |-> copies'[m.call], at |-> "ack",
                                 outcome |-> None]}
    /\ UNCHANGED <<client, readers, present, handlers, toClient, faults, replayed, invoked,
                   skipped, delivered>>

Moves(t, at) == tasks' = (tasks \ {t}) \cup {[t EXCEPT !.at = at]}
Concludes(t, a) ==
    tasks' = (tasks \ {t}) \cup {[t EXCEPT !.at = "respond", !.outcome = a]}
Ends(t) == tasks' = tasks \ {t}

\* The task answers with an error without calling the handler.
Skips(t, a) ==
    Concludes(t, a) /\ skipped' = [skipped EXCEPT ![t.request.call] = @ + 1]

Publish(m) == toClient' = Append(toClient, m)

\* The ack; when it cannot be published the task goes on.
PublishRpcAck(t) ==
    /\ t.at = "ack"
    /\ \/ Publish(Ack(t.request.call)) /\ UNCHANGED faults
       \/ Fault /\ UNCHANGED toClient
    /\ IF t.request.version # t.request.via THEN Skips(t, "UnsupportedVersion")
       ELSE Moves(t, IF t.request.via = 2 THEN "read" ELSE "invoke") /\ UNCHANGED skipped
    /\ UNCHANGED <<client, readers, present, handlers, toServer, copies, replayed, invoked,
                   delivered>>

\* read_all() of a request stream.
ReadRequest(t) ==
    /\ t.at = "read"
    /\ \/ t.request.whole /\ Moves(t, "invoke") /\ UNCHANGED faults
       \/ ~t.request.whole /\ Concludes(t, "ApplicationError") /\ UNCHANGED faults
       \/ t.request.whole /\ Fault /\ Concludes(t, "ApplicationError")
    /\ UNCHANGED <<client, readers, present, handlers, toServer, toClient, history>>

\* invoke_handler: the handler of this moment is cloned, and runs in a task.
InvokeHandler(t) ==
    /\ t.at = "invoke"
    /\ IF handlers
       THEN /\ Moves(t, "running")
            /\ invoked' = [invoked EXCEPT ![t.request.call] = @ + 1]
            /\ UNCHANGED skipped
       ELSE Skips(t, "UnsupportedMethod") /\ UNCHANGED invoked
    /\ UNCHANGED <<client, readers, present, handlers, toServer, toClient, faults, copies,
                   replayed, delivered>>

\* Mutant: whether the method is registered is looked up when it has returned.
HandlerReturnsChecked(t) ==
    /\ t.at = "running"
    /\ \E a \in {"Payload", "LargePayload", "HandlerError", "ApplicationError"} :
        Concludes(t, IF handlers THEN a ELSE "UnsupportedMethod")
    /\ UNCHANGED <<client, readers, present, handlers, toServer, toClient, faults, history>>

\* A payload, an error of its own, or a panic; or it never returns.
HandlerReturns(t) ==
    /\ t.at = "running"
    /\ \E a \in {"Payload", "LargePayload", "HandlerError", "ApplicationError"} :
        Concludes(t, a)
    /\ UNCHANGED <<client, readers, present, handlers, toServer, toClient, faults, history>>

\* A large payload has no v1 response.
AnswerOf(t) ==
    IF t.outcome = "LargePayload" /\ t.request.via = 1
    THEN "ResponsePayloadTooLarge" ELSE t.outcome

\* A v2 success that cannot be sent, or only in part, is followed by an error packet.
RespondFallsBack(t) ==
    /\ t.at = "respond" /\ t.outcome \in {"Payload", "LargePayload"} /\ t.request.via = 2
    /\ Fault /\ Ends(t)
    /\ \E part \in {<<>>} \cup {<<ResponseStream(t.request.call, t.outcome, whole)>> :
                                  whole \in BOOLEAN} :
        toClient' = toClient \o Append(part, Response(t.request.call, "SendFailed"))
    /\ UNCHANGED <<client, readers, present, handlers, toServer, history>>

Respond(t) ==
    LET c == t.request.call IN
    /\ t.at = "respond" /\ Ends(t)
    /\ Publish(IF t.request.via = 2 /\ t.outcome \in {"Payload", "LargePayload"}
               THEN ResponseStream(c, t.outcome, TRUE) ELSE Response(c, AnswerOf(t)))
    /\ UNCHANGED <<client, readers, present, handlers, toServer, faults, history>>

\* The packet cannot be published: logged, or not even that.
RespondFails(t) ==
    /\ t.at = "respond" /\ Fault /\ Ends(t)
    /\ UNCHANGED <<client, readers, present, handlers, toServer, toClient, history>>

----------------------------------------------------------------------------
(* The channel, and the recipient leaving the room.                        *)

\* The channel without its i-th message.
Without(q, i) == SubSeq(q, 1, i - 1) \o SubSeq(q, i + 1, Len(q))

Lose ==
    /\ Fault
    /\ \/ /\ \E i \in DOMAIN toServer : toServer' = Without(toServer, i)
          /\ UNCHANGED toClient
       \/ /\ \E i \in DOMAIN toClient : toClient' = Without(toClient, i)
          /\ UNCHANGED toServer
    /\ UNCHANGED <<client, readers, servers, history>>

\* The SFU or a resumed session sends a message again, behind newer ones.
Replay ==
    /\ Fault
    /\ \/ /\ \E i \in DOMAIN toServer :
                /\ toServer' = Append(toServer, toServer[i])
                /\ replayed' = [replayed EXCEPT ![toServer[i].call] = @ + 1]
          /\ UNCHANGED toClient
       \/ /\ \E i \in DOMAIN toClient : toClient' = Append(toClient, toClient[i])
          /\ UNCHANGED <<toServer, replayed>>
    /\ UNCHANGED <<client, readers, servers, copies, invoked, skipped, delivered>>

\* Nothing tells RpcClientManager.
RecipientLeaves ==
    /\ present /\ present' = FALSE /\ handlers' = FALSE
    /\ tasks' = {} /\ toServer' = <<>>
    /\ UNCHANGED <<client, readers, toClient, faults, history>>

----------------------------------------------------------------------------

Caller(c) ==
    \/ PerformRpc(c) \/ SendRequest(c) \/ SendFails(c) \/ SendReturns(c)
    \/ AckTimesOut(c) \/ AckSeen(c) \/ ResponseTimesOut(c) \/ ResponseSeen(c) \/ Cancel(c)

Task(t) ==
    \/ PublishRpcAck(t) \/ ReadRequest(t) \/ InvokeHandler(t) \/ HandlerReturns(t)
    \/ RespondFallsBack(t) \/ Respond(t) \/ RespondFails(t)

Next ==
    \/ \E c \in Calls : Caller(c)
    \/ \E t \in tasks : Task(t)
    \/ ReceiveAck \/ ReceiveResponse \/ ReceiveStream \/ ReadResponse
    \/ RegisterMethod \/ UnregisterMethod \/ ReceiveRequest
    \/ Lose \/ Replay \/ RecipientLeaves

Spec == Init /\ [][Next]_vars

\* A future that can go on is polled, a timer fires, and publish_data() and
\* send_text() return (ReliableChannel!PublishReturns).
FairSpec ==
    /\ Spec
    /\ \A c \in Calls :
        /\ WF_vars(SendRequest(c)) /\ WF_vars(SendReturns(c))
        /\ WF_vars(AckTimesOut(c)) /\ WF_vars(AckSeen(c))
        /\ WF_vars(ResponseTimesOut(c)) /\ WF_vars(ResponseSeen(c))

----------------------------------------------------------------------------
(* Properties.                                                             *)

Requests == [call : Calls, via : {1, 2}, version : 1..3, whole : BOOLEAN]
Messages ==
    [kind : {"ack"}, call : Calls] \cup [kind : {"response"}, call : Calls, answer : Answers]
    \cup [kind : {"stream"}, call : Calls, answer : Answers, whole : BOOLEAN]

\* The state is well typed, and a task exists only for a request taken from
\* the channel of a recipient that is in the room.
TypeOK ==
    /\ server \in ServerInfos
    /\ stage \in [Calls -> {"idle", "sending", "sent", "ack", "response", "done"}]
    /\ via \in [Calls -> {1, 2}] /\ result \in [Calls -> {None} \cup Answers \cup Local]
    /\ pending_acks \subseteq Calls /\ pending_responses \subseteq Calls
    /\ acked \subseteq Calls /\ answer \in [Calls -> {None} \cup Answers]
    /\ readers \subseteq Messages
    /\ present \in BOOLEAN /\ handlers \in BOOLEAN
    /\ \A t \in tasks :
        /\ present /\ t.request \in Requests /\ t.copy \in 1..copies[t.request.call]
        /\ t.at \in {"ack", "read", "invoke", "running", "respond"}
        /\ t.outcome \in {None} \cup Answers /\ (t.at = "respond") = (t.outcome # None)
    /\ toServer \in Seq(Requests) /\ toClient \in Seq(Messages)
    /\ faults \in 0..MaxFaults
    /\ \A f \in {copies, replayed, invoked, skipped} : f \in [Calls -> 0..(MaxFaults + 1)]
    /\ delivered \subseteq Calls

\* perform_rpc() leaves nothing behind in pending_acks and pending_responses
\* when it returns, on whichever path; only a future that was dropped does.
Released ==
    \A c \in Calls : stage[c] = "done" /\ result[c] # "Cancelled" =>
        c \notin pending_acks \cup pending_responses

\* The answers that only a handler's run leads to, and those of a task that did
\* not call one.
RunAnswers == {"Payload", "LargePayload", "ResponsePayloadTooLarge", "HandlerError"}
SkipAnswers == {"UnsupportedMethod", "UnsupportedVersion"}

\* The result tells the caller whether the method has run: a payload, an error of
\* the handler or a payload that was too large to return means that it has, and
\* after UnsupportedMethod or UnsupportedVersion it has not and never will, so
\* that the call may be repeated (unless the channel has repeated the request).
RunAsTold ==
    \A c \in Calls :
        /\ result[c] \in RunAnswers => invoked[c] # 0
        /\ result[c] \in SkipAnswers /\ replayed[c] = 0 => invoked[c] = 0

\* The handler is called at most once for every time the channel delivered
\* the request: neither manager ever handles a request again by itself.
OncePerDelivery == \A c \in Calls : invoked[c] <= copies[c] /\ copies[c] <= 1 + replayed[c]

\* A call that ends with ResponseTimeout was given no response: an answer
\* that comes early, before the ack or before send_request() has returned, is
\* kept for the wait that follows.
TimeoutMeansNoAnswer ==
    \A c \in Calls : result[c] = "ResponseTimeout" => c \notin delivered

\* The same of ConnectionTimeout.  It does not hold: a response whose ack was lost
\* is in its oneshot when the wait for the ack gives up.
NoAnswerDiscarded ==
    \A c \in Calls :
        result[c] \in {"ConnectionTimeout", "ResponseTimeout"} => c \notin delivered

\* Released, of dropped futures too.  It does not hold: perform_rpc() has no guard
\* that removes its entries when it is dropped.
AlwaysReleased ==
    \A c \in Calls : stage[c] = "done" => c \notin pending_acks \cup pending_responses

\* Every call returns, whatever the channel loses and whenever the recipient
\* leaves: each wait of perform_rpc() has its timeout.
CallReturns == \A c \in Calls : (stage[c] = "sending") ~> (stage[c] = "done")

\* "RPC not supported by server" (UnsupportedServer): no request is sent
\* through a server older than 1.8.0.
OldServerRefused == server = "old" => \A c \in Calls : ~Waiting(c)
=============================================================================
