------------------------------ MODULE RpcProofs ------------------------------
(***************************************************************************)
(* For any set of calls and any number of faults: perform_rpc() leaves     *)
(* nothing behind, a response timeout means that there was no response,    *)
(* a handler is called at most once for each delivery of its request, and  *)
(* the result of a call tells whether it was called at all.                *)
(*                                                                         *)
(* The inductive invariant has three parts: the types, what the two maps   *)
(* of the client say of each call, and what may be under way in the        *)
(* channel, the tasks and the readers: what each answer says of the        *)
(* handler.  A second one, on top of it, counts the requests in the        *)
(* channel and the tasks that have yet to call their handler or to skip it.*)
(***************************************************************************)
EXTENDS Rpc, FiniteSets, Functions, TLAPS

Stages == {"idle", "sending", "sent", "ack", "response", "done"}

ClientOK ==
    /\ stage \in [Calls -> Stages] /\ via \in [Calls -> {1, 2}]
    /\ result \in [Calls -> {None} \cup Answers \cup Local]
    /\ pending_acks \subseteq Calls /\ pending_responses \subseteq Calls
    /\ acked \subseteq Calls /\ answer \in [Calls -> {None} \cup Answers]
    /\ delivered \subseteq Calls
    /\ copies \in [Calls -> Nat]
    /\ invoked \in [Calls -> Nat] /\ skipped \in [Calls -> Nat]

\* What the maps and the receivers hold for a call, stage by stage.
MapsOf(c) ==
    /\ c \in pending_acks \cup pending_responses =>
            Waiting(c) \/ (stage[c] = "done" /\ result[c] = "Cancelled")
    /\ c \in acked => c \notin pending_acks
    /\ stage[c] = "response" => c \in acked
    /\ Waiting(c) => (c \in pending_responses <=> answer[c] = None)
    /\ Waiting(c) /\ c \in delivered => answer[c] # None
    /\ result[c] # None => stage[c] = "done"
    /\ result[c] = "ResponseTimeout" => c \notin delivered
    /\ stage[c] = "idle" => c \notin delivered /\ c \notin acked /\ answer[c] = None

Maps == \A c \in Calls : MapsOf(c)

\* What the answer says of the handler is true of this call.
Proper(c, a) ==
    /\ a \in RunAnswers => invoked[c] # 0
    /\ a \in SkipAnswers => skipped[c] # 0

GoodRequests == {m \in Requests : stage[m.call] # "idle" /\ m.via = via[m.call]}
GoodMessages ==
    {m \in Messages : /\ stage[m.call] # "idle"
                      /\ m.kind # "ack" => Proper(m.call, m.answer)}
GoodTasks ==
    {t \in [request : GoodRequests, copy : Nat, outcome : {None} \cup Answers,
            at : {"ack", "read", "invoke", "running", "respond"}] :
        /\ t.at = "respond" => t.outcome # None /\ Proper(t.request.call, t.outcome)
        /\ t.at = "running" => invoked[t.request.call] # 0}

\* What is under way belongs to calls that have started, and carries
\* answers that are true of them.
Flow ==
    /\ toServer \in Seq(GoodRequests) /\ toClient \in Seq(GoodMessages)
    /\ readers \subseteq {m \in GoodMessages : m.kind = "stream"}
    /\ tasks \subseteq GoodTasks
    /\ \A c \in Calls :
        /\ answer[c] # None => Proper(c, answer[c])
        /\ stage[c] = "done" /\ result[c] \notin Local \cup {None} => Proper(c, result[c])

RpcInv == ClientOK /\ Maps /\ Flow

-----------------------------------------------------------------------------
\* The channel's operations stay within the messages they started from.
LEMMA Queues ==
  ASSUME NEW S, NEW q \in Seq(S)
  PROVE  /\ \A e \in S : Append(q, e) \in Seq(S) /\ <<e>> \in Seq(S)
         /\ q # <<>> => Head(q) \in S /\ Tail(q) \in Seq(S)
         /\ \A i \in DOMAIN q : q[i] \in S
  OBVIOUS

LEMMA SeqMonotonic ==
  ASSUME NEW S, NEW T, S \subseteq T
  PROVE  Seq(S) \subseteq Seq(T)
  OBVIOUS

\* Losing a message.
LEMMA WithoutType ==
  ASSUME NEW S, NEW q \in Seq(S), NEW i \in DOMAIN q
  PROVE  Without(q, i) \in Seq(S)
<1>1. i \in 1..Len(q) /\ Len(q) \in Nat
  OBVIOUS
<1>2. SubSeq(q, 1, i - 1) \in Seq(S)
  BY <1>1
<1>3. SubSeq(q, i + 1, Len(q)) \in Seq(S)
  BY <1>1
<1>4. QED
  BY <1>2, <1>3 DEF Without

\* The answers by name.
LEMMA AnswerNames ==
  /\ {"Payload", "LargePayload", "UnsupportedMethod", "UnsupportedVersion",
      "ResponsePayloadTooLarge", "ApplicationError", "HandlerError", "SendFailed"} = Answers
  /\ None \notin Answers /\ "ResponseTimeout" \notin Answers /\ "Cancelled" \notin Answers
  BY Zenon DEF Answers, Errors, None

-----------------------------------------------------------------------------
(* Types.                                                                  *)

\* What the caller's own steps keep.
LEMMA CallerTypes ==
  ASSUME ClientOK, NEW c \in Calls, Caller(c)
  PROVE  ClientOK'
<1>1. CASE PerformRpc(c)
  BY <1>1 DEF ClientOK, PerformRpc, Register, Returns, Refusal, Local, Stages, history
<1>2. CASE SendRequest(c) \/ SendReturns(c) \/ AckSeen(c)
  BY Zenon, <1>2 DEF ClientOK, SendRequest, SendReturns, AckSeen, Stages, history
<1>3. CASE SendFails(c) \/ AckTimesOut(c)
  BY Zenon, <1>3 DEF ClientOK, SendFails, AckTimesOut, Forget, Returns, Local, Stages, history
<1>4. CASE ResponseTimesOut(c) \/ Cancel(c)
  BY Zenon, <1>4 DEF ClientOK, ResponseTimesOut, Cancel, Returns, Local, Stages, history
<1>5. CASE ResponseSeen(c)
  BY Zenon, <1>5 DEF ClientOK, ResponseSeen, Returns, Stages, history
<1>6. QED
  BY Zenon, <1>1, <1>2, <1>3, <1>4, <1>5 DEF Caller

\* An answer is one of Answers.
LEMMA ResolveTypes ==
  ASSUME ClientOK, NEW c \in Calls, NEW a \in Answers, Resolve(c, a)
  PROVE  /\ pending_responses' \subseteq Calls /\ delivered' \subseteq Calls
         /\ answer' \in [Calls -> {None} \cup Answers]
  BY Zenon DEF ClientOK, Resolve

\* What the room hands over is well typed.
LEMMA MessageTypes ==
  ASSUME NEW m \in GoodMessages
  PROVE  /\ m.call \in Calls /\ m.kind \in {"ack", "response", "stream"}
         /\ m.kind # "ack" => m.answer \in Answers
         /\ m.kind = "stream" => m.whole \in BOOLEAN
  BY Zenon DEF GoodMessages, Messages

LEMMA ClientTypes ==
  ASSUME RpcInv, ReceiveAck \/ ReceiveResponse \/ ReceiveStream \/ ReadResponse
  PROVE  ClientOK'
<1> USE DEF RpcInv
<1> DEFINE m == Head(toClient)
<1>1. toClient # <<>> => m \in GoodMessages
  BY Zenon, Queues DEF Flow
<1>2. CASE ReceiveAck
  BY Zenon, <1>1, <1>2, MessageTypes DEF ReceiveAck, Take, HandleIncomingRpcAck, ClientOK, history
<1>3. CASE ReceiveResponse
  <2>1. m.call \in Calls /\ m.answer \in Answers
    BY Zenon, <1>1, <1>3, MessageTypes DEF ReceiveResponse, Take
  <2>2. QED
    BY Zenon, <1>3, <2>1, ResolveTypes DEF ReceiveResponse, ClientOK
<1>4. CASE ReceiveStream
  BY Zenon, <1>4 DEF ReceiveStream, ClientOK, client, history
<1>5. CASE ReadResponse
  <2>1. PICK r \in readers : Resolve(r.call, r.answer) \/ Resolve(r.call, "ApplicationError")
    BY Zenon, <1>5 DEF ReadResponse
  <2>2. r \in GoodMessages /\ r.kind = "stream"
    BY Zenon DEF Flow
  <2>3. r.call \in Calls /\ r.answer \in Answers
    BY Zenon, <2>2, MessageTypes
  <2>4. QED
    BY Zenon, <1>5, <2>1, <2>3, ResolveTypes, AnswerNames DEF ReadResponse, ClientOK
<1>6. QED
  BY Zenon, <1>2, <1>3, <1>4, <1>5

LEMMA TaskTypes ==
  ASSUME RpcInv, NEW t \in tasks, Task(t)
  PROVE  ClientOK'
<1> USE DEF RpcInv
<1>1. t.request.call \in Calls
  BY Zenon DEF Flow, GoodTasks, GoodRequests, Requests
<1>2. invoked' \in [Calls -> Nat] /\ skipped' \in [Calls -> Nat]
  <2>1. \/ UNCHANGED invoked
        \/ invoked' = [invoked EXCEPT ![t.request.call] = @ + 1]
    BY Zenon DEF Task, PublishRpcAck, ReadRequest, InvokeHandler, HandlerReturns,
        RespondFallsBack, Respond, RespondFails, history
  <2>2. \/ UNCHANGED skipped
        \/ skipped' = [skipped EXCEPT ![t.request.call] = @ + 1]
    BY Zenon DEF Task, PublishRpcAck, ReadRequest, InvokeHandler, HandlerReturns, Skips,
        RespondFallsBack, Respond, RespondFails, history
  <2>3. invoked \in [Calls -> Nat] /\ skipped \in [Calls -> Nat]
    BY Zenon DEF ClientOK
  <2>4. QED
    BY <2>1, <2>2, <2>3
<1>3. UNCHANGED <<client, copies, delivered>>
  BY Zenon DEF Task, PublishRpcAck, ReadRequest, InvokeHandler, HandlerReturns, RespondFallsBack,
      Respond, RespondFails, history
<1>4. QED
  BY Zenon, <1>2, <1>3 DEF ClientOK, client

\* The actions that are neither the caller's, nor a task's, nor the arrival
\* of a message at the client.
Rest ==
    \/ RegisterMethod \/ UnregisterMethod \/ ReceiveRequest
    \/ Lose \/ Replay \/ RecipientLeaves

LEMMA RestTypes ==
  ASSUME RpcInv, Rest
  PROVE  ClientOK'
<1> USE DEF RpcInv
<1>1. CASE RegisterMethod \/ UnregisterMethod \/ Lose \/ RecipientLeaves
  BY Zenon, <1>1 DEF RegisterMethod, UnregisterMethod, Lose, RecipientLeaves, ClientOK, client,
      history
<1>2. CASE ReceiveRequest
  <2>1. Head(toServer).call \in Calls
    BY <1>2, Queues DEF ReceiveRequest, Flow, GoodRequests, Requests
  <2>2. QED
    BY <1>2, <2>1 DEF ReceiveRequest, ClientOK, client
<1>3. CASE Replay
  BY Zenon, <1>3 DEF Replay, ClientOK, client
<1>4. QED
  BY Zenon, <1>1, <1>2, <1>3 DEF Rest

-----------------------------------------------------------------------------
(* The maps.                                                               *)

\* perform_rpc() keeps the books for its own call, and touches no other.
LEMMA CallerMaps ==
  ASSUME ClientOK, Maps, NEW c \in Calls, Caller(c)
  PROVE  Maps'
<1> USE DEF ClientOK, Maps, MapsOf, Waiting, history
<1>1. CASE PerformRpc(c)
  BY <1>1 DEF PerformRpc, Register, Returns, Refusal, None, Stages
<1>2. CASE SendRequest(c) \/ SendReturns(c)
  <2>1. /\ \E at \in {"sent", "ack"} : stage' = [stage EXCEPT ![c] = at]
        /\ Waiting(c) /\ stage[c] # "response" /\ stage[c] # "done"
        /\ UNCHANGED <<result, pending_acks, pending_responses, acked, answer, delivered>>
    BY Zenon, <1>2 DEF SendRequest, SendReturns
  <2>2. QED
    BY ZenonT(40), <2>1
<1>3. CASE AckSeen(c)
  BY Zenon, <1>3 DEF AckSeen
<1>4. CASE SendFails(c)
  BY Zenon, <1>4 DEF SendFails, Forget, Returns
<1>5. CASE AckTimesOut(c)
  BY Zenon, <1>5 DEF AckTimesOut, Forget, Returns
<1>6. CASE ResponseTimesOut(c)
  BY Zenon, <1>6 DEF ResponseTimesOut, Returns
<1>7. CASE ResponseSeen(c)
  BY ZenonT(40), <1>7, AnswerNames DEF ResponseSeen, Returns
<1>8. CASE Cancel(c)
  BY Zenon, <1>8 DEF Cancel, Returns
<1>9. QED
  BY Zenon, <1>1, <1>2, <1>3, <1>4, <1>5, <1>6, <1>7, <1>8 DEF Caller

\* A response is kept if and only if the call still waits for it.
LEMMA ResolveMaps ==
  ASSUME ClientOK, Maps, NEW c \in Calls, NEW a \in Answers, Resolve(c, a),
         UNCHANGED <<stage, result, pending_acks, acked>>
  PROVE  Maps'
<1> SUFFICES ASSUME NEW d \in Calls PROVE MapsOf(d)'
  BY Zenon DEF Maps
<1>1. MapsOf(d) /\ (Waiting(d)' <=> Waiting(d))
  BY Zenon DEF Maps, Waiting
<1>2. CASE d # c
  BY Zenon, <1>1, <1>2 DEF ClientOK, MapsOf, Resolve
<1>3. CASE d = c /\ Waiting(c)
  <2>1. answer'[c] # None
    BY Zenon, <1>1, <1>3, AnswerNames DEF ClientOK, MapsOf, Resolve
  <2>2. c \notin pending_responses'
    BY Zenon DEF Resolve
  <2>3. result[c] # "ResponseTimeout"
    BY Zenon, <1>1, <1>3 DEF MapsOf, Waiting, None
  <2>4. QED
    BY Zenon, <1>1, <1>3, <2>1, <2>2, <2>3 DEF MapsOf, Waiting
<1>4. CASE d = c /\ ~Waiting(c)
  BY Zenon, <1>1, <1>4 DEF ClientOK, MapsOf, Resolve
<1>5. QED
  BY Zenon, <1>2, <1>3, <1>4

LEMMA ClientMaps ==
  ASSUME RpcInv, ReceiveAck \/ ReceiveResponse \/ ReceiveStream \/ ReadResponse
  PROVE  Maps'
<1> USE DEF RpcInv
<1> DEFINE m == Head(toClient)
<1>1. toClient # <<>> => m \in GoodMessages
  BY Zenon, Queues DEF Flow
<1>2. CASE ReceiveAck
  BY Zenon, <1>1, <1>2, MessageTypes
  DEF ReceiveAck, Take, HandleIncomingRpcAck, ClientOK, Maps, MapsOf, Waiting, history
<1>3. CASE ReceiveResponse
  <2>1. m.call \in Calls /\ m.answer \in Answers
    BY Zenon, <1>1, <1>3, MessageTypes DEF ReceiveResponse, Take
  <2>2. QED
    BY Zenon, <1>3, <2>1, ResolveMaps DEF ReceiveResponse
<1>4. CASE ReceiveStream
  BY Zenon, <1>4 DEF ReceiveStream, Maps, MapsOf, Waiting, client, history
<1>5. CASE ReadResponse
  <2>1. PICK r \in readers : Resolve(r.call, r.answer) \/ Resolve(r.call, "ApplicationError")
    BY Zenon, <1>5 DEF ReadResponse
  <2>2. r \in GoodMessages /\ r.kind = "stream"
    BY Zenon DEF Flow
  <2>3. r.call \in Calls /\ r.answer \in Answers
    BY Zenon, <2>2, MessageTypes
  <2>4. QED
    BY Zenon, <1>5, <2>1, <2>3, ResolveMaps, AnswerNames DEF ReadResponse
<1>6. QED
  BY Zenon, <1>2, <1>3, <1>4, <1>5

\* The recipient and the channel do not touch the maps.
LEMMA OtherMaps ==
  ASSUME Maps, UNCHANGED <<client, delivered>>
  PROVE  Maps'
  BY Zenon DEF Maps, MapsOf, Waiting, client

-----------------------------------------------------------------------------
(* What is under way.                                                      *)

\* A call that has started keeps its transport, and counts only grow.
Persist ==
    \A c \in Calls :
        /\ invoked[c] # 0 => invoked'[c] # 0
        /\ skipped[c] # 0 => skipped'[c] # 0
        /\ stage[c] # "idle" => stage'[c] # "idle" /\ via'[c] = via[c]

\* Proper, in the next state, of an answer of this state.
ProperNext(c, a) ==
    /\ a \in RunAnswers => invoked'[c] # 0
    /\ a \in SkipAnswers => skipped'[c] # 0

LEMMA ProperKept ==
  ASSUME Persist, NEW c \in Calls, stage[c] # "idle", NEW a, Proper(c, a)
  PROVE  ProperNext(c, a)
  BY Zenon DEF Persist, Proper, ProperNext

\* So what was good stays good.
LEMMA GoodKept ==
  ASSUME Persist
  PROVE  /\ GoodRequests \subseteq GoodRequests' /\ GoodMessages \subseteq GoodMessages'
         /\ GoodTasks \subseteq GoodTasks'
         /\ Seq(GoodRequests) \subseteq Seq(GoodRequests')
         /\ Seq(GoodMessages) \subseteq Seq(GoodMessages')
<1>1. GoodRequests \subseteq GoodRequests'
  BY Zenon DEF Persist, GoodRequests, Requests
<1>2. GoodMessages \subseteq GoodMessages'
  <2> SUFFICES ASSUME NEW m \in GoodMessages PROVE m \in GoodMessages'
    BY Zenon
  <2>1. m.call \in Calls
    BY Zenon, MessageTypes
  <2>2. m.kind # "ack" => Proper(m.call, m.answer)'
    BY Zenon, <2>1, ProperKept DEF GoodMessages, Proper, ProperNext
  <2>3. QED
    BY Zenon, <2>1, <2>2 DEF Persist, GoodMessages
<1>3. GoodTasks \subseteq GoodTasks'
  <2> SUFFICES ASSUME NEW t \in GoodTasks PROVE t \in GoodTasks'
    BY Zenon
  <2>1. /\ t.request \in GoodRequests /\ t.request.call \in Calls
        /\ stage[t.request.call] # "idle"
    BY Zenon DEF GoodTasks, GoodRequests, Requests
  <2>2. t.at = "respond" => Proper(t.request.call, t.outcome)'
    BY Zenon, <2>1, ProperKept DEF GoodTasks, Proper, ProperNext
  <2>3. t.at = "running" => invoked'[t.request.call] # 0
    BY Zenon, <2>1 DEF GoodTasks, Persist
  <2>4. QED
    BY Zenon, <1>1, <2>2, <2>3 DEF GoodTasks
<1>4. QED
  BY Zenon, <1>1, <1>2, <1>3, SeqMonotonic

\* The answers and results of the calls stay theirs.
Answered ==
    \A c \in Calls :
        /\ answer[c] # None => Proper(c, answer[c])
        /\ stage[c] = "done" /\ result[c] \notin Local \cup {None} => Proper(c, result[c])

LEMMA AnsweredNext ==
  ASSUME \A c \in Calls :
            /\ answer'[c] # None => ProperNext(c, answer'[c])
            /\ stage'[c] = "done" /\ result'[c] \notin Local \cup {None}
                    => ProperNext(c, result'[c])
  PROVE  Answered'
  BY Zenon DEF Answered, Proper, ProperNext

LEMMA AnsweredKept ==
  ASSUME RpcInv, Persist, UNCHANGED <<stage, answer, result>>
  PROVE  Answered'
<1> SUFFICES ASSUME NEW c \in Calls
             PROVE  /\ answer[c] # None => ProperNext(c, answer[c])
                    /\ stage[c] = "done" /\ result[c] \notin Local \cup {None}
                            => ProperNext(c, result[c])
  BY Zenon, AnsweredNext
<1>1. answer[c] # None => stage[c] # "idle"
  BY Zenon DEF RpcInv, Maps, MapsOf
<1>2. QED
  BY Zenon, <1>1, ProperKept DEF RpcInv, Flow

LEMMA CallerPersists ==
  ASSUME ClientOK, NEW c \in Calls, Caller(c)
  PROVE  Persist /\ UNCHANGED <<invoked, skipped>>
<1> USE DEF ClientOK, Persist, history
<1>1. CASE PerformRpc(c)
  BY Zenon, <1>1 DEF PerformRpc, Returns
<1>2. CASE SendRequest(c) \/ SendReturns(c) \/ AckSeen(c)
  BY Zenon, <1>2 DEF SendRequest, SendReturns, AckSeen
<1>3. CASE SendFails(c) \/ AckTimesOut(c) \/ ResponseTimesOut(c)
  BY Zenon, <1>3 DEF SendFails, AckTimesOut, ResponseTimesOut, Returns
<1>4. CASE ResponseSeen(c) \/ Cancel(c)
  BY Zenon, <1>4 DEF ResponseSeen, Cancel, Returns
<1>5. QED
  BY Zenon, <1>1, <1>2, <1>3, <1>4 DEF Caller

\* Only sending puts a message on its way, and it is this call's.
LEMMA CallerSends ==
  ASSUME RpcInv, NEW c \in Calls, Caller(c)
  PROVE  /\ toServer' \in Seq(GoodRequests') /\ toClient' \in Seq(GoodMessages')
         /\ readers' \subseteq {m \in GoodMessages' : m.kind = "stream"}
         /\ tasks' \subseteq GoodTasks'
<1> USE DEF RpcInv, Flow, servers
<1>1. Persist
  BY Zenon, CallerPersists
<1>2. UNCHANGED <<toClient, readers, tasks>>
  BY Zenon DEF Caller, PerformRpc, SendRequest, SendFails, SendReturns, AckTimesOut, AckSeen,
         ResponseTimesOut, ResponseSeen, Cancel
<1>3. toServer' \in Seq(GoodRequests')
  <2>1. CASE stage[c] = "sending" /\ stage'[c] # "idle" /\ via' = via
             /\ \E version \in 1..3, whole \in BOOLEAN :
                    toServer' = Append(toServer, Request(c, version, whole))
    <3>1. PICK version \in 1..3, whole \in BOOLEAN :
                toServer' = Append(toServer, Request(c, version, whole))
      BY Zenon, <2>1
    <3>2. Request(c, version, whole) \in GoodRequests'
      BY Zenon, <2>1 DEF Request, GoodRequests, Requests, ClientOK
    <3>3. QED
      BY Zenon, <1>1, <3>1, <3>2, GoodKept, Queues
  <2>2. CASE UNCHANGED toServer
    BY Zenon, <1>1, <2>2, GoodKept
  <2>3. CASE SendRequest(c)
    <3>1. stage[c] = "sending" /\ stage'[c] # "idle" /\ via' = via /\ via[c] \in 1..3
      BY <2>3 DEF SendRequest, ClientOK
    <3>2. \/ UNCHANGED toServer
          \/ toServer' = Append(toServer, Request(c, via[c], TRUE))
          \/ toServer' = Append(toServer, Request(c, 3, TRUE))
      BY Zenon, <2>3 DEF SendRequest
    <3>3. 3 \in 1..3 /\ TRUE \in BOOLEAN
      OBVIOUS
    <3>4. QED
      BY Zenon, <2>1, <2>2, <3>1, <3>2, <3>3
  <2>4. CASE SendFails(c) \/ (Cancel(c) /\ stage[c] = "sending")
    <3>1. stage[c] = "sending" /\ stage'[c] # "idle" /\ via' = via
      BY Zenon, <2>4 DEF SendFails, Cancel, Returns, ClientOK
    <3>2. \/ UNCHANGED toServer
          \/ \E whole \in BOOLEAN : toServer' = Append(toServer, Request(c, 2, whole))
      BY Zenon, <2>4 DEF SendFails, Cancel, GivenUp
    <3>3. QED
      BY <2>1, <2>2, <3>1, <3>2
  <2>5. QED
    BY Zenon, <2>2, <2>3, <2>4 DEF Caller, PerformRpc, SendReturns, AckTimesOut, AckSeen,
         ResponseTimesOut, ResponseSeen, Cancel
<1>4. QED
  BY Zenon, <1>1, <1>2, <1>3, GoodKept

LEMMA CallerFlow ==
  ASSUME RpcInv, NEW c \in Calls, Caller(c)
  PROVE  Flow'
<1> USE DEF RpcInv
<1>1. Persist /\ ClientOK'
  BY Zenon, CallerPersists, CallerTypes
<1>2. Answered'
  <2> SUFFICES ASSUME NEW d \in Calls
               PROVE  /\ answer'[d] # None => ProperNext(d, answer'[d])
                      /\ stage'[d] = "done" /\ result'[d] \notin Local \cup {None}
                            => ProperNext(d, result'[d])
    BY Zenon, AnsweredNext
  <2>1. answer' = answer
    BY Zenon DEF Caller, PerformRpc, SendRequest, SendFails, SendReturns, AckTimesOut, AckSeen,
           ResponseTimesOut, ResponseSeen, Cancel
  <2>2. answer[d] # None => stage[d] # "idle" /\ Proper(d, answer[d])
    BY Zenon DEF Maps, MapsOf, Flow
  <2>3. answer[d] # None => ProperNext(d, answer[d])
    BY Zenon, <1>1, <2>2, ProperKept
  <2>4. \/ stage'[d] # "done" \/ result'[d] \in Local \cup {None}
        \/ result'[d] = answer[d] /\ answer[d] # None
        \/ stage[d] = "done" /\ result'[d] = result[d]
    <3>1. CASE d # c
      BY Zenon, <3>1 DEF ClientOK, Returns, Caller, PerformRpc, SendRequest, SendFails, SendReturns,
                  AckTimesOut, AckSeen, ResponseTimesOut, ResponseSeen, Cancel
    <3>2. CASE d = c /\ PerformRpc(c)
      BY ZenonT(40), <3>2 DEF ClientOK, Returns, Refusal, Local, PerformRpc
    <3>3. CASE d = c /\ (SendRequest(c) \/ SendReturns(c) \/ AckSeen(c))
      BY Zenon, <3>3 DEF ClientOK, SendRequest, SendReturns, AckSeen
    <3>4. CASE d = c /\ (SendFails(c) \/ AckTimesOut(c) \/ ResponseTimesOut(c) \/ Cancel(c))
      BY Zenon, <3>4 DEF ClientOK, Returns, Local, SendFails, AckTimesOut, ResponseTimesOut, Cancel
    <3>5. CASE d = c /\ ResponseSeen(c)
      BY Zenon, <3>5 DEF ClientOK, Returns, ResponseSeen
    <3>6. QED
      BY Zenon, <3>1, <3>2, <3>3, <3>4, <3>5 DEF Caller
  <2>5. stage[d] = "done" /\ result[d] \notin Local \cup {None} => ProperNext(d, result[d])
    BY Zenon, <1>1, ProperKept DEF Flow
  <2>6. QED
    BY Zenon, <2>1, <2>3, <2>4, <2>5
<1>3. QED
  BY Zenon, <1>2, CallerSends DEF Flow, Answered

\* A message that arrives resolves its own call, with an answer of its own.
LEMMA ResolveAnswers ==
  ASSUME RpcInv, NEW c \in Calls, NEW a, Proper(c, a), Resolve(c, a),
         UNCHANGED <<stage, result, via, invoked, skipped>>
  PROVE  Answered'
  BY Zenon DEF RpcInv, ClientOK, Flow, Answered, Resolve, Proper

LEMMA ClientFlow ==
  ASSUME RpcInv, ReceiveAck \/ ReceiveResponse \/ ReceiveStream \/ ReadResponse
  PROVE  Flow'
<1> USE DEF RpcInv
<1> DEFINE m == Head(toClient)
<1>1. toClient # <<>> => m \in GoodMessages /\ Tail(toClient) \in Seq(GoodMessages)
  BY Zenon, Queues DEF Flow
<1>2. UNCHANGED <<stage, via, invoked, skipped, result>>
  BY Zenon DEF ReceiveAck, ReceiveResponse, ReceiveStream, ReadResponse, client, history
<1>3. /\ GoodRequests' = GoodRequests /\ GoodMessages' = GoodMessages
      /\ GoodTasks' = GoodTasks
  BY Zenon, <1>2 DEF GoodRequests, GoodMessages, GoodTasks, Proper
<1>4. Persist
  BY Zenon, <1>2 DEF Persist
<1>5. CASE ReceiveAck \/ ReceiveStream
  <2>1. Answered'
    BY Zenon, <1>2, <1>4, <1>5, AnsweredKept DEF ReceiveAck, ReceiveStream, client
  <2>2. readers' \subseteq {r \in GoodMessages : r.kind = "stream"}
    BY Zenon, <1>1, <1>5 DEF Flow, ReceiveAck, ReceiveStream, Take
  <2>3. QED
    BY Zenon, <1>1, <1>3, <1>5, <2>1, <2>2
    DEF Flow, Answered, ReceiveAck, ReceiveStream, Take, servers
<1>6. CASE ReceiveResponse
  <2>1. m.call \in Calls /\ Proper(m.call, m.answer)
    BY Zenon, <1>1, <1>6, MessageTypes DEF ReceiveResponse, Take, GoodMessages
  <2>2. Answered'
    BY Zenon, <1>2, <1>6, <2>1, ResolveAnswers DEF ReceiveResponse
  <2>3. QED
    BY Zenon, <1>1, <1>3, <1>6, <2>2 DEF Flow, Answered, ReceiveResponse, Take, servers
<1>7. CASE ReadResponse
  <2>1. PICK r \in readers : /\ readers' = readers \ {r}
                             /\ Resolve(r.call, r.answer) \/ Resolve(r.call, "ApplicationError")
    BY Zenon, <1>7 DEF ReadResponse
  <2>2. r \in GoodMessages /\ r.kind = "stream"
    BY Zenon DEF Flow
  <2>3. r.call \in Calls /\ Proper(r.call, r.answer) /\ Proper(r.call, "ApplicationError")
    BY Zenon, <2>2, MessageTypes DEF GoodMessages, Proper, RunAnswers, SkipAnswers
  <2>4. Answered'
    BY Zenon, <1>2, <2>1, <2>3, ResolveAnswers
  <2>5. QED
    BY Zenon, <1>3, <1>7, <2>1, <2>4 DEF Flow, Answered, ReadResponse, servers
<1>8. QED
  BY Zenon, <1>5, <1>6, <1>7

\* A task keeps to its request, and what it answers is true of the handler.
LEMMA TaskFlow ==
  ASSUME RpcInv, NEW t \in tasks, Task(t)
  PROVE  Flow'
<1> USE DEF RpcInv
<1> DEFINE c == t.request.call
<1>1. /\ t \in GoodTasks /\ c \in Calls /\ stage[c] # "idle" /\ t.request.via = via[c]
      /\ t.request \in GoodRequests /\ (t.at = "respond" => t.outcome \in Answers)
  BY Zenon DEF Flow, GoodTasks, GoodRequests, Requests
<1>2. UNCHANGED <<stage, via, answer, result, readers, toServer>>
  BY Zenon DEF Task, PublishRpcAck, ReadRequest, InvokeHandler, HandlerReturns, RespondFallsBack,
         Respond, RespondFails, client
<1>3. Persist
  <2>1. \/ UNCHANGED invoked \/ invoked' = [invoked EXCEPT ![c] = @ + 1]
    BY Zenon DEF Task, PublishRpcAck, ReadRequest, InvokeHandler, HandlerReturns,
        RespondFallsBack, Respond, RespondFails, history
  <2>2. \/ UNCHANGED skipped \/ skipped' = [skipped EXCEPT ![c] = @ + 1]
    BY Zenon DEF Task, PublishRpcAck, ReadRequest, InvokeHandler, HandlerReturns, Skips,
        RespondFallsBack, Respond, RespondFails, history
  <2>3. \A d \in Calls : invoked[d] # 0 => invoked'[d] # 0
    BY <1>1, <2>1 DEF ClientOK
  <2>4. \A d \in Calls : skipped[d] # 0 => skipped'[d] # 0
    BY <1>1, <2>2 DEF ClientOK
  <2>5. QED
    BY Zenon, <1>2, <2>3, <2>4 DEF Persist
<1>4. Answered'
  BY Zenon, <1>2, <1>3, AnsweredKept
<1>5. tasks' \subseteq GoodTasks'
  <2>0. t \in GoodTasks' /\ tasks \subseteq GoodTasks'
    BY Zenon, <1>1, <1>3, GoodKept DEF Flow
  <2>1. \A at \in {"read", "invoke"} : [t EXCEPT !.at = at] \in GoodTasks'
    BY Zenon, <2>0 DEF GoodTasks
  <2>2. \A a \in Answers : ProperNext(c, a) =>
            [t EXCEPT !.at = "respond", !.outcome = a] \in GoodTasks'
    <3>1. None \notin Answers
      BY Zenon, AnswerNames
    <3>2. \A a : ProperNext(c, a) <=> Proper(c, a)'
      BY Zenon DEF Proper, ProperNext
    <3>3. QED
      BY ZenonT(40), <2>0, <3>1, <3>2 DEF GoodTasks
  <2>3. CASE \E at \in {"read", "invoke"} : Moves(t, at)
    BY Zenon, <2>0, <2>1, <2>3 DEF Moves
  <2>4. CASE \E a \in Answers : Concludes(t, a) /\ ProperNext(c, a)
    BY Zenon, <2>0, <2>2, <2>4 DEF Concludes
  <2>5. CASE Ends(t)
    BY Zenon, <2>0, <2>5 DEF Ends
  <2>6. ASSUME NEW a \in SkipAnswers, Skips(t, a) PROVE ProperNext(c, a) /\ Concludes(t, a)
    <3>1. skipped'[c] # 0
      BY <1>1, <2>6 DEF Skips, ClientOK
    <3>2. a \notin RunAnswers
      BY Zenon, <2>6 DEF SkipAnswers, RunAnswers
    <3>3. QED
      BY Zenon, <2>6, <3>1, <3>2 DEF ProperNext, Skips
  <2>7. ProperNext(c, "ApplicationError") /\ SkipAnswers \subseteq Answers
    BY Zenon, AnswerNames DEF ProperNext, RunAnswers, SkipAnswers
  <2>8. CASE PublishRpcAck(t) \/ ReadRequest(t)
    <3>1. PICK next \in {"read", "invoke"} : next = IF t.request.via = 2 THEN "read" ELSE "invoke"
      BY Zenon
    <3>2. \/ \E at \in {"read", "invoke"} : Moves(t, at)
          \/ Skips(t, "UnsupportedVersion") \/ Concludes(t, "ApplicationError")
      BY Zenon, <2>8, <3>1 DEF PublishRpcAck, ReadRequest
    <3>3. "UnsupportedVersion" \in SkipAnswers /\ "ApplicationError" \in Answers
      BY Zenon, AnswerNames DEF SkipAnswers
    <3>4. QED
      BY Zenon, <2>3, <2>4, <2>6, <2>7, <3>2, <3>3
  <2>9. CASE InvokeHandler(t)
    <3>1. CASE handlers
      <4>1. Moves(t, "running") /\ invoked' = [invoked EXCEPT ![c] = @ + 1]
        BY Zenon, <2>9, <3>1 DEF InvokeHandler
      <4>2. invoked'[c] # 0
        BY <1>1, <4>1 DEF ClientOK
      <4>3. [t EXCEPT !.at = "running"] \in GoodTasks'
        BY Zenon, <2>0, <4>2 DEF GoodTasks
      <4>4. QED
        BY Zenon, <2>0, <4>1, <4>3 DEF Moves
    <3>2. CASE ~handlers
      <4>1. Skips(t, "UnsupportedMethod") /\ "UnsupportedMethod" \in SkipAnswers
        BY Zenon, <2>9, <3>2 DEF InvokeHandler, SkipAnswers
      <4>2. QED
        BY Zenon, <2>4, <2>6, <2>7, <4>1
    <3>3. QED
      BY Zenon, <3>1, <3>2
  <2>10. CASE HandlerReturns(t)
    <3>1. invoked'[c] # 0
      BY Zenon, <1>1, <1>3, <2>10 DEF HandlerReturns, GoodTasks, Persist
    <3>2. \A a \in {"Payload", "LargePayload", "HandlerError", "ApplicationError"} :
             a \in Answers /\ a \notin SkipAnswers
      BY Zenon, AnswerNames DEF SkipAnswers
    <3>3. QED
      BY Zenon, <2>4, <2>10, <3>1, <3>2 DEF HandlerReturns, ProperNext
  <2>11. QED
    BY Zenon, <2>5, <2>8, <2>9, <2>10 DEF Task, RespondFallsBack, Respond, RespondFails
<1>6. toClient' \in Seq(GoodMessages')
  <2>1. toClient \in Seq(GoodMessages')
    BY Zenon, <1>3, GoodKept DEF Flow
  <2>2. CASE UNCHANGED toClient
    BY Zenon, <2>1, <2>2
  <2>3. CASE PublishRpcAck(t)
    <3>1. Ack(c) \in GoodMessages'
      BY Zenon, <1>1, <1>2 DEF Ack, GoodMessages, Messages
    <3>2. QED
      BY Zenon, <2>1, <2>2, <2>3, <3>1, Queues DEF PublishRpcAck, Publish
  <2>4. CASE Respond(t)
    <3>1. t.outcome \in Answers /\ ProperNext(c, t.outcome)
      BY Zenon, <1>1, <1>3, <2>4, ProperKept DEF Respond, GoodTasks
    <3>2. AnswerOf(t) \in Answers /\ ProperNext(c, AnswerOf(t))
      BY ZenonT(40), <3>1, AnswerNames DEF AnswerOf, ProperNext, RunAnswers, SkipAnswers
    <3>3. Response(c, AnswerOf(t)) \in GoodMessages'
      BY Zenon, <1>1, <1>2, <3>2 DEF Response, GoodMessages, Messages, Proper, ProperNext
    <3>4. ResponseStream(c, t.outcome, TRUE) \in GoodMessages'
      BY Zenon, <1>1, <1>2, <3>1 DEF ResponseStream, GoodMessages, Messages, Proper, ProperNext
    <3>5. QED
      BY Zenon, <1>1, <2>1, <2>4, <3>3, <3>4, Queues DEF Respond, Publish
  <2>5. CASE RespondFallsBack(t)
    <3>1. t.outcome \in Answers /\ ProperNext(c, t.outcome)
      BY Zenon, <1>1, <1>3, <2>5, ProperKept DEF RespondFallsBack, GoodTasks
    <3>2. ProperNext(c, "SendFailed")
      BY Zenon DEF ProperNext, RunAnswers, SkipAnswers
    <3>3. Response(c, "SendFailed") \in GoodMessages'
      BY Zenon, <1>1, <1>2, <3>2, AnswerNames
      DEF Response, GoodMessages, Messages, Proper, ProperNext
    <3>4. \A whole \in BOOLEAN : ResponseStream(c, t.outcome, whole) \in GoodMessages'
      BY Zenon, <1>1, <1>2, <3>1 DEF ResponseStream, GoodMessages, Messages, Proper, ProperNext
    <3>5. PICK part \in {<<>>} \cup {<<ResponseStream(c, t.outcome, whole)>> : whole \in BOOLEAN} :
               toClient' = toClient \o Append(part, Response(c, "SendFailed"))
      BY Zenon, <2>5 DEF RespondFallsBack
    <3>6. part \in Seq(GoodMessages')
      <4>1. CASE part = <<>>
        BY <4>1
      <4>2. CASE \E whole \in BOOLEAN : part = <<ResponseStream(c, t.outcome, whole)>>
        <5>1. PICK m \in GoodMessages' : part = <<m>>
          BY Zenon, <3>4, <4>2
        <5>2. QED
          BY Zenon, <5>1, <2>1, Queues
      <4>3. QED
        BY Zenon, <4>1, <4>2
    <3>7. Append(part, Response(c, "SendFailed")) \in Seq(GoodMessages')
      BY Zenon, <3>3, <3>6, Queues
    <3>8. QED
      BY <2>1, <3>5, <3>7
  <2>6. QED
    BY Zenon, <2>2, <2>3, <2>4, <2>5 DEF Task, ReadRequest, InvokeHandler, HandlerReturns,
        RespondFails
<1>7. QED
  BY Zenon, <1>2, <1>3, <1>4, <1>5, <1>6, GoodKept DEF Flow, Answered

LEMMA RestFlow ==
  ASSUME RpcInv, Rest
  PROVE  Flow'
<1> USE DEF RpcInv
<1>1. UNCHANGED <<stage, via, answer, result, readers, invoked, skipped>>
  BY Zenon DEF Rest, RegisterMethod, UnregisterMethod, ReceiveRequest, Lose, Replay,
         RecipientLeaves, client, history
<1>2. Persist
  BY Zenon, <1>1 DEF Persist
<1>3. Answered'
  BY Zenon, <1>1, <1>2, AnsweredKept
<1>4. /\ GoodRequests' = GoodRequests /\ GoodMessages' = GoodMessages
      /\ GoodTasks' = GoodTasks
  BY Zenon, <1>1 DEF GoodRequests, GoodMessages, GoodTasks, Proper
<1>5. /\ toServer' \in Seq(GoodRequests) /\ toClient' \in Seq(GoodMessages)
      /\ tasks' \subseteq GoodTasks
  <2>1. CASE RegisterMethod \/ UnregisterMethod
    BY Zenon, <2>1 DEF RegisterMethod, UnregisterMethod, Flow
  <2>2. CASE ReceiveRequest
    <3>1. Head(toServer) \in GoodRequests /\ Tail(toServer) \in Seq(GoodRequests)
      BY Zenon, <2>2, Queues DEF ReceiveRequest, Flow
    <3>2. copies'[Head(toServer).call] \in Nat
      BY Zenon, <3>1, RestTypes DEF ClientOK, GoodRequests, Requests
    <3>3. [request |-> Head(toServer), copy |-> copies'[Head(toServer).call], at |-> "ack",
           outcome |-> None] \in GoodTasks
      BY Zenon, <3>1, <3>2, AnswerNames DEF GoodTasks
    <3>4. QED
      BY Zenon, <2>2, <3>1, <3>3 DEF ReceiveRequest, Flow
  <2>3. CASE Lose
    <3>1. \A i \in DOMAIN toServer : Without(toServer, i) \in Seq(GoodRequests)
      BY Zenon, WithoutType DEF Flow
    <3>2. \A i \in DOMAIN toClient : Without(toClient, i) \in Seq(GoodMessages)
      BY Zenon, WithoutType DEF Flow
    <3>3. QED
      BY Zenon, <2>3, <3>1, <3>2 DEF Lose, Flow, servers
  <2>4. CASE Replay
    <3>1. \A i \in DOMAIN toServer : Append(toServer, toServer[i]) \in Seq(GoodRequests)
      BY Zenon, Queues DEF Flow
    <3>2. \A i \in DOMAIN toClient : Append(toClient, toClient[i]) \in Seq(GoodMessages)
      BY Zenon, Queues DEF Flow
    <3>3. QED
      BY Zenon, <2>4, <3>1, <3>2 DEF Replay, Flow, servers
  <2>5. CASE RecipientLeaves
    BY <2>5 DEF RecipientLeaves, Flow
  <2>6. QED
    BY Zenon, <2>1, <2>2, <2>3, <2>4, <2>5 DEF Rest
<1>6. QED
  BY Zenon, <1>1, <1>3, <1>4, <1>5 DEF Flow, Answered

-----------------------------------------------------------------------------
(* The theorems.                                                           *)

LEMMA RpcInit == Init => RpcInv
<1> SUFFICES ASSUME Init PROVE RpcInv
  BY Zenon
<1>1. ClientOK
  BY Zenon DEF Init, ClientOK, Stages
<1>2. Maps
  BY Zenon DEF Init, Maps, MapsOf, Waiting, None
<1>3. Flow
  BY DEF Init, Flow
<1>4. QED
  BY Zenon, <1>1, <1>2, <1>3 DEF RpcInv

LEMMA RpcStep == RpcInv /\ [Next]_vars => RpcInv'
<1> SUFFICES ASSUME RpcInv, [Next]_vars PROVE RpcInv'
  BY Zenon
<1>1. CASE \E c \in Calls : Caller(c)
  BY Zenon, <1>1, CallerTypes, CallerMaps, CallerFlow DEF RpcInv
<1>2. CASE ReceiveAck \/ ReceiveResponse \/ ReceiveStream \/ ReadResponse
  BY Zenon, <1>2, ClientTypes, ClientMaps, ClientFlow DEF RpcInv
<1>3. CASE \E t \in tasks : Task(t)
  <2> PICK t \in tasks : Task(t)
    BY Zenon, <1>3
  <2>1. UNCHANGED <<client, delivered>>
    BY Zenon DEF Task, PublishRpcAck, ReadRequest, InvokeHandler, HandlerReturns,
         RespondFallsBack, Respond, RespondFails, history
  <2>2. QED
    BY Zenon, <1>3, <2>1, TaskTypes, OtherMaps, TaskFlow DEF RpcInv
<1>4. CASE Rest
  <2>1. UNCHANGED <<client, delivered>>
    BY Zenon, <1>4 DEF Rest, RegisterMethod, UnregisterMethod, ReceiveRequest, Lose, Replay,
         RecipientLeaves, history
  <2>2. QED
    BY Zenon, <1>4, <2>1, RestTypes, OtherMaps, RestFlow DEF RpcInv
<1>5. CASE UNCHANGED vars
  <2> USE <1>5 DEF vars, client, servers, history
  <2>1. ClientOK'
    BY Zenon DEF RpcInv, ClientOK
  <2>2. Maps'
    BY Zenon, OtherMaps DEF RpcInv
  <2>3. Flow'
    BY Zenon DEF RpcInv, Flow, GoodRequests, GoodMessages, GoodTasks, Proper
  <2>4. QED
    BY Zenon, <2>1, <2>2, <2>3 DEF RpcInv
<1>6. QED
  BY Zenon, <1>1, <1>2, <1>3, <1>4, <1>5 DEF Next, Rest

\* RpcInv holds in every reachable state.
THEOREM RpcInvariant == Spec => []RpcInv
  BY RpcInit, RpcStep, PTL DEF Spec

\* perform_rpc() leaves no entry in pending_acks and pending_responses when it
\* returns, whatever the path; only a dropped future does.
THEOREM NothingLeft == Spec => []Released
<1>1. RpcInv => Released
  BY Zenon DEF RpcInv, Maps, MapsOf, Released, Waiting
<1>2. QED
  BY <1>1, RpcInvariant, PTL

\* A response that comes while perform_rpc() waits, however early, is the one
\* it returns or it does not end with ResponseTimeout.
THEOREM NoAnswerMissed == Spec => []TimeoutMeansNoAnswer
<1>1. RpcInv => TimeoutMeansNoAnswer
  BY Zenon DEF RpcInv, Maps, MapsOf, TimeoutMeansNoAnswer
<1>2. QED
  BY <1>1, RpcInvariant, PTL

-----------------------------------------------------------------------------
(* How often a handler is called.                                          *)

\* The requests of call c in the channel q, and the tasks in T that have not
\* called the handler yet.
Of(q, c) == {i \in 1..Len(q) : q[i].call = c}
Early(T, c) == {t \in T : t.request.call = c /\ t.at \in {"ack", "read", "invoke"}}

Unsent(c) == IF stage[c] \in {"idle", "sending"} THEN 1 ELSE 0

\* A request is taken from the channel once for being sent and once for each
\* replay, and a task calls its handler once or skips it once.
CountsOf(c) ==
    /\ copies[c] + Cardinality(Of(toServer, c)) + Unsent(c) <= 1 + replayed[c]
    /\ invoked[c] + skipped[c] + Cardinality(Early(tasks, c)) <= copies[c]
    /\ replayed[c] <= faults

RestOK ==
    /\ server \in ServerInfos /\ present \in BOOLEAN /\ handlers \in BOOLEAN
    /\ faults \in 0..MaxFaults /\ replayed \in [Calls -> Nat]
    /\ invoked \in [Calls -> Nat] /\ skipped \in [Calls -> Nat]
    /\ IsFiniteSet(tasks) /\ (toServer # <<>> => present)
    /\ \A t \in tasks : /\ present /\ t.copy \in 1..copies[t.request.call]
                        /\ (t.at = "respond") = (t.outcome # None)

Counts == RestOK /\ \A c \in Calls : CountsOf(c)

\* What the proofs use about the size of finite sets. CountingHolds has it from
\* FiniteSetTheorems, taken in behind the lemmas, which then need not carry it.
Counting ==
    /\ IsFiniteSet({}) /\ Cardinality({}) = 0
    /\ \A a, b \in Int : /\ IsFiniteSet(a..b)
                         /\ Cardinality(a..b) = IF a > b THEN 0 ELSE b - a + 1
    /\ \A S : IsFiniteSet(S) => Cardinality(S) \in Nat
    /\ \A S : \A T \in SUBSET S :
          IsFiniteSet(S) => /\ IsFiniteSet(T) /\ Cardinality(T) <= Cardinality(S)
                            /\ Cardinality(S) = Cardinality(T) => S = T
    /\ \A S, x : IsFiniteSet(S) =>
          /\ IsFiniteSet(S \cup {x})
          /\ Cardinality(S \cup {x}) = IF x \in S THEN Cardinality(S) ELSE Cardinality(S) + 1
    /\ \A S, x : IsFiniteSet(S) =>
          /\ IsFiniteSet(S \ {x})
          /\ Cardinality(S \ {x}) = IF x \in S THEN Cardinality(S) - 1 ELSE Cardinality(S)
    /\ \A S, T : \A f \in Injection(S, T) : IsFiniteSet(T) =>
          /\ IsFiniteSet(S) /\ Cardinality(S) <= Cardinality(T)
          /\ Cardinality(S) = Cardinality(T) <=> f \in Surjection(S, T)

LEMMA CountEmpty == ASSUME Counting PROVE IsFiniteSet({}) /\ Cardinality({}) = 0
  BY Zenon DEF Counting

LEMMA CountInterval ==
  ASSUME Counting, NEW a \in Int, NEW b \in Int
  PROVE  IsFiniteSet(a..b) /\ Cardinality(a..b) = IF a > b THEN 0 ELSE b - a + 1
  BY Zenon DEF Counting

LEMMA CountType ==
  ASSUME Counting, NEW S, IsFiniteSet(S)
  PROVE  Cardinality(S) \in Nat
  BY Zenon DEF Counting

LEMMA CountSubset ==
  ASSUME Counting, NEW S, IsFiniteSet(S), NEW T \in SUBSET S
  PROVE  /\ IsFiniteSet(T) /\ Cardinality(T) <= Cardinality(S)
         /\ Cardinality(S) = Cardinality(T) => S = T
  BY Zenon DEF Counting

LEMMA CountAdd ==
  ASSUME Counting, NEW S, NEW x, IsFiniteSet(S)
  PROVE  /\ IsFiniteSet(S \cup {x})
         /\ Cardinality(S \cup {x}) = IF x \in S THEN Cardinality(S) ELSE Cardinality(S) + 1
  BY Zenon DEF Counting

LEMMA CountRemove ==
  ASSUME Counting, NEW S, NEW x, IsFiniteSet(S)
  PROVE  /\ IsFiniteSet(S \ {x})
         /\ Cardinality(S \ {x}) = IF x \in S THEN Cardinality(S) - 1 ELSE Cardinality(S)
  BY Zenon DEF Counting

LEMMA CountInjection ==
  ASSUME Counting, NEW S, NEW T, NEW f \in Injection(S, T), IsFiniteSet(T)
  PROVE  /\ IsFiniteSet(S) /\ Cardinality(S) <= Cardinality(T)
         /\ Cardinality(S) = Cardinality(T) <=> f \in Surjection(S, T)
  BY Zenon DEF Counting

LEMMA OfFinite ==
  ASSUME Counting, NEW q \in Seq(Requests), NEW c
  PROVE  IsFiniteSet(Of(q, c)) /\ Cardinality(Of(q, c)) \in Nat
<1>1. IsFiniteSet(1..Len(q)) /\ Of(q, c) \subseteq 1..Len(q)
  BY CountInterval DEF Of
<1>2. QED
  BY Zenon, <1>1, CountSubset, CountType

\* A map of places that keeps the call.
LEMMA OfBelow ==
  ASSUME Counting, NEW q \in Seq(Requests), NEW r \in Seq(Requests), NEW c, NEW A,
         A \subseteq Of(q, c), NEW f \in [1..Len(r) -> 1..Len(q)],
         \A j \in 1..Len(r) : r[j].call = c => f[j] \in A,
         \A i, j \in 1..Len(r) : f[i] = f[j] => i = j
  PROVE  IsFiniteSet(A) /\ Cardinality(A) \in Nat /\ Cardinality(Of(r, c)) <= Cardinality(A)
<1>1. IsFiniteSet(A) /\ Cardinality(A) \in Nat
  BY Zenon, OfFinite, CountSubset, CountType
<1>2. PICK g : g = [j \in Of(r, c) |-> f[j]]
  BY Zenon
<1>3. Of(r, c) \subseteq 1..Len(r) /\ \A j \in Of(r, c) : f[j] \in A
  BY Zenon DEF Of
<1>4. g \in [Of(r, c) -> A] /\ \A i, j \in Of(r, c) : g[i] = g[j] => i = j
  BY Zenon, <1>2, <1>3
<1>5. g \in Injection(Of(r, c), A)
  <2>1. DOMAIN g = Of(r, c)
    BY Zenon, <1>2
  <2>2. QED
    BY Zenon, <1>4, <2>1 DEF Injection, IsInjective
<1>6. QED
  BY Zenon, <1>1, <1>5, CountInjection

LEMMA OfAppended ==
  ASSUME Counting, NEW q \in Seq(Requests), NEW m \in Requests, NEW c
  PROVE  /\ m.call = c => Cardinality(Of(Append(q, m), c)) = Cardinality(Of(q, c)) + 1
         /\ m.call # c => Of(Append(q, m), c) = Of(q, c)
<1>1. PICK n \in Nat : n = Len(q)
  OBVIOUS
<1>2. PICK r : r = Append(q, m)
  BY Zenon
<1>3. Len(r) = n + 1 /\ r[n + 1] = m /\ \A i \in 1..n : r[i] = q[i]
  BY <1>1, <1>2
<1>4. m.call = c => Of(r, c) = Of(q, c) \cup {n + 1}
  BY <1>1, <1>3 DEF Of
<1>5. m.call # c => Of(r, c) = Of(q, c)
  BY <1>1, <1>3 DEF Of
<1>6. n + 1 \notin Of(q, c)
  BY <1>1 DEF Of
<1>7. m.call = c => Cardinality(Of(r, c)) = Cardinality(Of(q, c)) + 1
  BY Zenon, <1>4, <1>6, OfFinite, CountAdd
<1>8. QED
  BY Zenon, <1>2, <1>5, <1>7

LEMMA OfTailed ==
  ASSUME Counting, NEW q \in Seq(Requests), q # <<>>, NEW c
  PROVE  /\ Cardinality(Of(Tail(q), c)) <= Cardinality(Of(q, c))
         /\ Head(q).call = c => Cardinality(Of(Tail(q), c)) <= Cardinality(Of(q, c)) - 1
<1>1. PICK n \in Nat \ {0} : n = Len(q)
  OBVIOUS
<1>2. PICK r \in Seq(Requests) : r = Tail(q)
  <2>1. Tail(q) \in Seq(Requests)
    OBVIOUS
  <2>2. QED
    BY Zenon, <2>1
<1>3. Len(r) = n - 1 /\ Head(q) = q[1] /\ \A i \in 1..(n - 1) : r[i] = q[i + 1]
  BY <1>1, <1>2
<1>4. PICK f : f = [j \in 1..(n - 1) |-> j + 1]
  BY Zenon
<1>5. /\ f \in [1..(n - 1) -> 1..n] /\ \A i, j \in 1..(n - 1) : f[i] = f[j] => i = j
      /\ \A j \in 1..(n - 1) : f[j] = j + 1 /\ f[j] # 1 /\ f[j] \in 1..n /\ q[f[j]] = r[j]
  BY <1>3, <1>4
<1>6. \A j \in 1..(n - 1) : r[j].call = c => f[j] \in Of(q, c) \ {1}
  BY Zenon, <1>1, <1>5 DEF Of
<1>7. /\ f \in [1..Len(r) -> 1..Len(q)]
      /\ \A i, j \in 1..Len(r) : f[i] = f[j] => i = j
      /\ \A j \in 1..Len(r) : r[j].call = c => f[j] \in Of(q, c) \ {1} /\ f[j] \in Of(q, c)
  BY Zenon, <1>1, <1>3, <1>5, <1>6
<1>8. /\ Cardinality(Of(r, c)) <= Cardinality(Of(q, c))
      /\ Cardinality(Of(r, c)) <= Cardinality(Of(q, c) \ {1})
  <2>1. Of(q, c) \ {1} \subseteq Of(q, c) /\ Of(q, c) \subseteq Of(q, c)
    BY Zenon
  <2>2. QED
    BY Zenon, <1>7, <2>1, OfBelow
<1>9. Head(q).call = c => Cardinality(Of(q, c) \ {1}) = Cardinality(Of(q, c)) - 1
  <2>1. Head(q).call = c => 1 \in Of(q, c)
    BY <1>1, <1>3 DEF Of
  <2>2. QED
    BY Zenon, <2>1, OfFinite, CountRemove
<1>10. QED
  BY Zenon, <1>2, <1>8, <1>9

LEMMA Joined ==
  ASSUME NEW S, NEW a \in Seq(S), NEW b \in Seq(S)
  PROVE  /\ Len(a \o b) = Len(a) + Len(b)
         /\ \A i \in 1..(Len(a) + Len(b)) :
               (a \o b)[i] = IF i <= Len(a) THEN a[i] ELSE b[i - Len(a)]
OBVIOUS

LEMMA LastPart ==
  ASSUME NEW S, NEW q \in Seq(S), NEW k \in 1..Len(q)
  PROVE  /\ SubSeq(q, k + 1, Len(q)) \in Seq(S)
         /\ Len(SubSeq(q, k + 1, Len(q))) = Len(q) - k
         /\ \A i \in 1..(Len(q) - k) : SubSeq(q, k + 1, Len(q))[i] = q[k + i]
<1>1. k + 1 \in Int /\ Len(q) \in Nat /\ k \in Nat /\ k <= Len(q)
  OBVIOUS
<1>2. Len(SubSeq(q, k + 1, Len(q))) = Len(q) - k
  BY <1>1
<1>3. SubSeq(q, k + 1, Len(q)) \in Seq(S)
  BY <1>1
<1>4. QED
  BY <1>1, <1>2, <1>3

LEMMA OfRemoved ==
  ASSUME Counting, NEW q \in Seq(Requests), NEW k \in DOMAIN q, NEW c
  PROVE  Cardinality(Of(Without(q, k), c)) <= Cardinality(Of(q, c))
<1>1. PICK n \in Nat : n = Len(q) /\ DOMAIN q = 1..n
  OBVIOUS
<1>2. PICK r \in Seq(Requests) : r = Without(q, k)
  BY Zenon, WithoutType
<1>3. k \in 1..n
  BY Zenon, <1>1
<1>4. Len(r) = n - 1 /\ \A i \in 1..(n - 1) : r[i] = IF i < k THEN q[i] ELSE q[i + 1]
  <2>1. PICK a : a = SubSeq(q, 1, k - 1)
    BY Zenon
  <2>2. PICK b : b = SubSeq(q, k + 1, n)
    BY Zenon
  <2>3. a \in Seq(Requests) /\ Len(a) = k - 1 /\ \A i \in 1..(k - 1) : a[i] = q[i]
    BY <1>1, <1>3, <2>1
  <2>4. b \in Seq(Requests) /\ Len(b) = n - k /\ \A i \in 1..(n - k) : b[i] = q[k + i]
    BY Zenon, <1>1, <1>3, <2>2, LastPart
  <2>5. r = a \o b
    BY Zenon, <1>1, <1>2, <2>1, <2>2 DEF Without
  <2>6. /\ Len(r) = (k - 1) + (n - k)
        /\ \A i \in 1..((k - 1) + (n - k)) : r[i] = IF i <= k - 1 THEN a[i] ELSE b[i - (k - 1)]
    <3>1. /\ Len(a \o b) = Len(a) + Len(b)
          /\ \A i \in 1..(Len(a) + Len(b)) :
                (a \o b)[i] = IF i <= Len(a) THEN a[i] ELSE b[i - Len(a)]
      BY Zenon, <2>3, <2>4, Joined
    <3>2. Len(a) = k - 1 /\ Len(b) = n - k
      BY Zenon, <2>3, <2>4
    <3>3. QED
      BY Zenon, <2>5, <3>1, <3>2
  <2>7. ASSUME NEW i \in 1..(n - 1) PROVE r[i] = IF i < k THEN q[i] ELSE q[i + 1]
    <3>1. r[i] = IF i <= k - 1 THEN a[i] ELSE b[i - (k - 1)]
      <4>1. i \in 1..((k - 1) + (n - k))
        BY <1>3
      <4>2. QED
        BY Zenon, <2>6, <4>1
    <3>2. CASE i < k
      BY <1>3, <2>3, <3>1, <3>2
    <3>3. CASE ~(i < k)
      <4>1. i - (k - 1) \in 1..(n - k) /\ k + (i - (k - 1)) = i + 1 /\ ~(i <= k - 1)
        BY <1>3, <3>3
      <4>2. b[i - (k - 1)] = q[k + (i - (k - 1))]
        BY Zenon, <2>4, <4>1
      <4>3. QED
        BY Zenon, <3>1, <3>3, <4>1, <4>2
    <3>4. QED
      BY Zenon, <3>2, <3>3
  <2>8. (k - 1) + (n - k) = n - 1
    BY <1>3
  <2>9. QED
    BY Zenon, <2>6, <2>7, <2>8
<1>5. PICK f : f = [j \in 1..(n - 1) |-> IF j < k THEN j ELSE j + 1]
  BY Zenon
<1>6. /\ f \in [1..(n - 1) -> 1..n] /\ \A i, j \in 1..(n - 1) : f[i] = f[j] => i = j
      /\ \A j \in 1..(n - 1) : q[f[j]] = r[j] /\ f[j] \in 1..n
  BY <1>3, <1>4, <1>5
<1>7. \A j \in 1..(n - 1) : r[j].call = c => f[j] \in Of(q, c)
  BY Zenon, <1>1, <1>6 DEF Of
<1>8. /\ f \in [1..Len(r) -> 1..Len(q)]
      /\ \A i, j \in 1..Len(r) : f[i] = f[j] => i = j
      /\ \A j \in 1..Len(r) : r[j].call = c => f[j] \in Of(q, c)
  BY Zenon, <1>1, <1>4, <1>6, <1>7
<1>9. Of(q, c) \subseteq Of(q, c)
  BY Zenon
<1>10. QED
  BY Zenon, <1>2, <1>8, <1>9, OfBelow

LEMMA FlowTypes ==
  ASSUME RpcInv
  PROVE  /\ toServer \in Seq(Requests) /\ copies \in [Calls -> Nat]
         /\ stage \in [Calls -> Stages]
         /\ \A t \in tasks : t \in GoodTasks /\ t.request \in Requests /\ t.request.call \in Calls
<1>1. GoodRequests \subseteq Requests
  BY Zenon DEF GoodRequests
<1>2. toServer \in Seq(Requests)
  <2>1. toServer \in Seq(GoodRequests)
    BY Zenon DEF RpcInv, Flow
  <2>2. QED
    BY Zenon, <1>1, <2>1, SeqMonotonic
<1>3. \A t \in tasks : t \in GoodTasks /\ t.request \in Requests /\ t.request.call \in Calls
  BY Zenon, <1>1 DEF RpcInv, Flow, GoodTasks, Requests
<1>4. QED
  BY Zenon, <1>2, <1>3 DEF RpcInv, ClientOK

LEMMA EarlyFinite ==
  ASSUME Counting, RestOK, NEW c
  PROVE  IsFiniteSet(Early(tasks, c)) /\ Cardinality(Early(tasks, c)) \in Nat
<1>1. Early(tasks, c) \subseteq tasks
  BY Zenon DEF Early
<1>2. QED
  BY Zenon, <1>1, CountSubset, CountType DEF RestOK

\* What the counts depend on, when neither the channel to the recipient nor its
\* tasks move.
LEMMA CountsKept ==
  ASSUME Counting, RpcInv, Counts, server' = server, handlers' \in BOOLEAN,
         UNCHANGED <<present, tasks, copies, replayed, invoked, skipped, toServer>>,
         UNCHANGED faults \/ Fault,
         \A c \in Calls : stage'[c] \in {"idle", "sending"} => stage[c] \in {"idle", "sending"}
  PROVE  Counts'
<1>1. faults \in 0..MaxFaults /\ RestOK /\ \A c \in Calls : CountsOf(c)
  BY Zenon DEF Counts, RestOK
<1>2. faults' \in 0..MaxFaults /\ faults' >= faults
  BY <1>1, RpcAssumption DEF Fault
<1>3. RestOK'
  BY Zenon, <1>1, <1>2 DEF RestOK
<1>4. ASSUME NEW c \in Calls PROVE CountsOf(c)'
  <2>1. /\ copies[c] \in Nat /\ replayed[c] \in Nat /\ Cardinality(Of(toServer, c)) \in Nat
    BY Zenon, <1>1, FlowTypes, OfFinite DEF RestOK
  <2>2. Unsent(c)' \in {0, 1} /\ Unsent(c) \in {0, 1} /\ Unsent(c)' <= Unsent(c)
    BY DEF Unsent
  <2>3. UNCHANGED <<Of(toServer, c), Early(tasks, c)>>
    BY Zenon DEF Of, Early
  <2>4. QED
    BY <1>1, <1>2, <2>1, <2>2, <2>3 DEF CountsOf
<1>5. QED
  BY Zenon, <1>3, <1>4 DEF Counts

\* perform_rpc() sends its request at most once, when it leaves "sending".
LEMMA SendsOnce ==
  ASSUME RpcInv, NEW c \in Calls, Caller(c)
  PROVE  /\ UNCHANGED <<server, present, handlers, tasks, copies, replayed, invoked, skipped>>
         /\ UNCHANGED faults \/ Fault
         /\ \A d \in Calls : stage'[d] \in {"idle", "sending"} => stage[d] \in {"idle", "sending"}
         /\ \A d \in Calls \ {c} : stage'[d] = stage[d]
         /\ \/ toServer' = toServer
            \/ /\ \E m \in Requests : m.call = c /\ toServer' = Append(toServer, m)
               /\ present /\ stage[c] = "sending" /\ stage'[c] \notin {"idle", "sending"}
<1>0. stage \in [Calls -> Stages] /\ via \in [Calls -> {1, 2}]
  BY Zenon DEF RpcInv, ClientOK
<1>1. \A version \in {1, 2, 3}, whole \in BOOLEAN :
         Request(c, version, whole) \in Requests /\ Request(c, version, whole).call = c
  BY <1>0 DEF Request, Requests
<1>2. GivenUp(c) => \/ toServer' = toServer
                    \/ present /\ \E m \in Requests : m.call = c /\ toServer' = Append(toServer, m)
  BY Zenon, <1>1 DEF GivenUp
<1>3. CASE PerformRpc(c)
  <2>1. stage[c] = "idle" /\ \/ stage' = [stage EXCEPT ![c] = "done"]
                             \/ stage' = [stage EXCEPT ![c] = "sending"]
    BY Zenon, <1>3 DEF PerformRpc, Returns
  <2>2. QED
    BY Zenon, <1>0, <1>3, <2>1 DEF PerformRpc, servers, history
<1>4. CASE SendRequest(c)
  <2>1. \/ toServer' = toServer
        \/ present /\ \E m \in Requests : m.call = c /\ toServer' = Append(toServer, m)
    <3>1. PICK version \in {via[c], 3} :
             toServer' = IF present THEN Append(toServer, Request(c, version, TRUE)) ELSE toServer
      BY Zenon, <1>4 DEF SendRequest
    <3>2. version \in {1, 2, 3}
      BY Zenon, <1>0
    <3>3. Request(c, version, TRUE) \in Requests /\ Request(c, version, TRUE).call = c
      BY Zenon, <1>1, <3>2
    <3>4. QED
      BY Zenon, <3>1, <3>3
  <2>2. stage[c] = "sending" /\ stage' = [stage EXCEPT ![c] = "sent"]
    BY Zenon, <1>4 DEF SendRequest
  <2>3. UNCHANGED <<server, present, handlers, tasks, copies, replayed, invoked, skipped, faults>>
    BY Zenon, <1>4 DEF SendRequest, servers, history
  <2>4. /\ \A d \in Calls : stage'[d] \in {"idle", "sending"} => stage[d] \in {"idle", "sending"}
        /\ \A d \in Calls \ {c} : stage'[d] = stage[d]
        /\ stage'[c] \notin {"idle", "sending"}
    BY Zenon, <1>0, <2>2
  <2>5. QED
    BY Zenon, <2>1, <2>2, <2>3, <2>4
<1>5. CASE SendFails(c)
  <2>1. stage[c] = "sending" /\ stage' = [stage EXCEPT ![c] = "done"]
    BY Zenon, <1>5 DEF SendFails, Returns
  <2>2. QED
    BY Zenon, <1>0, <1>2, <1>5, <2>1 DEF SendFails, servers, history
<1>6. CASE Cancel(c)
  <2>1. stage' = [stage EXCEPT ![c] = "done"]
    BY Zenon, <1>6 DEF Cancel, Returns
  <2>2. QED
    BY Zenon, <1>0, <1>2, <1>6, <2>1 DEF Cancel, servers, history
<1>7. CASE SendReturns(c) \/ AckTimesOut(c) \/ AckSeen(c) \/ ResponseTimesOut(c)
           \/ ResponseSeen(c)
  <2>1. \E s \in {"ack", "done", "response"} : stage' = [stage EXCEPT ![c] = s]
    BY Zenon, <1>7 DEF SendReturns, AckTimesOut, AckSeen, ResponseTimesOut, ResponseSeen, Returns
  <2>2. QED
    BY Zenon, <1>0, <1>7, <2>1 DEF SendReturns, AckTimesOut, AckSeen, ResponseTimesOut, ResponseSeen,
                            servers, history
<1>8. QED
  BY Zenon, <1>3, <1>4, <1>5, <1>6, <1>7 DEF Caller

LEMMA CallerCounts ==
  ASSUME Counting, RpcInv, Counts, NEW c \in Calls, Caller(c)
  PROVE  Counts'
<1>0. handlers' \in BOOLEAN
  BY Zenon, SendsOnce DEF Counts, RestOK
<1>1. CASE toServer' = toServer
  BY Zenon, <1>0, <1>1, SendsOnce, CountsKept
<1>2. ASSUME NEW m \in Requests, m.call = c, toServer' = Append(toServer, m), present,
             stage[c] = "sending", stage'[c] \notin {"idle", "sending"}
      PROVE  Counts'
  <2>1. faults \in 0..MaxFaults /\ RestOK /\ \A d \in Calls : CountsOf(d)
    BY Zenon DEF Counts, RestOK
  <2>2. faults' \in 0..MaxFaults /\ faults' >= faults
    BY <2>1, SendsOnce, RpcAssumption DEF Fault
  <2>3. RestOK'
    <3>1. UNCHANGED <<server, present, handlers, tasks, copies, replayed, invoked, skipped>>
      BY Zenon, SendsOnce
    <3>2. QED
      BY Zenon, <1>2, <2>1, <2>2, <3>1 DEF RestOK
  <2>4. ASSUME NEW d \in Calls PROVE CountsOf(d)'
    <3>1. /\ copies[d] \in Nat /\ replayed[d] \in Nat /\ Cardinality(Of(toServer, d)) \in Nat
          /\ UNCHANGED <<copies, replayed, invoked, skipped, tasks>>
      BY Zenon, <2>1, FlowTypes, OfFinite, SendsOnce DEF RestOK
    <3>2. Cardinality(Of(toServer', d)) + Unsent(d)' <= Cardinality(Of(toServer, d)) + Unsent(d)
      <4>1. CASE d = c
        <5>1. Cardinality(Of(toServer', c)) = Cardinality(Of(toServer, c)) + 1
          BY Zenon, <1>2, FlowTypes, OfAppended
        <5>2. Unsent(c)' = 0 /\ Unsent(c) = 1
          BY Zenon, <1>2 DEF Unsent
        <5>3. QED
          BY <3>1, <4>1, <5>1, <5>2
      <4>2. CASE d # c
        <5>1. Of(toServer', d) = Of(toServer, d)
          BY Zenon, <1>2, <4>2, FlowTypes, OfAppended
        <5>2. Unsent(d)' = Unsent(d) /\ Unsent(d) \in {0, 1}
          BY ZenonT(40), <4>2, SendsOnce DEF Unsent
        <5>3. QED
          BY <3>1, <5>1, <5>2
      <4>3. QED
        BY Zenon, <4>1, <4>2
    <3>3. Unsent(d) \in {0, 1} /\ Unsent(d)' \in {0, 1} /\ Cardinality(Of(toServer', d)) \in Nat
      <4>1. toServer' \in Seq(Requests)
        BY Zenon, <1>2, FlowTypes, Queues
      <4>2. QED
        BY Zenon, <4>1, OfFinite DEF Unsent
    <3>4. /\ copies'[d] = copies[d] /\ replayed'[d] = replayed[d] /\ invoked'[d] = invoked[d]
          /\ Early(tasks', d) = Early(tasks, d)
      BY Zenon, <3>1
    <3>5. QED
      BY <2>1, <2>2, <3>1, <3>2, <3>3, <3>4 DEF CountsOf
  <2>5. QED
    BY Zenon, <2>3, <2>4 DEF Counts
<1>3. QED
  BY ZenonT(40), <1>1, <1>2, SendsOnce

\* A handler of call c is called, or skipped.
Counted(c) ==
    \/ invoked' = [invoked EXCEPT ![c] = @ + 1] /\ UNCHANGED skipped
    \/ skipped' = [skipped EXCEPT ![c] = @ + 1] /\ UNCHANGED invoked

\* A task goes on, or ends; it calls its handler, or skips it, as it leaves the
\* early stages.
LEMMA TaskMoves ==
  ASSUME RpcInv, Counts, NEW t \in tasks, Task(t)
  PROVE  /\ UNCHANGED <<server, stage, present, handlers, copies, replayed, toServer>>
         /\ UNCHANGED faults \/ Fault
         /\ \E u : /\ tasks' \subseteq (tasks \ {t}) \cup {u}
                   /\ u.request = t.request /\ u.copy = t.copy
                   /\ (u.at = "respond") = (u.outcome # None)
                   /\ \/ /\ UNCHANGED <<invoked, skipped>>
                         /\ u.at \in {"ack", "read", "invoke"} =>
                               t.at \in {"ack", "read", "invoke"}
                      \/ /\ t.at \in {"ack", "read", "invoke"} /\ u.at \in {"running", "respond"}
                         /\ Counted(t.request.call)
<1>0. /\ t = [request |-> t.request, copy |-> t.copy, outcome |-> t.outcome, at |-> t.at]
      /\ (t.at = "respond") = (t.outcome # None)
  BY Zenon, FlowTypes DEF Counts, RestOK, GoodTasks
<1>1. /\ UNCHANGED <<server, stage, present, handlers, copies, replayed, toServer>>
      /\ UNCHANGED faults \/ Fault
  <2>1. UNCHANGED <<server, stage, present, handlers, copies, replayed, toServer>>
    BY Zenon DEF Task, PublishRpcAck, ReadRequest, InvokeHandler, HandlerReturns, RespondFallsBack,
                 Respond, RespondFails, client, history
  <2>2. UNCHANGED faults \/ Fault
    BY Zenon DEF Task, PublishRpcAck, ReadRequest, InvokeHandler, HandlerReturns, RespondFallsBack,
                 Respond, RespondFails
  <2>3. QED
    BY Zenon, <2>1, <2>2
<1>2. ASSUME NEW at \in {"read", "invoke", "running"}, Moves(t, at), t.at # "respond"
      PROVE  /\ tasks' \subseteq (tasks \ {t}) \cup {[t EXCEPT !.at = at]}
             /\ [t EXCEPT !.at = at].request = t.request /\ [t EXCEPT !.at = at].copy = t.copy
             /\ [t EXCEPT !.at = at].at = at
             /\ ([t EXCEPT !.at = at].at = "respond") = ([t EXCEPT !.at = at].outcome # None)
  BY Zenon, <1>0, <1>2 DEF Moves
<1>3. ASSUME NEW a \in Answers, Concludes(t, a)
      PROVE  \E u : /\ tasks' \subseteq (tasks \ {t}) \cup {u}
                    /\ u.request = t.request /\ u.copy = t.copy /\ u.at = "respond"
                    /\ (u.at = "respond") = (u.outcome # None)
  <2>1. PICK u : u = [t EXCEPT !.at = "respond", !.outcome = a]
    BY Zenon
  <2>2. u.request = t.request /\ u.copy = t.copy /\ u.at = "respond" /\ u.outcome = a
    BY Zenon, <1>0, <2>1
  <2>3. a # None
    BY Zenon, AnswerNames
  <2>4. tasks' \subseteq (tasks \ {t}) \cup {u}
    BY Zenon, <1>3, <2>1 DEF Concludes
  <2>5. QED
    BY Zenon, <2>2, <2>3, <2>4
<1>4. CASE PublishRpcAck(t) \/ ReadRequest(t)
  <2>1. /\ t.at \in {"ack", "read"}
        /\ \/ /\ UNCHANGED <<invoked, skipped>>
              /\ \/ \E at \in {"read", "invoke"} : Moves(t, at)
                 \/ Concludes(t, "ApplicationError")
           \/ Counted(t.request.call) /\ Concludes(t, "UnsupportedVersion")
    <3>1. PICK next \in {"read", "invoke"} : next = IF t.request.via = 2 THEN "read" ELSE "invoke"
      BY Zenon
    <3>2. QED
      BY Zenon, <1>4, <3>1 DEF PublishRpcAck, ReadRequest, Skips, Counted, history
  <2>2. t.at \in {"ack", "read", "invoke"} /\ t.at # "respond"
    BY Zenon, <2>1
  <2>3. ASSUME NEW at \in {"read", "invoke"}, Moves(t, at)
        PROVE  \E u : /\ tasks' \subseteq (tasks \ {t}) \cup {u}
                      /\ u.request = t.request /\ u.copy = t.copy
                      /\ (u.at = "respond") = (u.outcome # None)
    BY Zenon, <1>2, <2>2, <2>3
  <2>4. "UnsupportedVersion" \in Answers /\ "ApplicationError" \in Answers
    BY Zenon, AnswerNames
  <2>5. CASE UNCHANGED <<invoked, skipped>> /\ \E at \in {"read", "invoke"} : Moves(t, at)
    BY Zenon, <1>1, <2>2, <2>3, <2>5
  <2>6. CASE UNCHANGED <<invoked, skipped>> /\ Concludes(t, "ApplicationError")
    BY Zenon, <1>1, <1>3, <2>2, <2>4, <2>6
  <2>7. CASE Counted(t.request.call) /\ Concludes(t, "UnsupportedVersion")
    BY Zenon, <1>1, <1>3, <2>2, <2>4, <2>7
  <2>8. QED
    BY Zenon, <2>1, <2>5, <2>6, <2>7
<1>5. CASE InvokeHandler(t)
  <2>1. /\ t.at = "invoke" /\ Counted(t.request.call)
        /\ Moves(t, "running") \/ Concludes(t, "UnsupportedMethod")
    BY Zenon, <1>5 DEF InvokeHandler, Skips, Counted
  <2>2. /\ "UnsupportedMethod" \in Answers /\ t.at # "respond"
        /\ t.at \in {"ack", "read", "invoke"}
    BY Zenon, <2>1, AnswerNames
  <2>3. CASE Moves(t, "running")
    BY Zenon, <1>1, <1>2, <2>1, <2>2, <2>3
  <2>4. CASE Concludes(t, "UnsupportedMethod")
    BY Zenon, <1>1, <1>3, <2>1, <2>2, <2>4
  <2>5. QED
    BY Zenon, <2>1, <2>3, <2>4
<1>6. CASE HandlerReturns(t)
  <2>1. /\ UNCHANGED <<invoked, skipped>>
        /\ \E a \in {"Payload", "LargePayload", "HandlerError", "ApplicationError"} : Concludes(t, a)
    BY Zenon, <1>6 DEF HandlerReturns, history
  <2>2. QED
    BY Zenon, <1>1, <1>3, <2>1, AnswerNames
<1>7. CASE RespondFallsBack(t) \/ Respond(t) \/ RespondFails(t)
  <2>1. UNCHANGED <<invoked, skipped>> /\ tasks' = tasks \ {t}
    BY Zenon, <1>7 DEF RespondFallsBack, Respond, RespondFails, Ends, history
  <2>2. QED
    BY Zenon, <1>0, <1>1, <2>1
<1>8. QED
  BY Zenon, <1>4, <1>5, <1>6, <1>7 DEF Task

LEMMA TaskCounts ==
  ASSUME Counting, RpcInv, Counts, NEW t \in tasks, Task(t)
  PROVE  Counts'
<1>1. faults \in 0..MaxFaults /\ RestOK /\ \A c \in Calls : CountsOf(c)
  BY Zenon DEF Counts, RestOK
<1>2. faults' \in 0..MaxFaults /\ faults' >= faults
  BY <1>1, TaskMoves, RpcAssumption DEF Fault
<1>3. PICK u : /\ tasks' \subseteq (tasks \ {t}) \cup {u}
               /\ u.request = t.request /\ u.copy = t.copy
               /\ (u.at = "respond") = (u.outcome # None)
               /\ \/ /\ UNCHANGED <<invoked, skipped>>
                     /\ u.at \in {"ack", "read", "invoke"} =>
                           t.at \in {"ack", "read", "invoke"}
                  \/ /\ t.at \in {"ack", "read", "invoke"} /\ u.at \in {"running", "respond"}
                     /\ Counted(t.request.call)
  BY Zenon, TaskMoves
<1>4. UNCHANGED <<server, stage, present, handlers, copies, replayed, toServer>>
  BY Zenon, TaskMoves
<1>5. t.request.call \in Calls
  BY Zenon, FlowTypes
<1>6. RestOK'
  <2>1. IsFiniteSet(tasks')
    <3>1. IsFiniteSet((tasks \ {t}) \cup {u})
      <4>1. IsFiniteSet(tasks \ {t})
        BY Zenon, <1>1, CountRemove DEF RestOK
      <4>2. QED
        BY Zenon, <4>1, CountAdd
    <3>2. QED
      BY Zenon, <1>3, <3>1, CountSubset
  <2>2. invoked' \in [Calls -> Nat] /\ skipped' \in [Calls -> Nat]
    <3>1. invoked \in [Calls -> Nat] /\ skipped \in [Calls -> Nat]
      BY Zenon, <1>1 DEF RestOK
    <3>2. UNCHANGED <<invoked, skipped>> \/ Counted(t.request.call)
      BY Zenon, <1>3
    <3>3. QED
      BY <1>5, <3>1, <3>2 DEF Counted
  <2>3. QED
    BY Zenon, <1>1, <1>2, <1>3, <1>4, <2>1, <2>2 DEF RestOK
<1>7. ASSUME NEW c \in Calls PROVE CountsOf(c)'
  <2>1. /\ IsFiniteSet(Early(tasks, c)) /\ Cardinality(Early(tasks, c)) \in Nat
        /\ IsFiniteSet(Early(tasks', c)) /\ Cardinality(Early(tasks', c)) \in Nat
        /\ copies[c] \in Nat /\ invoked[c] \in Nat /\ skipped[c] \in Nat /\ replayed[c] \in Nat
    <3>1. IsFiniteSet(Early(tasks', c))
      BY Zenon, <1>6, CountSubset DEF RestOK, Early
    <3>2. QED
      BY Zenon, <1>1, <3>1, EarlyFinite, FlowTypes, CountType DEF RestOK
  <2>2. Early(tasks', c) \subseteq (Early(tasks, c) \ {t}) \cup Early({u}, c)
    BY Zenon, <1>3 DEF Early
  <2>3. t \in Early(tasks, c) => Cardinality(Early(tasks, c) \ {t}) = Cardinality(Early(tasks, c)) - 1
                                 /\ IsFiniteSet(Early(tasks, c) \ {t})
    BY Zenon, <2>1, CountRemove
  <2>3a. invoked'[c] \in Nat /\ skipped'[c] \in Nat
    BY Zenon, <1>6 DEF RestOK
  <2>4. invoked'[c] + skipped'[c] + Cardinality(Early(tasks', c))
            <= invoked[c] + skipped[c] + Cardinality(Early(tasks, c))
    <3>1. CASE t \notin Early(tasks, c)
      <4>1. Early({u}, c) = {} /\ invoked'[c] = invoked[c] /\ skipped'[c] = skipped[c]
        <5>1. Early({u}, c) = {}
          BY Zenon, <1>3, <3>1 DEF Early
        <5>2. UNCHANGED <<invoked, skipped>> \/ (t.request.call # c /\ Counted(t.request.call))
          BY Zenon, <1>3, <3>1 DEF Early
        <5>3. QED
          BY Zenon, <1>1, <1>5, <5>1, <5>2 DEF RestOK, Counted
      <4>2. Early(tasks', c) \subseteq Early(tasks, c)
        BY Zenon, <2>2, <4>1
      <4>3. Cardinality(Early(tasks', c)) <= Cardinality(Early(tasks, c))
        BY Zenon, <2>1, <4>2, CountSubset
      <4>4. QED
        BY <2>1, <4>1, <4>3
    <3>2. CASE t \in Early(tasks, c) /\ UNCHANGED <<invoked, skipped>>
      <4>1. Early({u}, c) \subseteq {u}
        BY Zenon DEF Early
      <4>2. Early(tasks', c) \subseteq (Early(tasks, c) \ {t}) \cup {u}
        BY Zenon, <2>2, <4>1
      <4>3. /\ IsFiniteSet((Early(tasks, c) \ {t}) \cup {u})
            /\ Cardinality((Early(tasks, c) \ {t}) \cup {u}) <= Cardinality(Early(tasks, c))
            /\ Cardinality((Early(tasks, c) \ {t}) \cup {u}) \in Nat
        <5>1. PICK S : S = Early(tasks, c) \ {t}
          BY Zenon
        <5>2. IsFiniteSet(S) /\ Cardinality(S) = Cardinality(Early(tasks, c)) - 1
          BY Zenon, <2>3, <3>2, <5>1
        <5>3. /\ IsFiniteSet(S \cup {u}) /\ Cardinality(S \cup {u}) \in Nat
              /\ Cardinality(S \cup {u}) = IF u \in S THEN Cardinality(S) ELSE Cardinality(S) + 1
          BY Zenon, <5>2, CountAdd, CountType
        <5>4. Cardinality(S \cup {u}) <= Cardinality(Early(tasks, c))
          BY <2>1, <5>2, <5>3
        <5>5. QED
          BY Zenon, <5>1, <5>3, <5>4
      <4>4. Cardinality(Early(tasks', c)) <= Cardinality((Early(tasks, c) \ {t}) \cup {u})
        BY Zenon, <4>2, <4>3, CountSubset
      <4>5. QED
        BY <2>1, <3>2, <4>3, <4>4
    <3>3. CASE /\ t \in Early(tasks, c) /\ u.at \in {"running", "respond"}
               /\ Counted(t.request.call)
      <4>1. Early({u}, c) = {} /\ t.request.call = c
        BY Zenon, <3>3 DEF Early
      <4>2. Early(tasks', c) \subseteq Early(tasks, c) \ {t}
        BY Zenon, <2>2, <4>1
      <4>3. Cardinality(Early(tasks', c)) <= Cardinality(Early(tasks, c) \ {t})
        BY Zenon, <2>3, <3>3, <4>2, CountSubset
      <4>4. \/ invoked'[c] = invoked[c] + 1 /\ skipped'[c] = skipped[c]
            \/ skipped'[c] = skipped[c] + 1 /\ invoked'[c] = invoked[c]
        BY Zenon, <1>1, <3>3, <4>1 DEF RestOK, Counted
      <4>5. QED
        BY <2>1, <2>3, <2>3a, <3>3, <4>3, <4>4
    <3>4. QED
      BY Zenon, <1>3, <3>1, <3>2, <3>3
  <2>5. Of(toServer', c) = Of(toServer, c) /\ Unsent(c)' = Unsent(c)
    BY Zenon, <1>4 DEF Unsent
  <2>6. QED
    BY <1>1, <1>2, <1>4, <2>1, <2>3a, <2>4, <2>5 DEF CountsOf
<1>8. QED
  BY Zenon, <1>6, <1>7 DEF Counts

\* The recipient takes a request from the channel.
LEMMA ReceiveCounts ==
  ASSUME Counting, RpcInv, Counts, ReceiveRequest
  PROVE  Counts'
<1>1. RestOK /\ \A c \in Calls : CountsOf(c)
  BY Zenon DEF Counts
<1>2. PICK m \in Requests : m = Head(toServer)
  BY Zenon, FlowTypes, Queues DEF ReceiveRequest
<1>3. m.call \in Calls
  BY Zenon DEF Requests
<1>4. PICK u : u = [request |-> m, copy |-> copies'[m.call], at |-> "ack", outcome |-> None]
  BY Zenon
<1>5. /\ toServer # <<>> /\ toServer' = Tail(toServer) /\ tasks' = tasks \cup {u}
      /\ copies' = [copies EXCEPT ![m.call] = @ + 1]
      /\ UNCHANGED <<server, stage, present, handlers, faults, replayed, invoked, skipped>>
  BY Zenon, <1>2, <1>4 DEF ReceiveRequest, client
<1>6. copies \in [Calls -> Nat] /\ copies'[m.call] = copies[m.call] + 1
      /\ \A c \in Calls : c # m.call => copies'[c] = copies[c]
  BY Zenon, <1>3, <1>5, FlowTypes
<1>7. RestOK'
  <2>1. IsFiniteSet(tasks')
    <3>1. IsFiniteSet(tasks)
      BY Zenon, <1>1 DEF RestOK
    <3>2. QED
      BY Zenon, <1>5, <3>1, CountAdd
  <2>2. ASSUME NEW t \in tasks PROVE t.copy \in 1..copies'[t.request.call]
    <3>1. t.copy \in 1..copies[t.request.call] /\ t.request.call \in Calls
      BY Zenon, <1>1, FlowTypes DEF RestOK
    <3>2. QED
      BY <1>6, <3>1
  <2>3. u.copy \in 1..copies'[u.request.call] /\ (u.at = "respond") = (u.outcome # None)
    BY <1>3, <1>4, <1>6
  <2>4. QED
    BY Zenon, <1>1, <1>5, <2>1, <2>2, <2>3 DEF RestOK
<1>8. ASSUME NEW c \in Calls PROVE CountsOf(c)'
  <2>1. /\ IsFiniteSet(Early(tasks, c)) /\ Cardinality(Early(tasks, c)) \in Nat
        /\ copies[c] \in Nat /\ invoked[c] \in Nat /\ skipped[c] \in Nat /\ replayed[c] \in Nat
        /\ Cardinality(Of(toServer, c)) \in Nat /\ Cardinality(Of(toServer', c)) \in Nat
        /\ Unsent(c)' = Unsent(c) /\ Unsent(c) \in {0, 1}
    <3>1. toServer' \in Seq(Requests)
      BY Zenon, <1>5, FlowTypes, Queues
    <3>2. QED
      <4>1. copies[c] \in Nat /\ invoked[c] \in Nat /\ skipped[c] \in Nat /\ replayed[c] \in Nat
        BY Zenon, <1>1, <1>6 DEF RestOK
      <4>2. Unsent(c)' = Unsent(c) /\ Unsent(c) \in {0, 1}
        BY Zenon, <1>5 DEF Unsent
      <4>3. toServer \in Seq(Requests)
        BY Zenon, FlowTypes
      <4>4. Cardinality(Of(toServer, c)) \in Nat /\ Cardinality(Of(toServer', c)) \in Nat
        BY Zenon, <3>1, <4>3, OfFinite
      <4>5. QED
        BY Zenon, <1>1, <4>1, <4>2, <4>4, EarlyFinite
  <2>2. CASE c = m.call
    <3>1. Cardinality(Of(toServer', c)) <= Cardinality(Of(toServer, c)) - 1
      BY Zenon, <1>2, <1>5, <2>2, FlowTypes, OfTailed
    <3>2. Cardinality(Early(tasks', c)) <= Cardinality(Early(tasks, c)) + 1
          /\ Cardinality(Early(tasks', c)) \in Nat
      <4>1. Early(tasks', c) \subseteq Early(tasks, c) \cup {u}
        BY Zenon, <1>5 DEF Early
      <4>2. /\ IsFiniteSet(Early(tasks, c) \cup {u})
            /\ Cardinality(Early(tasks, c) \cup {u}) <= Cardinality(Early(tasks, c)) + 1
            /\ Cardinality(Early(tasks, c) \cup {u}) \in Nat
        <5>1. /\ IsFiniteSet(Early(tasks, c) \cup {u})
              /\ Cardinality(Early(tasks, c) \cup {u}) \in Nat
              /\ Cardinality(Early(tasks, c) \cup {u}) =
                    IF u \in Early(tasks, c) THEN Cardinality(Early(tasks, c))
                    ELSE Cardinality(Early(tasks, c)) + 1
          BY Zenon, <2>1, CountAdd, CountType
        <5>2. QED
          BY <2>1, <5>1
      <4>3. IsFiniteSet(Early(tasks', c)) /\ Cardinality(Early(tasks', c)) <= Cardinality(Early(tasks, c) \cup {u})
        BY Zenon, <4>1, <4>2, CountSubset
      <4>4. QED
        BY <2>1, <4>2, <4>3, CountType
    <3>3. QED
      <4>1. UNCHANGED <<faults, replayed, invoked, skipped>> /\ copies'[c] = copies[c] + 1
        BY Zenon, <1>5, <1>6, <2>2
      <4>2. CountsOf(c)
        BY Zenon, <1>1
      <4>3. QED
        BY <2>1, <3>1, <3>2, <4>1, <4>2 DEF CountsOf
  <2>3. CASE c # m.call
    <3>1. Cardinality(Of(toServer', c)) <= Cardinality(Of(toServer, c))
      BY Zenon, <1>5, FlowTypes, OfTailed
    <3>2. Early(tasks', c) = Early(tasks, c)
      BY <1>4, <1>5, <2>3 DEF Early
    <3>3. UNCHANGED <<faults, replayed, invoked, skipped>> /\ copies'[c] = copies[c] /\ CountsOf(c)
      BY Zenon, <1>1, <1>5, <1>6, <2>3
    <3>4. QED
      BY <2>1, <3>1, <3>2, <3>3 DEF CountsOf
  <2>4. QED
    BY Zenon, <2>2, <2>3
<1>9. QED
  BY Zenon, <1>7, <1>8 DEF Counts

\* The channel, and the recipient's own steps.
LEMMA RestCounts ==
  ASSUME Counting, RpcInv, Counts,
         RegisterMethod \/ UnregisterMethod \/ Lose \/ Replay \/ RecipientLeaves
  PROVE  Counts'
<1>1. RestOK /\ \A c \in Calls : CountsOf(c)
  BY Zenon DEF Counts
<1>2. \A c \in Calls : /\ copies[c] \in Nat /\ replayed[c] \in Nat /\ invoked[c] \in Nat /\ skipped[c] \in Nat
                       /\ Cardinality(Of(toServer, c)) \in Nat /\ Unsent(c) \in {0, 1}
                       /\ Cardinality(Early(tasks, c)) \in Nat
  <2>1. toServer \in Seq(Requests)
    BY Zenon, FlowTypes
  <2>2. \A c \in Calls : copies[c] \in Nat /\ replayed[c] \in Nat /\ invoked[c] \in Nat /\ skipped[c] \in Nat
    <3>1. /\ copies \in [Calls -> Nat] /\ replayed \in [Calls -> Nat]
          /\ invoked \in [Calls -> Nat] /\ skipped \in [Calls -> Nat]
      BY Zenon, <1>1, FlowTypes DEF RestOK
    <3>2. QED
      BY Zenon, <3>1
  <2>3. \A c \in Calls : Unsent(c) \in {0, 1}
    BY Zenon DEF Unsent
  <2>4. QED
    BY Zenon, <1>1, <2>1, <2>2, <2>3, OfFinite, EarlyFinite
<1>3. CASE RegisterMethod \/ UnregisterMethod
  <2>1. /\ UNCHANGED <<server, stage, present, tasks, copies, replayed, invoked, skipped, toServer, faults>>
        /\ handlers' \in BOOLEAN
    BY Zenon, <1>3 DEF RegisterMethod, UnregisterMethod, client, history
  <2>2. QED
    BY Zenon, <2>1, CountsKept
<1>4. CASE Lose
  <2>1. /\ UNCHANGED <<server, stage, present, handlers, tasks, copies, replayed, invoked, skipped>> /\ Fault
        /\ UNCHANGED toServer \/ \E i \in DOMAIN toServer : toServer' = Without(toServer, i)
    BY Zenon, <1>4 DEF Lose, client, servers, history
  <2>2. CASE UNCHANGED toServer
    BY Zenon, <2>1, <2>2, CountsKept DEF Counts, RestOK
  <2>3. CASE \E i \in DOMAIN toServer : toServer' = Without(toServer, i)
    <3>1. PICK i \in DOMAIN toServer : toServer' = Without(toServer, i)
      BY Zenon, <2>3
    <3>2. faults \in Nat /\ faults' = faults + 1 /\ faults' \in 0..MaxFaults
      BY <1>1, <2>1, RpcAssumption DEF Fault, RestOK
    <3>3. toServer # <<>> /\ toServer' \in Seq(Requests)
      BY <3>1, FlowTypes, WithoutType
    <3>4. RestOK'
      BY ZenonT(40), <1>1, <2>1, <3>2, <3>3 DEF RestOK
    <3>5. ASSUME NEW c \in Calls PROVE CountsOf(c)'
      <4>1. Cardinality(Of(toServer', c)) <= Cardinality(Of(toServer, c))
        BY Zenon, <3>1, FlowTypes, OfRemoved
      <4>2. Cardinality(Of(toServer', c)) \in Nat /\ Unsent(c)' = Unsent(c)
        BY Zenon, <2>1, <3>3, OfFinite DEF Unsent
      <4>3. QED
        BY <1>1, <1>2, <2>1, <3>2, <4>1, <4>2 DEF CountsOf
    <3>6. QED
      BY Zenon, <3>4, <3>5 DEF Counts
  <2>4. QED
    BY Zenon, <2>1, <2>2, <2>3
<1>5. CASE Replay
  <2>1. /\ UNCHANGED <<server, stage, present, handlers, tasks, copies, invoked, skipped>> /\ Fault
        /\ \/ UNCHANGED <<toServer, replayed>>
           \/ \E i \in DOMAIN toServer :
                /\ toServer' = Append(toServer, toServer[i])
                /\ replayed' = [replayed EXCEPT ![toServer[i].call] = @ + 1]
    BY Zenon, <1>5 DEF Replay, client, servers
  <2>2. CASE UNCHANGED <<toServer, replayed>>
    BY Zenon, <2>1, <2>2, CountsKept DEF Counts, RestOK
  <2>3. CASE \E i \in DOMAIN toServer :
                /\ toServer' = Append(toServer, toServer[i])
                /\ replayed' = [replayed EXCEPT ![toServer[i].call] = @ + 1]
    <3>1. PICK i \in DOMAIN toServer :
                /\ toServer' = Append(toServer, toServer[i])
                /\ replayed' = [replayed EXCEPT ![toServer[i].call] = @ + 1]
      BY Zenon, <2>3
    <3>2. PICK m \in Requests : m = toServer[i]
      BY Zenon, FlowTypes, Queues
    <3>3. m.call \in Calls
      BY Zenon DEF Requests
    <3>4. faults \in Nat /\ faults' = faults + 1 /\ faults' \in 0..MaxFaults
      BY <1>1, <2>1, RpcAssumption DEF Fault, RestOK
    <3>5. toServer # <<>> /\ toServer' \in Seq(Requests)
      BY <3>1, <3>2, FlowTypes, Queues
    <3>6. /\ replayed' \in [Calls -> Nat] /\ replayed'[m.call] = replayed[m.call] + 1
          /\ \A c \in Calls : c # m.call => replayed'[c] = replayed[c]
      BY <1>1, <3>1, <3>2, <3>3 DEF RestOK
    <3>7. RestOK'
      BY Zenon, <1>1, <2>1, <3>4, <3>5, <3>6 DEF RestOK
    <3>7a. UNCHANGED <<copies, invoked, skipped, tasks, stage>>
      BY Zenon, <2>1
    <3>8. ASSUME NEW c \in Calls PROVE CountsOf(c)'
      <4>1. Cardinality(Of(toServer', c)) \in Nat /\ Unsent(c)' = Unsent(c)
        BY Zenon, <2>1, <3>5, OfFinite DEF Unsent
      <4>2. CASE c = m.call
        <5>1. Cardinality(Of(toServer', c)) = Cardinality(Of(toServer, c)) + 1
          BY Zenon, <3>1, <3>2, <4>2, FlowTypes, OfAppended
        <5>2. QED
          BY <1>1, <1>2, <3>4, <3>6, <3>7a, <4>1, <4>2, <5>1 DEF CountsOf
      <4>3. CASE c # m.call
        <5>1. Of(toServer', c) = Of(toServer, c)
          BY Zenon, <3>1, <3>2, <4>3, FlowTypes, OfAppended
        <5>2. QED
          BY <1>1, <1>2, <3>4, <3>6, <3>7a, <4>1, <4>3, <5>1 DEF CountsOf
      <4>4. QED
        BY Zenon, <4>2, <4>3
    <3>9. QED
      BY Zenon, <3>7, <3>8 DEF Counts
  <2>4. QED
    BY Zenon, <2>1, <2>2, <2>3
<1>6. CASE RecipientLeaves
  <2>1. /\ UNCHANGED <<server, stage, copies, replayed, invoked, skipped, faults>>
        /\ present' = FALSE /\ handlers' = FALSE /\ tasks' = {} /\ toServer' = <<>>
    BY Zenon, <1>6 DEF RecipientLeaves, client, history
  <2>2. RestOK'
    BY Zenon, <1>1, <2>1, CountEmpty DEF RestOK
  <2>3. ASSUME NEW c \in Calls PROVE CountsOf(c)'
    <3>1. Early(tasks', c) = {} /\ Of(toServer', c) = {} /\ Unsent(c)' = Unsent(c)
      BY <2>1 DEF Early, Of, Unsent
    <3>2. Cardinality(Early(tasks', c)) = 0 /\ Cardinality(Of(toServer', c)) = 0
      BY Zenon, <3>1, CountEmpty
    <3>3. UNCHANGED <<faults, copies, replayed, invoked, skipped>> /\ CountsOf(c)
      BY Zenon, <1>1, <2>1
    <3>4. QED
      BY <1>2, <3>1, <3>2, <3>3 DEF CountsOf
  <2>4. QED
    BY Zenon, <2>2, <2>3 DEF Counts
<1>7. QED
  BY Zenon, <1>3, <1>4, <1>5, <1>6

LEMMA CountsInit == Counting /\ Init => Counts
<1> SUFFICES ASSUME Counting, Init PROVE Counts
  BY Zenon
<1>1. RestOK
  BY CountEmpty, RpcAssumption DEF Init, RestOK
<1>2. ASSUME NEW c \in Calls PROVE CountsOf(c)
  <2>1. Early(tasks, c) = {} /\ Of(toServer, c) = {} /\ Unsent(c) = 1
    BY DEF Init, Early, Of, Unsent
  <2>2. Cardinality(Early(tasks, c)) = 0 /\ Cardinality(Of(toServer, c)) = 0
    BY Zenon, <2>1, CountEmpty
  <2>3. QED
    BY <2>1, <2>2 DEF Init, CountsOf
<1>3. QED
  BY Zenon, <1>1, <1>2 DEF Counts

LEMMA CountsStep == Counting /\ RpcInv /\ Counts /\ [Next]_vars => Counts'
<1> SUFFICES ASSUME Counting, RpcInv, Counts, [Next]_vars PROVE Counts'
  BY Zenon
<1>1. CASE UNCHANGED vars
  <2>1. UNCHANGED <<server, stage, present, handlers, tasks, copies, replayed, invoked, skipped, toServer,
                    faults>>
    BY Zenon, <1>1 DEF vars, client, servers, history
  <2>2. handlers' \in BOOLEAN
    BY Zenon, <2>1 DEF Counts, RestOK
  <2>3. QED
    BY Zenon, <2>1, <2>2, CountsKept
<1>2. CASE ReceiveAck \/ ReceiveResponse \/ ReceiveStream \/ ReadResponse
  <2>1. /\ UNCHANGED <<server, stage, present, handlers, tasks, copies, replayed, invoked, skipped, toServer>>
        /\ UNCHANGED faults \/ Fault
    BY Zenon, <1>2 DEF ReceiveAck, ReceiveResponse, ReceiveStream, ReadResponse, client, servers,
                       history
  <2>2. handlers' \in BOOLEAN
    BY Zenon, <2>1 DEF Counts, RestOK
  <2>3. QED
    BY Zenon, <2>1, <2>2, CountsKept
<1>3. CASE \E c \in Calls : Caller(c)
  BY Zenon, <1>3, CallerCounts
<1>4. CASE \E t \in tasks : Task(t)
  BY Zenon, <1>4, TaskCounts
<1>5. CASE ReceiveRequest
  BY Zenon, <1>5, ReceiveCounts
<1>6. CASE RegisterMethod \/ UnregisterMethod \/ Lose \/ Replay \/ RecipientLeaves
  BY ZenonT(40), <1>6, RestCounts
<1>7. QED
  BY Zenon, <1>1, <1>2, <1>3, <1>4, <1>5, <1>6 DEF Next

INSTANCE FiniteSetTheorems

\* The facts about finite sets hold.
LEMMA CountingHolds == Counting
<1>1. IsFiniteSet({}) /\ Cardinality({}) = 0
  BY Zenon, FS_EmptySet
<1>2. \A a, b \in Int : IsFiniteSet(a..b) /\ Cardinality(a..b) = IF a > b THEN 0 ELSE b - a + 1
  BY Zenon, FS_Interval
<1>3. \A S : IsFiniteSet(S) => Cardinality(S) \in Nat
  BY Zenon, FS_CardinalityType
<1>4. \A S : \A T \in SUBSET S :
          IsFiniteSet(S) => /\ IsFiniteSet(T) /\ Cardinality(T) <= Cardinality(S)
                            /\ Cardinality(S) = Cardinality(T) => S = T
  BY Zenon, FS_Subset
<1>5. \A S, x : IsFiniteSet(S) =>
          /\ IsFiniteSet(S \cup {x})
          /\ Cardinality(S \cup {x}) = IF x \in S THEN Cardinality(S) ELSE Cardinality(S) + 1
  BY Zenon, FS_AddElement
<1>6. \A S, x : IsFiniteSet(S) =>
          /\ IsFiniteSet(S \ {x})
          /\ Cardinality(S \ {x}) = IF x \in S THEN Cardinality(S) - 1 ELSE Cardinality(S)
  BY Zenon, FS_RemoveElement
<1>7. \A S, T : \A f \in Injection(S, T) : IsFiniteSet(T) =>
          /\ IsFiniteSet(S) /\ Cardinality(S) <= Cardinality(T)
          /\ Cardinality(S) = Cardinality(T) <=> f \in Surjection(S, T)
  BY Zenon, FS_Injection
<1>8. QED
  BY ZenonT(40), <1>1, <1>2, <1>3, <1>4, <1>5, <1>6, <1>7 DEF Counting

\* The counting invariant holds throughout.
THEOREM CountsInvariant == Spec => [](RpcInv /\ Counts)
<1>1. Init => RpcInv /\ Counts
  BY Zenon, RpcInit, CountsInit, CountingHolds
<1>2. RpcInv /\ Counts /\ [Next]_vars => (RpcInv /\ Counts)'
  BY Zenon, RpcStep, CountsStep, CountingHolds
<1>3. QED
  BY <1>1, <1>2, PTL DEF Spec

\* A handler is called at most once for each time the channel delivered the
\* request, and the channel delivers it once more than it was replayed.
THEOREM CalledOncePerDelivery == Spec => []OncePerDelivery
<1>1. RpcInv /\ Counts => OncePerDelivery
  <2> SUFFICES ASSUME RpcInv, Counts, NEW c \in Calls
               PROVE  invoked[c] <= copies[c] /\ copies[c] <= 1 + replayed[c]
    BY Zenon DEF OncePerDelivery
  <2>1. /\ copies[c] \in Nat /\ replayed[c] \in Nat /\ invoked[c] \in Nat /\ skipped[c] \in Nat
        /\ Cardinality(Of(toServer, c)) \in Nat /\ Unsent(c) \in {0, 1}
        /\ Cardinality(Early(tasks, c)) \in Nat
    BY Zenon, FlowTypes, OfFinite, EarlyFinite, CountingHolds DEF Counts, RestOK, Unsent
  <2>2. CountsOf(c)
    BY Zenon DEF Counts
  <2>3. QED
    BY <2>1, <2>2 DEF CountsOf
<1>2. QED
  BY <1>1, CountsInvariant, PTL

\* A result that only a run of the handler leads to means that it has run, and
\* UnsupportedMethod or UnsupportedVersion that it has not and will not, unless
\* the channel has repeated the request.
THEOREM ResultTellsTheRun == Spec => []RunAsTold
<1>1. RpcInv /\ Counts => RunAsTold
  <2> SUFFICES ASSUME RpcInv, Counts, NEW c \in Calls
               PROVE  /\ result[c] \in RunAnswers => invoked[c] # 0
                      /\ result[c] \in SkipAnswers /\ replayed[c] = 0 => invoked[c] = 0
    BY Zenon DEF RunAsTold
  <2>1. result[c] \in RunAnswers \cup SkipAnswers => Proper(c, result[c])
    <3>1. \A a \in RunAnswers \cup SkipAnswers : a \notin Local \cup {None}
      BY DEF RunAnswers, SkipAnswers, Local, None
    <3>2. result[c] # None => stage[c] = "done"
      BY Zenon DEF RpcInv, Maps, MapsOf
    <3>3. QED
      BY Zenon, <3>1, <3>2 DEF RpcInv, Flow
  <2>2. /\ copies[c] \in Nat /\ replayed[c] \in Nat /\ invoked[c] \in Nat /\ skipped[c] \in Nat
        /\ Cardinality(Of(toServer, c)) \in Nat /\ Unsent(c) \in {0, 1}
        /\ Cardinality(Early(tasks, c)) \in Nat
    BY Zenon, FlowTypes, OfFinite, EarlyFinite, CountingHolds DEF Counts, RestOK, Unsent
  <2>3. CountsOf(c)
    BY Zenon DEF Counts
  <2>4. replayed[c] = 0 /\ skipped[c] # 0 => invoked[c] = 0
    BY <2>2, <2>3 DEF CountsOf
  <2>5. QED
    BY Zenon, <2>1, <2>4 DEF Proper
<1>2. QED
  BY <1>1, CountsInvariant, PTL

\* Rpc is well typed, and a task exists only for a request that was taken
\* from the channel of a recipient that is in the room.
THEOREM RpcTypes == Spec => []TypeOK
<1>1. RpcInv /\ Counts => TypeOK
  <2> SUFFICES ASSUME RpcInv, Counts PROVE TypeOK
    BY Zenon
  <2>1. ASSUME NEW c \in Calls
        PROVE  /\ copies[c] \in 0..(MaxFaults + 1) /\ replayed[c] \in 0..(MaxFaults + 1)
               /\ invoked[c] \in 0..(MaxFaults + 1) /\ skipped[c] \in 0..(MaxFaults + 1)
    <3>1. /\ copies[c] \in Nat /\ replayed[c] \in Nat /\ invoked[c] \in Nat /\ skipped[c] \in Nat
          /\ Cardinality(Of(toServer, c)) \in Nat /\ Unsent(c) \in {0, 1}
          /\ Cardinality(Early(tasks, c)) \in Nat /\ faults \in 0..MaxFaults
      BY Zenon, FlowTypes, OfFinite, EarlyFinite, CountingHolds DEF Counts, RestOK, Unsent
    <3>2. /\ copies[c] + Cardinality(Of(toServer, c)) + Unsent(c) <= 1 + replayed[c]
          /\ invoked[c] + skipped[c] + Cardinality(Early(tasks, c)) <= copies[c]
          /\ replayed[c] <= faults
      BY Zenon DEF Counts, CountsOf
    <3>3. PICK x, y, z, w, o, u, e :
              /\ x = copies[c] /\ y = replayed[c] /\ z = invoked[c] /\ w = skipped[c]
              /\ o = Cardinality(Of(toServer, c))
              /\ u = Unsent(c) /\ e = Cardinality(Early(tasks, c))
      BY Zenon
    <3>4. /\ x \in 0..(MaxFaults + 1) /\ y \in 0..(MaxFaults + 1) /\ z \in 0..(MaxFaults + 1)
          /\ w \in 0..(MaxFaults + 1)
      BY <3>1, <3>2, <3>3, RpcAssumption
    <3>5. QED
      BY Zenon, <3>3, <3>4
  <2>2. /\ copies \in [Calls -> 0..(MaxFaults + 1)] /\ replayed \in [Calls -> 0..(MaxFaults + 1)]
        /\ invoked \in [Calls -> 0..(MaxFaults + 1)] /\ skipped \in [Calls -> 0..(MaxFaults + 1)]
    BY Zenon, <2>1, FlowTypes DEF Counts, RestOK
  <2>3. readers \subseteq Messages /\ toClient \in Seq(Messages)
    <3>1. GoodMessages \subseteq Messages
      BY Zenon DEF GoodMessages
    <3>2. readers \subseteq GoodMessages /\ toClient \in Seq(GoodMessages)
      BY Zenon DEF RpcInv, Flow
    <3>3. QED
      BY Zenon, <3>1, <3>2, SeqMonotonic
  <2>4. ASSUME NEW t \in tasks
        PROVE  /\ present /\ t.request \in Requests /\ t.copy \in 1..copies[t.request.call]
               /\ t.at \in {"ack", "read", "invoke", "running", "respond"}
               /\ t.outcome \in {None} \cup Answers /\ (t.at = "respond") = (t.outcome # None)
    BY Zenon, FlowTypes DEF Counts, RestOK, GoodTasks
  <2>5. QED
    BY Zenon, <2>2, <2>3, <2>4, FlowTypes DEF TypeOK, RpcInv, ClientOK, Counts, RestOK, Stages
<1>2. QED
  BY <1>1, CountsInvariant, PTL
=============================================================================
