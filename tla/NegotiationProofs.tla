-------------------------- MODULE NegotiationProofs --------------------------
(***************************************************************************)
(* For any number of callers, negotiations, ICE restarts and faults: one   *)
(* negotiation task at a time, no deferred offer lost, none left behind in *)
(* a peer connection that expects no answer, and every candidate buffered  *)
(* or handed over but never both.                                          *)
(***************************************************************************)
EXTENDS Negotiation, TLAPS

\* A candidate on the wire is there once, and neither buffered nor applied.
Trickled ==
    /\ \A i, j \in 1..Len(to_client) :
           to_client[i].type = "trickle" /\ to_client[i] = to_client[j] => i = j
    /\ \A i \in 1..Len(to_client) :
           to_client[i].type = "trickle"
               => to_client[i].candidate \notin pending_candidates \cup applied

NegotiationInv ==
    TypeOK /\ Trickled /\ OneNegotiationTask /\ DeferredKept /\ DeferredAwaitsAnswer

-----------------------------------------------------------------------------
(* Messages and sequences of them.                                         *)

LEMMA Messages ==
  ASSUME NEW m \in Msgs
  PROVE  /\ m.type = "answer" => m.count \in 0..MaxNeeds
         /\ m.type = "trickle" => m.candidate \in Candidates /\ m = Trickle(m.candidate)
BY DEF Msgs, Answer, Trickle

LEMMA Appended ==
  ASSUME NEW S, NEW q \in Seq(S), NEW e \in S
  PROVE  /\ Append(q, e) \in Seq(S) /\ Len(Append(q, e)) = Len(q) + 1 /\ Len(q) \in Nat
         /\ \A i \in 1..(Len(q) + 1) : Append(q, e)[i] = IF i <= Len(q) THEN q[i] ELSE e
OBVIOUS

LEMMA Tailed ==
  ASSUME NEW S, NEW q \in Seq(S), q # <<>>
  PROVE  /\ Head(q) \in S /\ Head(q) = q[1] /\ Tail(q) \in Seq(S)
         /\ Len(q) \in Nat \ {0} /\ Len(Tail(q)) = Len(q) - 1
         /\ \A i \in 1..(Len(q) - 1) : Tail(q)[i] = q[i + 1]
OBVIOUS

-----------------------------------------------------------------------------
(* Types and candidates.                                                   *)

\* TypeOK in five groups, one of which a step seldom leaves.
QueueOK ==
    /\ state \in States /\ task_running \in BOOLEAN /\ waiting_for_answer \in BOOLEAN
    /\ permit \in BOOLEAN /\ loop \in [Tasks -> LoopPcs]
CallOK ==
    /\ debouncer \in {"none", "sleep", "future", "sent"}
    /\ call \in [Callers -> {"idle", "mark", "queue"}]
    /\ wanted \in 0..MaxNeeds
OfferOK ==
    /\ pending_initial_offer \in BOOLEAN /\ renegotiate \in BOOLEAN
    /\ restarting_ice \in BOOLEAN /\ has_remote \in BOOLEAN
    /\ signaling \in {"stable", "have_local_offer", "closed"}
    /\ offered \in 0..MaxNeeds /\ to_server \in Seq(0..MaxNeeds)
    /\ accepted \in 0..MaxNeeds /\ fails \in 0..MaxFaults
CandidatesOK ==
    /\ pending_candidates \subseteq Candidates /\ applied \subseteq Candidates
    /\ applied \cap pending_candidates = {} /\ to_client \in Seq(Msgs)
HandlerOK ==
    /\ fast_publish \in BOOLEAN /\ single_pc_mode \in BOOLEAN
    /\ handler \in {"idle", "renegotiate", "notify"}
    /\ answered \in 0..MaxNeeds /\ crossed \in BOOLEAN
    /\ losses \in 0..MaxFaults /\ restarts \in 0..MaxRestarts

offerVars == <<pending_initial_offer, renegotiate, restarting_ice, has_remote, signaling,
               offered, to_server, accepted, fails>>
candidateVars == <<pending_candidates, applied, to_client>>
handlerVars == <<modeVars, handler, answered, crossed, losses, restarts>>

LEMMA TypeGroups == TypeOK <=> QueueOK /\ CallOK /\ OfferOK /\ CandidatesOK /\ HandlerOK
BY Zenon DEF TypeOK, QueueOK, CallOK, OfferOK, CandidatesOK, HandlerOK

LEMMA TypeGroupsNext == TypeOK' <=> QueueOK' /\ CallOK' /\ OfferOK' /\ CandidatesOK' /\ HandlerOK'
BY Zenon DEF TypeOK, QueueOK, CallOK, OfferOK, CandidatesOK, HandlerOK

LEMMA GroupsStay ==
  ASSUME TypeOK
  PROVE  /\ UNCHANGED queueVars => QueueOK'
         /\ UNCHANGED callVars => CallOK'
         /\ UNCHANGED offerVars => OfferOK'
         /\ UNCHANGED candidateVars => CandidatesOK'
         /\ UNCHANGED handlerVars => HandlerOK'
<1>1. QueueOK /\ CallOK /\ OfferOK /\ CandidatesOK /\ HandlerOK
  BY Zenon, TypeGroups
<1>2. UNCHANGED queueVars => QueueOK'
  BY Zenon, <1>1 DEF QueueOK, queueVars
<1>3. UNCHANGED callVars => CallOK'
  BY Zenon, <1>1 DEF CallOK, callVars
<1>4. UNCHANGED offerVars => OfferOK'
  BY Zenon, <1>1 DEF OfferOK, offerVars
<1>5. UNCHANGED candidateVars => CandidatesOK'
  BY Zenon, <1>1 DEF CandidatesOK, candidateVars
<1>6. UNCHANGED handlerVars => HandlerOK'
  BY Zenon, <1>1 DEF HandlerOK, handlerVars, modeVars
<1>7. QED
  BY Zenon, <1>2, <1>3, <1>4, <1>5, <1>6

\* What every create_and_send_offer keeps, whoever calls it.
LEMMA OfferTypes ==
  ASSUME TypeOK, NEW b \in BOOLEAN, CreateAndSendOffer(b) \/ FailToOffer(b)
  PROVE  OfferOK' /\ UNCHANGED <<pending_candidates, applied>>
<1> USE NegotiationAssumption
<1> OfferOK /\ wanted \in 0..MaxNeeds
  BY Zenon, TypeGroups DEF CallOK
<1>1. CASE CreateAndSendOffer(b)
  <2>1. Append(to_server, wanted) \in Seq(0..MaxNeeds)
    BY Zenon, Appended DEF OfferOK
  <2>2. restarting_ice' \in BOOLEAN /\ renegotiate' \in BOOLEAN
    BY <1>1, Zenon DEF CreateAndSendOffer
  <2>3. /\ signaling' \in {"stable", "have_local_offer", "closed"} /\ offered' \in 0..MaxNeeds
        /\ to_server' \in Seq(0..MaxNeeds) /\ accepted' \in 0..MaxNeeds
    BY Zenon, <1>1, <2>1 DEF OfferOK, CreateAndSendOffer
  <2>4. UNCHANGED <<pending_initial_offer, pending_candidates, has_remote, applied, fails>>
    BY Zenon, <1>1 DEF CreateAndSendOffer
  <2>5. QED
    BY Zenon, <2>2, <2>3, <2>4 DEF OfferOK
<1>2. CASE FailToOffer(b)
  <2>1. restarting_ice' \in BOOLEAN
    BY <1>2, Zenon DEF FailToOffer
  <2>2. fails' \in 0..MaxFaults
    BY <1>2, TypeGroups DEF FailToOffer, MayFail, OfferOK, HandlerOK
  <2>3. QED
    BY Zenon, <1>2, <2>1, <2>2 DEF OfferOK, FailToOffer
<1>3. QED
  BY Zenon, <1>1, <1>2

\* The steps that leave the candidates and the wire to the client alone.
QueueStep ==
    \/ \E c \in Callers : Need(c) \/ CallStep(c)
    \/ \E t \in Tasks : TaskStep(t)
    \/ DebouncerStep \/ RestartPublisher \/ OnAnswerRenegotiate \/ OnAnswerNotify \/ Close

LEMMA QueueTypes ==
  ASSUME TypeOK, QueueStep
  PROVE  TypeOK' /\ UNCHANGED candidateVars
<1> USE NegotiationAssumption
<1> SUFFICES UNCHANGED candidateVars /\ QueueOK' /\ CallOK' /\ OfferOK' /\ HandlerOK'
  BY Zenon, TypeGroupsNext, GroupsStay
<1> USE TypeGroups, GroupsStay
<1>1. ASSUME NEW c \in Callers, Need(c)
      PROVE  UNCHANGED candidateVars /\ QueueOK' /\ CallOK' /\ OfferOK' /\ HandlerOK'
  <2>1. UNCHANGED <<queueVars, offerVars, candidateVars, handlerVars>>
    BY Zenon, <1>1 DEF Need, transportVars, wireVars, offerVars, candidateVars, handlerVars
  <2>2. CallOK'
    BY <1>1 DEF Need, Debounce, CallOK
  <2>3. QED
    BY Zenon, <2>1, <2>2
<1>2. ASSUME NEW c \in Callers, MarkRetry(c)
      PROVE  UNCHANGED candidateVars /\ QueueOK' /\ CallOK' /\ OfferOK' /\ HandlerOK'
  <2>1. UNCHANGED <<offerVars, candidateVars, handlerVars>>
    BY Zenon, <1>2 DEF MarkRetry, transportVars, wireVars, offerVars, candidateVars, handlerVars
  <2>2. CallOK'
    BY Zenon, <1>2 DEF MarkRetry, CallOK
  <2>3. QueueOK'
    BY Zenon, <1>2 DEF MarkRetry, QueueOK, States
  <2>4. QED
    BY Zenon, <2>1, <2>2, <2>3
<1>3. ASSUME NEW c \in Callers, QueueNegotiation(c)
      PROVE  UNCHANGED candidateVars /\ QueueOK' /\ CallOK' /\ OfferOK' /\ HandlerOK'
  <2>1. UNCHANGED <<offerVars, candidateVars, handlerVars>>
    BY Zenon, <1>3 DEF QueueNegotiation, transportVars, wireVars, offerVars, candidateVars,
        handlerVars
  <2>2. CallOK'
    BY Zenon, <1>3 DEF QueueNegotiation, CallOK
  <2>3. QueueOK'
    BY Zenon, <1>3 DEF QueueNegotiation, QueueOK, States, LoopPcs
  <2>4. QED
    BY Zenon, <2>1, <2>2, <2>3
<1>4. ASSUME NEW t \in Tasks, TaskOffer(t)
      PROVE  UNCHANGED candidateVars /\ QueueOK' /\ CallOK' /\ OfferOK' /\ HandlerOK'
  <2>1. CreateAndSendOffer(FALSE) \/ FailToOffer(FALSE)
    BY Zenon, <1>4 DEF TaskOffer
  <2>2. OfferOK' /\ UNCHANGED <<pending_candidates, applied>>
    BY Zenon, <2>1, OfferTypes
  <2>3. UNCHANGED <<callVars, candidateVars, handlerVars>>
    BY Zenon, <1>4, <2>2 DEF TaskOffer, wireVars, candidateVars, handlerVars
  <2>4. QueueOK'
    BY Zenon, <1>4 DEF TaskOffer, Goto, QueueOK, LoopPcs
  <2>5. QED
    BY Zenon, <2>2, <2>3, <2>4
<1>5. ASSUME NEW t \in Tasks, StartWaiting(t) \/ AwaitAnswer(t) \/ StopWaiting(t)
                              \/ CheckRetry(t) \/ TaskExit(t)
      PROVE  UNCHANGED candidateVars /\ QueueOK' /\ CallOK' /\ OfferOK' /\ HandlerOK'
  <2>1. UNCHANGED <<callVars, modeVars, transportVars, wireVars, to_server, accepted, fails>>
    BY Zenon, <1>5 DEF StartWaiting, AwaitAnswer, StopWaiting, CheckRetry, TaskExit
  <2>2. UNCHANGED <<callVars, offerVars, candidateVars, handlerVars>>
    BY Zenon, <2>1 DEF transportVars, wireVars, offerVars, candidateVars, handlerVars
  <2>3. loop' \in [Tasks -> LoopPcs]
    BY Zenon, <1>5 DEF StartWaiting, AwaitAnswer, StopWaiting, CheckRetry, TaskExit, Goto,
        QueueOK, LoopPcs
  <2>4. state' \in States
    BY Zenon, <1>5 DEF StartWaiting, AwaitAnswer, StopWaiting, CheckRetry, TaskExit, QueueOK, States
  <2>5. /\ waiting_for_answer' \in BOOLEAN /\ task_running' \in BOOLEAN
        /\ permit' \in BOOLEAN
    BY Zenon, <1>5 DEF StartWaiting, AwaitAnswer, StopWaiting, CheckRetry, TaskExit, QueueOK
  <2>6. QED
    BY Zenon, <2>2, <2>3, <2>4, <2>5 DEF QueueOK
<1>6. ASSUME DebouncerStep
      PROVE  UNCHANGED candidateVars /\ QueueOK' /\ CallOK' /\ OfferOK' /\ HandlerOK'
  <2>1. OfferOK' /\ UNCHANGED <<pending_candidates, applied>>
    <3>1. CASE CreateAndSendOffer(FALSE) \/ FailToOffer(FALSE)
      BY Zenon, <3>1, OfferTypes
    <3>2. CASE UNCHANGED <<transportVars, to_server, accepted, fails>>
      BY Zenon, <3>2 DEF transportVars, offerVars
    <3>3. QED
      BY Zenon, <1>6, <3>1, <3>2 DEF DebouncerStep
  <2>2. UNCHANGED <<queueVars, candidateVars, handlerVars>>
    BY Zenon, <1>6, <2>1 DEF DebouncerStep, wireVars, candidateVars, handlerVars
  <2>3. CallOK'
    BY Zenon, <1>6 DEF DebouncerStep, CallOK
  <2>4. QED
    BY Zenon, <2>1, <2>2, <2>3
<1>7. ASSUME RestartPublisher
      PROVE  UNCHANGED candidateVars /\ QueueOK' /\ CallOK' /\ OfferOK' /\ HandlerOK'
  <2>1. OfferOK' /\ UNCHANGED <<pending_candidates, applied>>
    BY Zenon, <1>7, OfferTypes DEF RestartPublisher
  <2>2. UNCHANGED <<queueVars, callVars, candidateVars>>
    BY Zenon, <1>7, <2>1 DEF RestartPublisher, candidateVars
  <2>3. HandlerOK'
    BY <1>7 DEF RestartPublisher, HandlerOK, modeVars
  <2>4. QED
    BY Zenon, <2>1, <2>2, <2>3
<1>8. ASSUME OnAnswerRenegotiate
      PROVE  UNCHANGED candidateVars /\ QueueOK' /\ CallOK' /\ OfferOK' /\ HandlerOK'
  <2>1. CreateAndSendOffer(FALSE) \/ FailToOffer(FALSE)
    BY Zenon, <1>8 DEF OnAnswerRenegotiate
  <2>2. OfferOK' /\ UNCHANGED <<pending_candidates, applied>>
    BY Zenon, <2>1, OfferTypes
  <2>3. UNCHANGED <<queueVars, callVars, candidateVars>>
    BY Zenon, <1>8, <2>2 DEF OnAnswerRenegotiate, candidateVars
  <2>4. HandlerOK'
    BY Zenon, <1>8 DEF OnAnswerRenegotiate, HandlerOK, modeVars
  <2>5. QED
    BY Zenon, <2>2, <2>3, <2>4
<1>9. ASSUME OnAnswerNotify
      PROVE  UNCHANGED candidateVars /\ QueueOK' /\ CallOK' /\ OfferOK' /\ HandlerOK'
  <2>1. UNCHANGED <<callVars, offerVars, candidateVars>>
    BY Zenon, <1>9 DEF OnAnswerNotify, transportVars, offerVars, candidateVars
  <2>2. HandlerOK'
    BY Zenon, <1>9 DEF OnAnswerNotify, HandlerOK, modeVars
  <2>3. permit' \in BOOLEAN /\ waiting_for_answer' \in BOOLEAN
    <3>1. permit \in BOOLEAN /\ waiting_for_answer \in BOOLEAN
      BY Zenon DEF QueueOK
    <3>2. QED
      BY <1>9, <3>1, Zenon DEF OnAnswerNotify
  <2>4. QueueOK'
    BY Zenon, <1>9, <2>3 DEF OnAnswerNotify, QueueOK
  <2>5. QED
    BY Zenon, <2>1, <2>2, <2>4
<1>10. ASSUME Close
       PROVE  UNCHANGED candidateVars /\ QueueOK' /\ CallOK' /\ OfferOK' /\ HandlerOK'
  <2>1. UNCHANGED <<queueVars, callVars, candidateVars, handlerVars>>
    BY Zenon, <1>10 DEF Close, candidateVars, handlerVars
  <2>2. OfferOK'
    BY Zenon, <1>10 DEF Close, OfferOK
  <2>3. QED
    BY Zenon, <2>1, <2>2
<1>11. QED
  BY Zenon, <1>1, <1>2, <1>3, <1>4, <1>5, <1>6, <1>7, <1>8, <1>9, <1>10
     DEF QueueStep, CallStep, TaskStep

\* An arriving message is gone from the wire, the others stay as they were.
LEMMA Arrived ==
  ASSUME TypeOK, Trickled, to_client # <<>>, to_client' = Tail(to_client)
  PROVE  /\ to_client' \in Seq(Msgs) /\ Head(to_client) \in Msgs
         /\ \A i, j \in 1..Len(to_client') :
                to_client'[i].type = "trickle" /\ to_client'[i] = to_client'[j] => i = j
         /\ \A i \in 1..Len(to_client') :
                to_client'[i].type = "trickle"
                    => /\ to_client'[i].candidate \notin pending_candidates \cup applied
                       /\ to_client'[i] # Head(to_client)
<1>1. /\ Head(to_client) \in Msgs /\ Head(to_client) = to_client[1] /\ Tail(to_client) \in Seq(Msgs)
      /\ Len(to_client) \in Nat \ {0} /\ Len(Tail(to_client)) = Len(to_client) - 1
      /\ \A i \in 1..(Len(to_client) - 1) : Tail(to_client)[i] = to_client[i + 1]
  BY Tailed DEF TypeOK
<1>2. ASSUME NEW i \in 1..Len(to_client'), NEW j \in 1..Len(to_client'),
             to_client'[i].type = "trickle", to_client'[i] = to_client'[j]
      PROVE  i = j
  <2>1. i + 1 \in 1..Len(to_client) /\ j + 1 \in 1..Len(to_client)
    BY <1>1
  <2>2. to_client'[i] = to_client[i + 1] /\ to_client'[j] = to_client[j + 1]
    BY Zenon, <1>1
  <2>3. i + 1 = j + 1
    BY Zenon, <1>2, <2>1, <2>2 DEF Trickled
  <2>4. QED
    BY <2>3
<1>3. ASSUME NEW i \in 1..Len(to_client'), to_client'[i].type = "trickle"
      PROVE  /\ to_client'[i].candidate \notin pending_candidates \cup applied
             /\ to_client'[i] # Head(to_client)
  <2>1. i + 1 \in 1..Len(to_client) /\ 1 \in 1..Len(to_client) /\ i + 1 # 1
    BY <1>1
  <2>2. to_client'[i] = to_client[i + 1]
    BY Zenon, <1>1
  <2>3. QED
    BY Zenon, <1>1, <1>3, <2>1, <2>2 DEF Trickled
<1>4. to_client' \in Seq(Msgs) /\ Head(to_client) \in Msgs
  BY Zenon, <1>1
<1>5. QED
  BY Zenon, <1>2, <1>3, <1>4

\* The steps that take a message off the wire to the client or put one on it.
WireStep ==
    \/ OnAnswer \/ OnAnswerFails \/ OnTrickle \/ ServerAnswers
    \/ \E c \in Candidates : ServerTrickles(c)
    \/ Lose

LEMMA WireTypes ==
  ASSUME TypeOK, Trickled, WireStep
  PROVE  TypeOK' /\ Trickled'
<1> USE NegotiationAssumption
<1> SUFFICES Trickled' /\ QueueOK' /\ CallOK' /\ OfferOK' /\ HandlerOK' /\ CandidatesOK'
  BY Zenon, TypeGroupsNext
<1> USE TypeGroups, GroupsStay
<1>1. ASSUME OnAnswer
      PROVE  Trickled' /\ QueueOK' /\ CallOK' /\ OfferOK' /\ HandlerOK' /\ CandidatesOK'
  <2>1. UNCHANGED <<queueVars, callVars, to_server, accepted, losses, restarts, modeVars>>
    BY Zenon, <1>1 DEF OnAnswer
  <2>2. Head(to_client) \in Msgs /\ Head(to_client).count \in 0..MaxNeeds /\ to_client' \in Seq(Msgs)
    BY Zenon, <1>1, Arrived, Messages DEF OnAnswer
  <2>3. CASE SetRemoteDescription(Head(to_client).count)
    <3>1. OfferOK'
      BY Zenon, <2>1, <2>3 DEF OfferOK, SetRemoteDescription, ApplyAnswer
    <3>2. crossed' \in BOOLEAN
      BY <2>3, Zenon DEF SetRemoteDescription, ApplyAnswer
    <3>3. HandlerOK'
      BY Zenon, <2>1, <2>2, <2>3, <3>2 DEF HandlerOK, SetRemoteDescription, ApplyAnswer,
          AfterAnswer, modeVars
    <3>4. pending_candidates' \cup applied' = pending_candidates \cup applied /\ pending_candidates' = {}
      BY Zenon, <2>3 DEF SetRemoteDescription, ApplyAnswer
    <3>5. CandidatesOK'
      BY Zenon, <2>2, <3>4 DEF CandidatesOK
    <3>6. Trickled'
      BY Zenon, <1>1, <3>4, Arrived DEF Trickled, OnAnswer
    <3>7. QED
      BY Zenon, <2>1, <3>1, <3>3, <3>5, <3>6
  <2>4. CASE /\ pending_initial_offer' = FALSE
             /\ UNCHANGED <<renegotiate, restarting_ice, pending_candidates, signaling,
                            has_remote, offered, applied, handler, answered, crossed, fails>>
    <3>1. OfferOK'
      BY Zenon, <2>1, <2>4 DEF OfferOK
    <3>2. UNCHANGED handlerVars
      BY Zenon, <2>1, <2>4 DEF handlerVars
    <3>3. CandidatesOK'
      BY Zenon, <2>2, <2>4 DEF CandidatesOK
    <3>4. Trickled'
      BY Zenon, <1>1, <2>4, Arrived DEF Trickled, OnAnswer
    <3>5. QED
      BY Zenon, <2>1, <3>1, <3>2, <3>3, <3>4
  <2>5. QED
    BY Zenon, <1>1, <2>3, <2>4 DEF OnAnswer
<1>2. ASSUME OnAnswerFails
      PROVE  Trickled' /\ QueueOK' /\ CallOK' /\ OfferOK' /\ HandlerOK' /\ CandidatesOK'
  <2>1. UNCHANGED <<queueVars, callVars>>
    BY Zenon, <1>2 DEF OnAnswerFails
  <2>2. Head(to_client) \in Msgs /\ Head(to_client).count \in 0..MaxNeeds /\ to_client' \in Seq(Msgs)
    BY Zenon, <1>2, Arrived, Messages DEF OnAnswerFails
  <2>3. OfferOK'
    <3>1. fails' \in 0..MaxFaults
      <4>1. /\ fails \in 0..MaxFaults /\ losses \in 0..MaxFaults /\ fails + losses < MaxFaults
            /\ fails' = fails + 1
        BY Zenon, <1>2 DEF OnAnswerFails, OfferOK, HandlerOK, MayFail
      <4>2. QED
        BY <4>1, NegotiationAssumption
    <3>2. CASE RefuseDescription
      BY Zenon, <1>2, <3>1, <3>2 DEF OnAnswerFails, RefuseDescription, OfferOK
    <3>3. CASE RefuseCandidate(Head(to_client).count)
      BY Zenon, <1>2, <3>1, <3>3 DEF OnAnswerFails, RefuseCandidate, OfferOK
    <3>4. QED
      BY Zenon, <1>2, <3>2, <3>3 DEF OnAnswerFails
  <2>4. UNCHANGED <<modeVars, handler, losses, restarts>>
    BY Zenon, <1>2 DEF OnAnswerFails
  <2>5. HandlerOK'
    <3>1. CASE RefuseDescription
      BY Zenon, <2>4, <3>1 DEF RefuseDescription, HandlerOK, modeVars
    <3>2. CASE RefuseCandidate(Head(to_client).count)
      <4>1. crossed' \in BOOLEAN
        BY <3>2, Zenon DEF RefuseCandidate
      <4>2. answered' \in 0..MaxNeeds
        BY Zenon, <2>2, <3>2 DEF RefuseCandidate, HandlerOK
      <4>3. QED
        BY Zenon, <2>4, <4>1, <4>2 DEF HandlerOK, modeVars
    <3>3. QED
      BY Zenon, <1>2, <3>1, <3>2 DEF OnAnswerFails
  <2>6. /\ pending_candidates' \cup applied' \subseteq pending_candidates \cup applied
        /\ applied' \cap pending_candidates' = {}
    <3>1. CASE RefuseDescription
      BY Zenon, <3>1 DEF RefuseDescription, CandidatesOK
    <3>2. CASE RefuseCandidate(Head(to_client).count)
      BY Zenon, <3>2 DEF RefuseCandidate
    <3>3. QED
      BY Zenon, <1>2, <3>1, <3>2 DEF OnAnswerFails
  <2>7. CandidatesOK'
    BY Zenon, <2>2, <2>6 DEF CandidatesOK
  <2>8. Trickled'
    BY Zenon, <1>2, <2>6, Arrived DEF Trickled, OnAnswerFails
  <2>9. QED
    BY Zenon, <2>1, <2>3, <2>5, <2>7, <2>8
<1>3. ASSUME OnTrickle
      PROVE  Trickled' /\ QueueOK' /\ CallOK' /\ OfferOK' /\ HandlerOK' /\ CandidatesOK'
  <2>1. UNCHANGED <<queueVars, callVars, offerVars, handlerVars>>
    BY Zenon, <1>3 DEF OnTrickle, offerVars, handlerVars
  <2> DEFINE c == Head(to_client).candidate
  <2>2. /\ Head(to_client) \in Msgs /\ Head(to_client) = Trickle(c) /\ c \in Candidates
        /\ to_client' \in Seq(Msgs)
    BY Zenon, <1>3, Arrived, Messages DEF OnTrickle
  <2>3. /\ pending_candidates' \cup applied' = pending_candidates \cup applied \cup {c}
        /\ pending_candidates' = pending_candidates \/ applied' = applied
        /\ pending_candidates \subseteq pending_candidates' /\ applied \subseteq applied'
        /\ pending_candidates' \subseteq pending_candidates \cup {c}
        /\ applied' \subseteq applied \cup {c}
    BY Zenon, <1>3 DEF OnTrickle, AddIceCandidate
  <2>4. c \notin pending_candidates \cup applied
    <3>1. 1 \in 1..Len(to_client) /\ Head(to_client) = to_client[1]
      BY <1>3, Tailed DEF OnTrickle, CandidatesOK
    <3>2. QED
      BY Zenon, <1>3, <3>1 DEF OnTrickle, Trickled
  <2>5. CandidatesOK'
    BY Zenon, <2>2, <2>3, <2>4 DEF CandidatesOK
  <2>6. ASSUME NEW i \in 1..Len(to_client'), to_client'[i].type = "trickle"
        PROVE  to_client'[i].candidate \notin pending_candidates' \cup applied'
    <3>1. /\ to_client'[i].candidate \notin pending_candidates \cup applied
          /\ to_client'[i] # Head(to_client)
      BY Zenon, <1>3, <2>6, Arrived DEF OnTrickle
    <3>2. to_client'[i] \in Msgs
      BY <2>2
    <3>3. to_client'[i].candidate # c
      BY Zenon, <2>2, <2>6, <3>1, <3>2, Messages
    <3>4. QED
      BY Zenon, <2>3, <3>1, <3>3
  <2>7. Trickled'
    BY Zenon, <1>3, <2>6, Arrived DEF Trickled, OnTrickle
  <2>8. QED
    BY Zenon, <2>1, <2>5, <2>7
<1>4. ASSUME NEW m \in Msgs, to_client' = Append(to_client, m),
             m.type = "trickle" => /\ m.candidate \notin pending_candidates \cup applied
                                   /\ \A i \in 1..Len(to_client) : to_client[i] # m,
             UNCHANGED <<pending_candidates, applied>>
      PROVE  Trickled' /\ CandidatesOK'
  <2>1. /\ to_client' \in Seq(Msgs) /\ Len(to_client') = Len(to_client) + 1 /\ Len(to_client) \in Nat
        /\ \A i \in 1..(Len(to_client) + 1) :
               to_client'[i] = IF i <= Len(to_client) THEN to_client[i] ELSE m
    BY <1>4, Appended DEF CandidatesOK
  <2>2. CandidatesOK'
    BY Zenon, <1>4, <2>1 DEF CandidatesOK
  <2>3. ASSUME NEW i \in 1..Len(to_client'), NEW j \in 1..Len(to_client'),
               to_client'[i].type = "trickle", to_client'[i] = to_client'[j]
        PROVE  i = j
    BY <1>4, <2>1, <2>3 DEF Trickled
  <2>4. ASSUME NEW i \in 1..Len(to_client'), to_client'[i].type = "trickle"
        PROVE  to_client'[i].candidate \notin pending_candidates' \cup applied'
    BY <1>4, <2>1, <2>4 DEF Trickled
  <2>5. QED
    BY Zenon, <2>2, <2>3, <2>4 DEF Trickled
<1>5. ASSUME ServerAnswers
      PROVE  Trickled' /\ QueueOK' /\ CallOK' /\ OfferOK' /\ HandlerOK' /\ CandidatesOK'
  <2>1. UNCHANGED <<queueVars, callVars, handlerVars, transportVars, accepted, fails>>
    BY Zenon, <1>5 DEF ServerAnswers, handlerVars
  <2>2. Head(to_server) \in 0..MaxNeeds /\ to_server' \in Seq(0..MaxNeeds)
    BY Zenon, <1>5, Tailed DEF ServerAnswers, OfferOK
  <2>3. Answer(Head(to_server)) \in Msgs /\ Answer(Head(to_server)).type # "trickle"
    BY Zenon, <2>2 DEF Msgs, Answer
  <2>4. OfferOK' /\ UNCHANGED <<pending_candidates, applied>>
    BY Zenon, <2>1, <2>2 DEF OfferOK, transportVars
  <2>5. Trickled' /\ CandidatesOK'
    BY Zenon, <1>4, <1>5, <2>3, <2>4 DEF ServerAnswers
  <2>6. QED
    BY Zenon, <2>1, <2>4, <2>5
<1>6. ASSUME NEW c \in Candidates, ServerTrickles(c)
      PROVE  Trickled' /\ QueueOK' /\ CallOK' /\ OfferOK' /\ HandlerOK' /\ CandidatesOK'
  <2>1. UNCHANGED <<queueVars, callVars, handlerVars, offerVars, pending_candidates, applied>>
    BY Zenon, <1>6 DEF ServerTrickles, handlerVars, transportVars, offerVars
  <2>2. Trickle(c) \in Msgs /\ Trickle(c).candidate = c
    BY Zenon DEF Msgs, Trickle
  <2>3. Trickled' /\ CandidatesOK'
    BY Zenon, <1>4, <1>6, <2>1, <2>2 DEF ServerTrickles
  <2>4. QED
    BY Zenon, <2>1, <2>3
<1>7. ASSUME Lose
      PROVE  Trickled' /\ QueueOK' /\ CallOK' /\ OfferOK' /\ HandlerOK' /\ CandidatesOK'
  <2>1. UNCHANGED <<queueVars, callVars, transportVars, modeVars, handler, accepted, answered,
                    crossed, fails, restarts>>
    BY Zenon, <1>7 DEF Lose
  <2>2. HandlerOK'
    <3>1. /\ fails \in 0..MaxFaults /\ losses \in 0..MaxFaults /\ fails + losses < MaxFaults
          /\ losses' = losses + 1
      BY Zenon, <1>7 DEF Lose, HandlerOK, MayFail, OfferOK
    <3>2. losses' \in 0..MaxFaults
      BY <3>1, NegotiationAssumption
    <3>3. QED
      BY Zenon, <2>1, <3>2 DEF HandlerOK, modeVars
  <2>3. CASE to_server # <<>> /\ to_server' = Tail(to_server) /\ UNCHANGED to_client
    <3>1. to_server' \in Seq(0..MaxNeeds)
      BY Zenon, <2>3, Tailed DEF OfferOK
    <3>2. OfferOK'
      BY Zenon, <2>1, <3>1 DEF OfferOK, transportVars
    <3>3. UNCHANGED candidateVars
      BY Zenon, <2>1, <2>3 DEF candidateVars, transportVars
    <3>4. Trickled'
      BY Zenon, <3>3 DEF candidateVars, Trickled
    <3>5. QED
      BY Zenon, <2>1, <2>2, <3>2, <3>3, <3>4
  <2>4. CASE to_client # <<>> /\ to_client' = Tail(to_client) /\ UNCHANGED to_server
    <3>1. UNCHANGED <<offerVars, pending_candidates, applied>>
      BY Zenon, <2>1, <2>4 DEF offerVars, transportVars
    <3>2. CandidatesOK' /\ Trickled'
      BY Zenon, <2>4, <3>1, Arrived DEF CandidatesOK, Trickled
    <3>3. QED
      BY Zenon, <2>1, <2>2, <3>1, <3>2
  <2>5. QED
    BY Zenon, <1>7, <2>3, <2>4 DEF Lose
<1>8. QED
  BY Zenon, <1>1, <1>2, <1>3, <1>5, <1>6, <1>7 DEF WireStep

-----------------------------------------------------------------------------
(* One task at a time.                                                     *)

LEMMA OneTask ==
  ASSUME TypeOK, OneNegotiationTask, [Next]_vars
  PROVE  OneNegotiationTask'
<1> loop \in [Tasks -> LoopPcs] /\ task_running \in BOOLEAN
  BY Zenon DEF TypeOK
<1>1. ASSUME UNCHANGED <<loop, task_running>> PROVE OneNegotiationTask'
  BY Zenon, <1>1 DEF OneNegotiationTask, Running
<1>2. ASSUME NEW c \in Callers, QueueNegotiation(c) PROVE OneNegotiationTask'
  <2>1. CASE state = "Idle" /\ ~task_running
    <3>1. \A t \in Tasks : loop[t] = "none"
      BY Zenon, <2>1 DEF OneNegotiationTask, Running
    <3>2. PICK t \in FreshTask : loop' = [loop EXCEPT ![t] = "start"]
      BY Zenon, <1>2, <2>1 DEF QueueNegotiation
    <3>3. task_running'
      BY Zenon, <1>2, <2>1 DEF QueueNegotiation
    <3>4. \A u \in Tasks : loop'[u] # "none" => u = t
      BY Zenon, <3>1, <3>2
    <3>5. QED
      BY Zenon, <3>3, <3>4 DEF OneNegotiationTask, Running
  <2>2. CASE ~(state = "Idle" /\ ~task_running)
    BY Zenon, <1>1, <1>2, <2>2 DEF QueueNegotiation
  <2>3. QED
    BY Zenon, <2>1, <2>2
<1>3. ASSUME NEW t \in Tasks, NEW pc \in LoopPcs \ {"none"}, Running(t), Goto(t, pc),
             UNCHANGED task_running
      PROVE  OneNegotiationTask'
  <2>1. \A u \in Tasks : loop'[u] # "none" <=> loop[u] # "none"
    BY Zenon, <1>3 DEF Goto, Running
  <2>2. QED
    BY Zenon, <1>3, <2>1 DEF OneNegotiationTask, Running
<1>4. ASSUME NEW t \in Tasks, TaskStep(t) PROVE OneNegotiationTask'
  <2>1. CASE TaskExit(t)
    <3>1. \A u \in Tasks : loop'[u] = "none"
      BY Zenon, <2>1 DEF TaskExit, Goto, OneNegotiationTask, Running
    <3>2. QED
      BY Zenon, <3>1 DEF OneNegotiationTask, Running
  <2>2. CASE TaskOffer(t)
    <3>1. /\ Running(t) /\ UNCHANGED task_running
          /\ Goto(t, "await") \/ Goto(t, "unwait")
      BY Zenon, <2>2 DEF TaskOffer, Running
    <3>2. QED
      BY Zenon, <1>3, <3>1 DEF LoopPcs
  <2>3. CASE StartWaiting(t) \/ AwaitAnswer(t) \/ StopWaiting(t) \/ CheckRetry(t)
    <3>1. /\ Running(t) /\ UNCHANGED task_running
          /\ \/ Goto(t, "offer") \/ Goto(t, "check") \/ Goto(t, "unwait")
             \/ Goto(t, "start") \/ Goto(t, "exit")
      BY Zenon, <2>3 DEF StartWaiting, AwaitAnswer, StopWaiting, CheckRetry, Running
    <3>2. QED
      BY Zenon, <1>3, <3>1 DEF LoopPcs
  <2>4. QED
    BY Zenon, <1>4, <2>1, <2>2, <2>3 DEF TaskStep
<1>5. ASSUME NEW c \in Callers, Need(c) \/ MarkRetry(c) PROVE OneNegotiationTask'
  BY Zenon, <1>1, <1>5 DEF Need, MarkRetry, queueVars
<1>6. ASSUME DebouncerStep \/ RestartPublisher \/ OnAnswer \/ OnAnswerRenegotiate
             \/ OnAnswerNotify \/ OnTrickle \/ OnAnswerFails \/ ServerAnswers \/ Lose \/ Close
      PROVE  OneNegotiationTask'
  BY Zenon, <1>1, <1>6 DEF DebouncerStep, RestartPublisher, OnAnswer, OnAnswerRenegotiate,
      OnAnswerNotify,
                    OnTrickle, OnAnswerFails, ServerAnswers, Lose, Close, queueVars
<1>7. ASSUME NEW c \in Candidates, ServerTrickles(c) PROVE OneNegotiationTask'
  BY Zenon, <1>1, <1>7 DEF ServerTrickles, queueVars
<1>8. CASE UNCHANGED vars
  BY Zenon, <1>1, <1>8 DEF vars, queueVars
<1>9. QED
  BY Zenon, <1>2, <1>4, <1>5, <1>6, <1>7, <1>8 DEF Next, CallStep, SignalStep

-----------------------------------------------------------------------------
(* Deferred offers.                                                        *)

\* Whoever calls create_and_send_offer: the offer goes out, or is remembered
\* while an answer is expected, or failed, or the connection is closed.
LEMMA OfferKept ==
  ASSUME TypeOK, NEW b \in BOOLEAN, CreateAndSendOffer(b) \/ FailToOffer(b), DeferredAwaitsAnswer
  PROVE  DeferredKept' /\ DeferredAwaitsAnswer'
<1> fails \in Nat /\ wanted \in Nat
  BY NegotiationAssumption DEF TypeOK
<1>1. CASE FailToOffer(b)
  BY <1>1 DEF FailToOffer, DeferredKept, DeferredAwaitsAnswer
<1>2. CASE CreateAndSendOffer(b) /\ Deferred(b)
  <2>1. renegotiate' /\ UNCHANGED <<signaling, pending_initial_offer>>
    BY Zenon, <1>2 DEF CreateAndSendOffer
  <2>2. ExpectsAnswer'
    BY Zenon, <1>2, <2>1 DEF Deferred, ExpectsAnswer
  <2>3. QED
    BY Zenon, <2>1, <2>2 DEF DeferredKept, DeferredAwaitsAnswer
<1>3. CASE CreateAndSendOffer(b) /\ signaling = "closed"
  BY Zenon, <1>3 DEF CreateAndSendOffer, DeferredKept, DeferredAwaitsAnswer
<1>4. CASE CreateAndSendOffer(b) /\ ~Deferred(b) /\ signaling # "closed"
  BY <1>4 DEF CreateAndSendOffer, DeferredKept, DeferredAwaitsAnswer, ExpectsAnswer
<1>5. QED
  BY Zenon, <1>1, <1>2, <1>3, <1>4

LEMMA Deferrals ==
  ASSUME TypeOK, DeferredKept, DeferredAwaitsAnswer, [Next]_vars
  PROVE  DeferredKept' /\ DeferredAwaitsAnswer'
<1> DEFINE seen == <<accepted, offered, renegotiate, fails, signaling, pending_initial_offer>>
<1>1. ASSUME UNCHANGED <<seen, handler>> PROVE DeferredKept' /\ DeferredAwaitsAnswer'
  BY Zenon, <1>1 DEF DeferredKept, DeferredAwaitsAnswer, ExpectsAnswer
<1>2. ASSUME NEW c \in Callers, Need(c) \/ MarkRetry(c) \/ QueueNegotiation(c)
      PROVE  DeferredKept' /\ DeferredAwaitsAnswer'
  BY Zenon, <1>1, <1>2 DEF Need, MarkRetry, QueueNegotiation, transportVars, wireVars
<1>3. ASSUME NEW t \in Tasks, TaskStep(t) PROVE DeferredKept' /\ DeferredAwaitsAnswer'
  <2>1. CASE TaskOffer(t)
    BY Zenon, <2>1, OfferKept DEF TaskOffer
  <2>2. CASE StartWaiting(t) \/ AwaitAnswer(t) \/ StopWaiting(t) \/ CheckRetry(t) \/ TaskExit(t)
    BY Zenon, <1>1, <2>2 DEF StartWaiting, AwaitAnswer, StopWaiting, CheckRetry, TaskExit,
                      transportVars, wireVars
  <2>3. QED
    BY Zenon, <1>3, <2>1, <2>2 DEF TaskStep
<1>4. ASSUME DebouncerStep PROVE DeferredKept' /\ DeferredAwaitsAnswer'
  <2>1. CASE CreateAndSendOffer(FALSE) \/ FailToOffer(FALSE)
    BY Zenon, <2>1, OfferKept
  <2>2. CASE UNCHANGED <<transportVars, to_server, accepted, fails>>
    BY Zenon, <1>1, <1>4, <2>2 DEF DebouncerStep, transportVars, wireVars
  <2>3. QED
    BY Zenon, <1>4, <2>1, <2>2 DEF DebouncerStep
<1>5. ASSUME RestartPublisher \/ OnAnswerRenegotiate PROVE DeferredKept' /\ DeferredAwaitsAnswer'
  BY Zenon, <1>5, OfferKept DEF RestartPublisher, OnAnswerRenegotiate
<1>6. ASSUME OnAnswer PROVE DeferredKept' /\ DeferredAwaitsAnswer'
  <2>1. handler = "idle" /\ UNCHANGED accepted
    BY Zenon, <1>6 DEF OnAnswer
  <2>2. CASE SetRemoteDescription(Head(to_client).count) /\ signaling # "closed"
    <3>1. /\ ~renegotiate' /\ UNCHANGED <<offered, fails>>
          /\ renegotiate => handler' = "renegotiate"
      BY Zenon, <2>2 DEF SetRemoteDescription, ApplyAnswer, AfterAnswer
    <3>2. QED
      BY Zenon, <2>1, <2>2, <3>1 DEF DeferredKept, DeferredAwaitsAnswer
  <2>3. CASE /\ ~(ExpectsAnswer /\ signaling # "closed")
             /\ UNCHANGED <<renegotiate, signaling, offered, handler, fails>>
    BY Zenon, <2>1, <2>3 DEF DeferredKept, DeferredAwaitsAnswer
  <2>4. QED
    BY Zenon, <1>6, <2>2, <2>3 DEF OnAnswer
<1>7. ASSUME OnAnswerFails PROVE DeferredKept' /\ DeferredAwaitsAnswer'
  <2>1. fails' > 0
    BY <1>7, NegotiationAssumption DEF OnAnswerFails, TypeOK
  <2>2. QED
    BY Zenon, <2>1 DEF DeferredKept, DeferredAwaitsAnswer
<1>8. ASSUME OnAnswerNotify PROVE DeferredKept' /\ DeferredAwaitsAnswer'
  BY Zenon, <1>8 DEF OnAnswerNotify, transportVars, DeferredKept, DeferredAwaitsAnswer, ExpectsAnswer
<1>9. ASSUME OnTrickle \/ ServerAnswers \/ Lose PROVE DeferredKept' /\ DeferredAwaitsAnswer'
  BY Zenon, <1>1, <1>9 DEF OnTrickle, ServerAnswers, Lose, transportVars
<1>10. ASSUME NEW c \in Candidates, ServerTrickles(c) PROVE DeferredKept' /\ DeferredAwaitsAnswer'
  BY Zenon, <1>1, <1>10 DEF ServerTrickles, transportVars
<1>11. ASSUME Close PROVE DeferredKept' /\ DeferredAwaitsAnswer'
  BY Zenon, <1>11 DEF Close, DeferredKept, DeferredAwaitsAnswer
<1>12. CASE UNCHANGED vars
  BY Zenon, <1>1, <1>12 DEF vars, transportVars
<1>13. QED
  BY Zenon, <1>2, <1>3, <1>4, <1>5, <1>6, <1>7, <1>8, <1>9, <1>10, <1>11, <1>12
     DEF Next, CallStep, SignalStep

-----------------------------------------------------------------------------
(* The theorems.                                                           *)

\* The conjunction is inductive: it holds at first and every step keeps it.
THEOREM NegotiationInvariant == Spec => []NegotiationInv
<1> USE NegotiationAssumption
<1>1. Init => NegotiationInv
  <2> SUFFICES ASSUME Init PROVE NegotiationInv
    BY Zenon
  <2>1. QueueOK /\ CallOK /\ OfferOK /\ CandidatesOK /\ HandlerOK
    <3>1. QueueOK
      BY Zenon DEF Init, QueueOK, States, LoopPcs
    <3>2. 0 \in 0..MaxNeeds /\ 0 \in 0..MaxFaults /\ 0 \in 0..MaxRestarts
      OBVIOUS
    <3>3. to_server \in Seq(0..MaxNeeds)
      <4>1. <<>> \in Seq(0..MaxNeeds) /\ <<0>> \in Seq(0..MaxNeeds)
        BY <3>2
      <4>2. to_server = <<>> \/ to_server = <<0>>
        BY Zenon DEF Init
      <4>3. QED
        BY Zenon, <4>1, <4>2
    <3>4. pending_initial_offer \in BOOLEAN /\ renegotiate \in BOOLEAN
          /\ restarting_ice \in BOOLEAN /\ has_remote \in BOOLEAN
      BY Zenon DEF Init
    <3>5. OfferOK
      BY Zenon, <3>2, <3>3, <3>4 DEF Init, OfferOK
    <3>6. CallOK
      BY Zenon, <3>2 DEF Init, CallOK
    <3>7. CandidatesOK
      BY DEF Init, CandidatesOK
    <3>8. HandlerOK
      BY Zenon, <3>2 DEF Init, HandlerOK
    <3>9. QED
      BY Zenon, <3>1, <3>5, <3>6, <3>7, <3>8
  <2>2. Trickled
    BY DEF Init, Trickled
  <2>3. OneNegotiationTask /\ DeferredKept /\ DeferredAwaitsAnswer
    BY DEF Init, OneNegotiationTask, Running, DeferredKept, DeferredAwaitsAnswer
  <2>4. QED
    BY Zenon, <2>1, <2>2, <2>3, TypeGroups DEF NegotiationInv
<1>2. NegotiationInv /\ [Next]_vars => NegotiationInv'
  <2> SUFFICES ASSUME NegotiationInv, [Next]_vars PROVE NegotiationInv'
    BY Zenon
  <2>1. TypeOK' /\ Trickled'
    <3>1. CASE QueueStep
      <4>1. TypeOK' /\ UNCHANGED candidateVars
        BY Zenon, <3>1, QueueTypes DEF NegotiationInv
      <4>2. QED
        BY Zenon, <4>1 DEF NegotiationInv, Trickled, candidateVars
    <3>2. CASE WireStep
      BY Zenon, <3>2, WireTypes DEF NegotiationInv
    <3>3. CASE UNCHANGED vars
      <4>1. UNCHANGED <<queueVars, callVars, offerVars, candidateVars, handlerVars>>
        BY Zenon, <3>3 DEF vars, transportVars, offerVars, candidateVars, handlerVars
      <4>2. TypeOK'
        BY Zenon, <4>1, GroupsStay, TypeGroupsNext DEF NegotiationInv
      <4>3. QED
        BY Zenon, <4>1, <4>2 DEF NegotiationInv, Trickled, candidateVars
    <3>4. QED
      BY Zenon, <3>1, <3>2, <3>3 DEF Next, QueueStep, WireStep, SignalStep
  <2>2. QED
    BY Zenon, <2>1, OneTask, Deferrals DEF NegotiationInv
<1>3. QED
  BY <1>1, <1>2, PTL DEF Spec

\* queue_negotiation never starts a second task beside a running one.
THEOREM OneTaskOnly == Spec => []OneNegotiationTask
<1>1. NegotiationInv => OneNegotiationTask
  BY Zenon DEF NegotiationInv
<1>2. QED
  BY <1>1, NegotiationInvariant, PTL

\* What create_and_send_offer put off is never forgotten.
THEOREM DeferredNotLost == Spec => []DeferredKept
<1>1. NegotiationInv => DeferredKept
  BY Zenon DEF NegotiationInv
<1>2. QED
  BY <1>1, NegotiationInvariant, PTL

\* What it put off waits only while set_remote_description will look at it.
THEOREM DeferredIsSeen == Spec => []DeferredAwaitsAnswer
<1>1. NegotiationInv => DeferredAwaitsAnswer
  BY Zenon DEF NegotiationInv
<1>2. QED
  BY <1>1, NegotiationInvariant, PTL

\* The types; in particular no candidate is handed over and still buffered.
THEOREM NegotiationTypes == Spec => []TypeOK
<1>1. NegotiationInv => TypeOK
  BY Zenon DEF NegotiationInv
<1>2. QED
  BY <1>1, NegotiationInvariant, PTL
=============================================================================
