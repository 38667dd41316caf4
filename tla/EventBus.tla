------------------------------ MODULE EventBus ------------------------------
(***************************************************************************)
(* LocalEventBus: publish() chains every envelope behind the previous one  *)
(* of its source and topic, dispatches it to the handlers subscribed at    *)
(* that moment, waits for all of them or for their timeouts, reports the   *)
(* failures on the dead letter topic and only then settles.  Handlers may  *)
(* fail, hang, outlive their timeout, and publish and await events         *)
(* themselves, on the very queue they are served from.                     *)
(*                                                                         *)
(* Its request() and once() share no state with that.  A request walks the *)
(* array of responders it found when it started and stops at the first     *)
(* that answers.  respond() appends to that same array, so the walk may    *)
(* reach newcomers; removal and dispose() replace or drop the array, and   *)
(* the walk goes on over the old one.                                      *)
(***************************************************************************)
EXTENDS SequencesExt, FiniteSetsExt

CONSTANTS
  Handlers,     \* subscribers
  FailPublish,  \* those registered with errorMode "fail-publish"
  Sources,      \* publishers of Topic
  MaxPublish,   \* bound: envelopes published on Topic
  Responders    \* those that may answer a request

VARIABLES
  subscribed,  \* handlers: the topic each handler is subscribed to; a
               \* registration is removed for good
  envelopes,   \* every envelope in publish order, with the dispatch it is in
  queueTail,   \* publishQueues: the last envelope of each source and topic
  disposals    \* calls of dispose()

busVars == <<subscribed, envelopes, queueTail, disposals>>

Topic == "topic"
DeadLetter == "core.event.deadLettered"
Keys == (Sources \X {Topic}) \cup {<<"core", DeadLetter>>}
EnvelopeIds == 1..(2 * MaxPublish)

\* One handler's part of one dispatch: its result, and the publish its
\* code awaits.  A filter that refuses the envelope leaves it out.
Invocation(result) == [result |-> result, awaits |-> 0]

filterThrew(e) == \E h \in Handlers : envelopes[e].inv[h].result = "filterThrew"
settled(e) == envelopes[e].state \in {"resolved", "rejected"}
failed(e) == {h \in Handlers : envelopes[e].inv[h].result \in {"failed", "timedOut"}}
running(e) == {h \in Handlers : envelopes[e].inv[h].result = "running"}
subscribers(e) == {h \in Handlers : subscribed[h] = envelopes[e].key[2]}
mayPublish == Cardinality({e \in DOMAIN envelopes : envelopes[e].key[2] = Topic}) < MaxPublish

createEnvelope(key, cause) ==
  [key |-> key, cause |-> cause, prev |-> queueTail[key], epoch |-> disposals,
   state |-> "queued", dead |-> 0, inv |-> [h \in Handlers |-> Invocation("none")]]

\* Queue an envelope behind the last one of its key, in the bus state `now`.
Enqueue(now, key, cause) ==
  /\ envelopes' = Append(now, createEnvelope(key, cause))
  /\ queueTail' = [queueTail EXCEPT ![key] = Len(now) + 1]

publish(s) ==
  /\ mayPublish
  /\ Enqueue(envelopes, <<s, Topic>>, 0)
  /\ UNCHANGED <<subscribed, disposals>>

Subscribe(h, topic) ==
  /\ subscribed[h] = "none"
  /\ subscribed' = [subscribed EXCEPT ![h] = topic]
  /\ UNCHANGED <<envelopes, queueTail, disposals>>

Unsubscribe(h) ==
  /\ subscribed[h] \in {Topic, DeadLetter}
  /\ subscribed' = [subscribed EXCEPT ![h] = "removed"]
  /\ UNCHANGED <<envelopes, queueTail, disposals>>

\* previous.catch(...).then(...): a rejected predecessor releases its successor.
previousDone(e) == envelopes[e].prev # 0 => settled(envelopes[e].prev)

(* dispatchEnvelope, invokeHandler: the handlers of this moment are called *)
(* at once, but for those whose filter refuses the envelope.  A filter that *)
(* throws is caught nowhere: it rejects the dispatch while the handlers     *)
(* that were called run on unobserved.                                      *)
Dispatch(e) ==
  /\ envelopes[e].state = "queued" /\ previousDone(e)
  /\ \E called \in SUBSET subscribers(e) : \E threw \in SUBSET (subscribers(e) \ called) :
       envelopes' = [envelopes EXCEPT
         ![e].state = IF threw = {} THEN "dispatching" ELSE "rejected",
         ![e].inv = [h \in Handlers |-> Invocation(IF h \in called THEN "running"
                                          ELSE IF h \in threw THEN "filterThrew" ELSE "none")]]
  /\ UNCHANGED <<subscribed, queueTail, disposals>>

\* The handler's code ends in time.
HandlerEnds(e, h, result) ==
  /\ envelopes[e].inv[h] = Invocation("running")
  /\ envelopes' = [envelopes EXCEPT ![e].inv[h].result = result]
  /\ UNCHANGED <<subscribed, queueTail, disposals>>

\* The handler publishes an event and awaits its result.
HandlerPublishes(e, h, s) ==
  /\ envelopes[e].inv[h] = Invocation("running") /\ mayPublish
  /\ Enqueue([envelopes EXCEPT ![e].inv[h].awaits = Len(envelopes) + 1], <<s, Topic>>, 0)
  /\ UNCHANGED <<subscribed, disposals>>

\* The awaited publish has settled; a rejected one fails the handler.
HandlerResumes(e, h) ==
  LET awaits == envelopes[e].inv[h].awaits IN
  /\ awaits # 0 /\ settled(awaits)
  /\ envelopes' = [envelopes EXCEPT ![e].inv[h] =
       Invocation(IF envelopes[awaits].state = "resolved" THEN "running" ELSE "failed")]
  /\ UNCHANGED <<subscribed, queueTail, disposals>>

\* Mutant: the timeout covers the handler's own code, not what it awaits.
withTimeoutWorking(e, h) ==
  /\ envelopes[e].inv[h] = Invocation("running")
  /\ envelopes' = [envelopes EXCEPT ![e].inv[h] = Invocation("timedOut")]
  /\ UNCHANGED <<subscribed, queueTail, disposals>>

(* withTimeout: the bus stops waiting.  The handler's code goes on, and    *)
(* reaches the bus only by publishing, as publish() does.                    *)
withTimeout(e, h) ==
  /\ envelopes[e].inv[h].result = "running"
  /\ envelopes' = [envelopes EXCEPT ![e].inv[h] = Invocation("timedOut")]
  /\ UNCHANGED <<subscribed, queueTail, disposals>>

outcome(e) == IF failed(e) \cap FailPublish = {} THEN "resolved" ELSE "rejected"

emitDeadLetter(e) ==
  /\ envelopes[e].state = "dispatching" /\ running(e) = {}
  /\ failed(e) # {} /\ envelopes[e].key[2] # DeadLetter
  /\ Enqueue([envelopes EXCEPT ![e].state = "reporting", ![e].dead = Len(envelopes) + 1],
             <<"core", DeadLetter>>, e)
  /\ UNCHANGED <<subscribed, disposals>>

\* Mutant: the publish settles while its dead letter is still queued.
SettleEarly(e) ==
  /\ envelopes[e].state \in {"dispatching", "reporting"} /\ running(e) = {}
  /\ envelopes[e].state = "dispatching" => failed(e) = {} \/ envelopes[e].key[2] = DeadLetter
  /\ envelopes' = [envelopes EXCEPT ![e].state = outcome(e)]
  /\ UNCHANGED <<subscribed, queueTail, disposals>>

(* The publish settles: after the dead letter, if there was one, and with  *)
(* its error if that publish was rejected.                                 *)
Settle(e) ==
  LET dead == envelopes[e].dead IN
  /\ \/ /\ envelopes[e].state = "dispatching" /\ running(e) = {}
        /\ failed(e) = {} \/ envelopes[e].key[2] = DeadLetter
     \/ envelopes[e].state = "reporting" /\ settled(dead)
  /\ envelopes' = [envelopes EXCEPT ![e].state =
       IF dead # 0 /\ envelopes[dead].state = "rejected" THEN "rejected" ELSE outcome(e)]
  /\ UNCHANGED <<subscribed, queueTail, disposals>>

\* Handlers and queue tails are forgotten; what is queued or running goes on.
dispose ==
  /\ disposals = 0 /\ disposals' = 1
  /\ subscribed' = [h \in Handlers |-> "removed"]
  /\ queueTail' = [k \in Keys |-> 0]
  /\ UNCHANGED envelopes

BusInit ==
  /\ subscribed = [h \in Handlers |-> "none"]
  /\ envelopes = <<>> /\ queueTail = [k \in Keys |-> 0]
  /\ disposals = 0

BusTurn(e) == Dispatch(e) \/ emitDeadLetter(e) \/ Settle(e)
HandlerTurn(e, h) == withTimeout(e, h) \/ HandlerResumes(e, h)

BusNext ==
  \/ \E s \in Sources : publish(s)
  \/ \E h \in Handlers, t \in {Topic, DeadLetter} : Subscribe(h, t)
  \/ \E h \in Handlers : Unsubscribe(h)
  \/ \E e \in DOMAIN envelopes : BusTurn(e)
  \/ \E e \in DOMAIN envelopes, h \in Handlers :
       \/ HandlerTurn(e, h)
       \/ \E r \in {"completed", "failed"} : HandlerEnds(e, h, r)
       \/ \E s \in Sources : HandlerPublishes(e, h, s)
  \/ dispose

(* The event loop runs continuations and timers.  Nothing makes a handler's *)
(* code end, nor anybody publish.                                           *)
BusFairness ==
  /\ \A e \in EnvelopeIds : WF_busVars(e \in DOMAIN envelopes /\ BusTurn(e))
  /\ \A e \in EnvelopeIds, h \in Handlers : WF_busVars(e \in DOMAIN envelopes /\ withTimeout(e, h))
-----------------------------------------------------------------------------
(* Requests and once(). *)

VARIABLES
  responders,  \* the registered responders, in registration order
  request,     \* one request() call
  once         \* one once() call with a timeout

requestVars == <<responders, request, once>>

NoRequest == [state |-> "idle", list |-> <<>>, at |-> 0, live |-> FALSE,
              asked |-> {}, stayed |-> {}]

\* Of the request, "list" is the array the request walks, "live"
\* says whether it is still the registered one, "asked" and "stayed" record
\* who was called and who has been registered since the start.
respond(r) ==
  /\ r \notin ToSet(responders) /\ r \notin ToSet(request.list)
  /\ responders' = Append(responders, r)
  /\ request' = IF request.live THEN [request EXCEPT !.list = Append(@, r)] ELSE request
  /\ UNCHANGED once

removeResponder(r) ==
  /\ \E i \in DOMAIN responders : responders[i] = r /\ responders' = RemoveAt(responders, i)
  /\ request' = [request EXCEPT !.stayed = @ \ {r}, !.live = FALSE]
  /\ UNCHANGED once

StartRequest ==
  /\ request = NoRequest
  /\ request' = [state |-> "walking", list |-> responders, at |-> 0, live |-> TRUE,
                 asked |-> {}, stayed |-> ToSet(responders)]
  /\ UNCHANGED <<responders, once>>

(* The next responder is called; one whose filter refuses is passed over.  *)
Ask(refuses) ==
  /\ request.state = "walking" /\ request.at < Len(request.list)
  /\ request' = [request EXCEPT !.at = @ + 1,
       !.asked = @ \cup {request.list[request.at + 1]},
       !.state = IF refuses THEN "walking" ELSE "asking"]
  /\ UNCHANGED <<responders, once>>

\* The filter is called outside the try: throwing, it rejects the request.
FilterThrows ==
  /\ request.state = "walking" /\ request.at < Len(request.list)
  /\ request' = [request EXCEPT !.state = "filterThrew", !.live = FALSE]
  /\ UNCHANGED <<responders, once>>

ResponderAnswers ==
  /\ request.state = "asking"
  /\ request' = [request EXCEPT !.state = "answered", !.live = FALSE]
  /\ UNCHANGED <<responders, once>>

\* It throws, or its timeout expires; a late answer is nobody's.
ResponderFails ==
  /\ request.state = "asking"
  /\ request' = [request EXCEPT !.state = "walking"]
  /\ UNCHANGED <<responders, once>>

NoResponder ==
  /\ request.state = "walking" /\ request.at >= Len(request.list)
  /\ request' = [request EXCEPT !.state = "noResponder", !.live = FALSE]
  /\ UNCHANGED <<responders, once>>

onceStarts ==
  /\ once = "idle" /\ once' = "waiting"
  /\ UNCHANGED <<responders, request>>

\* The handler unsubscribes itself, clears the timer and resolves.
onceDelivered ==
  /\ once = "waiting" /\ once' = "resolved"
  /\ UNCHANGED <<responders, request>>

\* An aborted signal removes the handler and leaves the promise to its timer.
onceAborted ==
  /\ once = "waiting" /\ once' = "unsubscribed"
  /\ UNCHANGED <<responders, request>>

onceTimesOut ==
  /\ once \in {"waiting", "unsubscribed"} /\ once' = "rejected"
  /\ UNCHANGED <<responders, request>>

disposeWaits ==
  /\ responders # <<>> \/ once = "waiting"
  /\ responders' = <<>>
  /\ request' = [request EXCEPT !.stayed = {}, !.live = FALSE]
  /\ once' = IF once = "waiting" THEN "unsubscribed" ELSE once

RequestInit == responders = <<>> /\ request = NoRequest /\ once = "idle"

RequestNext ==
  \/ \E r \in Responders : respond(r) \/ removeResponder(r)
  \/ StartRequest \/ (\E refuses \in BOOLEAN : Ask(refuses)) \/ FilterThrows
  \/ ResponderAnswers \/ ResponderFails \/ NoResponder
  \/ onceStarts \/ onceDelivered \/ onceAborted \/ onceTimesOut
  \/ disposeWaits

RequestFairness ==
  /\ WF_requestVars((\E refuses \in BOOLEAN : Ask(refuses)) \/ ResponderFails \/ NoResponder)
  /\ WF_requestVars(onceTimesOut)
-----------------------------------------------------------------------------
\* Every part of the bus has its type.
BusTypeOK ==
  /\ subscribed \in [Handlers -> {"none", Topic, DeadLetter, "removed"}]
  /\ queueTail \in [Keys -> 0..Len(envelopes)]
  /\ \A e \in DOMAIN envelopes :
       /\ envelopes[e].key \in Keys
       /\ envelopes[e].state \in {"queued", "dispatching", "reporting", "resolved", "rejected"}
  /\ disposals \in 0..1

(* Events of one publisher on one topic are handled one after the other in *)
(* publish order: while one is not settled no later one has reached a      *)
(* handler, unless dispose() forgot the queue between the two.             *)
PublishOrder ==
  \A e, f \in DOMAIN envelopes :
    e < f /\ envelopes[e].key = envelopes[f].key /\ envelopes[e].epoch = envelopes[f].epoch
    /\ ~settled(e) => envelopes[f].state = "queued"

(* No failure is lost: a settled publish with a failed or timed-out        *)
(* handler has had its dead letter delivered to the end, and a dead letter *)
(* stands for exactly one such publish and is never reported itself.  A    *)
(* filter that throws is the exception: it rejects the publish at once,    *)
(* and no failure of the handlers called beside it is reported.            *)
FailuresAreReported ==
  /\ \A e \in DOMAIN envelopes :
       settled(e) /\ ~filterThrew(e) /\ failed(e) # {} /\ envelopes[e].key[2] = Topic
         => envelopes[e].dead # 0 /\ settled(envelopes[e].dead)
  /\ \A e \in DOMAIN envelopes : envelopes[e].key[2] = DeadLetter
       => /\ envelopes[e].dead = 0 /\ envelopes[envelopes[e].cause].dead = e
          /\ failed(envelopes[e].cause) # {}

(* Every publish settles, whatever its handlers do: even when a handler    *)
(* awaits a publish that waits in the queue behind the handler itself, or  *)
(* a dead letter whose delivery waits for the handler, its timeout breaks  *)
(* the cycle.  dispose() drops nothing that was queued before.             *)
EveryPublishSettles == \A e \in EnvelopeIds : []<>(e \in DOMAIN envelopes => settled(e))

(* A request ends with eventBus.request.noResponder only after every       *)
(* responder that was registered all along has been called or has refused  *)
(* it, whatever was registered or removed between two calls.  The other    *)
(* way to fail, a filter that throws, asks nobody after that one.          *)
FailsOnlyWhenAllFailed == request.state = "noResponder" => request.stayed \subseteq request.asked

(* A request ends although its responders hang and newcomers lengthen the  *)
(* walk, and once() ends although an abort or dispose() took its handler.  *)
WaitsEnd ==
  <>[](request.state \notin {"walking", "asking"} /\ once \notin {"waiting", "unsubscribed"})
=============================================================================
