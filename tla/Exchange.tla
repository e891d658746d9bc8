------------------------------ MODULE Exchange ------------------------------
(***************************************************************************)
(* One HTTP request in ProxyRuntime (proxy/runtime.py): the request task,    *)
(* the serving attempt that streams the backend's response into a queue of   *)
(* one message, the sender that delivers it to the client, the watcher for   *)
(* the client's disconnection, the shadow attempt that repeats the request   *)
(* at the other backend, and the task that joins both attempts into a pair   *)
(* for the comparison.                                                      *)
(*                                                                         *)
(* A coroutine's code between two awaits is one action.  A cancellation is   *)
(* delivered with the step that asks for it: until the task runs again it    *)
(* does nothing else.  Bodies are counted in chunks, statuses and payloads   *)
(* are left out; every timer may fire at any moment.  The client, the ASGI   *)
(* server and the backends are the environment: a send() has its effect      *)
(* when it returns, and each of them may stay silent for ever.               *)
(*                                                                         *)
(* An operator whose name has a suffix after "_" is a plausible bug, used by *)
(* no definition: it stands for the operator it precedes when the properties *)
(* are tested against it.                                                    *)
(***************************************************************************)
EXTENDS Naturals, Sequences

CONSTANT MaxBody        \* bound on the chunks of the backend's response body

ASSUME BodyAssumption == MaxBody \in Nat

(* _Attempt.outcome, and the value of the "end" message.                    *)
AttemptOutcomes == {"not_dispatched", "http_response", "timeout", "transport_error", "cancelled"}

(* What is put into the queue of messages: headers, a chunk, or the end of  *)
(* the attempt with its outcome.                                            *)
Messages == {"headers", "body", "http_response", "timeout", "transport_error"}

(* What the server was given to send: the start of the backend's response   *)
(* or of one made by the proxy, chunks, and the end of the body.            *)
ProxyStarts == {"502", "503", "504"}
Wire        == {"start", "body", "final"} \union ProxyStarts

VARIABLES
  client,       \* external: "up", "gone"
  shutdown,     \* external: the request, or its pair, was cancelled by close()
  requestAt,    \* _request: "new", "rejectStart", "rejectBody", "racing",
                \* "lateRacing" (the 504 after a timeout), "joining", "over"
  selected,     \* selected: the request is in the shadow sample
  slot,         \* it holds one of the _shadow_slots
  upload,       \* source: "open", "complete", "disconnected", "stopped"
  oversized,    \* source.oversized
  serveAt,      \* _attempt for serving: "none", "open", "stream", "put", "cleanup",
                \* "putEnd", "over"
  serveOutcome, \* serving.outcome
  silent,       \* _attempt for serving: cancelled
  received,     \* chunks received from the serving backend
  messages,     \* the queue between _attempt and deliver
  deliverAt,    \* sender: see DeliverPlaces
  watchAt,      \* watcher: "none", "input", "receive", "done"
  sentHeaders,  \* sent_headers
  userOutcome,  \* user_outcome
  source,       \* response_source
  shadowAt,     \* shadow_task: "none", "input", "running", "cleanup", "over"
  shadowOutcome,\* shadow.outcome; "running" once it is dispatched
  pairAt,       \* finalize(): "none", "waiting", "over"
  pairFate,     \* "none", "submitted" to the comparison, "dropped"
  wire          \* external: what the server was given to send

requestVars == <<requestAt, selected>>
inputVars   == <<upload, oversized>>
serveVars   == <<serveAt, serveOutcome, silent, received>>
sendVars    == <<deliverAt, sentHeaders, wire>>
resultVars  == <<userOutcome, source>>
shadowVars  == <<shadowAt, shadowOutcome>>
pairVars    == <<pairAt, pairFate, slot>>
vars == <<client, shutdown, requestVars, inputVars, serveVars, messages, sendVars, watchAt,
          resultVars, shadowVars, pairVars>>

Delivered     == {"ok", "timeout", "oserror", "incomplete", "cancelled"}
DeliverPlaces == {"none", "get", "start", "body", "final", "errorStart", "errorBody"}
                   \union Delivered

-----------------------------------------------------------------------------
InputDone == upload # "open"

(* sent_complete: set in the step that hands over the end of the body.      *)
SentComplete == wire # <<>> /\ wire[Len(wire)] = "final"

Init ==
  /\ client = "up" /\ shutdown = FALSE
  /\ requestAt = "new" /\ selected = FALSE /\ slot = FALSE
  /\ upload = "open" /\ oversized = FALSE
  /\ serveAt = "none" /\ serveOutcome = "not_dispatched" /\ silent = FALSE /\ received = 0
  /\ messages = <<>> /\ deliverAt = "none" /\ watchAt = "none" /\ sentHeaders = FALSE
  /\ userOutcome = "cancelled" /\ source = "none"
  /\ shadowAt = "none" /\ shadowOutcome = "not_dispatched"
  /\ pairAt = "none" /\ pairFate = "none"
  /\ wire = <<>>

-----------------------------------------------------------------------------
(* The client                                                               *)
ClientGone ==
  /\ client = "up"
  /\ client' = "gone"
  /\ UNCHANGED <<shutdown, requestVars, inputVars, serveVars, messages, sendVars, watchAt,
                 resultVars, shadowVars, pairVars>>

(* Once the response is complete, receive() also reports a disconnection.   *)
ReceivesDisconnect == client = "gone" \/ SentComplete

-----------------------------------------------------------------------------
(* Admission                                                                *)

(* Not ready, at the limit of requests, or the identity provider failed.    *)
Reject ==
  /\ requestAt = "new"
  /\ requestAt' = "rejectStart"
  /\ UNCHANGED <<client, shutdown, selected, inputVars, serveVars, messages, sendVars, watchAt,
                 resultVars, shadowVars, pairVars>>

RejectSend ==
  /\ requestAt \in {"rejectStart", "rejectBody"}
  /\ IF requestAt = "rejectStart"
     THEN /\ wire' = Append(wire, "503") /\ requestAt' = "rejectBody"
          /\ UNCHANGED userOutcome
     ELSE /\ wire' = Append(wire, "final") /\ requestAt' = "over"
          /\ userOutcome' = "rejected"
  /\ UNCHANGED <<client, shutdown, selected, inputVars, serveVars, messages, deliverAt,
                 sentHeaders, watchAt, source, shadowVars, pairVars>>

(* The 503 is not sent in time, fails or is cancelled; without a snapshot   *)
(* nothing is sent at all.                                                  *)
RejectEnds(o) ==
  /\ requestAt \in {"rejectStart", "rejectBody"}
  /\ o = "rejected" => requestAt = "rejectStart"
  /\ requestAt' = "over" /\ userOutcome' = o
  /\ UNCHANGED <<client, shutdown, selected, inputVars, serveVars, messages, sendVars, watchAt,
                 source, shadowVars, pairVars>>

(* An admitted request: in the sample or not and, if so, with a shadow slot *)
(* or without.  The serving attempt, the watcher and the sender start.      *)
Begin(inSample, slotFree) ==
  /\ requestAt = "new"
  /\ requestAt' = "racing"
  /\ selected' = inSample
  /\ slot' = (inSample /\ slotFree)
  /\ shadowAt' = IF inSample /\ slotFree THEN "input" ELSE "none"
  /\ serveAt' = "open" /\ deliverAt' = "get" /\ watchAt' = "input"
  /\ UNCHANGED <<client, shutdown, inputVars, serveOutcome, silent, received, messages,
                 sentHeaders, wire, resultVars, shadowOutcome, pairAt, pairFate>>

-----------------------------------------------------------------------------
(* The request body                                                         *)
Uploading == upload = "open" /\ serveAt \in {"open", "stream", "put", "cleanup"}

(* A chunk of the body that exceeds the capture limit.                      *)
UploadOversized ==
  /\ Uploading /\ slot /\ ~oversized
  /\ oversized' = TRUE
  /\ UNCHANGED <<client, shutdown, requestVars, upload, serveVars, messages, sendVars, watchAt,
                 resultVars, shadowVars, pairVars>>

(* The last chunk, or http.disconnect; or the transport stops reading.      *)
UploadEnds(u) ==
  /\ Uploading
  /\ u = "disconnected" => ReceivesDisconnect
  /\ upload' = u
  /\ UNCHANGED <<client, shutdown, requestVars, oversized, serveVars, messages, sendVars, watchAt,
                 resultVars, shadowVars, pairVars>>

-----------------------------------------------------------------------------
(* The serving attempt: _attempt with a queue                               *)

(* The try block is left with this outcome; the response is closed next.    *)
ServeEnds(outcome) ==
  /\ serveAt' = "cleanup" /\ serveOutcome' = outcome
  /\ silent' = (outcome = "cancelled")

ServeUnchanged == <<client, shutdown, requestVars, inputVars, sendVars, watchAt, resultVars,
                    shadowVars, pairVars>>

ServeHeaders ==
  /\ serveAt = "open"
  /\ serveAt' = "stream" /\ messages' = Append(messages, "headers")
  /\ UNCHANGED <<ServeUnchanged, serveOutcome, silent, received>>

(* put() waits while the queue is full.                                     *)
MayPut == messages = <<>>

ServeChunk ==
  /\ serveAt = "stream" /\ received < MaxBody
  /\ received' = received + 1
  /\ IF MayPut
     THEN messages' = Append(messages, "body") /\ UNCHANGED serveAt
     ELSE serveAt' = "put" /\ UNCHANGED messages
  /\ UNCHANGED <<ServeUnchanged, serveOutcome, silent>>

ServePut ==
  /\ serveAt = "put" /\ MayPut
  /\ messages' = Append(messages, "body") /\ serveAt' = "stream"
  /\ UNCHANGED <<ServeUnchanged, serveOutcome, silent, received>>

(* The body is complete.                                                    *)
ServeBodyEnds ==
  /\ serveAt = "stream"
  /\ ServeEnds("http_response")
  /\ UNCHANGED <<ServeUnchanged, received, messages>>

(* serving_timeout_seconds runs over the whole try block.                   *)
ServeTimeout ==
  /\ serveAt \in {"open", "stream", "put"}
  /\ ServeEnds("timeout")
  /\ UNCHANGED <<ServeUnchanged, received, messages>>

(* The backend fails; or, before its headers, the upload raised             *)
(* ClientDisconnected.                                                      *)
ServeFails ==
  /\ \/ serveAt \in {"open", "stream"} /\ ServeEnds("transport_error")
     \/ serveAt = "open" /\ upload = "disconnected" /\ ServeEnds("cancelled")
  /\ UNCHANGED <<ServeUnchanged, received, messages>>

(* A failed cleanup makes a complete response a transport error.            *)
AfterCleanup(failed) ==
  IF failed /\ serveOutcome = "http_response" THEN "transport_error" ELSE serveOutcome

(* When the attempt is over, nobody waits for the rest of the upload.       *)
UploadAfter == IF upload = "open" THEN "stopped" ELSE upload

(* The response is closed, or its grace is over: the finally block, and the *)
(* end message unless the attempt was cancelled.                            *)
ServeCleanup(failed) ==
  /\ serveAt = "cleanup"
  /\ serveOutcome' = AfterCleanup(failed)
  /\ upload' = UploadAfter
  /\ IF silent THEN serveAt' = "over" /\ UNCHANGED messages
     ELSE IF MayPut
     THEN serveAt' = "over" /\ messages' = Append(messages, AfterCleanup(failed))
     ELSE serveAt' = "putEnd" /\ UNCHANGED messages
  /\ UNCHANGED <<client, shutdown, requestVars, oversized, silent, received, sendVars, watchAt,
                 resultVars, shadowVars, pairVars>>

ServePutEnd ==
  /\ serveAt = "putEnd" /\ MayPut
  /\ messages' = Append(messages, serveOutcome) /\ serveAt' = "over"
  /\ UNCHANGED <<ServeUnchanged, serveOutcome, silent, received>>

(* The serving attempt is cancelled, wherever it is.                        *)
CancelServe ==
  /\ UNCHANGED received
  /\ IF serveAt \in {"open", "stream", "put", "cleanup"}
     THEN ServeEnds("cancelled")
     ELSE serveAt' = "over" /\ UNCHANGED <<serveOutcome, silent>>

-----------------------------------------------------------------------------
(* The sender: deliver, and _error                                          *)
DeliverUnchanged == <<client, shutdown, requestVars, inputVars, serveVars, watchAt, shadowVars,
                      pairVars>>

(* What deliver does with the message m.                                    *)
AfterMessage_EndIsEnd(m) ==
  CASE m = "headers" -> "start"
    [] m = "body"    -> "body"
    [] OTHER         -> IF sentHeaders THEN "final" ELSE "errorStart"

AfterMessage(m) ==
  CASE m = "headers"       -> "start"
    [] m = "body"          -> "body"
    [] m = "http_response" -> "final"
    [] OTHER               -> IF sentHeaders THEN "incomplete" ELSE "errorStart"

DeliverTake ==
  /\ deliverAt = "get" /\ messages # <<>>
  /\ messages' = Tail(messages)
  /\ deliverAt' = AfterMessage(messages[1])
  /\ userOutcome' = CASE AfterMessage(messages[1]) = "incomplete" -> "incomplete"
                      [] AfterMessage(messages[1]) = "errorStart" -> messages[1]
                      [] OTHER -> userOutcome
  /\ source' = IF AfterMessage(messages[1]) = "errorStart" THEN "proxy" ELSE source
  /\ UNCHANGED <<DeliverUnchanged, sentHeaders, wire>>

(* The status of the proxy's own answer.                                    *)
ErrorStatus == IF userOutcome = "timeout" THEN "504" ELSE "502"

SentAfterError == TRUE

(* The send() of deliver returns.                                           *)
DeliverSend ==
  /\ deliverAt \in {"start", "body", "final", "errorStart", "errorBody"}
  /\ wire' = Append(wire, CASE deliverAt = "errorStart" -> ErrorStatus
                            [] deliverAt = "errorBody"  -> "final"
                            [] OTHER                    -> deliverAt)
  /\ deliverAt' = CASE deliverAt \in {"start", "body"} -> "get"
                    [] deliverAt = "errorStart"        -> "errorBody"
                    [] OTHER                           -> "ok"
  /\ sentHeaders' = CASE deliverAt = "start"      -> TRUE
                      [] deliverAt = "errorStart" -> SentAfterError
                      [] OTHER                    -> sentHeaders
  /\ source' = IF deliverAt = "start" THEN "backend" ELSE source
  /\ userOutcome' = IF deliverAt = "final" THEN "completed" ELSE userOutcome
  /\ UNCHANGED <<DeliverUnchanged, messages>>

(* client_send_timeout_seconds runs over the whole delivery, and again over *)
(* the proxy's own answer.                                                  *)
SendTimerRuns_NotForErrors == deliverAt \in {"get", "start", "body", "final"}

SendTimerRuns == deliverAt \notin Delivered \union {"none"}

(* That time is over; or send() raises OSError.                             *)
DeliverStops(d) ==
  /\ SendTimerRuns
  /\ d = "oserror" => deliverAt # "get" /\ client = "gone"
  /\ deliverAt' = d
  /\ UNCHANGED <<DeliverUnchanged, messages, sentHeaders, wire, resultVars>>

(* The watcher: it reads receive() only when the upload no longer does.     *)
WatcherMayRead == InputDone

WatchInput ==
  /\ watchAt = "input" /\ WatcherMayRead
  /\ watchAt' = IF upload = "disconnected" THEN "done" ELSE "receive"
  /\ UNCHANGED <<client, shutdown, requestVars, inputVars, serveVars, messages, sendVars,
                 resultVars, shadowVars, pairVars>>

WatchDisconnect ==
  /\ watchAt = "receive" /\ ReceivesDisconnect
  /\ watchAt' = "done"
  /\ UNCHANGED <<client, shutdown, requestVars, inputVars, serveVars, messages, sendVars,
                 resultVars, shadowVars, pairVars>>

-----------------------------------------------------------------------------
(* The shadow attempt: dispatch_shadow, and _attempt without a queue        *)
ShadowUnchanged == <<client, shutdown, requestVars, inputVars, serveVars, messages, sendVars,
                     watchAt, resultVars, pairVars>>

(* Only a body that was read to its end, and captured, is repeated.         *)
MayDispatch_Disconnected == ~oversized

MayDispatch == ~oversized /\ upload = "complete"

ShadowDispatch ==
  /\ shadowAt = "input" /\ InputDone
  /\ IF MayDispatch
     THEN shadowAt' = "running" /\ shadowOutcome' = "running"
     ELSE shadowAt' = "over" /\ UNCHANGED shadowOutcome
  /\ UNCHANGED ShadowUnchanged

ShadowEnds(outcome) ==
  /\ shadowAt = "running"
  /\ shadowAt' = "cleanup" /\ shadowOutcome' = outcome
  /\ UNCHANGED ShadowUnchanged

ShadowCleanup(failed) ==
  /\ shadowAt = "cleanup"
  /\ shadowAt' = "over"
  /\ shadowOutcome' = IF failed /\ shadowOutcome = "http_response" THEN "transport_error"
                      ELSE shadowOutcome
  /\ UNCHANGED ShadowUnchanged

(* shadow_task.cancel(): a shadow that was not dispatched yet never is.     *)
CancelShadow ==
  /\ shadowAt' = CASE shadowAt = "input"   -> "over"
                   [] shadowAt = "running" -> "cleanup"
                   [] OTHER                -> shadowAt
  /\ shadowOutcome' = IF shadowAt \in {"running", "cleanup"} THEN "cancelled" ELSE shadowOutcome

-----------------------------------------------------------------------------
(* The request task                                                         *)

(* The finally block: the children that still run are cancelled.            *)
JoinChildren ==
  /\ requestAt' = "joining"
  /\ watchAt' = "done"
  /\ deliverAt' = IF deliverAt \in Delivered THEN deliverAt ELSE "cancelled"
  /\ CancelServe
  /\ UNCHANGED <<client, selected, inputVars, messages, sentHeaders, wire, pairVars>>

Racing == requestAt \in {"racing", "lateRacing"}

(* The sender is done, or raised IncompleteResponse; a timeout of the proxy's*)
(* own 504 is an IncompleteResponse too, and so is one after headers.       *)
SenderDone ==
  /\ Racing
  /\ \/ deliverAt \in {"ok", "incomplete"} /\ UNCHANGED userOutcome
     \/ /\ deliverAt = "timeout" /\ (sentHeaders \/ requestAt = "lateRacing")
        /\ userOutcome' = "timeout"
  /\ JoinChildren
  /\ UNCHANGED <<shutdown, source, shadowVars>>

(* The delivery took too long and nothing was sent: a 504 is.               *)
SenderLate ==
  /\ requestAt = "racing" /\ deliverAt = "timeout" /\ ~sentHeaders
  /\ userOutcome' = "timeout" /\ source' = "proxy"
  /\ requestAt' = "lateRacing" /\ deliverAt' = "errorStart"
  /\ UNCHANGED <<client, shutdown, selected, inputVars, serveVars, messages, sentHeaders, wire,
                 watchAt, shadowVars, pairVars>>

(* The watcher ended, and the sender has not.                               *)
Disconnected_First == watchAt = "done"

Disconnected == watchAt = "done" /\ deliverAt \notin Delivered

(* The client is gone: the shadow is cancelled with the request.            *)
ClientLost ==
  /\ Racing
  /\ deliverAt = "oserror" \/ Disconnected
  /\ userOutcome' = "cancelled"
  /\ CancelShadow
  /\ JoinChildren
  /\ UNCHANGED <<shutdown, source>>

(* The request task is cancelled: at the deadline of close(), or by the     *)
(* server.  While it joins its children it swallows cancellations.          *)
CancelRequest ==
  /\ Racing
  /\ shutdown' = TRUE
  /\ userOutcome' = "cancelled"
  /\ CancelShadow
  /\ JoinChildren
  /\ UNCHANGED source

ChildrenOver == deliverAt \in Delivered /\ watchAt = "done" /\ serveAt = "over"

(* All children are over: a selected request becomes a pair.                *)
RequestEnds ==
  /\ requestAt = "joining" /\ ChildrenOver
  /\ requestAt' = "over"
  /\ pairAt' = IF selected THEN "waiting" ELSE "none"
  /\ UNCHANGED <<client, shutdown, selected, inputVars, serveVars, messages, sendVars, watchAt,
                 resultVars, shadowVars, pairFate, slot>>

-----------------------------------------------------------------------------
(* finalize()                                                               *)
PairMayEnd_NotAwaited == TRUE

PairMayEnd == shadowAt \in {"none", "over"}

(* The pair is handed to the comparison, or the making of it raised.        *)
PairEnds(f) ==
  /\ pairAt = "waiting" /\ PairMayEnd
  /\ pairAt' = "over" /\ pairFate' = f
  /\ slot' = FALSE
  /\ UNCHANGED <<client, shutdown, requestVars, inputVars, serveVars, messages, sendVars, watchAt,
                 resultVars, shadowVars>>

(* close() cancels the pair at its deadline: the shadow it awaits is        *)
(* cancelled, and the pair goes on.                                         *)
CancelPair ==
  /\ pairAt = "waiting"
  /\ shutdown' = TRUE
  /\ CancelShadow
  /\ UNCHANGED <<client, requestVars, inputVars, serveVars, messages, sendVars, watchAt,
                 resultVars, pairVars>>

-----------------------------------------------------------------------------
ServeRuns   == ServePut \/ ServePutEnd \/ \E failed \in BOOLEAN : ServeCleanup(failed)
ShadowRuns  == ShadowDispatch \/ \E failed \in BOOLEAN : ShadowCleanup(failed)
RequestRuns == SenderDone \/ SenderLate \/ ClientLost \/ RequestEnds
PairRuns    == \E f \in {"submitted", "dropped"} : PairEnds(f)

Next ==
  \/ ClientGone
  \/ Reject \/ RejectSend \/ \E o \in {"rejected", "timeout", "cancelled"} : RejectEnds(o)
  \/ \E inSample, slotFree \in BOOLEAN : Begin(inSample, slotFree)
  \/ UploadOversized \/ \E u \in {"complete", "disconnected", "stopped"} : UploadEnds(u)
  \/ ServeHeaders \/ ServeChunk \/ ServeBodyEnds \/ ServeTimeout \/ ServeFails \/ ServeRuns
  \/ DeliverTake \/ DeliverSend \/ \E d \in {"timeout", "oserror"} : DeliverStops(d)
  \/ WatchInput \/ WatchDisconnect
  \/ \E o \in {"http_response", "timeout", "transport_error"} : ShadowEnds(o)
  \/ ShadowRuns \/ RequestRuns \/ CancelRequest \/ PairRuns \/ CancelPair

(* The event loop runs every task that is ready, and every timer fires.     *)
(* Nothing is assumed of the client, the server or the backends.            *)
LoopFairness ==
  /\ WF_vars(ServeRuns \/ ServeTimeout)
  /\ WF_vars(DeliverTake \/ DeliverStops("timeout"))
  /\ WF_vars(ShadowRuns \/ ShadowEnds("timeout"))
  /\ WF_vars(RequestRuns \/ RejectEnds("timeout"))
  /\ WF_vars(PairRuns)

Spec     == Init /\ [][Next]_vars
FairSpec == Spec /\ LoopFairness
=============================================================================
