---------------------------- MODULE ExchangeProofs ----------------------------
(***************************************************************************)
(* Proofs about one request and its pair (Exchange, ExchangeProps): the      *)
(* client is given one response and a truncated one is never a success, the  *)
(* shadow repeats only a whole body, the end of a response never cancels it, *)
(* and the evidence of a pair is final.  All of it holds for bodies of any   *)
(* length and at every step of the five tasks.                               *)
(*                                                                         *)
(* The properties only speak of what was sent and of the outcomes.  What     *)
(* keeps them true is the place of every message between the serving attempt *)
(* and the client (FlowInv): the one in the queue, the one the sender holds, *)
(* and the chunk that waits for the queue.                                   *)
(***************************************************************************)
EXTENDS ExchangeProps, SequenceTheorems, TLAPS

-----------------------------------------------------------------------------
(* The inductive invariant                                                  *)

(* Serving, sending and watching begin together, in a request that was      *)
(* admitted; before that there is nothing to send but the proxy's own 503.  *)
BeginInv ==
  /\ serveAt = "none" <=> deliverAt = "none"
  /\ serveAt = "none" <=> watchAt = "none"
  /\ requestAt \in {"new", "rejectStart", "rejectBody"} => serveAt = "none"
  /\ requestAt \in {"racing", "lateRacing", "joining"} => serveAt # "none"
  /\ serveAt = "none" =>
       /\ upload = "open" /\ shadowAt = "none" /\ ~slot /\ ~selected
       /\ pairAt = "none" /\ ~sentHeaders
       /\ messages = <<>> /\ received = 0 /\ source = "none"
       /\ userOutcome \in {"cancelled", "rejected", "timeout"}
       /\ wire # <<>> => wire[1] = "503"
  /\ requestAt \in {"new", "rejectStart"} => wire = <<>>
  /\ requestAt \in {"new", "rejectStart", "rejectBody"} => userOutcome = "cancelled"
  /\ requestAt = "rejectBody" => wire # <<>> /\ ~SentComplete

(* Once the request joins its children, the sender and the watcher are over *)
(* and the serving attempt is at most being cancelled.                      *)
JoinInv ==
  /\ requestAt \in {"joining", "over"} /\ serveAt # "none" =>
       /\ deliverAt \in Delivered /\ watchAt = "done"
       /\ serveAt = "over" \/ (serveAt = "cleanup" /\ silent)
  /\ requestAt = "over" => serveAt \in {"none", "over"}

(* m is the message in the queue.                                           *)
Has(m) == messages # <<>> /\ messages[1] = m

(* The serving attempt has an outcome once its try block is left, is silent *)
(* only when cancelled, and its end message says that outcome.              *)
ServeInv ==
  /\ serveAt \in {"none", "open", "stream", "put"} => serveOutcome = "not_dispatched"
  /\ serveAt = "cleanup" => /\ serveOutcome # "not_dispatched"
                            /\ silent <=> serveOutcome = "cancelled"
  /\ serveAt = "putEnd" => serveOutcome \notin {"not_dispatched", "cancelled"}
  /\ serveAt = "open" => messages = <<>> /\ received = 0
  /\ \A e \in {"http_response", "timeout", "transport_error"} :
       Has(e) => serveAt = "over" /\ serveOutcome = e

(* The sender repeats the backend's response.                               *)
Streaming == deliverAt \in {"get", "start", "body", "final"}

(* No headers of the backend were put into the queue yet.                   *)
NoHeaders == wire = <<>> /\ deliverAt = "get" /\ ~Has("headers")

(* Chunks on their way: sent, held by the sender, queued, waiting to be.    *)
Sent     == IF wire = <<>> THEN 0 ELSE Len(wire) - 1
Held     == IF deliverAt = "body" THEN 1 ELSE 0
Queued   == IF Has("body") THEN 1 ELSE 0
Waiting  == IF serveAt = "put" THEN 1 ELSE 0

(* While the sender repeats the response, every chunk received is in one    *)
(* place, unless the attempt failed; and what is sent begins with the       *)
(* headers and does not end before the attempt ended well.                  *)
FlowInv ==
  Streaming =>
    /\ userOutcome = "cancelled" /\ ~SentComplete
    /\ wire # <<>> => wire[1] = "start"
    /\ deliverAt = "start" => wire = <<>>
    /\ deliverAt \in {"body", "final"} => wire # <<>>
    /\ Has("headers") => wire = <<>> /\ deliverAt = "get"
    /\ NoHeaders => /\ ~Has("body") /\ serveAt \notin {"stream", "put"}
                    /\ serveOutcome # "http_response"
    /\ ~NoHeaders =>
         /\ serveAt # "open"
         /\ serveAt \in {"stream", "put"} \/ serveOutcome = "http_response" =>
              received = Sent + Held + Queued + Waiting
    /\ deliverAt = "final" =>
         serveAt = "over" /\ serveOutcome = "http_response" /\ messages = <<>>

(* What was sent, and how it is recorded.                                   *)
AnswerInv ==
  /\ ResponseIsTrue
  /\ serveAt # "none" => (sentHeaders <=> wire # <<>>)
  /\ serveAt # "none" /\ SentComplete => deliverAt = "ok"
  /\ wire # <<>> /\ wire[1] = "start" => source = "backend"
  /\ wire # <<>> /\ wire[1] = "502" => serveAt = "over"
  /\ deliverAt = "errorStart" =>
       /\ wire = <<>> /\ source = "proxy"
       /\ \/ userOutcome = "timeout"
          \/ /\ userOutcome = "transport_error"
             /\ serveAt = "over" /\ serveOutcome = "transport_error"
  /\ deliverAt = "errorBody" => wire # <<>> /\ wire[1] \in ProxyStarts

(* A disconnection is only seen of a client that is gone, or after the end  *)
(* of the response.                                                         *)
WatchInv ==
  /\ upload = "disconnected" => client = "gone" \/ SentComplete
  /\ Racing /\ watchAt = "done" => client = "gone" \/ SentComplete
  /\ deliverAt = "oserror" => client = "gone"

(* The shadow attempt has an outcome once it was dispatched, and holds its  *)
(* slot until it is over.                                                   *)
ShadowInv ==
  /\ ShadowNeedsWholeInput
  /\ CompletionKeepsShadow
  /\ shadowAt \in {"none", "input"} => shadowOutcome = "not_dispatched"
  /\ shadowAt \in {"running", "cleanup"} => shadowOutcome # "not_dispatched"
  /\ shadowAt \in {"input", "running", "cleanup"} => slot

(* The pair begins when the request is over and ends when the shadow is.    *)
PairInv ==
  /\ pairAt # "none" => requestAt = "over" /\ serveAt = "over"
  /\ pairFate # "none" <=> pairAt = "over"
  /\ pairAt = "over" => shadowAt \in {"none", "over"}

IInv ==
  /\ TypeOK /\ BeginInv /\ JoinInv /\ ServeInv /\ FlowInv
  /\ AnswerInv /\ WatchInv /\ ShadowInv /\ PairInv

-----------------------------------------------------------------------------
(* A sequence of one element, and what it leaves when that is taken.        *)
LEMMA OneElement ==
  ASSUME NEW S, NEW s \in Seq(S), s # <<>>, Len(s) <= 1
  PROVE  s[1] \in S /\ s = <<s[1]>> /\ Tail(s) = <<>>
<1>0. Len(s) \in Nat /\ Len(s) # 0
  BY EmptySeq
<1>1. Len(s) = 1
  BY <1>0
<1>2. s[1] \in S
  BY <1>1, LenProperties
<1>3. <<s[1]>> \in Seq(S) /\ Len(<<s[1]>>) = 1
  BY <1>2
<1>4. s = <<s[1]>>
  BY <1>1, <1>3, SeqEqual
<1>5. Tail(s) \in Seq(S) /\ Len(Tail(s)) = 0
  BY <1>1, HeadTailProperties
<1> QED
  BY <1>2, <1>4, <1>5, EmptySeq

(* The queue holds one message: it is empty once that is taken.             *)
LEMMA OneMessage ==
  ASSUME TypeOK, messages # <<>>
  PROVE  /\ messages[1] \in Messages /\ messages = <<messages[1]>>
         /\ Tail(messages) = <<>>
<1>1. messages \in Seq(Messages) /\ Len(messages) <= 1
  BY DEF TypeOK
<1> QED
  BY <1>1, OneElement

(* The queue holds just what is put into the empty queue.                   *)
LEMMA OnlyMessage ==
  ASSUME NEW m \in Messages, messages = <<>>, messages' = Append(messages, m)
  PROVE  /\ messages' \in Seq(Messages) /\ Len(messages') = 1
         /\ messages' # <<>> /\ messages'[1] = m
         /\ \A n : Has(n)' <=> n = m
<1>1. messages' = <<m>>
  BY DEF Messages
<1>2. messages' \in Seq(Messages) /\ Len(messages') = 1 /\ messages' # <<>> /\ messages'[1] = m
  BY <1>1
<1> QED
  BY <1>2 DEF Has

(* Nothing is in the empty queue, and it has what it had if it is the same. *)
LEMMA SameQueue ==
  ASSUME messages' = messages
  PROVE  \A n : Has(n)' <=> Has(n)
  BY DEF Has

(* An empty queue has no message.                                           *)
LEMMA EmptyQueue ==
  /\ messages = <<>> => \A n : ~Has(n)
  /\ messages' = <<>> => \A n : ~Has(n)'
  BY DEF Has

(* What the serving attempt puts into the queue.                            *)
LEMMA PutEffect ==
  ASSUME IInv
  PROVE  /\ ServeHeaders => messages = <<>> /\ \A n : Has(n)' <=> n = "headers"
         /\ ServePut => messages = <<>> /\ \A n : Has(n)' <=> n = "body"
         /\ ServeChunk => \/ /\ messages = <<>> /\ serveAt' = "stream"
                             /\ \A n : Has(n)' <=> n = "body"
                          \/ messages # <<>> /\ messages' = messages /\ serveAt' = "put"
         /\ ServePutEnd => /\ messages = <<>>
                           /\ \A n : Has(n)' <=> n = serveOutcome
         /\ \A failed \in BOOLEAN : ServeCleanup(failed) =>
              \/ messages' = messages /\ silent /\ serveAt' = "over"
              \/ messages' = messages /\ ~silent /\ serveAt' = "putEnd"
              \/ /\ messages = <<>> /\ ~silent /\ serveAt' = "over"
                 /\ \A n : Has(n)' <=> n = AfterCleanup(failed)
<1>1. {"headers", "body", "http_response", "timeout", "transport_error"} \subseteq Messages
  BY DEF Messages
<1>2. ASSUME ServeHeaders PROVE messages = <<>> /\ \A n : Has(n)' <=> n = "headers"
  <2>1. messages = <<>> /\ messages' = Append(messages, "headers")
    BY <1>2 DEF ServeHeaders, IInv, ServeInv
  <2> QED
    BY <1>1, <2>1, OnlyMessage
<1>3. ASSUME ServePut PROVE messages = <<>> /\ \A n : Has(n)' <=> n = "body"
  <2>1. messages = <<>> /\ messages' = Append(messages, "body")
    BY <1>3 DEF ServePut, MayPut
  <2> QED
    BY <1>1, <2>1, OnlyMessage
<1>4. ASSUME ServeChunk
      PROVE  \/ /\ messages = <<>> /\ serveAt' = "stream"
                /\ \A n : Has(n)' <=> n = "body"
             \/ messages # <<>> /\ messages' = messages /\ serveAt' = "put"
  <2>1. CASE messages = <<>>
    <3>1. messages' = Append(messages, "body") /\ serveAt' = "stream"
      BY <1>4, <2>1 DEF ServeChunk, MayPut
    <3> QED
      BY <1>1, <2>1, <3>1, OnlyMessage
  <2>2. CASE messages # <<>>
    BY <1>4, <2>2 DEF ServeChunk, MayPut
  <2> QED
    BY <2>1, <2>2
<1>5. ASSUME ServePutEnd PROVE messages = <<>> /\ \A n : Has(n)' <=> n = serveOutcome
  <2>1. messages = <<>> /\ messages' = Append(messages, serveOutcome)
    BY <1>5 DEF ServePutEnd, MayPut
  <2>2. serveOutcome \in Messages
    BY <1>1, <1>5 DEF ServePutEnd, IInv, ServeInv, TypeOK, AttemptOutcomes
  <2> QED
    BY <2>1, <2>2, OnlyMessage
<1>6. ASSUME NEW failed \in BOOLEAN, ServeCleanup(failed)
      PROVE  \/ messages' = messages /\ silent /\ serveAt' = "over"
             \/ messages' = messages /\ ~silent /\ serveAt' = "putEnd"
             \/ /\ messages = <<>> /\ ~silent /\ serveAt' = "over"
                /\ \A n : Has(n)' <=> n = AfterCleanup(failed)
  <2>1. CASE messages = <<>> /\ ~silent
    <3>1. messages' = Append(messages, AfterCleanup(failed)) /\ serveAt' = "over"
      BY <1>6, <2>1 DEF ServeCleanup, MayPut
    <3>2. AfterCleanup(failed) \in Messages
      BY <1>1, <1>6, <2>1
      DEF ServeCleanup, AfterCleanup, IInv, ServeInv, TypeOK, AttemptOutcomes
    <3> QED
      BY <2>1, <3>1, <3>2, OnlyMessage
  <2>2. CASE ~(messages = <<>> /\ ~silent)
    BY <1>6, <2>2 DEF ServeCleanup, MayPut, IInv, TypeOK
  <2> QED
    BY <2>1, <2>2
<1> QED
  BY <1>2, <1>3, <1>4, <1>5, <1>6

(* What the sender takes is what the queue has, and the queue is empty then.*)
LEMMA TakeEffect ==
  ASSUME IInv, DeliverTake
  PROVE  /\ messages[1] \in Messages /\ Has(messages[1]) /\ messages' = <<>>
         /\ \A n : ~Has(n)'
         /\ deliverAt' = AfterMessage(messages[1])
  BY OneMessage, EmptyQueue DEF IInv, DeliverTake, Has

(* The types of what join and cancellation leave.                           *)
LEMMA JoinType ==
  ASSUME TypeOK, JoinChildren
  PROVE  /\ requestAt' = "joining" /\ watchAt' = "done" /\ deliverAt' \in Delivered
         /\ serveAt' \in {"cleanup", "over"} /\ serveOutcome' \in AttemptOutcomes
         /\ silent' \in BOOLEAN /\ received' = received /\ messages' = messages
         /\ wire' = wire /\ sentHeaders' = sentHeaders
         /\ UNCHANGED <<client, selected, upload, oversized, pairAt, pairFate, slot>>
  BY DEF TypeOK, JoinChildren, CancelServe, ServeEnds, Delivered, AttemptOutcomes,
     inputVars,
         pairVars

(* Cancelling the shadow keeps its types.                                   *)
LEMMA CancelShadowType ==
  ASSUME TypeOK, CancelShadow
  PROVE  /\ shadowAt' \in {"none", "input", "running", "cleanup", "over"}
         /\ shadowOutcome' \in AttemptOutcomes \union {"running"}
  BY DEF TypeOK, CancelShadow, AttemptOutcomes

(* What is sent are the members of Wire.                                    *)
LEMMA WireGrows ==
  ASSUME NEW w \in Seq(Wire), NEW x \in Wire
  PROVE  /\ Append(w, x) \in Seq(Wire) /\ Append(w, x) # <<>>
         /\ Len(Append(w, x)) = Len(w) + 1 /\ Append(w, x)[Len(w) + 1] = x
         /\ \A i \in 1..Len(w) : Append(w, x)[i] = w[i]
         /\ w = <<>> <=> Len(w) = 0
         /\ w # <<>> => Append(w, x)[1] = w[1]
  BY AppendProperties, EmptySeq

(* Every step keeps the types; the queue never holds two messages.          *)
LEMMA NextType == IInv /\ [Next]_vars => TypeOK'
<1> SUFFICES ASSUME IInv, [Next]_vars PROVE TypeOK'
  OBVIOUS
<1> USE DEF requestVars, inputVars, serveVars, sendVars, resultVars, shadowVars, pairVars,
            IInv, TypeOK, AttemptOutcomes, DeliverPlaces, Delivered, ProxyStarts, ServeInv
<1>1. CASE ClientGone
  BY <1>1 DEF ClientGone
<1>2. CASE Reject
  BY <1>2 DEF Reject
<1>3. CASE RejectSend
  <2>1. wire' \in Seq(Wire)
    BY <1>3, WireGrows DEF RejectSend, Wire
  <2> QED
    BY <1>3, <2>1 DEF RejectSend
<1>4. ASSUME NEW o \in {"rejected", "timeout", "cancelled"}, RejectEnds(o) PROVE TypeOK'
  BY <1>4 DEF RejectEnds
<1>5. ASSUME NEW inSample \in BOOLEAN, NEW slotFree \in BOOLEAN, Begin(inSample, slotFree)
      PROVE TypeOK'
  BY <1>5 DEF Begin
<1>6. CASE UploadOversized
  BY <1>6 DEF UploadOversized, Uploading
<1>7. ASSUME NEW u \in {"complete", "disconnected", "stopped"}, UploadEnds(u) PROVE TypeOK'
  BY <1>7 DEF UploadEnds, Uploading, ReceivesDisconnect
<1>8. CASE ServeHeaders
  <2>1. messages' \in Seq(Messages) /\ Len(messages') <= 1
    BY <1>8, OnlyMessage DEF ServeHeaders, MayPut, Messages
  <2> QED
    BY <1>8, <2>1 DEF ServeHeaders, ServeUnchanged
<1>9. CASE ServeChunk
  <2>1. messages' \in Seq(Messages) /\ Len(messages') <= 1
    BY <1>9, OnlyMessage DEF ServeChunk, MayPut, Messages
  <2>2. received' \in 0..MaxBody
    BY <1>9, BodyAssumption DEF ServeChunk
  <2>3. serveAt' \in {"stream", "put"}
    BY <1>9 DEF ServeChunk
  <2> QED
    BY <1>9, <2>1, <2>2, <2>3 DEF ServeChunk, ServeUnchanged
<1>10. CASE ServeBodyEnds
  BY <1>10 DEF ServeBodyEnds, ServeUnchanged, ServeEnds
<1>11. CASE ServeTimeout
  BY <1>11 DEF ServeTimeout, ServeUnchanged, ServeEnds
<1>12. CASE ServeFails
  <2>1. serveAt' = "cleanup" /\ serveOutcome' \in AttemptOutcomes /\ silent' \in BOOLEAN
    BY <1>12 DEF ServeFails, ServeEnds
  <2> QED
    BY <1>12, <2>1 DEF ServeFails, ServeUnchanged
<1>13. CASE ServePut
  <2>1. messages' \in Seq(Messages) /\ Len(messages') <= 1
    BY <1>13, OnlyMessage DEF ServePut, MayPut, Messages
  <2> QED
    BY <1>13, <2>1 DEF ServePut, ServeUnchanged
<1>14. CASE ServePutEnd
  <2>1. messages' \in Seq(Messages) /\ Len(messages') <= 1
    BY <1>14, OnlyMessage DEF ServePutEnd, MayPut, Messages
  <2> QED
    BY <1>14, <2>1 DEF ServePutEnd, ServeUnchanged
<1>15. ASSUME NEW failed \in BOOLEAN, ServeCleanup(failed) PROVE TypeOK'
  <2>1. AfterCleanup(failed) \in AttemptOutcomes \ {"not_dispatched"}
    BY <1>15 DEF ServeCleanup, AfterCleanup
  <2>2. ~silent => AfterCleanup(failed) \in Messages
    BY <1>15, <2>1 DEF ServeCleanup, AfterCleanup, Messages
  <2>3. messages' \in Seq(Messages) /\ Len(messages') <= 1
    BY <1>15, <2>2, OnlyMessage DEF ServeCleanup, MayPut
  <2>4. upload' \in {"open", "complete", "disconnected", "stopped"}
    BY <1>15 DEF ServeCleanup, UploadAfter
  <2>5. serveAt' \in {"over", "putEnd"}
    BY <1>15 DEF ServeCleanup
  <2> QED
    BY <1>15, <2>1, <2>3, <2>4, <2>5 DEF ServeCleanup
<1>16. CASE DeliverTake
  <2>1. /\ messages[1] \in Messages
        /\ messages' \in Seq(Messages) /\ Len(messages') <= 1
    BY <1>16, OneMessage DEF DeliverTake
  <2>2. AfterMessage(messages[1]) \in {"start", "body", "final", "incomplete", "errorStart"}
    BY DEF AfterMessage
  <2>3. /\ userOutcome' \in {"completed", "incomplete", "timeout", "transport_error", "cancelled",
                              "rejected"}
        /\ source' \in {"none", "backend", "proxy"}
    BY <1>16, <2>1 DEF DeliverTake, AfterMessage, Messages
  <2> QED
    BY <1>16, <2>1, <2>2, <2>3 DEF DeliverTake, DeliverUnchanged
<1>17. CASE DeliverSend
  <2>1. wire' \in Seq(Wire)
    BY <1>17, WireGrows DEF DeliverSend, ErrorStatus, Wire
  <2>2. deliverAt' \in {"get", "errorBody", "ok"} /\ sentHeaders' \in BOOLEAN
    BY <1>17 DEF DeliverSend, SentAfterError
  <2>3. /\ userOutcome' \in {"completed", "incomplete", "timeout", "transport_error", "cancelled",
                              "rejected"}
        /\ source' \in {"none", "backend", "proxy"}
    BY <1>17 DEF DeliverSend
  <2>4. UNCHANGED <<DeliverUnchanged, messages>>
    BY <1>17 DEF DeliverSend
  <2> QED
    BY <2>1, <2>2, <2>3, <2>4 DEF DeliverUnchanged
<1>18. ASSUME NEW d \in {"timeout", "oserror"}, DeliverStops(d) PROVE TypeOK'
  BY <1>18 DEF DeliverStops, DeliverUnchanged, SendTimerRuns
<1>19. CASE WatchInput
  BY <1>19 DEF WatchInput, WatcherMayRead, InputDone
<1>20. CASE WatchDisconnect
  BY <1>20 DEF WatchDisconnect, ReceivesDisconnect
<1>21. ASSUME NEW o \in {"http_response", "timeout", "transport_error"}, ShadowEnds(o)
       PROVE TypeOK'
  BY <1>21 DEF ShadowEnds, ShadowUnchanged
<1>22. CASE ShadowDispatch
  BY <1>22 DEF ShadowDispatch, ShadowUnchanged, InputDone, MayDispatch
<1>23. ASSUME NEW failed \in BOOLEAN, ShadowCleanup(failed) PROVE TypeOK'
  BY <1>23 DEF ShadowCleanup, ShadowUnchanged
<1>24. CASE SenderDone
  <2>1. userOutcome' \in {"completed", "incomplete", "timeout", "transport_error", "cancelled",
                              "rejected"}
    BY <1>24 DEF SenderDone
  <2> QED
    BY <1>24, <2>1, JoinType DEF SenderDone
<1>25. CASE SenderLate
  BY <1>25 DEF SenderLate
<1>26. CASE ClientLost
  BY <1>26, JoinType, CancelShadowType DEF ClientLost
<1>27. CASE RequestEnds
  BY <1>27 DEF RequestEnds, ChildrenOver
<1>28. CASE CancelRequest
  <2>1. shutdown' \in BOOLEAN /\ userOutcome' = "cancelled" /\ source' = source
    BY <1>28 DEF CancelRequest
  <2>2. JoinChildren /\ CancelShadow
    BY <1>28 DEF CancelRequest
  <2> QED
    BY <2>1, <2>2, JoinType, CancelShadowType
<1>29. ASSUME NEW f \in {"submitted", "dropped"}, PairEnds(f) PROVE TypeOK'
  <2>1. slot' \in BOOLEAN /\ pairAt' = "over" /\ pairFate' \in {"submitted", "dropped"}
    BY <1>29 DEF PairEnds
  <2>2. UNCHANGED <<client, shutdown, requestVars, inputVars, serveVars, messages, sendVars,
                    watchAt, resultVars, shadowVars>>
    BY <1>29 DEF PairEnds
  <2> QED
    BY <2>1, <2>2
<1>30. CASE CancelPair
  BY <1>30, CancelShadowType DEF CancelPair
<1>31. CASE UNCHANGED vars
  BY <1>31 DEF vars
<1> QED
  BY <1>1, <1>2, <1>3, <1>4, <1>5, <1>6, <1>7, <1>8, <1>9, <1>10, <1>11, <1>12, <1>13,
     <1>14, <1>15, <1>16, <1>17, <1>18, <1>19, <1>20, <1>21, <1>22, <1>23, <1>24, <1>25,
     <1>26, <1>27, <1>28, <1>29, <1>30, <1>31
  DEF Next, ServeRuns, ShadowRuns, RequestRuns, PairRuns

(* A response begins when something is sent first; what follows goes on     *)
(* with it until its end.                                                   *)
LEMMA ResponseBegins ==
  ASSUME NEW x \in {"start"} \union ProxyStarts, wire = <<>>, wire' = Append(wire, x)
  PROVE  /\ OneResponse' /\ ~SentComplete'
         /\ wire' # <<>> /\ wire'[1] = x /\ Len(wire') = 1
<1>1. wire' = <<x>>
  OBVIOUS
<1>2. wire' # <<>> /\ wire'[1] = x /\ Len(wire') = 1 /\ DOMAIN wire' = 1..1
  BY <1>1
<1>3. x # "final" /\ x # "body"
  BY DEF ProxyStarts
<1> QED
  BY <1>2, <1>3 DEF OneResponse, SentComplete

(* A response that has begun and is not complete goes on by one part.       *)
LEMMA ResponseGoesOn ==
  ASSUME TypeOK, OneResponse, wire # <<>>, ~SentComplete, NEW x \in {"body", "final"},
         x = "body" => wire[1] = "start", wire' = Append(wire, x)
  PROVE  /\ OneResponse' /\ (SentComplete' <=> x = "final")
         /\ wire' # <<>> /\ wire'[1] = wire[1] /\ Len(wire') = Len(wire) + 1
<1>1. wire \in Seq(Wire) /\ x \in Wire
  BY DEF TypeOK, Wire
<1>2. /\ wire' # <<>> /\ Len(wire') = Len(wire) + 1 /\ wire'[Len(wire) + 1] = x
      /\ \A i \in 1..Len(wire) : wire'[i] = wire[i]
      /\ wire'[1] = wire[1] /\ DOMAIN wire' = 1..(Len(wire) + 1)
  BY <1>1, WireGrows, LenProperties
<1>3. Len(wire) \in Nat \ {0} /\ DOMAIN wire = 1..Len(wire)
  BY <1>1, EmptySeq, LenProperties
<1>4. \A i \in 1..Len(wire) : wire[i] # "final"
  BY <1>3 DEF OneResponse, SentComplete
<1>5. x \notin {"start"} \union ProxyStarts
  BY DEF ProxyStarts
<1>6. ASSUME NEW i \in DOMAIN wire'
      PROVE  /\ i = 1 <=> wire'[i] \in {"start"} \union ProxyStarts
             /\ wire'[i] = "final" => i = Len(wire')
             /\ wire'[i] = "body"  => wire'[1] = "start"
  <2>1. CASE i \in 1..Len(wire)
    BY <1>2, <1>3, <1>4, <2>1 DEF OneResponse
  <2>2. CASE i = Len(wire) + 1
    BY <1>2, <1>3, <1>5, <2>2
  <2> QED
    BY <1>2, <1>3, <1>6, <2>1, <2>2
<1>7. OneResponse'
  BY <1>6 DEF OneResponse
<1> QED
  BY <1>2, <1>3, <1>7 DEF SentComplete

(* What is not sent to changes nothing of the response.                     *)
LEMMA SameResponse ==
  ASSUME wire' = wire
  PROVE  (SentComplete' <=> SentComplete) /\ (OneResponse' <=> OneResponse)
  BY DEF SentComplete, OneResponse

(* The sender sends the start of a response first and then, until its end,  *)
(* what belongs to it.                                                      *)
LEMMA SendEffect ==
  ASSUME IInv, DeliverSend
  PROVE  /\ OneResponse' /\ wire' # <<>> /\ ~SentComplete
         /\ SentComplete' <=> deliverAt \in {"final", "errorBody"}
         /\ wire = <<>> <=> deliverAt \in {"start", "errorStart"}
         /\ deliverAt = "start" => wire'[1] = "start" /\ Len(wire') = 1
         /\ deliverAt = "errorStart" => wire'[1] = ErrorStatus
         /\ wire # <<>> => wire'[1] = wire[1] /\ Len(wire') = Len(wire) + 1
         /\ deliverAt \in {"body", "final"} => wire[1] = "start"
<1> USE DEF IInv
<1>1. ~SentComplete /\ TypeOK /\ OneResponse
  BY DEF DeliverSend, BeginInv, AnswerInv, ResponseIsTrue
<1>2. CASE deliverAt = "start"
  <2>1. wire = <<>> /\ wire' = Append(wire, "start")
    BY <1>2 DEF FlowInv, Streaming, DeliverSend
  <2> QED
    BY <1>1, <1>2, <2>1, ResponseBegins
<1>3. CASE deliverAt = "errorStart"
  <2>1. wire = <<>> /\ wire' = Append(wire, ErrorStatus) /\ ErrorStatus \in ProxyStarts
    BY <1>3 DEF AnswerInv, DeliverSend, ErrorStatus, ProxyStarts
  <2> QED
    BY <1>1, <1>3, <2>1, ResponseBegins
<1>4. CASE deliverAt \in {"body", "final"}
  <2>1. wire # <<>> /\ wire[1] = "start" /\ wire' = Append(wire, deliverAt)
    BY <1>4 DEF FlowInv, Streaming, DeliverSend
  <2> QED
    BY <1>1, <1>4, <2>1, ResponseGoesOn
<1>5. CASE deliverAt = "errorBody"
  <2>1. wire # <<>> /\ wire' = Append(wire, "final")
    BY <1>5 DEF AnswerInv, DeliverSend
  <2> QED
    BY <1>1, <1>5, <2>1, ResponseGoesOn
<1> QED
  BY <1>2, <1>3, <1>4, <1>5 DEF DeliverSend

(* The request sends its own 503 and its end.                               *)
LEMMA RejectEffect ==
  ASSUME IInv, RejectSend
  PROVE  /\ OneResponse' /\ wire' # <<>> /\ wire'[1] = "503"
         /\ SentComplete' <=> requestAt = "rejectBody"
<1> USE DEF IInv
<1>1. CASE requestAt = "rejectStart"
  BY <1>1, ResponseBegins DEF RejectSend, BeginInv, ProxyStarts
<1>2. CASE requestAt = "rejectBody"
  <2>1. TypeOK /\ OneResponse
    BY DEF AnswerInv, ResponseIsTrue
  <2>2. wire # <<>> /\ wire[1] = "503" /\ ~SentComplete /\ wire' = Append(wire, "final")
    BY <1>2 DEF RejectSend, BeginInv
  <2> QED
    BY <1>2, <2>1, <2>2, ResponseGoesOn
<1> QED
  BY <1>1, <1>2 DEF RejectSend

(* Every step keeps how a request begins.                                   *)
LEMMA NextBegin == IInv /\ [Next]_vars => BeginInv'
<1> SUFFICES ASSUME IInv, [Next]_vars PROVE BeginInv'
  OBVIOUS
<1> USE DEF requestVars, inputVars, serveVars, sendVars, resultVars, shadowVars, pairVars,
            IInv, TypeOK, BeginInv, JoinInv, Delivered
<1>1. CASE ClientGone
  BY <1>1, SameResponse DEF ClientGone
<1>2. CASE Reject
  BY <1>2, SameResponse DEF Reject
<1>3. CASE RejectSend
  BY <1>3, RejectEffect DEF RejectSend
<1>4. ASSUME NEW o \in {"rejected", "timeout", "cancelled"}, RejectEnds(o) PROVE BeginInv'
  BY <1>4, SameResponse DEF RejectEnds
<1>5. ASSUME NEW inSample \in BOOLEAN, NEW slotFree \in BOOLEAN, Begin(inSample, slotFree)
      PROVE BeginInv'
  BY <1>5, SameResponse DEF Begin
<1>6. CASE UploadOversized
  BY <1>6, SameResponse DEF UploadOversized, Uploading
<1>7. ASSUME NEW u \in {"complete", "disconnected", "stopped"}, UploadEnds(u)
      PROVE BeginInv'
  BY <1>7, SameResponse DEF UploadEnds, Uploading, ReceivesDisconnect
<1>8. CASE ServeHeaders
  BY <1>8, SameResponse DEF ServeHeaders, ServeUnchanged
<1>9. CASE ServeChunk
  BY <1>9, SameResponse DEF ServeChunk, ServeUnchanged, MayPut
<1>10. CASE ServeBodyEnds
  BY <1>10, SameResponse DEF ServeBodyEnds, ServeUnchanged, ServeEnds
<1>11. CASE ServeTimeout
  BY <1>11, SameResponse DEF ServeTimeout, ServeUnchanged, ServeEnds
<1>12. CASE ServeFails
  BY <1>12, SameResponse DEF ServeFails, ServeUnchanged, ServeEnds
<1>13. CASE ServePut
  BY <1>13, SameResponse DEF ServePut, ServeUnchanged, MayPut
<1>14. CASE ServePutEnd
  BY <1>14, SameResponse DEF ServePutEnd, ServeUnchanged, MayPut
<1>15. ASSUME NEW failed \in BOOLEAN, ServeCleanup(failed) PROVE BeginInv'
  BY <1>15, SameResponse DEF ServeCleanup, AfterCleanup, UploadAfter, MayPut
<1>16. CASE DeliverTake
  BY <1>16, OneMessage, SameResponse DEF DeliverTake, DeliverUnchanged, AfterMessage
<1>17. CASE DeliverSend
  BY <1>17, SendEffect DEF DeliverSend, DeliverUnchanged, ErrorStatus, SentAfterError
<1>18. ASSUME NEW d \in {"timeout", "oserror"}, DeliverStops(d) PROVE BeginInv'
  BY <1>18, SameResponse DEF DeliverStops, DeliverUnchanged, SendTimerRuns
<1>19. CASE WatchInput
  BY <1>19, SameResponse DEF WatchInput, WatcherMayRead, InputDone
<1>20. CASE WatchDisconnect
  BY <1>20, SameResponse DEF WatchDisconnect, ReceivesDisconnect
<1>21. ASSUME NEW o \in {"http_response", "timeout", "transport_error"}, ShadowEnds(o)
       PROVE BeginInv'
  BY <1>21, SameResponse DEF ShadowEnds, ShadowUnchanged
<1>22. CASE ShadowDispatch
  BY <1>22, SameResponse DEF ShadowDispatch, ShadowUnchanged, InputDone, MayDispatch
<1>23. ASSUME NEW failed \in BOOLEAN, ShadowCleanup(failed) PROVE BeginInv'
  BY <1>23, SameResponse DEF ShadowCleanup, ShadowUnchanged
<1>24. CASE SenderDone
  BY <1>24, SameResponse DEF SenderDone, JoinChildren, CancelServe, ServeEnds, Racing
<1>25. CASE SenderLate
  BY <1>25, SameResponse DEF SenderLate
<1>26. CASE ClientLost
  BY <1>26, SameResponse
  DEF ClientLost, JoinChildren, CancelServe, ServeEnds, CancelShadow, Disconnected, Racing
<1>27. CASE RequestEnds
  BY <1>27, SameResponse DEF RequestEnds, ChildrenOver
<1>28. CASE CancelRequest
  BY <1>28, SameResponse
  DEF CancelRequest, JoinChildren, CancelServe, ServeEnds, CancelShadow, Racing
<1>29. ASSUME NEW f \in {"submitted", "dropped"}, PairEnds(f) PROVE BeginInv'
  BY <1>29, SameResponse DEF PairEnds, PairMayEnd
<1>30. CASE CancelPair
  BY <1>30, SameResponse DEF CancelPair, CancelShadow
<1>31. CASE UNCHANGED vars
  BY <1>31, SameResponse DEF vars
<1> QED
  BY <1>1, <1>2, <1>3, <1>4, <1>5, <1>6, <1>7, <1>8, <1>9, <1>10, <1>11, <1>12, <1>13,
     <1>14, <1>15, <1>16, <1>17, <1>18, <1>19, <1>20, <1>21, <1>22, <1>23, <1>24, <1>25,
     <1>26, <1>27, <1>28, <1>29, <1>30, <1>31
  DEF Next, ServeRuns, ShadowRuns, RequestRuns, PairRuns

(* Every step keeps what is left of a request that ends.                    *)
LEMMA NextJoin == IInv /\ [Next]_vars => JoinInv'
<1> SUFFICES ASSUME IInv, [Next]_vars PROVE JoinInv'
  OBVIOUS
<1> USE DEF requestVars, inputVars, serveVars, sendVars, resultVars, shadowVars, pairVars,
            IInv, TypeOK, BeginInv, JoinInv, Delivered
<1>1. CASE ClientGone
  BY <1>1 DEF ClientGone
<1>2. CASE Reject
  BY <1>2 DEF Reject
<1>3. CASE RejectSend
  BY <1>3, RejectEffect DEF RejectSend
<1>4. ASSUME NEW o \in {"rejected", "timeout", "cancelled"}, RejectEnds(o) PROVE JoinInv'
  BY <1>4 DEF RejectEnds
<1>5. ASSUME NEW inSample \in BOOLEAN, NEW slotFree \in BOOLEAN, Begin(inSample, slotFree)
      PROVE JoinInv'
  BY <1>5 DEF Begin
<1>6. CASE UploadOversized
  BY <1>6 DEF UploadOversized, Uploading
<1>7. ASSUME NEW u \in {"complete", "disconnected", "stopped"}, UploadEnds(u) PROVE JoinInv'
  BY <1>7 DEF UploadEnds, Uploading, ReceivesDisconnect
<1>8. CASE ServeHeaders
  BY <1>8 DEF ServeHeaders, ServeUnchanged
<1>9. CASE ServeChunk
  BY <1>9 DEF ServeChunk, ServeUnchanged, MayPut
<1>10. CASE ServeBodyEnds
  BY <1>10 DEF ServeBodyEnds, ServeUnchanged, ServeEnds
<1>11. CASE ServeTimeout
  BY <1>11 DEF ServeTimeout, ServeUnchanged, ServeEnds
<1>12. CASE ServeFails
  BY <1>12 DEF ServeFails, ServeUnchanged, ServeEnds
<1>13. CASE ServePut
  BY <1>13 DEF ServePut, ServeUnchanged, MayPut
<1>14. CASE ServePutEnd
  BY <1>14 DEF ServePutEnd, ServeUnchanged, MayPut
<1>15. ASSUME NEW failed \in BOOLEAN, ServeCleanup(failed) PROVE JoinInv'
  BY <1>15 DEF ServeCleanup, AfterCleanup, UploadAfter, MayPut
<1>16. CASE DeliverTake
  BY <1>16, OneMessage DEF DeliverTake, DeliverUnchanged, AfterMessage
<1>17. CASE DeliverSend
  BY <1>17, SendEffect DEF DeliverSend, DeliverUnchanged, ErrorStatus, SentAfterError
<1>18. ASSUME NEW d \in {"timeout", "oserror"}, DeliverStops(d) PROVE JoinInv'
  BY <1>18 DEF DeliverStops, DeliverUnchanged, SendTimerRuns
<1>19. CASE WatchInput
  BY <1>19 DEF WatchInput, WatcherMayRead, InputDone
<1>20. CASE WatchDisconnect
  BY <1>20 DEF WatchDisconnect, ReceivesDisconnect
<1>21. ASSUME NEW o \in {"http_response", "timeout", "transport_error"}, ShadowEnds(o)
       PROVE JoinInv'
  BY <1>21 DEF ShadowEnds, ShadowUnchanged
<1>22. CASE ShadowDispatch
  BY <1>22 DEF ShadowDispatch, ShadowUnchanged, InputDone, MayDispatch
<1>23. ASSUME NEW failed \in BOOLEAN, ShadowCleanup(failed) PROVE JoinInv'
  BY <1>23 DEF ShadowCleanup, ShadowUnchanged
<1>24. CASE SenderDone
  BY <1>24 DEF SenderDone, JoinChildren, CancelServe, ServeEnds, Racing
<1>25. CASE SenderLate
  BY <1>25 DEF SenderLate
<1>26. CASE ClientLost
  BY <1>26
  DEF ClientLost, JoinChildren, CancelServe, ServeEnds, CancelShadow, Disconnected, Racing
<1>27. CASE RequestEnds
  BY <1>27 DEF RequestEnds, ChildrenOver
<1>28. CASE CancelRequest
  BY <1>28 DEF CancelRequest, JoinChildren, CancelServe, ServeEnds, CancelShadow, Racing
<1>29. ASSUME NEW f \in {"submitted", "dropped"}, PairEnds(f) PROVE JoinInv'
  BY <1>29 DEF PairEnds, PairMayEnd
<1>30. CASE CancelPair
  BY <1>30 DEF CancelPair, CancelShadow
<1>31. CASE UNCHANGED vars
  BY <1>31 DEF vars
<1> QED
  BY <1>1, <1>2, <1>3, <1>4, <1>5, <1>6, <1>7, <1>8, <1>9, <1>10, <1>11, <1>12, <1>13,
     <1>14, <1>15, <1>16, <1>17, <1>18, <1>19, <1>20, <1>21, <1>22, <1>23, <1>24, <1>25,
     <1>26, <1>27, <1>28, <1>29, <1>30, <1>31
  DEF Next, ServeRuns, ShadowRuns, RequestRuns, PairRuns

(* Every step keeps when a pair begins and ends.                            *)
LEMMA NextPair == IInv /\ [Next]_vars => PairInv'
<1> SUFFICES ASSUME IInv, [Next]_vars PROVE PairInv'
  OBVIOUS
<1> USE DEF requestVars, inputVars, serveVars, sendVars, resultVars, shadowVars, pairVars,
            IInv, TypeOK, BeginInv, JoinInv, PairInv
<1>1. CASE ClientGone
  BY <1>1 DEF ClientGone
<1>2. CASE Reject
  BY <1>2 DEF Reject
<1>3. CASE RejectSend
  BY <1>3, RejectEffect DEF RejectSend
<1>4. ASSUME NEW o \in {"rejected", "timeout", "cancelled"}, RejectEnds(o) PROVE PairInv'
  BY <1>4 DEF RejectEnds
<1>5. ASSUME NEW inSample \in BOOLEAN, NEW slotFree \in BOOLEAN, Begin(inSample, slotFree)
      PROVE PairInv'
  BY <1>5 DEF Begin
<1>6. CASE UploadOversized
  BY <1>6 DEF UploadOversized, Uploading
<1>7. ASSUME NEW u \in {"complete", "disconnected", "stopped"}, UploadEnds(u) PROVE PairInv'
  BY <1>7 DEF UploadEnds, Uploading, ReceivesDisconnect
<1>8. CASE ServeHeaders
  BY <1>8 DEF ServeHeaders, ServeUnchanged
<1>9. CASE ServeChunk
  BY <1>9 DEF ServeChunk, ServeUnchanged, MayPut
<1>10. CASE ServeBodyEnds
  BY <1>10 DEF ServeBodyEnds, ServeUnchanged, ServeEnds
<1>11. CASE ServeTimeout
  BY <1>11 DEF ServeTimeout, ServeUnchanged, ServeEnds
<1>12. CASE ServeFails
  BY <1>12 DEF ServeFails, ServeUnchanged, ServeEnds
<1>13. CASE ServePut
  BY <1>13 DEF ServePut, ServeUnchanged, MayPut
<1>14. CASE ServePutEnd
  BY <1>14 DEF ServePutEnd, ServeUnchanged, MayPut
<1>15. ASSUME NEW failed \in BOOLEAN, ServeCleanup(failed) PROVE PairInv'
  BY <1>15 DEF ServeCleanup, AfterCleanup, UploadAfter, MayPut
<1>16. CASE DeliverTake
  BY <1>16, OneMessage DEF DeliverTake, DeliverUnchanged, AfterMessage
<1>17. CASE DeliverSend
  BY <1>17, SendEffect DEF DeliverSend, DeliverUnchanged, ErrorStatus, SentAfterError
<1>18. ASSUME NEW d \in {"timeout", "oserror"}, DeliverStops(d) PROVE PairInv'
  BY <1>18 DEF DeliverStops, DeliverUnchanged, SendTimerRuns
<1>19. CASE WatchInput
  BY <1>19 DEF WatchInput, WatcherMayRead, InputDone
<1>20. CASE WatchDisconnect
  BY <1>20 DEF WatchDisconnect, ReceivesDisconnect
<1>21. ASSUME NEW o \in {"http_response", "timeout", "transport_error"}, ShadowEnds(o)
       PROVE PairInv'
  BY <1>21 DEF ShadowEnds, ShadowUnchanged
<1>22. CASE ShadowDispatch
  BY <1>22 DEF ShadowDispatch, ShadowUnchanged, InputDone, MayDispatch
<1>23. ASSUME NEW failed \in BOOLEAN, ShadowCleanup(failed) PROVE PairInv'
  BY <1>23 DEF ShadowCleanup, ShadowUnchanged
<1>24. CASE SenderDone
  BY <1>24 DEF SenderDone, JoinChildren, CancelServe, ServeEnds, Racing
<1>25. CASE SenderLate
  BY <1>25 DEF SenderLate
<1>26. CASE ClientLost
  BY <1>26
  DEF ClientLost, JoinChildren, CancelServe, ServeEnds, CancelShadow, Disconnected, Racing
<1>27. CASE RequestEnds
  BY <1>27 DEF RequestEnds, ChildrenOver
<1>28. CASE CancelRequest
  BY <1>28 DEF CancelRequest, JoinChildren, CancelServe, ServeEnds, CancelShadow, Racing
<1>29. ASSUME NEW f \in {"submitted", "dropped"}, PairEnds(f) PROVE PairInv'
  BY <1>29 DEF PairEnds, PairMayEnd
<1>30. CASE CancelPair
  BY <1>30 DEF CancelPair, CancelShadow
<1>31. CASE UNCHANGED vars
  BY <1>31 DEF vars
<1> QED
  BY <1>1, <1>2, <1>3, <1>4, <1>5, <1>6, <1>7, <1>8, <1>9, <1>10, <1>11, <1>12, <1>13,
     <1>14, <1>15, <1>16, <1>17, <1>18, <1>19, <1>20, <1>21, <1>22, <1>23, <1>24, <1>25,
     <1>26, <1>27, <1>28, <1>29, <1>30, <1>31
  DEF Next, ServeRuns, ShadowRuns, RequestRuns, PairRuns

(* Every step keeps what the shadow attempt needs.                          *)
LEMMA NextShadow == IInv /\ [Next]_vars => ShadowInv'
<1> SUFFICES ASSUME IInv, [Next]_vars PROVE ShadowInv'
  OBVIOUS
<1> USE DEF requestVars, inputVars, serveVars, sendVars, resultVars, shadowVars, pairVars,
            IInv, TypeOK, BeginInv, JoinInv, AnswerInv, WatchInv, PairInv, ShadowInv,
            ShadowNeedsWholeInput, CompletionKeepsShadow, Delivered
<1>1. CASE ClientGone
  BY <1>1 DEF ClientGone
<1>2. CASE Reject
  BY <1>2 DEF Reject
<1>3. CASE RejectSend
  BY <1>3, RejectEffect DEF RejectSend
<1>4. ASSUME NEW o \in {"rejected", "timeout", "cancelled"}, RejectEnds(o) PROVE ShadowInv'
  BY <1>4 DEF RejectEnds
<1>5. ASSUME NEW inSample \in BOOLEAN, NEW slotFree \in BOOLEAN, Begin(inSample, slotFree)
      PROVE ShadowInv'
  BY <1>5 DEF Begin
<1>6. CASE UploadOversized
  BY <1>6 DEF UploadOversized, Uploading
<1>7. ASSUME NEW u \in {"complete", "disconnected", "stopped"}, UploadEnds(u)
      PROVE ShadowInv'
  BY <1>7 DEF UploadEnds, Uploading, ReceivesDisconnect
<1>8. CASE ServeHeaders
  BY <1>8 DEF ServeHeaders, ServeUnchanged
<1>9. CASE ServeChunk
  BY <1>9 DEF ServeChunk, ServeUnchanged, MayPut
<1>10. CASE ServeBodyEnds
  BY <1>10 DEF ServeBodyEnds, ServeUnchanged, ServeEnds
<1>11. CASE ServeTimeout
  BY <1>11 DEF ServeTimeout, ServeUnchanged, ServeEnds
<1>12. CASE ServeFails
  BY <1>12 DEF ServeFails, ServeUnchanged, ServeEnds
<1>13. CASE ServePut
  BY <1>13 DEF ServePut, ServeUnchanged, MayPut
<1>14. CASE ServePutEnd
  BY <1>14 DEF ServePutEnd, ServeUnchanged, MayPut
<1>15. ASSUME NEW failed \in BOOLEAN, ServeCleanup(failed) PROVE ShadowInv'
  BY <1>15 DEF ServeCleanup, AfterCleanup, UploadAfter, MayPut
<1>16. CASE DeliverTake
  BY <1>16, OneMessage DEF DeliverTake, DeliverUnchanged, AfterMessage
<1>17. CASE DeliverSend
  BY <1>17, SendEffect DEF DeliverSend, DeliverUnchanged, ErrorStatus, SentAfterError
<1>18. ASSUME NEW d \in {"timeout", "oserror"}, DeliverStops(d) PROVE ShadowInv'
  BY <1>18 DEF DeliverStops, DeliverUnchanged, SendTimerRuns
<1>19. CASE WatchInput
  BY <1>19 DEF WatchInput, WatcherMayRead, InputDone
<1>20. CASE WatchDisconnect
  BY <1>20 DEF WatchDisconnect, ReceivesDisconnect
<1>21. ASSUME NEW o \in {"http_response", "timeout", "transport_error"}, ShadowEnds(o)
       PROVE ShadowInv'
  BY <1>21 DEF ShadowEnds, ShadowUnchanged
<1>22. CASE ShadowDispatch
  BY <1>22 DEF ShadowDispatch, ShadowUnchanged, InputDone, MayDispatch
<1>23. ASSUME NEW failed \in BOOLEAN, ShadowCleanup(failed) PROVE ShadowInv'
  BY <1>23 DEF ShadowCleanup, ShadowUnchanged
<1>24. CASE SenderDone
  BY <1>24 DEF SenderDone, JoinChildren, CancelServe, ServeEnds, Racing
<1>25. CASE SenderLate
  BY <1>25 DEF SenderLate
<1>26. CASE ClientLost
  BY <1>26
  DEF ClientLost, JoinChildren, CancelServe, ServeEnds, CancelShadow, Disconnected, Racing
<1>27. CASE RequestEnds
  BY <1>27 DEF RequestEnds, ChildrenOver
<1>28. CASE CancelRequest
  BY <1>28 DEF CancelRequest, JoinChildren, CancelServe, ServeEnds, CancelShadow, Racing
<1>29. ASSUME NEW f \in {"submitted", "dropped"}, PairEnds(f) PROVE ShadowInv'
  BY <1>29 DEF PairEnds, PairMayEnd
<1>30. CASE CancelPair
  BY <1>30 DEF CancelPair, CancelShadow
<1>31. CASE UNCHANGED vars
  BY <1>31 DEF vars
<1> QED
  BY <1>1, <1>2, <1>3, <1>4, <1>5, <1>6, <1>7, <1>8, <1>9, <1>10, <1>11, <1>12, <1>13,
     <1>14, <1>15, <1>16, <1>17, <1>18, <1>19, <1>20, <1>21, <1>22, <1>23, <1>24, <1>25,
     <1>26, <1>27, <1>28, <1>29, <1>30, <1>31
  DEF Next, ServeRuns, ShadowRuns, RequestRuns, PairRuns

(* Every step keeps what a disconnection is seen of.                        *)
LEMMA NextWatch == IInv /\ [Next]_vars => WatchInv'
<1> SUFFICES ASSUME IInv, [Next]_vars PROVE WatchInv'
  OBVIOUS
<1> USE DEF requestVars, inputVars, serveVars, sendVars, resultVars, shadowVars, pairVars,
            IInv, TypeOK, BeginInv, JoinInv, AnswerInv, WatchInv, Delivered, Racing,
            ReceivesDisconnect, UploadAfter
<1>1. CASE ClientGone
  BY <1>1, SameResponse DEF ClientGone
<1>2. CASE Reject
  BY <1>2, SameResponse DEF Reject
<1>3. CASE RejectSend
  BY <1>3, RejectEffect DEF RejectSend
<1>4. ASSUME NEW o \in {"rejected", "timeout", "cancelled"}, RejectEnds(o) PROVE WatchInv'
  BY <1>4, SameResponse DEF RejectEnds
<1>5. ASSUME NEW inSample \in BOOLEAN, NEW slotFree \in BOOLEAN, Begin(inSample, slotFree)
      PROVE WatchInv'
  BY <1>5, SameResponse DEF Begin
<1>6. CASE UploadOversized
  BY <1>6, SameResponse DEF UploadOversized, Uploading
<1>7. ASSUME NEW u \in {"complete", "disconnected", "stopped"}, UploadEnds(u)
      PROVE WatchInv'
  BY <1>7, SameResponse DEF UploadEnds, Uploading, ReceivesDisconnect
<1>8. CASE ServeHeaders
  BY <1>8, SameResponse DEF ServeHeaders, ServeUnchanged
<1>9. CASE ServeChunk
  BY <1>9, SameResponse DEF ServeChunk, ServeUnchanged, MayPut
<1>10. CASE ServeBodyEnds
  BY <1>10, SameResponse DEF ServeBodyEnds, ServeUnchanged, ServeEnds
<1>11. CASE ServeTimeout
  BY <1>11, SameResponse DEF ServeTimeout, ServeUnchanged, ServeEnds
<1>12. CASE ServeFails
  BY <1>12, SameResponse DEF ServeFails, ServeUnchanged, ServeEnds
<1>13. CASE ServePut
  BY <1>13, SameResponse DEF ServePut, ServeUnchanged, MayPut
<1>14. CASE ServePutEnd
  BY <1>14, SameResponse DEF ServePutEnd, ServeUnchanged, MayPut
<1>15. ASSUME NEW failed \in BOOLEAN, ServeCleanup(failed) PROVE WatchInv'
  BY <1>15, SameResponse DEF ServeCleanup, AfterCleanup, UploadAfter, MayPut
<1>16. CASE DeliverTake
  BY <1>16, OneMessage, SameResponse DEF DeliverTake, DeliverUnchanged, AfterMessage
<1>17. CASE DeliverSend
  BY <1>17, SendEffect DEF DeliverSend, DeliverUnchanged, ErrorStatus, SentAfterError
<1>18. ASSUME NEW d \in {"timeout", "oserror"}, DeliverStops(d) PROVE WatchInv'
  BY <1>18, SameResponse DEF DeliverStops, DeliverUnchanged, SendTimerRuns
<1>19. CASE WatchInput
  BY <1>19, SameResponse DEF WatchInput, WatcherMayRead, InputDone
<1>20. CASE WatchDisconnect
  BY <1>20, SameResponse DEF WatchDisconnect, ReceivesDisconnect
<1>21. ASSUME NEW o \in {"http_response", "timeout", "transport_error"}, ShadowEnds(o)
       PROVE WatchInv'
  BY <1>21, SameResponse DEF ShadowEnds, ShadowUnchanged
<1>22. CASE ShadowDispatch
  BY <1>22, SameResponse DEF ShadowDispatch, ShadowUnchanged, InputDone, MayDispatch
<1>23. ASSUME NEW failed \in BOOLEAN, ShadowCleanup(failed) PROVE WatchInv'
  BY <1>23, SameResponse DEF ShadowCleanup, ShadowUnchanged
<1>24. CASE SenderDone
  BY <1>24, SameResponse DEF SenderDone, JoinChildren, CancelServe, ServeEnds, Racing
<1>25. CASE SenderLate
  BY <1>25, SameResponse DEF SenderLate
<1>26. CASE ClientLost
  BY <1>26, SameResponse
  DEF ClientLost, JoinChildren, CancelServe, ServeEnds, CancelShadow, Disconnected, Racing
<1>27. CASE RequestEnds
  BY <1>27, SameResponse DEF RequestEnds, ChildrenOver
<1>28. CASE CancelRequest
  BY <1>28, SameResponse
  DEF CancelRequest, JoinChildren, CancelServe, ServeEnds, CancelShadow, Racing
<1>29. ASSUME NEW f \in {"submitted", "dropped"}, PairEnds(f) PROVE WatchInv'
  BY <1>29, SameResponse DEF PairEnds, PairMayEnd
<1>30. CASE CancelPair
  BY <1>30, SameResponse DEF CancelPair, CancelShadow
<1>31. CASE UNCHANGED vars
  BY <1>31, SameResponse DEF vars
<1> QED
  BY <1>1, <1>2, <1>3, <1>4, <1>5, <1>6, <1>7, <1>8, <1>9, <1>10, <1>11, <1>12, <1>13,
     <1>14, <1>15, <1>16, <1>17, <1>18, <1>19, <1>20, <1>21, <1>22, <1>23, <1>24, <1>25,
     <1>26, <1>27, <1>28, <1>29, <1>30, <1>31
  DEF Next, ServeRuns, ShadowRuns, RequestRuns, PairRuns

(* Every step keeps what the serving attempt says of itself.                *)
LEMMA NextServe == IInv /\ [Next]_vars => ServeInv'
<1> SUFFICES ASSUME IInv, [Next]_vars PROVE ServeInv'
  OBVIOUS
<1> USE DEF requestVars, inputVars, serveVars, sendVars, resultVars, shadowVars, pairVars,
            IInv, TypeOK, BeginInv, JoinInv, ServeInv, AttemptOutcomes, Delivered
<1>1. CASE ClientGone
  BY <1>1, SameQueue DEF ClientGone
<1>2. CASE Reject
  BY <1>2, SameQueue DEF Reject
<1>3. CASE RejectSend
  BY <1>3, SameQueue DEF RejectSend
<1>4. ASSUME NEW o \in {"rejected", "timeout", "cancelled"}, RejectEnds(o) PROVE ServeInv'
  BY <1>4, SameQueue DEF RejectEnds
<1>5. ASSUME NEW inSample \in BOOLEAN, NEW slotFree \in BOOLEAN, Begin(inSample, slotFree)
      PROVE ServeInv'
  BY <1>5, SameQueue DEF Begin
<1>6. CASE UploadOversized
  BY <1>6, SameQueue DEF UploadOversized, Uploading
<1>7. ASSUME NEW u \in {"complete", "disconnected", "stopped"}, UploadEnds(u)
      PROVE ServeInv'
  BY <1>7, SameQueue DEF UploadEnds, Uploading, ReceivesDisconnect
<1>8. CASE ServeHeaders
  BY <1>8, PutEffect DEF ServeHeaders, ServeUnchanged
<1>9. CASE ServeChunk
  BY <1>9, PutEffect, SameQueue DEF ServeChunk, ServeUnchanged
<1>10. CASE ServeBodyEnds
  BY <1>10, SameQueue DEF ServeBodyEnds, ServeUnchanged, ServeEnds
<1>11. CASE ServeTimeout
  BY <1>11, SameQueue DEF ServeTimeout, ServeUnchanged, ServeEnds
<1>12. CASE ServeFails
  BY <1>12, SameQueue DEF ServeFails, ServeUnchanged, ServeEnds
<1>13. CASE ServePut
  BY <1>13, PutEffect DEF ServePut, ServeUnchanged
<1>14. CASE ServePutEnd
  BY <1>14, PutEffect DEF ServePutEnd, ServeUnchanged
<1>15. ASSUME NEW failed \in BOOLEAN, ServeCleanup(failed) PROVE ServeInv'
  <2>1. /\ AfterCleanup(failed) \in AttemptOutcomes \ {"not_dispatched"}
        /\ AfterCleanup(failed) = "cancelled" <=> silent
    BY <1>15 DEF ServeCleanup, AfterCleanup, AttemptOutcomes
  <2> QED
    BY <1>15, <2>1, PutEffect, SameQueue DEF ServeCleanup
<1>16. CASE DeliverTake
  BY <1>16, TakeEffect DEF DeliverTake, DeliverUnchanged
<1>17. CASE DeliverSend
  BY <1>17, SameQueue DEF DeliverSend, DeliverUnchanged
<1>18. ASSUME NEW d \in {"timeout", "oserror"}, DeliverStops(d) PROVE ServeInv'
  BY <1>18, SameQueue DEF DeliverStops, DeliverUnchanged, SendTimerRuns
<1>19. CASE WatchInput
  BY <1>19, SameQueue DEF WatchInput, WatcherMayRead, InputDone
<1>20. CASE WatchDisconnect
  BY <1>20, SameQueue DEF WatchDisconnect, ReceivesDisconnect
<1>21. ASSUME NEW o \in {"http_response", "timeout", "transport_error"}, ShadowEnds(o)
       PROVE ServeInv'
  BY <1>21, SameQueue DEF ShadowEnds, ShadowUnchanged
<1>22. CASE ShadowDispatch
  BY <1>22, SameQueue DEF ShadowDispatch, ShadowUnchanged, InputDone, MayDispatch
<1>23. ASSUME NEW failed \in BOOLEAN, ShadowCleanup(failed) PROVE ServeInv'
  BY <1>23, SameQueue DEF ShadowCleanup, ShadowUnchanged
<1>24. CASE SenderDone
  BY <1>24, SameQueue DEF SenderDone, JoinChildren, CancelServe, ServeEnds, Racing
<1>25. CASE SenderLate
  BY <1>25, SameQueue DEF SenderLate
<1>26. CASE ClientLost
  BY <1>26, SameQueue
  DEF ClientLost, JoinChildren, CancelServe, ServeEnds, CancelShadow, Disconnected, Racing
<1>27. CASE RequestEnds
  BY <1>27, SameQueue DEF RequestEnds, ChildrenOver
<1>28. CASE CancelRequest
  BY <1>28, SameQueue
  DEF CancelRequest, JoinChildren, CancelServe, ServeEnds, CancelShadow, Racing
<1>29. ASSUME NEW f \in {"submitted", "dropped"}, PairEnds(f) PROVE ServeInv'
  BY <1>29, SameQueue DEF PairEnds, PairMayEnd
<1>30. CASE CancelPair
  BY <1>30, SameQueue DEF CancelPair, CancelShadow
<1>31. CASE UNCHANGED vars
  BY <1>31, SameQueue DEF vars
<1> QED
  BY <1>1, <1>2, <1>3, <1>4, <1>5, <1>6, <1>7, <1>8, <1>9, <1>10, <1>11, <1>12, <1>13,
     <1>14, <1>15, <1>16, <1>17, <1>18, <1>19, <1>20, <1>21, <1>22, <1>23, <1>24, <1>25,
     <1>26, <1>27, <1>28, <1>29, <1>30, <1>31
  DEF Next, ServeRuns, ShadowRuns, RequestRuns, PairRuns

(* Every action of serving and sending keeps every message in its place.    *)
LEMMA FlowHeaders ==
  ASSUME IInv, ServeHeaders
  PROVE  FlowInv'
<1>1. /\ serveAt = "open" /\ serveAt' = "stream" /\ received' = 0
      /\ UNCHANGED <<deliverAt, wire, userOutcome, serveOutcome>>
  BY DEF ServeHeaders, ServeUnchanged, sendVars, resultVars, IInv, ServeInv
<1>2. \A n : Has(n)' <=> n = "headers"
  BY PutEffect
<1>3. SentComplete' <=> SentComplete
  BY <1>1, SameResponse
<1>4. Streaming' <=> Streaming
  BY <1>1 DEF Streaming
<1>5. CASE Streaming
  <2>1. NoHeaders /\ userOutcome = "cancelled" /\ ~SentComplete
    BY <1>1, <1>5 DEF IInv, FlowInv
  <2>2. wire = <<>> /\ deliverAt = "get"
    BY <2>1 DEF NoHeaders
  <2>3. ~NoHeaders' /\ Sent' = 0 /\ Held' = 0 /\ Queued' = 0 /\ Waiting' = 0
    BY <1>1, <1>2, <2>2 DEF NoHeaders, Sent, Held, Queued, Waiting
  <2> QED
    BY <1>1, <1>2, <1>3, <2>1, <2>2, <2>3 DEF FlowInv
<1> QED
  BY <1>4, <1>5 DEF FlowInv

(* A chunk from the backend keeps the flow.                                 *)
LEMMA FlowChunk ==
  ASSUME IInv, ServeChunk
  PROVE  FlowInv'
<1>1. /\ serveAt = "stream" /\ serveAt' \in {"stream", "put"} /\ received' = received + 1
      /\ UNCHANGED <<deliverAt, wire, userOutcome, serveOutcome>>
      /\ received \in Nat
  BY BodyAssumption DEF ServeChunk, ServeUnchanged, sendVars, resultVars, IInv, TypeOK
<1>2. SentComplete' <=> SentComplete
  BY <1>1, SameResponse
<1>3. Streaming' <=> Streaming
  BY <1>1 DEF Streaming
<1>4. CASE Streaming
  <2>1. /\ ~NoHeaders /\ userOutcome = "cancelled" /\ ~SentComplete
        /\ received = Sent + Held + Queued + Waiting
        /\ wire # <<>> => wire[1] = "start"
        /\ deliverAt = "start" => wire = <<>>
        /\ deliverAt = "body" => wire # <<>>
        /\ Has("headers") => wire = <<>> /\ deliverAt = "get"
        /\ deliverAt # "final"
    BY <1>1, <1>4 DEF IInv, FlowInv
  <2>2. Waiting = 0 /\ Sent' = Sent /\ Held' = Held
    BY <1>1 DEF Waiting, Sent, Held
  <2>3. Sent \in Int /\ Held \in Int
    BY LenProperties DEF Sent, Held, IInv, TypeOK
  <2>4. CASE messages = <<>> /\ serveAt' = "stream" /\ (\A n : Has(n)' <=> n = "body")
    <3>1. ~Has("headers") /\ Queued = 0 /\ Queued' = 1 /\ Waiting' = 0
      BY <2>4, EmptyQueue DEF Queued, Waiting
    <3>2. ~NoHeaders'
      BY <1>1, <2>1, <3>1 DEF NoHeaders
    <3>3. received' = Sent' + Held' + Queued' + Waiting'
      BY <1>1, <2>1, <2>2, <2>3, <3>1
    <3> QED
      BY <1>1, <1>2, <2>1, <2>4, <3>2, <3>3 DEF FlowInv
  <2>5. CASE messages # <<>> /\ messages' = messages /\ serveAt' = "put"
    <3>1. \A n : Has(n)' <=> Has(n)
      BY <2>5, SameQueue
    <3>2. Queued' = Queued /\ Queued \in Int /\ Waiting' = 1 /\ ~NoHeaders'
      BY <1>1, <2>1, <2>5, <3>1 DEF Queued, Waiting, NoHeaders
    <3>3. received' = Sent' + Held' + Queued' + Waiting'
      BY <1>1, <2>1, <2>2, <2>3, <3>2
    <3> QED
      BY <1>1, <1>2, <2>1, <2>5, <3>1, <3>2, <3>3 DEF FlowInv
  <2> QED
    BY <2>4, <2>5, PutEffect
<1> QED
  BY <1>3, <1>4 DEF FlowInv

(* A part put into the queue keeps the flow.                                *)
LEMMA FlowPut ==
  ASSUME IInv, ServePut
  PROVE  FlowInv'
<1>1. /\ serveAt = "put" /\ serveAt' = "stream"
      /\ UNCHANGED <<deliverAt, wire, userOutcome, serveOutcome, received>>
  BY DEF ServePut, ServeUnchanged, sendVars, resultVars
<1>2. SentComplete' <=> SentComplete
  BY <1>1, SameResponse
<1>3. Streaming' <=> Streaming
  BY <1>1 DEF Streaming
<1>4. CASE Streaming
  <2>1. /\ ~NoHeaders /\ userOutcome = "cancelled" /\ ~SentComplete
        /\ received = Sent + Held + Queued + Waiting
        /\ wire # <<>> => wire[1] = "start"
        /\ deliverAt = "start" => wire = <<>>
        /\ deliverAt = "body" => wire # <<>>
        /\ deliverAt # "final"
    BY <1>1, <1>4 DEF IInv, FlowInv
  <2>2. messages = <<>> /\ (\A n : Has(n)' <=> n = "body")
    BY PutEffect
  <2>3. ~Has("headers") /\ ~Has("body")
    BY <2>2, EmptyQueue
  <2>4. ~NoHeaders'
    BY <1>1, <2>1, <2>3 DEF NoHeaders
  <2>5. /\ Waiting = 1 /\ Waiting' = 0 /\ Queued = 0 /\ Queued' = 1
        /\ Sent' = Sent /\ Held' = Held
    BY <1>1, <2>2, <2>3 DEF Waiting, Queued, Sent, Held
  <2>6. Sent \in Int /\ Held \in Int
    BY LenProperties DEF Sent, Held, IInv, TypeOK
  <2>7. received' = Sent' + Held' + Queued' + Waiting'
    BY <1>1, <2>1, <2>5, <2>6
  <2> QED
    BY <1>1, <1>2, <2>1, <2>2, <2>4, <2>7 DEF FlowInv
<1> QED
  BY <1>3, <1>4 DEF FlowInv

(* The end put into the queue keeps the flow.                               *)
LEMMA FlowPutEnd ==
  ASSUME IInv, ServePutEnd
  PROVE  FlowInv'
<1>1. /\ serveAt = "putEnd" /\ serveAt' = "over"
      /\ UNCHANGED <<deliverAt, wire, userOutcome, serveOutcome, received>>
      /\ serveOutcome \in {"http_response", "timeout", "transport_error"}
  BY DEF ServePutEnd, ServeUnchanged, sendVars, resultVars, IInv, ServeInv, TypeOK,
     AttemptOutcomes
<1>2. SentComplete' <=> SentComplete
  BY <1>1, SameResponse
<1>3. Streaming' <=> Streaming
  BY <1>1 DEF Streaming
<1>4. CASE Streaming
  <2>1. messages = <<>> /\ (\A n : Has(n)' <=> n = serveOutcome)
    BY PutEffect
  <2>2. ~Has("headers") /\ ~Has("body") /\ ~Has("headers")' /\ ~Has("body")'
    BY <1>1, <2>1, EmptyQueue
  <2>3. /\ NoHeaders' <=> NoHeaders
        /\ Waiting' = Waiting /\ Queued' = Queued /\ Sent' = Sent /\ Held' = Held
    BY <1>1, <2>2 DEF NoHeaders, Waiting, Queued, Sent, Held
  <2>4. /\ userOutcome = "cancelled" /\ ~SentComplete /\ deliverAt # "final"
        /\ wire # <<>> => wire[1] = "start"
        /\ deliverAt = "start" => wire = <<>>
        /\ deliverAt = "body" => wire # <<>>
        /\ NoHeaders => serveOutcome # "http_response"
        /\ ~NoHeaders /\ serveOutcome = "http_response" =>
             received = Sent + Held + Queued + Waiting
    BY <1>1, <1>4 DEF IInv, FlowInv
  <2> QED
    BY <1>1, <1>2, <2>2, <2>3, <2>4 DEF FlowInv
<1> QED
  BY <1>3, <1>4 DEF FlowInv

(* The end of the backend response keeps the flow.                          *)
LEMMA FlowCleanup ==
  ASSUME IInv, NEW failed \in BOOLEAN, ServeCleanup(failed)
  PROVE  FlowInv'
<1>1. /\ serveAt = "cleanup" /\ serveAt' \in {"over", "putEnd"}
      /\ UNCHANGED <<deliverAt, wire, userOutcome, received>>
      /\ serveOutcome' = AfterCleanup(failed)
  BY DEF ServeCleanup, sendVars, resultVars
<1>2. /\ serveOutcome' \in {"http_response", "timeout", "transport_error", "cancelled"}
      /\ serveOutcome' = "http_response" => serveOutcome = "http_response"
  BY <1>1 DEF IInv, ServeInv, TypeOK, AttemptOutcomes, AfterCleanup
<1>3. SentComplete' <=> SentComplete
  BY <1>1, SameResponse
<1>4. Streaming' <=> Streaming
  BY <1>1 DEF Streaming
<1>5. CASE Streaming
  <2>1. /\ Has("headers")' <=> Has("headers")
        /\ Has("body")' <=> Has("body")
    <3>1. CASE messages' = messages
      BY <3>1, SameQueue
    <3>2. CASE messages = <<>> /\ (\A n : Has(n)' <=> n = AfterCleanup(failed))
      BY <1>1, <1>2, <3>2, EmptyQueue
    <3> QED
      BY <3>1, <3>2, PutEffect
  <2>2. /\ NoHeaders' <=> NoHeaders
        /\ Waiting' = Waiting /\ Queued' = Queued /\ Sent' = Sent /\ Held' = Held
    BY <1>1, <2>1 DEF NoHeaders, Waiting, Queued, Sent, Held
  <2>3. /\ userOutcome = "cancelled" /\ ~SentComplete /\ deliverAt # "final"
        /\ wire # <<>> => wire[1] = "start"
        /\ deliverAt = "start" => wire = <<>>
        /\ deliverAt = "body" => wire # <<>>
        /\ Has("headers") => wire = <<>> /\ deliverAt = "get"
        /\ NoHeaders => ~Has("body") /\ serveOutcome # "http_response"
        /\ ~NoHeaders /\ serveOutcome = "http_response" =>
             received = Sent + Held + Queued + Waiting
    BY <1>1, <1>5 DEF IInv, FlowInv
  <2> QED
    BY <1>1, <1>2, <1>3, <2>1, <2>2, <2>3 DEF FlowInv
<1> QED
  BY <1>4, <1>5 DEF FlowInv

(* A part taken from the queue keeps the flow.                              *)
LEMMA FlowTake ==
  ASSUME IInv, DeliverTake
  PROVE  FlowInv'
<1>1. /\ deliverAt = "get" /\ deliverAt' = AfterMessage(messages[1])
      /\ UNCHANGED <<serveAt, serveOutcome, received, wire, sentHeaders>>
      /\ messages[1] \in Messages /\ Has(messages[1])
      /\ \A n : ~Has(n)'
      /\ messages' = <<>>
  BY TakeEffect DEF DeliverTake, DeliverUnchanged, serveVars
<1>2. SentComplete' <=> SentComplete
  BY <1>1, SameResponse
<1>3. /\ userOutcome = "cancelled" /\ ~SentComplete
      /\ wire # <<>> => wire[1] = "start"
      /\ Has("headers") => wire = <<>>
      /\ NoHeaders => ~Has("body") /\ serveOutcome # "http_response"
      /\ ~NoHeaders => serveAt # "open"
      /\ ~NoHeaders /\ (serveAt \in {"stream", "put"} \/ serveOutcome = "http_response") =>
           received = Sent + Held + Queued + Waiting
  BY <1>1 DEF IInv, FlowInv, Streaming
<1>4. deliverAt' \in {"start", "body", "final"} => userOutcome' = "cancelled"
  BY <1>1, <1>3 DEF DeliverTake
<1>5. Waiting' = Waiting /\ Sent' = Sent /\ Queued' = 0 /\ Held = 0
  BY <1>1 DEF Waiting, Sent, Queued, Held
<1>6. Sent \in Int /\ Waiting \in Int
  BY LenProperties DEF Sent, Waiting, IInv, TypeOK
<1>7. CASE messages[1] = "headers"
  <2>1. /\ deliverAt' = "start" /\ ~NoHeaders /\ ~NoHeaders' /\ Queued = 0 /\ Held' = 0
        /\ wire = <<>>
    BY <1>1, <1>3, <1>7 DEF AfterMessage, NoHeaders, Queued, Held, Has
  <2> QED
    BY <1>1, <1>2, <1>3, <1>4, <1>5, <1>6, <2>1 DEF FlowInv
<1>8. CASE messages[1] = "body"
  <2>1. deliverAt' = "body" /\ ~NoHeaders /\ ~NoHeaders' /\ Queued = 1 /\ Held' = 1
    BY <1>1, <1>3, <1>8 DEF AfterMessage, NoHeaders, Queued, Held
  <2>2. wire # <<>>
    BY <1>1, <1>8, <2>1 DEF NoHeaders, Has
  <2>3. Sent + Held + Queued + Waiting = Sent' + Held' + Queued' + Waiting'
    BY <1>5, <1>6, <2>1
  <2> QED
    BY <1>1, <1>2, <1>3, <1>4, <2>1, <2>2, <2>3 DEF FlowInv
<1>9. CASE messages[1] = "http_response"
  <2>1. serveAt = "over" /\ serveOutcome = "http_response"
    BY <1>1, <1>9 DEF IInv, ServeInv
  <2>2. deliverAt' = "final" /\ ~NoHeaders /\ ~NoHeaders' /\ Queued = 0 /\ Held' = 0
    BY <1>1, <1>3, <1>9, <2>1 DEF AfterMessage, NoHeaders, Queued, Held, Has
  <2>3. wire # <<>>
    BY <1>1, <1>9, <2>2 DEF NoHeaders, Has
  <2> QED
    BY <1>1, <1>2, <1>3, <1>4, <1>5, <1>6, <2>1, <2>2, <2>3 DEF FlowInv
<1>10. CASE messages[1] \in {"timeout", "transport_error"}
  <2>1. ~Streaming'
    BY <1>1, <1>10 DEF AfterMessage, Streaming
  <2> QED
    BY <2>1 DEF FlowInv
<1> QED
  BY <1>1, <1>7, <1>8, <1>9, <1>10 DEF Messages

(* A part sent to the user keeps the flow.                                  *)
LEMMA FlowSend ==
  ASSUME IInv, DeliverSend
  PROVE  FlowInv'
<1>1. UNCHANGED <<serveAt, serveOutcome, received, messages>>
  BY DEF DeliverSend, DeliverUnchanged, serveVars
<1>2. \A n : Has(n)' <=> Has(n)
  BY <1>1, SameQueue
<1>3. CASE deliverAt \in {"start", "body"}
  <2>1. deliverAt' = "get" /\ userOutcome' = userOutcome
    BY <1>3 DEF DeliverSend
  <2>2. /\ wire' # <<>> /\ wire'[1] = "start" /\ ~SentComplete'
        /\ wire = <<>> => Len(wire') = 1
        /\ wire # <<>> => Len(wire') = Len(wire) + 1
        /\ wire = <<>> <=> deliverAt = "start"
    BY <1>3, SendEffect
  <2>3. /\ userOutcome = "cancelled" /\ ~NoHeaders /\ ~Has("headers")
        /\ serveAt # "open"
        /\ serveAt \in {"stream", "put"} \/ serveOutcome = "http_response" =>
             received = Sent + Held + Queued + Waiting
    BY <1>3 DEF IInv, FlowInv, Streaming, NoHeaders
  <2>4. Len(wire) \in Int
    BY LenProperties DEF IInv, TypeOK
  <2>5. /\ Queued' = Queued /\ Waiting' = Waiting /\ Held' = 0
        /\ Sent' = Sent + Held /\ Sent \in Int /\ Held \in Int
    <3>1. CASE deliverAt = "start"
      BY <1>1, <1>2, <2>1, <2>2, <2>4, <3>1 DEF Queued, Waiting, Sent, Held
    <3>2. CASE deliverAt = "body"
      <4>1. Sent = Len(wire) - 1 /\ Sent' = Len(wire)
        BY <2>2, <2>4, <3>2 DEF Sent
      <4> QED
        BY <1>1, <1>2, <2>1, <2>4, <3>2, <4>1 DEF Queued, Waiting, Held
    <3> QED
      BY <1>3, <3>1, <3>2
  <2>6. Queued \in Int /\ Waiting \in Int
    BY DEF Queued, Waiting
  <2>7. Sent' + Held' + Queued' + Waiting' = Sent + Held + Queued + Waiting
    BY <2>5, <2>6
  <2>8. ~NoHeaders'
    BY <2>2 DEF NoHeaders
  <2> QED
    BY <1>1, <1>2, <2>1, <2>2, <2>3, <2>7, <2>8 DEF FlowInv
<1>4. CASE deliverAt \in {"final", "errorStart", "errorBody"}
  <2>1. ~Streaming'
    BY <1>4 DEF DeliverSend, Streaming
  <2> QED
    BY <2>1 DEF FlowInv
<1> QED
  BY <1>3, <1>4 DEF DeliverSend

(* Every step keeps every message in its place.                             *)
LEMMA NextFlow == IInv /\ [Next]_vars => FlowInv'
<1> SUFFICES ASSUME IInv, [Next]_vars PROVE FlowInv'
  OBVIOUS
<1> USE DEF requestVars, inputVars, serveVars, sendVars, resultVars, shadowVars, pairVars,
            IInv, TypeOK, BeginInv, JoinInv, ServeInv, FlowInv, AnswerInv, Streaming,
            NoHeaders, Sent, Held, Queued, Waiting, Delivered
<1>1. CASE ClientGone
  BY <1>1, SameResponse, SameQueue, EmptyQueue DEF ClientGone
<1>2. CASE Reject
  BY <1>2, SameResponse, SameQueue, EmptyQueue DEF Reject
<1>3. CASE RejectSend
  BY <1>3, RejectEffect DEF RejectSend
<1>4. ASSUME NEW o \in {"rejected", "timeout", "cancelled"}, RejectEnds(o) PROVE FlowInv'
  BY <1>4, SameResponse, SameQueue, EmptyQueue DEF RejectEnds
<1>5. ASSUME NEW inSample \in BOOLEAN, NEW slotFree \in BOOLEAN, Begin(inSample, slotFree)
      PROVE FlowInv'
  <2>1. /\ userOutcome = "cancelled" /\ wire = <<>> /\ messages = <<>> /\ received = 0
        /\ serveOutcome = "not_dispatched"
    BY <1>5 DEF Begin
  <2>2. NoHeaders' /\ ~Has("body")' /\ ~Has("headers")' /\ ~SentComplete'
    BY <1>5, <2>1, EmptyQueue DEF Begin, SentComplete
  <2> QED
    BY <1>5, <2>1, <2>2 DEF Begin
<1>6. CASE UploadOversized
  BY <1>6, SameResponse, SameQueue, EmptyQueue DEF UploadOversized, Uploading
<1>7. ASSUME NEW u \in {"complete", "disconnected", "stopped"}, UploadEnds(u) PROVE FlowInv'
  BY <1>7, SameResponse, SameQueue, EmptyQueue DEF UploadEnds, Uploading, ReceivesDisconnect
<1>8. CASE ServeHeaders
  BY <1>8, FlowHeaders
<1>9. CASE ServeChunk
  BY <1>9, FlowChunk
<1>10. CASE ServeBodyEnds
  BY <1>10, SameResponse, SameQueue, EmptyQueue DEF ServeBodyEnds, ServeUnchanged, ServeEnds
<1>11. CASE ServeTimeout
  BY <1>11, SameResponse, SameQueue, EmptyQueue DEF ServeTimeout, ServeUnchanged, ServeEnds
<1>12. CASE ServeFails
  BY <1>12, SameResponse, SameQueue, EmptyQueue DEF ServeFails, ServeUnchanged, ServeEnds
<1>13. CASE ServePut
  BY <1>13, FlowPut
<1>14. CASE ServePutEnd
  BY <1>14, FlowPutEnd
<1>15. ASSUME NEW failed \in BOOLEAN, ServeCleanup(failed) PROVE FlowInv'
  BY <1>15, FlowCleanup
<1>16. CASE DeliverTake
  BY <1>16, FlowTake
<1>17. CASE DeliverSend
  BY <1>17, FlowSend
<1>18. ASSUME NEW d \in {"timeout", "oserror"}, DeliverStops(d) PROVE FlowInv'
  BY <1>18, SameResponse, SameQueue, EmptyQueue
  DEF DeliverStops, DeliverUnchanged, SendTimerRuns
<1>19. CASE WatchInput
  BY <1>19, SameResponse, SameQueue, EmptyQueue DEF WatchInput, WatcherMayRead, InputDone
<1>20. CASE WatchDisconnect
  BY <1>20, SameResponse, SameQueue, EmptyQueue DEF WatchDisconnect, ReceivesDisconnect
<1>21. ASSUME NEW o \in {"http_response", "timeout", "transport_error"}, ShadowEnds(o)
       PROVE FlowInv'
  BY <1>21, SameResponse, SameQueue, EmptyQueue DEF ShadowEnds, ShadowUnchanged
<1>22. CASE ShadowDispatch
  BY <1>22, SameResponse, SameQueue, EmptyQueue
  DEF ShadowDispatch, ShadowUnchanged, InputDone, MayDispatch
<1>23. ASSUME NEW failed \in BOOLEAN, ShadowCleanup(failed) PROVE FlowInv'
  BY <1>23, SameResponse, SameQueue, EmptyQueue DEF ShadowCleanup, ShadowUnchanged
<1>24. CASE SenderDone
  BY <1>24, SameResponse, SameQueue, EmptyQueue
  DEF SenderDone, JoinChildren, CancelServe, ServeEnds, Racing
<1>25. CASE SenderLate
  BY <1>25, SameResponse, SameQueue, EmptyQueue DEF SenderLate
<1>26. CASE ClientLost
  BY <1>26, SameResponse, SameQueue, EmptyQueue
  DEF ClientLost, JoinChildren, CancelServe, ServeEnds, CancelShadow, Disconnected, Racing
<1>27. CASE RequestEnds
  BY <1>27, SameResponse, SameQueue, EmptyQueue DEF RequestEnds, ChildrenOver
<1>28. CASE CancelRequest
  BY <1>28, SameResponse, SameQueue, EmptyQueue
  DEF CancelRequest, JoinChildren, CancelServe, ServeEnds, CancelShadow, Racing
<1>29. ASSUME NEW f \in {"submitted", "dropped"}, PairEnds(f) PROVE FlowInv'
  BY <1>29, SameResponse, SameQueue, EmptyQueue DEF PairEnds, PairMayEnd
<1>30. CASE CancelPair
  BY <1>30, SameResponse, SameQueue, EmptyQueue DEF CancelPair, CancelShadow
<1>31. CASE UNCHANGED vars
  BY <1>31, SameResponse, SameQueue, EmptyQueue DEF vars
<1> QED
  BY <1>1, <1>2, <1>3, <1>4, <1>5, <1>6, <1>7, <1>8, <1>9, <1>10, <1>11, <1>12, <1>13,
     <1>14, <1>15, <1>16, <1>17, <1>18, <1>19, <1>20, <1>21, <1>22, <1>23, <1>24, <1>25,
     <1>26, <1>27, <1>28, <1>29, <1>30, <1>31
  DEF Next, ServeRuns, ShadowRuns, RequestRuns, PairRuns

(* What the sender takes and sends keeps the response true.                 *)
LEMMA AnswerTake ==
  ASSUME IInv, DeliverTake
  PROVE  AnswerInv'
<1>1. /\ deliverAt = "get" /\ deliverAt' = AfterMessage(messages[1])
      /\ UNCHANGED <<serveAt, serveOutcome, received, wire, sentHeaders>>
      /\ messages[1] \in Messages /\ Has(messages[1])
  BY TakeEffect DEF DeliverTake, DeliverUnchanged, serveVars
<1>2. (SentComplete' <=> SentComplete) /\ (OneResponse' <=> OneResponse)
  BY <1>1, SameResponse
<1>3. userOutcome = "cancelled" /\ ~SentComplete /\ (wire # <<>> => wire[1] = "start")
  BY <1>1 DEF IInv, FlowInv, Streaming
<1>4. /\ OneResponse /\ serveAt # "none" /\ (sentHeaders <=> wire # <<>>)
      /\ wire # <<>> => source = "backend"
  BY <1>1, <1>3 DEF IInv, AnswerInv, ResponseIsTrue, BeginInv
<1>5. CASE deliverAt' = "errorStart"
  <2>1. /\ messages[1] \in {"timeout", "transport_error"} /\ ~sentHeaders
        /\ userOutcome' = messages[1] /\ source' = "proxy"
    BY <1>1, <1>5 DEF DeliverTake, AfterMessage, Messages
  <2>2. serveAt = "over" /\ serveOutcome = messages[1]
    BY <1>1, <2>1 DEF IInv, ServeInv
  <2> QED
    BY <1>1, <1>2, <1>3, <1>4, <1>5, <2>1, <2>2
    DEF AnswerInv, ResponseIsTrue, NoTruncatedSuccess
<1>6. CASE deliverAt' # "errorStart"
  <2>1. userOutcome' \in {"cancelled", "incomplete"} /\ source' = source
    BY <1>1, <1>3, <1>6 DEF DeliverTake
  <2>2. deliverAt' # "errorBody"
    BY <1>1 DEF AfterMessage
  <2> QED
    BY <1>1, <1>2, <1>3, <1>4, <1>6, <2>1, <2>2
    DEF AnswerInv, ResponseIsTrue, NoTruncatedSuccess
<1> QED
  BY <1>5, <1>6

(* A part sent to the user keeps the answer true.                           *)
LEMMA AnswerSend ==
  ASSUME IInv, DeliverSend
  PROVE  AnswerInv'
<1>1. UNCHANGED <<serveAt, serveOutcome, received, messages>>
  BY DEF DeliverSend, DeliverUnchanged, serveVars
<1>2. OneResponse' /\ wire' # <<>> /\ ~SentComplete
  BY SendEffect
<1>3. serveAt # "none" /\ (sentHeaders <=> wire # <<>>)
  BY DEF IInv, AnswerInv, BeginInv, DeliverSend
<1>4. CASE deliverAt \in {"start", "body"}
  <2>1. /\ wire'[1] = "start" /\ ~SentComplete' /\ userOutcome' = "cancelled"
        /\ deliverAt' = "get" /\ source' = "backend" /\ sentHeaders'
    BY <1>3, <1>4, SendEffect DEF DeliverSend, IInv, FlowInv, Streaming, AnswerInv
  <2> QED
    BY <1>1, <1>2, <1>3, <2>1 DEF AnswerInv, ResponseIsTrue, NoTruncatedSuccess
<1>5. CASE deliverAt = "final"
  <2>1. /\ wire'[1] = "start" /\ SentComplete' /\ userOutcome' = "completed"
        /\ deliverAt' = "ok" /\ source' = "backend" /\ sentHeaders'
    BY <1>3, <1>5, SendEffect DEF DeliverSend, IInv, AnswerInv
  <2>2. /\ serveAt = "over" /\ serveOutcome = "http_response"
        /\ messages = <<>> /\ ~Has("headers") /\ ~Has("body")
        /\ wire # <<>> /\ Len(wire') = Len(wire) + 1
        /\ received = Sent + Held + Queued + Waiting
    BY <1>5, SendEffect, EmptyQueue DEF IInv, FlowInv, Streaming, NoHeaders
  <2>3. received = Len(wire) - 1 /\ Len(wire) \in Nat
    BY <1>5, <2>2, LenProperties DEF Sent, Held, Queued, Waiting, IInv, TypeOK
  <2>4. Len(wire') = received' + 2
    BY <1>1, <2>2, <2>3
  <2> QED
    BY <1>1, <1>2, <1>3, <2>1, <2>2, <2>4 DEF AnswerInv, ResponseIsTrue, NoTruncatedSuccess
<1>6. CASE deliverAt = "errorStart"
  <2>1. /\ wire'[1] = ErrorStatus /\ ~SentComplete' /\ deliverAt' = "errorBody"
        /\ userOutcome' = userOutcome /\ source' = "proxy" /\ sentHeaders'
    BY <1>6, SendEffect DEF DeliverSend, IInv, AnswerInv, SentAfterError
  <2>2. \/ userOutcome = "timeout" /\ wire'[1] = "504"
        \/ /\ userOutcome = "transport_error" /\ wire'[1] = "502"
           /\ serveAt = "over" /\ serveOutcome = "transport_error"
    BY <1>6, <2>1 DEF IInv, AnswerInv, ErrorStatus
  <2> QED
    BY <1>1, <1>2, <1>3, <2>1, <2>2
    DEF AnswerInv, ResponseIsTrue, NoTruncatedSuccess, ProxyStarts
<1>7. CASE deliverAt = "errorBody"
  <2>1. /\ wire # <<>> /\ wire'[1] = wire[1] /\ wire[1] \in ProxyStarts /\ SentComplete'
        /\ deliverAt' = "ok" /\ UNCHANGED <<userOutcome, source, sentHeaders>>
    BY <1>7, SendEffect DEF DeliverSend, IInv, AnswerInv
  <2>2. wire[1] # "start"
    BY <2>1 DEF ProxyStarts
  <2>3. /\ userOutcome # "completed"
        /\ userOutcome = "transport_error" => wire[1] = "502"
        /\ wire[1] = "502" =>
             serveAt = "over" /\ serveOutcome = "transport_error" /\ source = "proxy"
    BY <1>2, <2>1 DEF IInv, AnswerInv, ResponseIsTrue, NoTruncatedSuccess
  <2> QED
    BY <1>1, <1>2, <1>3, <2>1, <2>2, <2>3 DEF AnswerInv, ResponseIsTrue, NoTruncatedSuccess
<1> QED
  BY <1>4, <1>5, <1>6, <1>7 DEF DeliverSend

(* Every step keeps the response true.                                      *)
LEMMA NextAnswer == IInv /\ [Next]_vars => AnswerInv'
<1> SUFFICES ASSUME IInv, [Next]_vars PROVE AnswerInv'
  OBVIOUS
<1> USE DEF requestVars, inputVars, serveVars, sendVars, resultVars, shadowVars, pairVars,
            IInv, TypeOK, BeginInv, JoinInv, ServeInv, FlowInv, AnswerInv, Streaming,
            Delivered, ResponseIsTrue, NoTruncatedSuccess, ProxyStarts
<1>1. CASE ClientGone
  BY <1>1, SameResponse DEF ClientGone
<1>2. CASE Reject
  BY <1>2, SameResponse DEF Reject
<1>3. CASE RejectSend
  BY <1>3, RejectEffect DEF RejectSend
<1>4. ASSUME NEW o \in {"rejected", "timeout", "cancelled"}, RejectEnds(o) PROVE AnswerInv'
  BY <1>4, SameResponse DEF RejectEnds
<1>5. ASSUME NEW inSample \in BOOLEAN, NEW slotFree \in BOOLEAN, Begin(inSample, slotFree)
      PROVE AnswerInv'
  <2>1. /\ wire' = <<>> /\ sentHeaders' = FALSE /\ deliverAt' = "get"
        /\ userOutcome' = "cancelled"
    BY <1>5 DEF Begin
  <2>2. OneResponse' /\ ~SentComplete'
    BY <2>1, EmptySeq DEF OneResponse, SentComplete
  <2> QED
    BY <2>1, <2>2
<1>6. CASE UploadOversized
  BY <1>6, SameResponse DEF UploadOversized, Uploading
<1>7. ASSUME NEW u \in {"complete", "disconnected", "stopped"}, UploadEnds(u)
      PROVE AnswerInv'
  BY <1>7, SameResponse DEF UploadEnds, Uploading, ReceivesDisconnect
<1>8. CASE ServeHeaders
  BY <1>8, SameResponse DEF ServeHeaders, ServeUnchanged
<1>9. CASE ServeChunk
  BY <1>9, SameResponse DEF ServeChunk, ServeUnchanged, MayPut
<1>10. CASE ServeBodyEnds
  BY <1>10, SameResponse DEF ServeBodyEnds, ServeUnchanged, ServeEnds
<1>11. CASE ServeTimeout
  BY <1>11, SameResponse DEF ServeTimeout, ServeUnchanged, ServeEnds
<1>12. CASE ServeFails
  BY <1>12, SameResponse DEF ServeFails, ServeUnchanged, ServeEnds
<1>13. CASE ServePut
  BY <1>13, SameResponse DEF ServePut, ServeUnchanged, MayPut
<1>14. CASE ServePutEnd
  BY <1>14, SameResponse DEF ServePutEnd, ServeUnchanged, MayPut
<1>15. ASSUME NEW failed \in BOOLEAN, ServeCleanup(failed) PROVE AnswerInv'
  BY <1>15, SameResponse DEF ServeCleanup, AfterCleanup, UploadAfter, MayPut
<1>16. CASE DeliverTake
  BY <1>16, AnswerTake
<1>17. CASE DeliverSend
  BY <1>17, AnswerSend
<1>18. ASSUME NEW d \in {"timeout", "oserror"}, DeliverStops(d) PROVE AnswerInv'
  BY <1>18, SameResponse DEF DeliverStops, DeliverUnchanged, SendTimerRuns
<1>19. CASE WatchInput
  BY <1>19, SameResponse DEF WatchInput, WatcherMayRead, InputDone
<1>20. CASE WatchDisconnect
  BY <1>20, SameResponse DEF WatchDisconnect, ReceivesDisconnect
<1>21. ASSUME NEW o \in {"http_response", "timeout", "transport_error"}, ShadowEnds(o)
       PROVE AnswerInv'
  BY <1>21, SameResponse DEF ShadowEnds, ShadowUnchanged
<1>22. CASE ShadowDispatch
  BY <1>22, SameResponse DEF ShadowDispatch, ShadowUnchanged, InputDone, MayDispatch
<1>23. ASSUME NEW failed \in BOOLEAN, ShadowCleanup(failed) PROVE AnswerInv'
  BY <1>23, SameResponse DEF ShadowCleanup, ShadowUnchanged
<1>24. CASE SenderDone
  BY <1>24, SameResponse DEF SenderDone, JoinChildren, CancelServe, ServeEnds, Racing
<1>25. CASE SenderLate
  BY <1>25, SameResponse DEF SenderLate
<1>26. CASE ClientLost
  BY <1>26, SameResponse
  DEF ClientLost, JoinChildren, CancelServe, ServeEnds, CancelShadow, Disconnected, Racing
<1>27. CASE RequestEnds
  BY <1>27, SameResponse DEF RequestEnds, ChildrenOver
<1>28. CASE CancelRequest
  BY <1>28, SameResponse
  DEF CancelRequest, JoinChildren, CancelServe, ServeEnds, CancelShadow, Racing
<1>29. ASSUME NEW f \in {"submitted", "dropped"}, PairEnds(f) PROVE AnswerInv'
  BY <1>29, SameResponse DEF PairEnds, PairMayEnd
<1>30. CASE CancelPair
  BY <1>30, SameResponse DEF CancelPair, CancelShadow
<1>31. CASE UNCHANGED vars
  BY <1>31, SameResponse DEF vars
<1> QED
  BY <1>1, <1>2, <1>3, <1>4, <1>5, <1>6, <1>7, <1>8, <1>9, <1>10, <1>11, <1>12, <1>13,
     <1>14, <1>15, <1>16, <1>17, <1>18, <1>19, <1>20, <1>21, <1>22, <1>23, <1>24, <1>25,
     <1>26, <1>27, <1>28, <1>29, <1>30, <1>31
  DEF Next, ServeRuns, ShadowRuns, RequestRuns, PairRuns

(* The first state satisfies the invariant.                                 *)
LEMMA InitInv == Init => IInv
<1> SUFFICES ASSUME Init PROVE IInv
  OBVIOUS
<1> USE DEF Init
<1>1. TypeOK
  <2>1. messages \in Seq(Messages) /\ Len(messages) <= 1 /\ wire \in Seq(Wire)
    OBVIOUS
  <2>2. received \in 0..MaxBody
    BY BodyAssumption
  <2> QED
    BY <2>1, <2>2 DEF TypeOK, AttemptOutcomes, DeliverPlaces, Delivered
<1>2. ~SentComplete /\ OneResponse
  BY DEF SentComplete, OneResponse
<1>3. BeginInv /\ JoinInv
  BY DEF BeginInv, JoinInv
<1>4. ServeInv
  BY EmptyQueue DEF ServeInv
<1>5. FlowInv
  BY DEF FlowInv, Streaming
<1>6. AnswerInv
  BY <1>2 DEF AnswerInv, ResponseIsTrue, NoTruncatedSuccess
<1>7. WatchInv
  BY DEF WatchInv, Racing
<1>8. ShadowInv
  BY DEF ShadowInv, ShadowNeedsWholeInput, CompletionKeepsShadow
<1>9. PairInv
  BY DEF PairInv
<1> QED
  BY <1>1, <1>3, <1>4, <1>5, <1>6, <1>7, <1>8, <1>9 DEF IInv

(* The invariant holds in every state of the request.                       *)
LEMMA Invariance == Spec => []IInv
<1>1. IInv /\ [Next]_vars => IInv'
  BY NextType, NextBegin, NextJoin, NextServe, NextFlow, NextAnswer, NextWatch, NextShadow,
     NextPair
  DEF IInv
<1> QED
  BY <1>1, InitInv, PTL DEF Spec

-----------------------------------------------------------------------------
(* The theorems                                                             *)

(* Every variable of the request has its type; in particular the queue      *)
(* between the serving attempt and the sender never holds a second message. *)
THEOREM TypeCorrect == Spec => []TypeOK
<1>1. IInv => TypeOK
  BY DEF IInv
<1> QED
  BY <1>1, Invariance, PTL

(* Whatever fails, times out or is cancelled, the client is given one       *)
(* response at most, a backend's response is only ended as a whole one when *)
(* every chunk of a complete attempt was sent, and only that is recorded as *)
(* completed.                                                               *)
THEOREM ResponsesAreTrue == Spec => []ResponseIsTrue
<1>1. IInv => ResponseIsTrue
  BY DEF IInv, AnswerInv
<1> QED
  BY <1>1, Invariance, PTL

(* The shadow backend is only called with a body that was read to its end   *)
(* and captured whole, by a request that holds a slot.                      *)
THEOREM ShadowsAreWhole == Spec => []ShadowNeedsWholeInput
<1>1. IInv => ShadowNeedsWholeInput
  BY DEF IInv, ShadowInv
<1> QED
  BY <1>1, Invariance, PTL

(* Only a client that is gone or a shutdown cancels a shadow: the end of a  *)
(* completed response, reported as a disconnection as well, never does.     *)
THEOREM ShadowsAreKept == Spec => []CompletionKeepsShadow
<1>1. IInv => CompletionKeepsShadow
  BY DEF IInv, ShadowInv
<1> QED
  BY <1>1, Invariance, PTL

(* Once a pair is handed over nothing of its evidence changes any more, and *)
(* no task of the request is left that could change it.                     *)
THEOREM EvidenceStays == Spec => EvidenceIsFinal
<1> DEFINE Final == /\ UNCHANGED <<serveOutcome, userOutcome, source, shadowOutcome, wire,
                                   selected>>
                    /\ serveAt = "over" /\ shadowAt \in {"none", "over"}
                    /\ deliverAt \in Delivered /\ watchAt = "done"
<1>1. IInv /\ [Next]_vars => [pairFate # "none" => Final]_vars
  <2> SUFFICES ASSUME IInv, [Next]_vars, pairFate # "none" PROVE Final
    OBVIOUS
  <2>1. /\ requestAt = "over" /\ serveAt = "over" /\ pairAt = "over"
        /\ shadowAt \in {"none", "over"} /\ deliverAt \in Delivered /\ watchAt = "done"
    BY DEF IInv, PairInv, JoinInv
  <2>2. UNCHANGED <<serveOutcome, userOutcome, source, shadowOutcome, wire, selected>>
    <3> USE <2>1 DEF requestVars, inputVars, serveVars, sendVars, resultVars, shadowVars,
                     pairVars, Delivered
    <3>1. CASE ClientGone
      BY <3>1 DEF ClientGone
    <3>2. CASE Reject
      BY <3>2 DEF Reject
    <3>3. CASE RejectSend
      BY <3>3 DEF RejectSend
    <3>4. ASSUME NEW o \in {"rejected", "timeout", "cancelled"}, RejectEnds(o)
          PROVE  UNCHANGED <<serveOutcome, userOutcome, source, shadowOutcome, wire, selected>>
      BY <3>4 DEF RejectEnds
    <3>5. ASSUME NEW inSample \in BOOLEAN, NEW slotFree \in BOOLEAN, Begin(inSample, slotFree)
          PROVE  UNCHANGED <<serveOutcome, userOutcome, source, shadowOutcome, wire, selected>>
      BY <3>5 DEF Begin
    <3>6. CASE UploadOversized
      BY <3>6 DEF UploadOversized, Uploading
    <3>7. ASSUME NEW u \in {"complete", "disconnected", "stopped"}, UploadEnds(u)
          PROVE  UNCHANGED <<serveOutcome, userOutcome, source, shadowOutcome, wire, selected>>
      BY <3>7 DEF UploadEnds, Uploading, ReceivesDisconnect
    <3>8. CASE ServeHeaders
      BY <3>8 DEF ServeHeaders, ServeUnchanged
    <3>9. CASE ServeChunk
      BY <3>9 DEF ServeChunk, ServeUnchanged, MayPut
    <3>10. CASE ServeBodyEnds
      BY <3>10 DEF ServeBodyEnds, ServeUnchanged, ServeEnds
    <3>11. CASE ServeTimeout
      BY <3>11 DEF ServeTimeout, ServeUnchanged, ServeEnds
    <3>12. CASE ServeFails
      BY <3>12 DEF ServeFails, ServeUnchanged, ServeEnds
    <3>13. CASE ServePut
      BY <3>13 DEF ServePut, ServeUnchanged, MayPut
    <3>14. CASE ServePutEnd
      BY <3>14 DEF ServePutEnd, ServeUnchanged, MayPut
    <3>15. ASSUME NEW failed \in BOOLEAN, ServeCleanup(failed)
          PROVE  UNCHANGED <<serveOutcome, userOutcome, source, shadowOutcome, wire, selected>>
      BY <3>15 DEF ServeCleanup, AfterCleanup, UploadAfter, MayPut
    <3>16. CASE DeliverTake
      BY <3>16 DEF DeliverTake, DeliverUnchanged, AfterMessage
    <3>17. CASE DeliverSend
      BY <3>17 DEF DeliverSend, DeliverUnchanged, ErrorStatus, SentAfterError
    <3>18. ASSUME NEW d \in {"timeout", "oserror"}, DeliverStops(d)
          PROVE  UNCHANGED <<serveOutcome, userOutcome, source, shadowOutcome, wire, selected>>
      BY <3>18 DEF DeliverStops, DeliverUnchanged, SendTimerRuns
    <3>19. CASE WatchInput
      BY <3>19 DEF WatchInput, WatcherMayRead, InputDone
    <3>20. CASE WatchDisconnect
      BY <3>20 DEF WatchDisconnect, ReceivesDisconnect
    <3>21. ASSUME NEW o \in {"http_response", "timeout", "transport_error"}, ShadowEnds(o)
          PROVE  UNCHANGED <<serveOutcome, userOutcome, source, shadowOutcome, wire, selected>>
      BY <3>21 DEF ShadowEnds, ShadowUnchanged
    <3>22. CASE ShadowDispatch
      BY <3>22 DEF ShadowDispatch, ShadowUnchanged, InputDone, MayDispatch
    <3>23. ASSUME NEW failed \in BOOLEAN, ShadowCleanup(failed)
          PROVE  UNCHANGED <<serveOutcome, userOutcome, source, shadowOutcome, wire, selected>>
      BY <3>23 DEF ShadowCleanup, ShadowUnchanged
    <3>24. CASE SenderDone
      BY <3>24 DEF SenderDone, JoinChildren, CancelServe, ServeEnds, Racing
    <3>25. CASE SenderLate
      BY <3>25 DEF SenderLate
    <3>26. CASE ClientLost
      BY <3>26
      DEF ClientLost, JoinChildren, CancelServe, ServeEnds, CancelShadow, Disconnected,
          Racing
    <3>27. CASE RequestEnds
      BY <3>27 DEF RequestEnds, ChildrenOver
    <3>28. CASE CancelRequest
      BY <3>28 DEF CancelRequest, JoinChildren, CancelServe, ServeEnds, CancelShadow, Racing
    <3>29. ASSUME NEW f \in {"submitted", "dropped"}, PairEnds(f)
          PROVE  UNCHANGED <<serveOutcome, userOutcome, source, shadowOutcome, wire, selected>>
      BY <3>29 DEF PairEnds, PairMayEnd
    <3>30. CASE CancelPair
      BY <3>30 DEF CancelPair, CancelShadow
    <3>31. CASE UNCHANGED vars
      BY <3>31 DEF vars
    <3> QED
      BY <3>1, <3>2, <3>3, <3>4, <3>5, <3>6, <3>7, <3>8, <3>9, <3>10, <3>11, <3>12, <3>13,
         <3>14, <3>15, <3>16, <3>17, <3>18, <3>19, <3>20, <3>21, <3>22, <3>23, <3>24,
         <3>25, <3>26, <3>27, <3>28, <3>29, <3>30, <3>31
      DEF Next, ServeRuns, ShadowRuns, RequestRuns, PairRuns
  <2> QED
    BY <2>1, <2>2
<1> QED
  BY <1>1, Invariance, PTL DEF Spec, EvidenceIsFinal
=============================================================================
