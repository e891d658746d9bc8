--------------------------- MODULE ExchangeProps ---------------------------
(***************************************************************************)
(* What must be true of one request and its pair (proxy/runtime.py).        *)
(***************************************************************************)
EXTENDS Exchange

(* Every variable has its type. *)
TypeOK ==
  /\ client \in {"up", "gone"} /\ shutdown \in BOOLEAN
  /\ requestAt \in {"new", "rejectStart", "rejectBody", "racing", "lateRacing", "joining", "over"}
  /\ selected \in BOOLEAN /\ slot \in BOOLEAN
  /\ upload \in {"open", "complete", "disconnected", "stopped"} /\ oversized \in BOOLEAN
  /\ serveAt \in {"none", "open", "stream", "put", "cleanup", "putEnd", "over"}
  /\ serveOutcome \in AttemptOutcomes /\ silent \in BOOLEAN /\ received \in 0..MaxBody
  /\ messages \in Seq(Messages) /\ Len(messages) <= 1
  /\ deliverAt \in DeliverPlaces /\ watchAt \in {"none", "input", "receive", "done"}
  /\ sentHeaders \in BOOLEAN
  /\ userOutcome \in {"completed", "incomplete", "timeout", "transport_error", "cancelled",
                      "rejected"}
  /\ source \in {"none", "backend", "proxy"}
  /\ shadowAt \in {"none", "input", "running", "cleanup", "over"}
  /\ shadowOutcome \in AttemptOutcomes \union {"running"}
  /\ pairAt \in {"none", "waiting", "over"} /\ pairFate \in {"none", "submitted", "dropped"}
  /\ wire \in Seq(Wire)

(* The client is given one response at most: one start, then chunks (of the *)
(* backend only), then one end and nothing more.  Whatever times out or     *)
(* fails, a response that has begun is never replaced by another.           *)
OneResponse ==
  \A i \in DOMAIN wire :
    /\ i = 1 <=> wire[i] \in {"start"} \union ProxyStarts
    /\ wire[i] = "final" => i = Len(wire)
    /\ wire[i] = "body"  => wire[1] = "start"

(* A response of the backend is only ended as a whole one if the attempt,   *)
(* its cleanup included, ended well, and every chunk received was handed    *)
(* over; and only then is the request "completed".  A 502 is only sent for a*)
(* transport error of the attempt, and such an error never looks like a     *)
(* response of the backend.                                                 *)
NoTruncatedSuccess ==
  /\ SentComplete /\ wire[1] = "start" =>
       /\ serveAt = "over" /\ serveOutcome = "http_response"
       /\ Len(wire) = received + 2
  /\ userOutcome = "completed" => SentComplete /\ wire[1] = "start" /\ source = "backend"
  /\ wire # <<>> =>
       /\ wire[1] = "502" => serveOutcome = "transport_error" /\ source = "proxy"
       /\ userOutcome = "transport_error" => wire[1] = "502"

(* The client can trust what it gets.                                       *)
ResponseIsTrue == OneResponse /\ NoTruncatedSuccess

(* The shadow backend is only called with a request body that was read to   *)
(* its end and captured whole, and only by a request that holds a slot.     *)
ShadowNeedsWholeInput ==
  shadowOutcome # "not_dispatched" =>
    /\ upload = "complete" /\ ~oversized
    /\ shadowAt \in {"running", "cleanup"} => slot

(* A shadow is only cancelled because the client is gone or the process     *)
(* shuts down: the end of a completed response, which the server reports as *)
(* a disconnection too, never cancels it.                                   *)
CompletionKeepsShadow ==
  shadowOutcome = "cancelled" => client = "gone" \/ shutdown

(* The evidence of a pair is final when it is handed over: both attempts and*)
(* the delivery are over, no child of the request runs, and nothing changes *)
(* the evidence afterwards.                                                 *)
EvidenceIsFinal ==
  [][pairFate # "none" =>
       /\ UNCHANGED <<serveOutcome, userOutcome, source, shadowOutcome, wire, selected>>
       /\ serveAt = "over" /\ shadowAt \in {"none", "over"}
       /\ deliverAt \in Delivered /\ watchAt = "done"]_vars

-----------------------------------------------------------------------------
(* Every request ends, even if client, server and backends stay silent, and *)
(* the shadow slot it took is always given back.                            *)
RequestEnded ==
  /\ requestAt # "new" ~> requestAt = "over"
  /\ slot ~> ~slot

(* docs/shadow/lifecycle-and-limits.md: a request whose serving execution   *)
(* and delivery completed normally is recorded as completed.                *)
DeliveredIsCompleted ==
  requestAt = "over" /\ SentComplete /\ wire[1] = "start" => userOutcome = "completed"
=============================================================================
