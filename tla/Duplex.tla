------------------------------- MODULE Duplex -------------------------------
(***************************************************************************)
(* The duplex transport (proxy/_duplex.py): one pooled HTTP/1.1 connection   *)
(* and the requests that use it one after the other.  The upload of a        *)
(* request runs as a task beside the reading of its response, so a response  *)
(* may be over while its upload still writes; and the task of a request may  *)
(* be cancelled at any await, again and again.                              *)
(*                                                                         *)
(* The base classes of httpcore are modelled from the use made of them: the  *)
(* upload hands each piece to the h11 state machine first and writes it to   *)
(* the socket second, and _response_closed() keeps a connection only if h11  *)
(* is done on both sides; that end is one step here.                        *)
(*                                                                         *)
(* An operator whose name has a suffix after "_" is a plausible bug, used by *)
(* no definition: it stands for the operator it precedes when the properties *)
(* are tested against it.                                                    *)
(***************************************************************************)
EXTENDS Naturals

CONSTANTS
  MaxRequests,   \* requests, numbered in the order the pool serves them
  MaxCancels     \* bound: times the task of one request is cancelled

ASSUME BoundsAssumption == MaxRequests \in Nat \ {0} /\ MaxCancels \in Nat \ {0}

Requests == 1..MaxRequests

VARIABLES
  conn,      \* the connection of the pool: "none", "opening", "active", "idle"
  life,      \* connections opened so far: the number of the present one
  attached,  \* _upload: {} or the request whose upload task it is
  ours,      \* our h11 state: "open" or "done"
  theirs,    \* the h11 state of the backend: "open" or "done"
  phase,     \* where the task of each request is
  used,      \* the number of the connection a request uses, 0 before
  upload,    \* its upload task: "none", "reading", "writing", "last", "stopping", or how it ended
  receive,   \* its header task: "none", "running", "cancelled", "headers", "failed"
  whole,     \* history: the requests all of whose bytes reached the socket
  answered,  \* history: the requests whose response was read to its end
  cancels    \* how often the task of a request was cancelled

connection == <<conn, life, ours, theirs>>
tasks      == <<upload, receive, attached>>
history    == <<whole, answered>>
vars       == <<connection, tasks, history, phase, used, cancels>>

Init ==
  /\ conn = "none" /\ life = 0 /\ attached = {} /\ ours = "open" /\ theirs = "open"
  /\ phase = [r \in Requests |-> "waiting"] /\ used = [r \in Requests |-> 0]
  /\ upload = [r \in Requests |-> "none"] /\ receive = [r \in Requests |-> "none"]
  /\ whole = {} /\ answered = {}
  /\ cancels = [r \in Requests |-> 0]

UploadOver(r)  == upload[r] \in {"none", "done", "write_error", "error", "cancelled"}
ReceiveOver(r) == receive[r] \in {"none", "headers", "failed"}

Go(r, to) == phase' = [phase EXCEPT ![r] = to]

-----------------------------------------------------------------------------
(* The pool and _HTTPConnection.handle_async_request()                      *)
Assign(r) ==
  /\ phase[r] = "waiting" /\ \A q \in Requests : q < r => phase[q] # "waiting"
  /\ \/ conn = "none" /\ conn' = "opening" /\ Go(r, "connecting")
     \/ conn = "idle" /\ conn' = "active" /\ Go(r, "sending")
  /\ used' = [used EXCEPT ![r] = IF conn = "idle" THEN life ELSE @]
  /\ ours' = "open" /\ theirs' = "open"
  /\ UNCHANGED <<life, tasks, history, cancels>>

Connect(r) ==
  /\ phase[r] = "connecting"
  /\ \/ /\ conn' = "active" /\ life' = life + 1 /\ Go(r, "sending")
        /\ used' = [used EXCEPT ![r] = life']
     \/ /\ conn' = "none" /\ Go(r, "over") /\ UNCHANGED <<life, used>>
  /\ UNCHANGED <<ours, theirs, tasks, history, cancels>>

Expire ==
  /\ conn = "idle" /\ conn' = "none"
  /\ UNCHANGED <<life, ours, theirs, tasks, history, phase, used, cancels>>

-----------------------------------------------------------------------------
(* _send_request_body() and _receive_response_headers()                     *)

(* The request line and the headers are out: the body follows in a task; or *)
(* the backend closed its input, and only the response is left to read.     *)
Send(r) ==
  /\ phase[r] = "sending"
  /\ \/ /\ upload' = [upload EXCEPT ![r] = "reading"] /\ attached' = {r}
        /\ receive' = [receive EXCEPT ![r] = "running"]
        /\ Go(r, "first")
     \/ Go(r, "plain") /\ UNCHANGED tasks
  /\ UNCHANGED <<connection, history, used, cancels>>

(* The step after asyncio.wait(): headers, or the end of the upload.        *)
First(r) ==
  /\ phase[r] = "first" /\ (ReceiveOver(r) \/ UploadOver(r))
  /\ CASE receive[r] = "headers" -> Go(r, "body") /\ UNCHANGED receive
       [] receive[r] = "failed" -> Go(r, "ending") /\ UNCHANGED receive
       [] ~ReceiveOver(r) /\ upload[r] \in {"done", "write_error"} ->
            Go(r, "headers") /\ UNCHANGED receive
       [] ~ReceiveOver(r) /\ upload[r] \notin {"done", "write_error"} ->
            Go(r, "joining") /\ receive' = [receive EXCEPT ![r] = "cancelled"]
  /\ UNCHANGED <<connection, upload, attached, history, used, cancels>>

Headers(r) ==
  /\ phase[r] = "headers" /\ ReceiveOver(r)
  /\ Go(r, IF receive[r] = "headers" THEN "body" ELSE "ending")
  /\ UNCHANGED <<connection, tasks, history, used, cancels>>

Plain(r) ==
  /\ phase[r] = "plain"
  /\ Go(r, "body") \/ Go(r, "ending")
  /\ UNCHANGED <<connection, tasks, history, used, cancels>>

(* The finally block: the header task is over before the exception goes on. *)
Join(r) ==
  /\ phase[r] = "joining" /\ ReceiveOver(r)
  /\ Go(r, "ending")
  /\ UNCHANGED <<connection, tasks, history, used, cancels>>

(* The consumer of the response reads to its end, or stops before it.       *)
Read(r) ==
  /\ phase[r] = "body"
  /\ \/ theirs' = "done" /\ answered' = answered \union {r}
     \/ UNCHANGED <<theirs, answered>>
  /\ Go(r, "ending")
  /\ UNCHANGED <<conn, life, ours, tasks, whole, used, cancels>>

-----------------------------------------------------------------------------
(* _response_closed(), _stop_upload() and aclose()                          *)
Completed_Ended(q) == UploadOver(q)

Completed(q) == upload[q] = "done"

Reusable == ours = "done" /\ theirs = "done"

(* The swap of _upload; an upload that is over needs no waiting.            *)
StopUpload(r) ==
  /\ phase[r] = "ending"
  /\ attached' = {}
  /\ IF \A q \in attached : Completed(q)
     THEN /\ conn' = IF Reusable THEN "idle" ELSE conn
          /\ Go(r, IF Reusable THEN "over" ELSE "closing")
          /\ UNCHANGED upload
     ELSE /\ upload' = [q \in Requests |-> IF q \in attached /\ ~UploadOver(q) THEN "stopping"
                                           ELSE upload[q]]
          /\ Go(r, "stopping")
          /\ UNCHANGED conn
  /\ UNCHANGED <<life, ours, theirs, receive, history, used, cancels>>

Stopped(r) ==
  /\ phase[r] = "stopping" /\ UploadOver(r)
  /\ Go(r, "closing")
  /\ UNCHANGED <<connection, tasks, history, used, cancels>>

(* The closing task is over.                                                *)
Close(r) ==
  /\ phase[r] = "closing"
  /\ conn' = "none"
  /\ Go(r, "over")
  /\ UNCHANGED <<life, ours, theirs, tasks, history, used, cancels>>

-----------------------------------------------------------------------------
(* A cancellation of the task of a request, by its timeout or its owner.    *)
Interrupted_Always(p) ==
  CASE p \in {"waiting", "connecting", "stopping", "closing"} -> "over"
    [] p \in {"first", "headers"} -> "joining"
    [] p \in {"sending", "plain", "body", "ending"} -> "ending"
    [] OTHER -> p

Interrupted(p) ==
  CASE p \in {"waiting", "connecting"} -> "over"
    [] p \in {"first", "headers"} -> "joining"
    [] p \in {"sending", "plain", "body"} -> "ending"
    [] OTHER -> p    \* it waits on: the loops and the gather of the clean-up

Cancel(r) ==
  /\ phase[r] # "over" /\ cancels[r] < MaxCancels
  /\ cancels' = [cancels EXCEPT ![r] = @ + 1]
  /\ Go(r, Interrupted(phase[r]))
  /\ conn' = IF phase[r] = "connecting" THEN "none" ELSE conn
  /\ receive' = [receive EXCEPT ![r] = IF phase[r] \in {"first", "headers"} /\ @ = "running"
                                       THEN "cancelled" ELSE @]
  /\ UNCHANGED <<life, ours, theirs, upload, attached, history, used>>

-----------------------------------------------------------------------------
(* The upload task: a piece of the body, or its end, goes to h11 and then   *)
(* to the socket; the socket or the body may fail at any await.             *)
Becomes(r, to) == upload' = [upload EXCEPT ![r] = to]

Upload(r) ==
  /\ \/ upload[r] = "reading" /\ Becomes(r, "writing") /\ UNCHANGED <<ours, whole>>
     \/ upload[r] = "reading" /\ Becomes(r, "last") /\ ours' = "done" /\ UNCHANGED whole
     \/ upload[r] = "writing" /\ Becomes(r, "reading") /\ UNCHANGED <<ours, whole>>
     \/ /\ upload[r] = "last" /\ Becomes(r, "done")
        /\ whole' = whole \union {r} /\ UNCHANGED ours
  /\ UNCHANGED <<conn, life, theirs, receive, attached, answered, phase, used, cancels>>

UploadFails(r) ==
  /\ \/ upload[r] \in {"writing", "last"} /\ Becomes(r, "write_error")
     \/ upload[r] \in {"reading", "writing", "last"} /\ Becomes(r, "error")
  /\ UNCHANGED <<connection, receive, attached, history, phase, used, cancels>>

(* A cancelled upload cleans up, and may fail at it.                        *)
UploadStops(r) ==
  /\ upload[r] = "stopping" /\ (Becomes(r, "cancelled") \/ Becomes(r, "error"))
  /\ UNCHANGED <<connection, receive, attached, history, phase, used, cancels>>

Receive(r) ==
  /\ \/ receive[r] = "running" /\ receive' = [receive EXCEPT ![r] = "headers"]
     \/ receive[r] \in {"running", "cancelled"} /\ receive' = [receive EXCEPT ![r] = "failed"]
  /\ UNCHANGED <<connection, upload, attached, history, phase, used, cancels>>

-----------------------------------------------------------------------------
Step(r) == \/ Assign(r) \/ Connect(r) \/ Send(r) \/ First(r) \/ Headers(r) \/ Join(r)
           \/ StopUpload(r) \/ Stopped(r) \/ Close(r)

Next ==
  \/ Expire
  \/ \E r \in Requests : \/ Step(r) \/ Plain(r) \/ Read(r) \/ Cancel(r)
                         \/ Upload(r) \/ UploadFails(r) \/ UploadStops(r) \/ Receive(r)

Spec == Init /\ [][Next]_vars

(* The event loop runs every task that can go on, a cancelled task ends,    *)
(* and the time limit of an attempt cancels it; nothing else is certain.    *)
Fairness ==
  \A r \in Requests :
    /\ WF_vars(Step(r)) /\ WF_vars(UploadStops(r))
    /\ WF_vars(receive[r] = "cancelled" /\ Receive(r))
    /\ WF_vars(cancels[r] = 0 /\ Cancel(r))

FairSpec == Spec /\ Fairness

-----------------------------------------------------------------------------
(* What must be true of the transport                                       *)

(* Two requests never meet on a connection: a connection that is idle or in *)
(* the hands of another request has every earlier request wholly written,   *)
(* its response read to the end, and none of their uploads still running;   *)
(* _response_closed() may not trust the state of h11, which is done before  *)
(* the last write is.                                                       *)
RequestsNeverMeet ==
  \A q \in Requests :
    used[q] = life /\ life > 0 /\ phase[q] = "over" /\ conn \in {"active", "idle"} =>
      q \in whole \intersect answered /\ UploadOver(q)

(* However often it is cancelled, every request ends, and its upload with   *)
(* it; when all have ended, the connection is closed or idle: a place in    *)
(* the pool is never lost (_stop_upload() and aclose() wait on).            *)
RequestsRelease ==
  \A r \in Requests :
    <>[](/\ phase[r] = "over" /\ UploadOver(r) /\ ReceiveOver(r) /\ attached # {r}
         /\ conn \in {"none", "idle"})
=============================================================================
