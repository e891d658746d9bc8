---------------------------- MODULE DuplexProofs ----------------------------
(***************************************************************************)
(* Proofs about the duplex transport (proxy/_duplex.py), for any number of  *)
(* requests on a connection and any number of cancellations.                *)
(***************************************************************************)
EXTENDS Duplex, TLAPS

Using == {"connecting", "sending", "first", "plain", "headers", "body", "joining", "ending",
          "stopping", "closing"}
Ended == {"none", "done", "write_error", "error", "cancelled"}

(* Every variable has its type. *)
TypeOK ==
  /\ conn \in {"none", "opening", "active", "idle"} /\ life \in Nat
  /\ attached \in SUBSET Requests
  /\ ours \in {"open", "done"} /\ theirs \in {"open", "done"}
  /\ phase \in [Requests -> Using \union {"waiting", "over"}]
  /\ used \in [Requests -> Nat]
  /\ upload \in [Requests -> Ended \union {"reading", "writing", "last", "stopping"}]
  /\ receive \in [Requests -> {"none", "running", "cancelled", "headers", "failed"}]
  /\ whole \in SUBSET Requests /\ answered \in SUBSET Requests
  /\ cancels \in [Requests -> Nat]

(* Who waits for the headers has started the task that reads them.          *)
HeaderInv == \A r \in Requests : phase[r] = "first" => receive[r] # "none"

(* The pool: a connection is in the hands of one request, which has the     *)
(* number of the present one; no request has that of a later one.           *)
PoolInv ==
  /\ \A r \in Requests :
       /\ phase[r] \in Using => conn = IF phase[r] = "connecting" THEN "opening" ELSE "active"
       /\ phase[r] \in Using \ {"connecting"} => used[r] = life
       /\ phase[r] \in {"waiting", "connecting"} => used[r] = 0
       /\ used[r] <= life
  /\ \A q, r \in Requests : phase[q] \in Using /\ phase[r] \in Using => q = r
  /\ conn \in {"active", "idle"} => life > 0

(* The uploads: one runs only as long as its request is not past the end of *)
(* stopping it, and is attached until then; it is over before the           *)
(* connection is closed or given back.                                      *)
UploadInv ==
  \A r \in Requests :
    /\ ~UploadOver(r) => phase[r] \in Using
    /\ phase[r] \in {"waiting", "connecting", "sending", "plain"} => upload[r] = "none"
    /\ phase[r] \in {"connecting", "sending", "plain", "stopping", "closing"} => attached = {}
    /\ phase[r] \in {"first", "headers", "joining"} => attached = {r}
    /\ phase[r] \in {"body", "ending"} =>
         attached = {r} \/ (attached = {} /\ upload[r] = "none")
    /\ phase[r] = "closing" => UploadOver(r)
    /\ upload[r] = "done" => r \in whole
    /\ r \in attached => phase[r] \in Using

(* What h11 says of the request that has the connection.                    *)
ExchangeInv ==
  \A r \in Requests :
    /\ phase[r] \in Using \ {"connecting"} /\ ours = "done" => upload[r] # "none"
    /\ phase[r] \in Using \ {"connecting"} /\ theirs = "done" => r \in answered
    /\ phase[r] = "connecting" => ours = "open" /\ theirs = "open"

IInv == TypeOK /\ HeaderInv /\ PoolInv /\ UploadInv /\ ExchangeInv /\ RequestsNeverMeet

-----------------------------------------------------------------------------
(* What the step after asyncio.wait() does, whichever task is over.         *)
Received == {"running", "cancelled", "headers", "failed"}

FirstStep(r, to, got) ==
  /\ phase[r] = "first"
  /\ phase' = [phase EXCEPT ![r] = to] /\ receive' = [receive EXCEPT ![r] = got]
  /\ UNCHANGED <<connection, upload, attached, history, used, cancels>>

(* What the first wait of a request ends in.                                *)
LEMMA FirstSteps ==
  ASSUME TypeOK, HeaderInv, NEW r \in Requests, First(r)
  PROVE  \E to \in {"body", "ending", "headers", "joining"}, got \in Received :
           FirstStep(r, to, got)
<1> USE DEF TypeOK, HeaderInv, First, FirstStep, Go, ReceiveOver, Received
<1>1. CASE receive[r] = "headers"
  BY <1>1
<1>2. CASE receive[r] = "failed"
  BY <1>2
<1>3. CASE receive[r] \in {"running", "cancelled"} /\ upload[r] \in {"done", "write_error"}
  BY <1>3
<1>4. CASE receive[r] \in {"running", "cancelled"} /\ upload[r] \notin {"done", "write_error"}
  BY <1>4
<1> QED
  BY <1>1, <1>2, <1>3, <1>4

(* Types, and the task of the headers.                                      *)
LEMMA NextType == TypeOK /\ HeaderInv /\ [Next]_vars => (TypeOK /\ HeaderInv)'
<1> SUFFICES ASSUME TypeOK /\ HeaderInv, [Next]_vars PROVE (TypeOK /\ HeaderInv)'
  OBVIOUS
<1> USE DEF TypeOK, HeaderInv, connection, tasks, history, Using, Ended, UploadOver,
            ReceiveOver
<1>1. CASE Expire
  BY <1>1 DEF Expire
<1>2. ASSUME NEW r \in Requests, Assign(r) PROVE (TypeOK /\ HeaderInv)'
  BY <1>2 DEF Assign, Go
<1>3. ASSUME NEW r \in Requests, Connect(r) PROVE (TypeOK /\ HeaderInv)'
  BY <1>3 DEF Connect, Go
<1>4. ASSUME NEW r \in Requests, Send(r) PROVE (TypeOK /\ HeaderInv)'
  BY <1>4 DEF Send, Go
<1>5. ASSUME NEW r \in Requests, First(r) PROVE (TypeOK /\ HeaderInv)'
  <2>1. PICK to \in {"body", "ending", "headers", "joining"}, got \in Received :
          FirstStep(r, to, got)
    BY <1>5, FirstSteps
  <2> QED
    BY <1>5, <2>1 DEF FirstStep, Received
<1>6. ASSUME NEW r \in Requests, Headers(r) PROVE (TypeOK /\ HeaderInv)'
  BY <1>6 DEF Headers, Go
<1>7. ASSUME NEW r \in Requests, Join(r) PROVE (TypeOK /\ HeaderInv)'
  BY <1>7 DEF Join, Go
<1>8. ASSUME NEW r \in Requests, StopUpload(r) PROVE (TypeOK /\ HeaderInv)'
  BY <1>8 DEF StopUpload, Go, Completed, Reusable
<1>9. ASSUME NEW r \in Requests, Stopped(r) PROVE (TypeOK /\ HeaderInv)'
  BY <1>9 DEF Stopped, Go
<1>10. ASSUME NEW r \in Requests, Close(r) PROVE (TypeOK /\ HeaderInv)'
  BY <1>10 DEF Close, Go
<1>11. ASSUME NEW r \in Requests, Plain(r) PROVE (TypeOK /\ HeaderInv)'
  BY <1>11 DEF Plain, Go
<1>12. ASSUME NEW r \in Requests, Read(r) PROVE (TypeOK /\ HeaderInv)'
  BY <1>12 DEF Read, Go
<1>13. ASSUME NEW r \in Requests, Cancel(r) PROVE (TypeOK /\ HeaderInv)'
  BY <1>13 DEF Cancel, Go, Interrupted
<1>14. ASSUME NEW r \in Requests, Upload(r) PROVE (TypeOK /\ HeaderInv)'
  BY <1>14 DEF Upload, Becomes
<1>15. ASSUME NEW r \in Requests, UploadFails(r) PROVE (TypeOK /\ HeaderInv)'
  BY <1>15 DEF UploadFails, Becomes
<1>16. ASSUME NEW r \in Requests, UploadStops(r) PROVE (TypeOK /\ HeaderInv)'
  BY <1>16 DEF UploadStops, Becomes
<1>17. ASSUME NEW r \in Requests, Receive(r) PROVE (TypeOK /\ HeaderInv)'
  BY <1>17 DEF Receive
<1>18. CASE UNCHANGED vars
  BY <1>18 DEF vars
<1> QED
  BY <1>1, <1>2, <1>3, <1>4, <1>5, <1>6, <1>7, <1>8, <1>9, <1>10, <1>11, <1>12, <1>13,
     <1>14, <1>15, <1>16, <1>17, <1>18
  DEF Next, Step

(* The pool hands its connection to one request after the other.            *)
LEMMA NextPool == TypeOK /\ HeaderInv /\ PoolInv /\ [Next]_vars => PoolInv'
<1> SUFFICES ASSUME TypeOK /\ HeaderInv /\ PoolInv, [Next]_vars PROVE PoolInv'
  OBVIOUS
<1> USE DEF TypeOK, PoolInv, connection, tasks, history, Using, Ended, UploadOver,
            ReceiveOver
<1>1. CASE Expire
  BY <1>1 DEF Expire
<1>2. ASSUME NEW r \in Requests, Assign(r) PROVE PoolInv'
  <2>1. CASE conn = "none"
    <3>1. phase' = [phase EXCEPT ![r] = "connecting"] /\ conn' = "opening" /\ used' = used
      BY <1>2, <2>1 DEF Assign, Go
    <3>2. \A q \in Requests : phase[q] \notin Using
      BY <2>1
    <3> QED
      BY <1>2, <3>1, <3>2 DEF Assign
  <2>2. CASE conn = "idle"
    BY <1>2, <2>2 DEF Assign, Go
  <2> QED
    BY <1>2, <2>1, <2>2 DEF Assign
<1>3. ASSUME NEW r \in Requests, Connect(r) PROVE PoolInv'
  BY <1>3 DEF Connect, Go
<1>4. ASSUME NEW r \in Requests, Send(r) PROVE PoolInv'
  BY <1>4 DEF Send, Go
<1>5. ASSUME NEW r \in Requests, First(r) PROVE PoolInv'
  <2>1. PICK to \in {"body", "ending", "headers", "joining"}, got \in Received :
          FirstStep(r, to, got)
    BY <1>5, FirstSteps
  <2> QED
    BY <1>5, <2>1 DEF FirstStep, Received
<1>6. ASSUME NEW r \in Requests, Headers(r) PROVE PoolInv'
  BY <1>6 DEF Headers, Go
<1>7. ASSUME NEW r \in Requests, Join(r) PROVE PoolInv'
  BY <1>7 DEF Join, Go
<1>8. ASSUME NEW r \in Requests, StopUpload(r) PROVE PoolInv'
  BY <1>8 DEF StopUpload, Go, Completed, Reusable
<1>9. ASSUME NEW r \in Requests, Stopped(r) PROVE PoolInv'
  BY <1>9 DEF Stopped, Go
<1>10. ASSUME NEW r \in Requests, Close(r) PROVE PoolInv'
  BY <1>10 DEF Close, Go
<1>11. ASSUME NEW r \in Requests, Plain(r) PROVE PoolInv'
  BY <1>11 DEF Plain, Go
<1>12. ASSUME NEW r \in Requests, Read(r) PROVE PoolInv'
  BY <1>12 DEF Read, Go
<1>13. ASSUME NEW r \in Requests, Cancel(r) PROVE PoolInv'
  BY <1>13 DEF Cancel, Go, Interrupted
<1>14. ASSUME NEW r \in Requests, Upload(r) PROVE PoolInv'
  BY <1>14 DEF Upload, Becomes
<1>15. ASSUME NEW r \in Requests, UploadFails(r) PROVE PoolInv'
  BY <1>15 DEF UploadFails, Becomes
<1>16. ASSUME NEW r \in Requests, UploadStops(r) PROVE PoolInv'
  BY <1>16 DEF UploadStops, Becomes
<1>17. ASSUME NEW r \in Requests, Receive(r) PROVE PoolInv'
  BY <1>17 DEF Receive
<1>18. CASE UNCHANGED vars
  BY <1>18 DEF vars
<1> QED
  BY <1>1, <1>2, <1>3, <1>4, <1>5, <1>6, <1>7, <1>8, <1>9, <1>10, <1>11, <1>12, <1>13,
     <1>14, <1>15, <1>16, <1>17, <1>18
  DEF Next, Step

(* An upload is stopped before its request lets the connection go.          *)
LEMMA NextUpload == TypeOK /\ HeaderInv /\ PoolInv /\ UploadInv /\ [Next]_vars => UploadInv'
<1> SUFFICES ASSUME TypeOK /\ HeaderInv /\ PoolInv /\ UploadInv, [Next]_vars PROVE UploadInv'
  OBVIOUS
<1> USE DEF TypeOK, PoolInv, UploadInv, connection, tasks, history, Using, Ended,
            UploadOver, ReceiveOver
<1>1. CASE Expire
  BY <1>1 DEF Expire
<1>2. ASSUME NEW r \in Requests, Assign(r) PROVE UploadInv'
  BY <1>2 DEF Assign, Go
<1>3. ASSUME NEW r \in Requests, Connect(r) PROVE UploadInv'
  BY <1>3 DEF Connect, Go
<1>4. ASSUME NEW r \in Requests, Send(r) PROVE UploadInv'
  BY <1>4 DEF Send, Go
<1>5. ASSUME NEW r \in Requests, First(r) PROVE UploadInv'
  <2>1. PICK to \in {"body", "ending", "headers", "joining"}, got \in Received :
          FirstStep(r, to, got)
    BY <1>5, FirstSteps
  <2> QED
    BY <1>5, <2>1 DEF FirstStep, Received
<1>6. ASSUME NEW r \in Requests, Headers(r) PROVE UploadInv'
  BY <1>6 DEF Headers, Go
<1>7. ASSUME NEW r \in Requests, Join(r) PROVE UploadInv'
  BY <1>7 DEF Join, Go
<1>8. ASSUME NEW r \in Requests, StopUpload(r) PROVE UploadInv'
  BY <1>8 DEF StopUpload, Go, Completed, Reusable
<1>9. ASSUME NEW r \in Requests, Stopped(r) PROVE UploadInv'
  BY <1>9 DEF Stopped, Go
<1>10. ASSUME NEW r \in Requests, Close(r) PROVE UploadInv'
  BY <1>10 DEF Close, Go
<1>11. ASSUME NEW r \in Requests, Plain(r) PROVE UploadInv'
  BY <1>11 DEF Plain, Go
<1>12. ASSUME NEW r \in Requests, Read(r) PROVE UploadInv'
  BY <1>12 DEF Read, Go
<1>13. ASSUME NEW r \in Requests, Cancel(r) PROVE UploadInv'
  BY <1>13 DEF Cancel, Go, Interrupted
<1>14. ASSUME NEW r \in Requests, Upload(r) PROVE UploadInv'
  BY <1>14 DEF Upload, Becomes
<1>15. ASSUME NEW r \in Requests, UploadFails(r) PROVE UploadInv'
  BY <1>15 DEF UploadFails, Becomes
<1>16. ASSUME NEW r \in Requests, UploadStops(r) PROVE UploadInv'
  BY <1>16 DEF UploadStops, Becomes
<1>17. ASSUME NEW r \in Requests, Receive(r) PROVE UploadInv'
  BY <1>17 DEF Receive
<1>18. CASE UNCHANGED vars
  BY <1>18 DEF vars
<1> QED
  BY <1>1, <1>2, <1>3, <1>4, <1>5, <1>6, <1>7, <1>8, <1>9, <1>10, <1>11, <1>12, <1>13,
     <1>14, <1>15, <1>16, <1>17, <1>18
  DEF Next, Step

(* h11 is only moved by the request that has the connection.                *)
LEMMA NextExchange == IInv /\ [Next]_vars => ExchangeInv'
<1> SUFFICES ASSUME IInv, [Next]_vars PROVE ExchangeInv'
  OBVIOUS
<1> USE DEF IInv, TypeOK, PoolInv, UploadInv, ExchangeInv, connection, tasks, history,
            Using, Ended, UploadOver, ReceiveOver
<1>1. CASE Expire
  BY <1>1 DEF Expire
<1>2. ASSUME NEW r \in Requests, Assign(r) PROVE ExchangeInv'
  BY <1>2 DEF Assign, Go
<1>3. ASSUME NEW r \in Requests, Connect(r) PROVE ExchangeInv'
  BY <1>3 DEF Connect, Go
<1>4. ASSUME NEW r \in Requests, Send(r) PROVE ExchangeInv'
  BY <1>4 DEF Send, Go
<1>5. ASSUME NEW r \in Requests, First(r) PROVE ExchangeInv'
  <2>1. PICK to \in {"body", "ending", "headers", "joining"}, got \in Received :
          FirstStep(r, to, got)
    BY <1>5, FirstSteps
  <2> QED
    BY <1>5, <2>1 DEF FirstStep, Received
<1>6. ASSUME NEW r \in Requests, Headers(r) PROVE ExchangeInv'
  BY <1>6 DEF Headers, Go
<1>7. ASSUME NEW r \in Requests, Join(r) PROVE ExchangeInv'
  BY <1>7 DEF Join, Go
<1>8. ASSUME NEW r \in Requests, StopUpload(r) PROVE ExchangeInv'
  BY <1>8 DEF StopUpload, Go, Completed, Reusable
<1>9. ASSUME NEW r \in Requests, Stopped(r) PROVE ExchangeInv'
  BY <1>9 DEF Stopped, Go
<1>10. ASSUME NEW r \in Requests, Close(r) PROVE ExchangeInv'
  BY <1>10 DEF Close, Go
<1>11. ASSUME NEW r \in Requests, Plain(r) PROVE ExchangeInv'
  BY <1>11 DEF Plain, Go
<1>12. ASSUME NEW r \in Requests, Read(r) PROVE ExchangeInv'
  BY <1>12 DEF Read, Go
<1>13. ASSUME NEW r \in Requests, Cancel(r) PROVE ExchangeInv'
  BY <1>13 DEF Cancel, Go, Interrupted
<1>14. ASSUME NEW r \in Requests, Upload(r) PROVE ExchangeInv'
  BY <1>14 DEF Upload, Becomes
<1>15. ASSUME NEW r \in Requests, UploadFails(r) PROVE ExchangeInv'
  BY <1>15 DEF UploadFails, Becomes
<1>16. ASSUME NEW r \in Requests, UploadStops(r) PROVE ExchangeInv'
  BY <1>16 DEF UploadStops, Becomes
<1>17. ASSUME NEW r \in Requests, Receive(r) PROVE ExchangeInv'
  BY <1>17 DEF Receive
<1>18. CASE UNCHANGED vars
  BY <1>18 DEF vars
<1> QED
  BY <1>1, <1>2, <1>3, <1>4, <1>5, <1>6, <1>7, <1>8, <1>9, <1>10, <1>11, <1>12, <1>13,
     <1>14, <1>15, <1>16, <1>17, <1>18
  DEF Next, Step

(* A request leaves an idle connection behind only when it is wholly done.  *)
LEMMA NextMeet == IInv /\ [Next]_vars => RequestsNeverMeet'
<1> SUFFICES ASSUME IInv, [Next]_vars PROVE RequestsNeverMeet'
  OBVIOUS
<1> USE DEF IInv, TypeOK, HeaderInv, PoolInv, UploadInv, ExchangeInv, RequestsNeverMeet,
            connection, tasks, history, Using, Ended, UploadOver, ReceiveOver
<1>1. CASE Expire
  BY <1>1 DEF Expire
<1>2. ASSUME NEW r \in Requests, Assign(r) PROVE RequestsNeverMeet'
  BY <1>2 DEF Assign, Go
<1>3. ASSUME NEW r \in Requests, Connect(r) PROVE RequestsNeverMeet'
  BY <1>3 DEF Connect, Go
<1>4. ASSUME NEW r \in Requests, Send(r) PROVE RequestsNeverMeet'
  BY <1>4 DEF Send, Go
<1>5. ASSUME NEW r \in Requests, First(r) PROVE RequestsNeverMeet'
  <2>1. PICK to \in {"body", "ending", "headers", "joining"}, got \in Received :
          FirstStep(r, to, got)
    BY <1>5, FirstSteps
  <2> QED
    BY <1>5, <2>1 DEF FirstStep, Received
<1>6. ASSUME NEW r \in Requests, Headers(r) PROVE RequestsNeverMeet'
  BY <1>6 DEF Headers, Go
<1>7. ASSUME NEW r \in Requests, Join(r) PROVE RequestsNeverMeet'
  BY <1>7 DEF Join, Go
<1>8. ASSUME NEW r \in Requests, StopUpload(r) PROVE RequestsNeverMeet'
  BY <1>8 DEF StopUpload, Go, Completed, Reusable
<1>9. ASSUME NEW r \in Requests, Stopped(r) PROVE RequestsNeverMeet'
  BY <1>9 DEF Stopped, Go
<1>10. ASSUME NEW r \in Requests, Close(r) PROVE RequestsNeverMeet'
  BY <1>10 DEF Close, Go
<1>11. ASSUME NEW r \in Requests, Plain(r) PROVE RequestsNeverMeet'
  BY <1>11 DEF Plain, Go
<1>12. ASSUME NEW r \in Requests, Read(r) PROVE RequestsNeverMeet'
  BY <1>12 DEF Read, Go
<1>13. ASSUME NEW r \in Requests, Cancel(r) PROVE RequestsNeverMeet'
  BY <1>13 DEF Cancel, Go, Interrupted
<1>14. ASSUME NEW r \in Requests, Upload(r) PROVE RequestsNeverMeet'
  BY <1>14 DEF Upload, Becomes
<1>15. ASSUME NEW r \in Requests, UploadFails(r) PROVE RequestsNeverMeet'
  BY <1>15 DEF UploadFails, Becomes
<1>16. ASSUME NEW r \in Requests, UploadStops(r) PROVE RequestsNeverMeet'
  BY <1>16 DEF UploadStops, Becomes
<1>17. ASSUME NEW r \in Requests, Receive(r) PROVE RequestsNeverMeet'
  BY <1>17 DEF Receive
<1>18. CASE UNCHANGED vars
  BY <1>18 DEF vars
<1> QED
  BY <1>1, <1>2, <1>3, <1>4, <1>5, <1>6, <1>7, <1>8, <1>9, <1>10, <1>11, <1>12, <1>13,
     <1>14, <1>15, <1>16, <1>17, <1>18
  DEF Next, Step

-----------------------------------------------------------------------------
(* It holds at first, when nothing has been requested, and for ever.        *)
LEMMA Invariance == Spec => []IInv
<1>1. Init => IInv
  BY BoundsAssumption
  DEF Init, IInv, TypeOK, HeaderInv, PoolInv, UploadInv, ExchangeInv, RequestsNeverMeet,
      Requests, Using, Ended, UploadOver
<1>2. IInv /\ [Next]_vars => IInv'
  BY NextType, NextPool, NextUpload, NextExchange, NextMeet DEF IInv
<1> QED
  BY <1>1, <1>2, PTL DEF Spec

(* Every variable keeps its type, whatever is requested and cancelled.      *)
THEOREM TypeCorrect == Spec => []TypeOK
<1>1. IInv => TypeOK
  BY DEF IInv
<1> QED
  BY <1>1, Invariance, PTL

(* No two requests ever meet on a pooled connection (_response_closed()):   *)
(* whoever was there before has written all, read all and stopped its       *)
(* upload, however many requests there are and whenever they are cancelled. *)
THEOREM NeverMeet == Spec => []RequestsNeverMeet
<1>1. IInv => RequestsNeverMeet
  BY DEF IInv
<1> QED
  BY <1>1, Invariance, PTL

(* One request at a time has the connection, and when it lets go, no upload *)
(* is left to write to it (_stop_upload()).                                 *)
THEOREM UploadsAreStopped ==
  Spec => [](\A q, r \in Requests :
               phase[r] \in Using /\ q # r => phase[q] \notin Using /\ UploadOver(q))
<1>1. IInv => \A q, r \in Requests :
                phase[r] \in Using /\ q # r => phase[q] \notin Using /\ UploadOver(q)
  BY DEF IInv, PoolInv, UploadInv
<1> QED
  BY <1>1, Invariance, PTL
=============================================================================
