------------------------- MODULE HttpTransportProofs -------------------------
(***************************************************************************)
(* Proofs about the transport core, for every set of callers and statuses: *)
(* the type invariant, the error mapping of every answered call, the       *)
(* separation of transport failures from node errors, and that a closed    *)
(* client sends nothing.                                                   *)
(*                                                                         *)
(* NodeErrorFaithful is not inductive as it stands: it speaks only of      *)
(* finished calls, and a step that finishes a call must know that the      *)
(* caller had received no response before.  The strengthening Bookkeeping  *)
(* ties resp and outcome to pc for every caller.                           *)
(***************************************************************************)
EXTENDS HttpTransport, TLAPS

\* A caller has a response only once its call is done, and then its outcome
\* is what _handle_error and resp.json() make of it; a finished call with no
\* response ended in a transport failure or on a closed client.
Bookkeeping ==
  \A t \in Tasks :
    /\ resp[t] # None => pc[t] = "done" /\ outcome[t] = CallOutcome(resp[t])
    /\ pc[t] = "done" /\ resp[t] = None =>
         outcome[t] \in {Result("TransportError", None), Result("ClientClosed", None)}
    /\ pc[t] # "done" => resp[t] = None

IInv == TypeOK /\ Bookkeeping

-----------------------------------------------------------------------------
\* What the code returns for a response is an outcome.
LEMMA CallOutcomeType ==
  ASSUME NEW r \in Responses
  PROVE  CallOutcome(r) \in Outcomes
<1>1. CASE ~IsSuccess(r.status)
  <2>1. HandleErrorMessage(r.body) \in Messages /\ HandleErrorCode(r.body) \in Codes
    BY DEF HandleErrorMessage, HandleErrorCode, FieldGet, Messages, Codes
  <2>. QED
    BY <1>1, <2>1 DEF CallOutcome, Outcomes, Responses
<1>2. CASE IsSuccess(r.status)
  BY <1>2 DEF CallOutcome, Outcomes, Responses, Kinds
<1>. QED
  BY <1>1, <1>2

\* The mapping the code implements agrees with the spec on every response
\* outside the contested shape (an error object without a message).
LEMMA CallOutcomeAgrees ==
  ASSUME NEW r \in Responses
  PROVE  SpecAgrees(r, CallOutcome(r))
<1>. r.body \in Bodies
  BY DEF Responses
<1>1. CASE r.body.shape # "object"
  BY <1>1 DEF Bodies, SpecAgrees, CallOutcome, NodeError, Result,
              HandleErrorMessage, HandleErrorCode, ErrorLookupRaises
<1>2. CASE r.body.shape = "object" /\ r.body.error # "dict"
  BY <1>2 DEF Bodies, SpecAgrees, CallOutcome, NodeError, Result,
              HandleErrorMessage, HandleErrorCode, ErrorLookupRaises, FieldGet
<1>3. CASE r.body.shape = "object" /\ r.body.error = "dict"
  BY <1>3 DEF Bodies, SpecAgrees, CallOutcome, NodeError, Result,
              HandleErrorMessage, HandleErrorCode, ErrorLookupRaises, FieldGet
<1>. QED
  BY <1>1, <1>2, <1>3

-----------------------------------------------------------------------------
LEMMA InitIInv == Init => IInv
BY NoneAssumption DEF Init, IInv, TypeOK, Bookkeeping

LEMMA NextIInv == IInv /\ [Next]_vars => IInv'
<1> SUFFICES ASSUME IInv, [Next]_vars PROVE IInv'
  OBVIOUS
<1>. USE DEF IInv
<1>1. ASSUME NEW t \in Tasks, NEW e \in Endpoints, Send(t, e) PROVE IInv'
  BY <1>1, NoneAssumption DEF Send, TypeOK, Bookkeeping
<1>2. ASSUME NEW t \in Tasks, NEW e \in Endpoints, SendOnClosed(t, e) PROVE IInv'
  <2>1. Result("ClientClosed", None) \in Outcomes
    BY DEF Outcomes, Kinds
  <2>. QED
    BY <1>2, <2>1, NoneAssumption DEF SendOnClosed, TypeOK, Bookkeeping
<1>3. ASSUME NEW t \in Tasks, NEW r \in Responses, Receive(t, r) PROVE IInv'
  <2>1. CallOutcome(r) \in Outcomes
    BY CallOutcomeType
  <2>2. TypeOK'
    BY <1>3, <2>1 DEF Receive, TypeOK
  <2>3. Bookkeeping'
    BY <1>3, NoneAssumption DEF Receive, TypeOK, Bookkeeping
  <2>. QED
    BY <2>2, <2>3
<1>4. ASSUME NEW t \in Tasks, TransportFail(t) PROVE IInv'
  <2>1. Result("TransportError", None) \in Outcomes
    BY DEF Outcomes, Kinds
  <2>. QED
    BY <1>4, <2>1, NoneAssumption DEF TransportFail, TypeOK, Bookkeeping
<1>5. CASE Close
  BY <1>5 DEF Close, TypeOK, Bookkeeping
<1>6. CASE UNCHANGED vars
  BY <1>6 DEF vars, TypeOK, Bookkeeping
<1>. QED
  BY <1>1, <1>2, <1>3, <1>4, <1>5, <1>6 DEF Next

\* The type invariant holds in every reachable state.
THEOREM TypeCorrect == Spec => []TypeOK
<1>1. IInv => TypeOK
  BY DEF IInv
<1>. QED
  BY InitIInv, NextIInv, <1>1, PTL DEF Spec

(* Every call the node answered ends as the spec says (decoded 2xx body,   *)
(* decode failure, or ClawTokenError with the status and the error         *)
(* object's message and code or the raw text), for any callers and any     *)
(* statuses.                                                               *)
THEOREM ErrorMappingCorrect == Spec => []NodeErrorFaithful
<1>1. IInv => NodeErrorFaithful
  <2> SUFFICES ASSUME IInv, NEW t \in Tasks, pc[t] = "done", resp[t] # None
               PROVE  SpecAgrees(resp[t], outcome[t])
    BY DEF NodeErrorFaithful
  <2>1. resp[t] \in Responses /\ outcome[t] = CallOutcome(resp[t])
    BY DEF IInv, TypeOK, Bookkeeping
  <2>. QED
    BY <2>1, CallOutcomeAgrees
<1>. QED
  BY InitIInv, NextIInv, <1>1, PTL DEF Spec
=============================================================================
