---------------------------- MODULE HttpTransport ----------------------------
(***************************************************************************)
(* The transport core of the SDK (clawtoken/http.py): one HttpClient or    *)
(* AsyncHttpClient shared by several concurrent callers (threads of the    *)
(* blocking client, tasks of the asyncio client).  Each caller issues one  *)
(* call get/post/put/delete: the request is sent on the client's pool, the *)
(* node answers with a status and a body or the network fails, and on     *)
(* resumption _handle_error maps the response and resp.json() decodes the  *)
(* body.  Any caller may close the client (close/aclose, __exit__) while   *)
(* other calls are in flight.                                              *)
(*                                                                         *)
(* Bodies are abstracted to the shapes _handle_error tells apart; the      *)
(* values it extracts are named: "ErrMessage"/"ErrCode" are the values of  *)
(* error.message/error.code in the body, "RawText" is resp.text, None is   *)
(* Python's None.                                                          *)
(***************************************************************************)
EXTENDS Integers, SdkEndpoints

CONSTANTS Tasks,     \* concurrent callers sharing one client
          Statuses,  \* HTTP statuses the node may answer with
          None       \* Python None / no value yet

ASSUME StatusesAssumption == Statuses \subseteq 100..599

VARIABLES open,     \* the client's connection pool is not closed
          pc,       \* per caller: "idle", "awaiting" (request in flight), "done"
          req,      \* the endpoint each caller called
          resp,     \* the response each caller received, or None
          outcome,  \* what each call returned or raised
          wire      \* callers whose request reached the network

vars == <<open, pc, req, resp, outcome, wire>>

-----------------------------------------------------------------------------
(* Response bodies.  shape: "text" (not JSON: empty, HTML, plain text),    *)
(* "scalar" (JSON that is not an object), "object".  For an object, error  *)
(* is the "error" member: absent, present but not an object (a string,    *)
(* null, a list), or an object whose message/code members are absent,      *)
(* JSON null, or a value.                                                  *)
FieldStates == {"absent", "null", "value"}

Bodies ==
  {[shape |-> s, error |-> "absent", message |-> "absent", code |-> "absent"] :
      s \in {"text", "scalar"}}
  \cup {[shape |-> "object", error |-> e, message |-> "absent", code |-> "absent"] :
      e \in {"absent", "notDict"}}
  \cup {[shape |-> "object", error |-> "dict", message |-> m, code |-> c] :
      m \in FieldStates, c \in FieldStates}

Responses == [status : Statuses, body : Bodies]

\* Messages and codes a raised ClawTokenError can carry.
Messages == {"ErrMessage", "RawText", None}
Codes == {"ErrCode", None}

Kinds == {"Returned", "NodeError", "DecodeError", "TransportError", "ClientClosed"}

\* ClawTokenError(msg, status=..., code=...)
NodeError(status, msg, code) ==
  [kind |-> "NodeError", status |-> status, message |-> msg, code |-> code, value |-> None]

\* Any other way a call ends: a returned value or a non-HTTP exception.
Result(kind, v) ==
  [kind |-> kind, status |-> None, message |-> None, code |-> None, value |-> v]

Outcomes ==
  \* status 0 is ClawTokenError's default
  {NodeError(s, m, c) : s \in Statuses \cup {0}, m \in Messages, c \in Codes}
  \cup {Result(k, None) : k \in Kinds \ {"NodeError", "Returned"}}
  \cup {Result("Returned", b) : b \in Bodies}

\* None stands for Python's None and for "nothing yet": it is no response
\* and no outcome.
ASSUME NoneAssumption == None \notin Responses \cup Outcomes

-----------------------------------------------------------------------------
(* _handle_error and the decode that follows it.                           *)

\* httpx Response.is_success
IsSuccess(s) == 200 <= s /\ s <= 299

\* resp.json() raises on a non-JSON body, and body.get("error", {}).get(...)
\* raises AttributeError when "error" is not a dict: both reach the except.
ErrorLookupRaises(b) == b.shape = "text" \/ b.error = "notDict"

\* dict.get(key, default) on the error object.
FieldGet(f, default, val) ==
  IF f = "absent" THEN default ELSE IF f = "null" THEN None ELSE val

\* Mutant: msg = body.get("error", resp.text), the whole error object.
HandleErrorMessageWhole(b) ==
  IF ErrorLookupRaises(b) \/ b.shape # "object" \/ b.error = "absent" THEN "RawText"
  ELSE "ErrObject"

\* msg = body.get("error", {}).get("message", resp.text) if dict else resp.text
HandleErrorMessage(b) ==
  IF ErrorLookupRaises(b) \/ b.shape # "object" THEN "RawText"
  ELSE FieldGet(b.message, "RawText", "ErrMessage")

\* code = body.get("error", {}).get("code") if dict else None
HandleErrorCode(b) ==
  IF ErrorLookupRaises(b) \/ b.shape # "object" THEN None
  ELSE FieldGet(b.code, None, "ErrCode")

\* Mutant: the verb method returns resp.json() without _handle_error.
CallOutcomeUnchecked(r) ==
  IF r.body.shape = "text" THEN Result("DecodeError", None)
  ELSE Result("Returned", r.body)

\* _handle_error(resp); return resp.json()
CallOutcome(r) ==
  IF ~IsSuccess(r.status)
    THEN NodeError(r.status, HandleErrorMessage(r.body), HandleErrorCode(r.body))
  ELSE IF r.body.shape = "text" THEN Result("DecodeError", None)
  ELSE Result("Returned", r.body)

-----------------------------------------------------------------------------
Init ==
  /\ open = TRUE
  /\ pc = [t \in Tasks |-> "idle"]
  /\ req = [t \in Tasks |-> None]
  /\ resp = [t \in Tasks |-> None]
  /\ outcome = [t \in Tasks |-> None]
  /\ wire = {}

\* A verb method on an open client: build the URL and send the request.
Send(t, e) ==
  /\ pc[t] = "idle"
  /\ open
  /\ pc' = [pc EXCEPT ![t] = "awaiting"]
  /\ req' = [req EXCEPT ![t] = e]
  /\ wire' = wire \cup {t}
  /\ UNCHANGED <<open, resp, outcome>>

\* A verb method on a closed client: httpx raises RuntimeError before sending.
SendOnClosed(t, e) ==
  /\ pc[t] = "idle"
  /\ ~open
  /\ pc' = [pc EXCEPT ![t] = "done"]
  /\ req' = [req EXCEPT ![t] = e]
  /\ outcome' = [outcome EXCEPT ![t] = Result("ClientClosed", None)]
  /\ UNCHANGED <<open, resp, wire>>

\* The node answers; the caller resumes and runs _handle_error and resp.json().
Receive(t, r) ==
  /\ pc[t] = "awaiting"
  /\ pc' = [pc EXCEPT ![t] = "done"]
  /\ resp' = [resp EXCEPT ![t] = r]
  /\ outcome' = [outcome EXCEPT ![t] = CallOutcome(r)]
  /\ UNCHANGED <<open, req, wire>>

\* Connection refused, DNS failure, the client timeout, or the pool closed
\* under the request: the httpx exception propagates unchanged.
TransportFail(t) ==
  /\ pc[t] = "awaiting"
  /\ pc' = [pc EXCEPT ![t] = "done"]
  /\ outcome' = [outcome EXCEPT ![t] = Result("TransportError", None)]
  /\ UNCHANGED <<open, req, resp, wire>>

\* close()/aclose(), directly or from __exit__/__aexit__.
Close ==
  /\ open
  /\ open' = FALSE
  /\ UNCHANGED <<pc, req, resp, outcome, wire>>

Next ==
  \/ \E t \in Tasks, e \in Endpoints : Send(t, e) \/ SendOnClosed(t, e)
  \/ \E t \in Tasks, r \in Responses : Receive(t, r)
  \/ \E t \in Tasks : TransportFail(t)
  \/ Close

Spec == Init /\ [][Next]_vars

-----------------------------------------------------------------------------
TypeOK ==
  /\ open \in BOOLEAN
  /\ pc \in [Tasks -> {"idle", "awaiting", "done"}]
  /\ req \in [Tasks -> Endpoints \cup {None}]
  /\ resp \in [Tasks -> Responses \cup {None}]
  /\ outcome \in [Tasks -> Outcomes \cup {None}]
  /\ wire \subseteq Tasks

(* What the spec (section 4.1 and 8) says a call answered by the node ends *)
(* with, for every response except an error object without a message.     *)
SpecAgrees(r, o) ==
  /\ IsSuccess(r.status) /\ r.body.shape # "text" =>
       o = Result("Returned", r.body)
  /\ IsSuccess(r.status) /\ r.body.shape = "text" =>
       o.kind = "DecodeError"
  /\ ~IsSuccess(r.status) =>
       o.kind = "NodeError" /\ o.status = r.status
  /\ ~IsSuccess(r.status) /\ r.body.error = "dict" /\ r.body.message # "absent" =>
       /\ o.message = FieldGet(r.body.message, None, "ErrMessage")
       /\ o.code = FieldGet(r.body.code, None, "ErrCode")
  /\ ~IsSuccess(r.status) /\ r.body.error # "dict" =>
       o.message = "RawText" /\ o.code = None

(* Every call the node answered returns exactly the decoded 2xx body,      *)
(* surfaces a non-JSON 2xx body as a decode failure, and raises for a      *)
(* non-2xx status a ClawTokenError with that status and with the error     *)
(* object's message and code, or the raw text and no code when the body    *)
(* has no error object (HttpClient.get/post/put/delete with _handle_error).*)
NodeErrorFaithful ==
  \A t \in Tasks : pc[t] = "done" /\ resp[t] # None => SpecAgrees(resp[t], outcome[t])

(* Spec 4.1 step 2b: a non-2xx body that does not match                    *)
(* {"error": {"message": M, ...}} yields the raw text and leaves the code   *)
(* unset.                                                                  *)
NodeErrorFallback ==
  \A t \in Tasks :
    pc[t] = "done" /\ resp[t] # None /\ ~IsSuccess(resp[t].status)
      /\ resp[t].body.message = "absent"
      => outcome[t].message = "RawText" /\ outcome[t].code = None

(* Spec section 6: a state-changing call carries the caller's envelope     *)
(* (did, passphrase, nonce) to the node.                                   *)
EnvelopeTransmitted ==
  \A t \in wire : StateChanging(req[t]) => CarriesCallerFields(req[t])
=============================================================================
