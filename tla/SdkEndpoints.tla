---------------------------- MODULE SdkEndpoints ----------------------------
(***************************************************************************)
(* The resource wrappers of the Python SDK (node, identity, wallet,        *)
(* reputation, markets, contracts, DAO), abstracted to what they hand to   *)
(* the transport core.  A wrapper method formats a path (abstracted away:  *)
(* the path is opaque to the transport) and forwards the caller's keyword  *)
(* arguments either as the query mapping of a GET/DELETE, as the JSON body *)
(* of a POST, or not at all.  An endpoint is therefore the pair            *)
(*   [verb |-> HTTP verb, sends |-> what of the caller's fields is sent]   *)
(* and each wrapper class is the set of endpoint shapes its methods use.   *)
(***************************************************************************)

\* What the wrapper forwards of the caller's keyword arguments.
\*   "query"   : a params mapping handed to HttpClient.get/delete
\*   "body"    : a kwargs dict handed to HttpClient.post/put as JSON
\*   "nothing" : the call carries none of the caller's fields
Forwards == {"query", "body", "nothing"}

Verbs == {"GET", "POST", "PUT", "DELETE"}

Endpoint(v, s) == [verb |-> v, sends |-> s]

\* HttpClient's own public verbs: get/delete take params, post/put a body.
DirectEndpoints ==
  {Endpoint("GET", "query"), Endpoint("POST", "body"),
   Endpoint("PUT", "body"), Endpoint("DELETE", "query")}

\* NodeApi: get_status/get_config (no params), get_peers (limit/offset).
NodeEndpoints ==
  {Endpoint("GET", "nothing"), Endpoint("GET", "query")}

\* The asynchronous node API issues the same calls.
AsyncNodeEndpoints == NodeEndpoints

\* IdentityApi: get, resolve(source), list_capabilities, register_capability.
IdentityEndpoints ==
  {Endpoint("GET", "nothing"), Endpoint("GET", "query"), Endpoint("POST", "body")}

\* The asynchronous identity API issues the same calls.
AsyncIdentityEndpoints == IdentityEndpoints

\* WalletApi: get_balance/get_history (query), get_escrow (no params),
\* transfer and the escrow lifecycle (POST kwargs).
WalletEndpoints ==
  {Endpoint("GET", "query"), Endpoint("GET", "nothing"), Endpoint("POST", "body")}

\* The asynchronous wallet issues the same calls.
AsyncWalletEndpoints == WalletEndpoints

\* ReputationApi: get_profile, get_reviews (query), record (POST kwargs).
ReputationEndpoints ==
  {Endpoint("GET", "nothing"), Endpoint("GET", "query"), Endpoint("POST", "body")}

\* The asynchronous reputation API issues the same calls.
AsyncReputationEndpoints == ReputationEndpoints

\* Info, task and capability markets, disputes and search.  remove(id,
\* **kwargs) issues a DELETE without passing its kwargs on.
MarketsEndpoints ==
  {Endpoint("GET", "query"), Endpoint("GET", "nothing"),
   Endpoint("POST", "body"), Endpoint("DELETE", "nothing")}

\* The asynchronous markets: remove(id) takes no kwargs at all.
AsyncMarketsEndpoints ==
  {Endpoint("GET", "query"), Endpoint("GET", "nothing"),
   Endpoint("POST", "body"), Endpoint("DELETE", "nothing")}

\* ContractsApi: list (query), get, and every lifecycle step (POST kwargs).
ContractsEndpoints ==
  {Endpoint("GET", "query"), Endpoint("GET", "nothing"), Endpoint("POST", "body")}

\* The asynchronous contracts API issues the same calls.
AsyncContractsEndpoints == ContractsEndpoints

\* DaoApi: list_proposals(status) as query, the other reads without
\* params, proposals/votes/delegation/treasury/timelock as POST kwargs.
DaoEndpoints ==
  {Endpoint("GET", "query"), Endpoint("GET", "nothing"), Endpoint("POST", "body")}

\* The asynchronous DAO API issues the same calls.
AsyncDaoEndpoints == DaoEndpoints

Endpoints ==
  DirectEndpoints \cup NodeEndpoints \cup AsyncNodeEndpoints \cup IdentityEndpoints
    \cup AsyncIdentityEndpoints \cup WalletEndpoints \cup AsyncWalletEndpoints
    \cup ReputationEndpoints \cup AsyncReputationEndpoints \cup MarketsEndpoints
    \cup AsyncMarketsEndpoints \cup ContractsEndpoints \cup AsyncContractsEndpoints
    \cup DaoEndpoints \cup AsyncDaoEndpoints

\* A call that changes the node's state: anything but a GET.
StateChanging(e) == e.verb # "GET"

\* The caller's envelope (did, passphrase, nonce) reaches the node.
CarriesCallerFields(e) == e.sends # "nothing"
=============================================================================
