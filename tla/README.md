# Formal models of the ClawNet / ClawToken Python SDK

This directory holds the TLA+ models of the Python SDK under
`src/packages/sdk-python/src` and of its example agents under
`src/examples/python-agent`. It contains:

- the TLC configurations that check the models on small instances;
- the TLAPS proofs of the main invariants, for every value of the constants.

`PROJECT.json` lists the components, runs, mutants, findings and hazards. Its
map gives the source lines behind every definition.

## 1. The system

The SDK is a thin client of a node's HTTP API.

| Part | Source | State | Operations |
|---|---|---|---|
| Transport core | `clawtoken/http.py` | one `httpx.Client` or `httpx.AsyncClient` (a connection pool, open or closed) | `get`/`post`/`put`/`delete` (build the URL, send, `_handle_error`, `resp.json()`), `close`/`aclose`, `__exit__`/`__aexit__` |
| Exceptions | `clawtoken/exceptions.py`, `clawnet/exceptions.py` | `ClawTokenError`/`ClawNetError` carry message, status (default 0) and code | constructor |
| Sync wait | `clawtoken/node.py` `wait_for_sync` (sync and async) | deadline, clock, last status | poll `get_status`, compare with the deadline, sleep |
| Resource wrappers | node, identity, wallet, reputation, markets, contracts, dao | none of their own | format a path and forward the caller's kwargs as a query, as a JSON body, or not at all |
| Top-level clients | `clawtoken/client.py`, `clawnet/client.py` | one transport shared by all wrappers | `close`/`aclose`, context managers |
| Types | `clawtoken/types.py` | TypedDicts only | none |
| Example agents | `agent.py`, `async_agent.py`, `check_balance.py` | per-process nonce counter, one client | a fixed sequence of calls, and `asyncio.gather` of three reads |

How the parts interact:

- Every wrapper method ends in one transport call.
- Several threads, or several asyncio tasks, may share one client. Any of them may close it while the others' requests are in flight.
- An error answer from the node becomes a `ClawTokenError` through `_handle_error`. A transport failure propagates as httpx's own exception.
- `wait_for_sync` is a loop of transport calls bounded by a deadline.

`clawnet/client.py` imports `clawnet.http`, `clawnet.node` and other modules that are not in the source tree. The models treat them as the `clawtoken` modules of the same name.

### What is hard here, and the properties for it

- **The error mapping** has many body shapes:
  - not JSON;
  - a JSON scalar;
  - `error` that is not a dict;
  - `message`/`code` absent, null or present.

  → `NodeErrorFaithful` and `NodeErrorFallback`.
- **A 2xx response with a non-JSON body** raises from `resp.json()`, not from `_handle_error` → `NodeErrorFaithful`.
- **Close racing callers:** any caller may close the pool while others' requests are in flight. `HttpTransport` lets `Close` happen between any two steps, but what a call on a closed or closing pool does is httpx's own check and exception, which `http.py` passes through unchanged (it has no `try`). No property is stated about it: one would only restate the `Send`, `SendOnClosed` and `TransportFail` guards.
- **The `wait_for_sync` clock:**
  - the deadline is fixed once at entry;
  - the clock is read after the fetch returns;
  - a fetch takes time;
  - the node's state changes between fetches.

  → `TimeoutWindow` and `PollBudget`.
- **The signing envelope** (did, passphrase, nonce) must reach the node on state-changing calls → `EnvelopeTransmitted`.
- **Example agents:**
  - the nonce restarts with each process → `NonceStrictlyIncreasing` (violated);
  - writes must wait for a synced node → `SyncedBeforeWrites`;
  - error exits never close the client in `agent.py` → `ClientReleased` (violated);
  - `sys.exit` inside `async with` runs while gathered requests are in flight (the close race is `HttpTransport`'s).
- **The contracts:** the spec states what a component promises without its mechanism:
  - `wait_for_sync` → `RefinesSyncWait`;
  - a workflow run (setup, then calls numbered by the session, abort only in setup) → `RefinesAgentContract`.

`PROJECT.json` `hazards` gives each of these at its source line.

## 2. Modules

| Module | Models | State | Actions |
|---|---|---|---|
| `SdkEndpoints` | the wrapper classes | none | each class is the set of endpoint shapes `[verb, sends]` its methods use |
| `HttpTransport` | `http.py` with concurrent callers, `ClawTokenError` | `open`, and per caller `pc`, `req`, `resp`, `outcome`, plus `wire` (callers whose request reached the network) | `Send`, `SendOnClosed`, `Receive`, `TransportFail`, `Close` |
| `NodeSync` | `wait_for_sync` (both variants) | `now`, `interval`, `timeout`, `deadline`, `pc`, `status`, `fetches`, `nodeSynced` | `Begin`, `FetchSynced`, `FetchTimedOut`, `FetchNotSynced`, `FetchFailed`, `Sleep`, `Cancel` (async only), `NodeChanges` (the node's environment) |
| `SyncWait` | spec §4.2, the contract of `wait_for_sync` | `phase`, `elapsed`, `attempted`, `interval`, `timeout`, `nodeSynced` | `AStart`, `AWait`, `AReturn`, `ATimeOut`, `AFail`, `ACancel`, `ANodeChanges` |
| `AgentWorkflow` | `agent.py`, `async_agent.py`, launched as processes for one DID | per process `script`, `pc`, `counter` (`_nonce`), `clientOpen`, `synced`; `sent`, the envelopes the node received | `Launch`, `StatusSynced`, `StatusNotSynced`, `WaitReturned`, `SetupFailed`, `GatherReturned`, `GatherFailed`, `ReadReturned`, `ReadFailed`, `SearchEmpty`, `SearchFound`, `WriteAccepted`, `WriteFailed` |
| `AgentContract` | spec §6, §7, §9: a workflow run per session | per session `phase`, `seq`; `log`, the `[proc, seq]` the node received | `GStart`, `GReady`, `GAbort`, `GFail`, `GFinish`, `GCall` |
| `MCHttpTransport`, `MCNodeSync`, `MCAgentWorkflow` | TLC instances | | |
| `HttpTransportProofs`, `NodeSyncProofs`, `AgentWorkflowProofs` | TLAPS proofs | | |

How the model abstracts the code:

- **Response bodies** are abstracted to the shapes `_handle_error` distinguishes (13 of them). The values it extracts are named: `"ErrMessage"`, `"ErrCode"` and `"RawText"` for `resp.text`.
- **`CallOutcome`** is `_handle_error` followed by `return resp.json()`: a non-2xx status raises a `NodeError` record, a non-JSON body is a `DecodeError`, and anything else returns the body.
- **Paths and URLs** are left out, because the transport treats the path as opaque.
- **`AgentWorkflow`** keeps the control of each script's `main` and drops the data: a call's result is which branch it takes. A launch is a fresh process, so its `_nonce` starts at 0. A state-changing call either succeeds, or fails in one of three ways: the node answers with an error (it received the envelope), the request is lost, or it was delivered and the answer lost. In every failure the nonce is consumed and nothing catches the exception. An envelope is the sender, its nonce and whether the sender had seen the node synced.
- **`NodeSync` refines `SyncWait`** through `Phase` (start ↦ idle, fetching/sleeping ↦ waiting, the end states unchanged), `now` ↦ `elapsed` and `fetches ≥ 1` ↦ `attempted`.
- **`AgentWorkflow` refines `AgentContract`** through `PhaseOf` (the setup steps ↦ setup, the write steps ↦ work, exited ↦ aborted, crashed ↦ failed, done ↦ finished), `counter` ↦ `seq`, and `sent` ↦ `LogOf(sent)`, the envelopes without their synced flag.
- **Time** in `NodeSync` is `time.monotonic()` in integer ticks. A fetch takes 1..`MaxLatency` ticks, because the client timeout bounds it.

## 3. Runs

| Run | Checks | Result |
|---|---|---|
| `http_transport` (`MCHttpTransport.cfg`) | `TypeOK`, `NodeErrorFaithful` | pass, 329,690 states |
| `error_fallback` | `NodeErrorFallback` | violated: a body `{"error": {"code": C}}` gives code `C` (http.py:31), while spec §4.1 says the code stays unset |
| `envelope_dropped` | `EnvelopeTransmitted` | violated: `markets.remove` sends a DELETE without the caller's kwargs (markets.py:44, 94, 143) |
| `wait_for_sync` (`MCNodeSync.cfg`) | `TypeOK`, `TimeoutWindow`, `PollBudget` | pass |
| `wait_refines_contract` (`MCNodeSync_Refinement.cfg`) | `RefinesSyncWait` (`AW!ASpec`) | pass: the loop implements the contract |
| `agent_workflow` (`MCAgentWorkflow.cfg`) | `TypeOK`, `SyncedBeforeWrites` | pass, 3,046 states |
| `agent_refines_contract` (`MCAgentWorkflow_Refinement.cfg`) | `RefinesAgentContract` (`AC!GSpec`) | pass, 3,046 states: the agents implement the workflow contract |
| `nonce_restart` | `NonceStrictlyIncreasing` | violated: a second launch for the same DID sends nonce 1 again (agent.py:37), while spec §6/§9 require strictly increasing nonces per actor |
| `client_release` | `ClientReleased` | violated: agent.py never closes the `ClawNetClient` it builds at line 59, while spec §5/§9 say the client is released on every exit |

**Bounds for `http_transport`:** two callers and five statuses (200, 201, 302, 404, 500).

- Two callers are enough for every order of send, answer, transport failure and close between a caller and another one's close.
- The statuses cover 2xx, a redirect that httpx does not follow and 4xx/5xx.
- Every body shape is enumerated.
- Deadlock checking is off because every caller makes one call and then stops. The program ends there.

**Bounds for `wait_for_sync`:**

- `Intervals = {0,1,2}`, `Timeouts = {0,1,4}`, `MaxLatency = 2`.
- The clock is bounded by `StateBound` (now ≤ 8 = max timeout + interval + latency), so every run reaches its end.
- Interval 0, a zero timeout, a timeout shorter than one round trip, and several turns of the loop all occur.

**Bounds for `agent_workflow`:** two launches (`p1`, `p2`) for one DID, each running either script.

- Two launches are enough for a restart after any exit, and for both scripts running for the same DID.
- Each run makes at most four state-changing calls, so the counter stays in 0..4 without an extra bound.
- Deadlock checking is off: a run ends in `done`, `exited` or `crashed`, and the system stops when both launches have ended.

**Mutants.** Every property of a passing run is broken by a plausible bug in the mapped code (`PROJECT.json` `mutants`):

- `msg = body.get("error")` without `.get("message")` breaks `TypeOK`.
- Returning without `_handle_error` breaks `NodeErrorFaithful`.
- An interval backoff breaks `TypeOK`.
- Reading the clock before the fetch breaks `TimeoutWindow`.
- Recomputing the deadline each turn breaks `PollBudget`.
- Raising the timeout without any fetch breaks `RefinesSyncWait`.
- Skipping the `if not status["synced"]` branch breaks `SyncedBeforeWrites`.
- Retrying a failed call with a fresh nonce (an unbounded retry loop) breaks `TypeOK`.
- Retrying a failed call with the nonce it used breaks `RefinesAgentContract`.

**Fairness.** `NodeSync`'s `Spec` has weak fairness on the loop's own steps. The loop runs on the caller's thread or task, and each of its waits ends: the request by the client's timeout, the sleep after `interval`. The node's changes and a cancellation get no fairness. No run checks a liveness property. A check that every wait ends held, but under the clock bound `StateBound` that keeps the state space finite no plausible bug of the loop broke it (a run whose clock passes the bound is cut off, not reported), so it said nothing about the code and was dropped. `PollBudget` bounds the loop as a safety property instead.

## 4. Proofs

All proofs are checked by `tlapm`. They hold for every value of the constants under the stated assumptions:

- `StatusesAssumption`;
- `NoneAssumption` (None is no response and no outcome);
- `ArgsAssumption` (interval and timeout are natural numbers, the latency bound is positive).

**`HttpTransportProofs`** proves `TypeCorrect` and `ErrorMappingCorrect` (`[]NodeErrorFaithful`).

- `NodeErrorFaithful` is not inductive, because a step that answers a call must know that the caller had no response before. The strengthening `Bookkeeping` ties `resp` and `outcome` to `pc` for every caller:
  - a response exists only when the call is done, and then the outcome is `CallOutcome(resp)`;
  - a done call without a response ended in a transport failure or on a closed client.
- The lemma `CallOutcomeAgrees` shows that the code's mapping agrees with the spec on every body outside the contested shape, by cases on the body.

**`NodeSyncProofs`** proves `TypeCorrect`, `TimeoutWindowHolds`, `PollBudgetHolds` and `ImplementsSyncWait` (`Spec => RefinesSyncWait`).

- The strengthening `Loop` says where the clock and the fetch count can be at each point of the loop:
  - the deadline equals the timeout;
  - at the top of a later turn the clock is below deadline + interval;
  - every finished turn took at least interval + 1 ticks (`fetches*(interval+1) ≤ now`).
- From `Loop` the budget follows: a new turn starts only before the deadline.
- The refinement is proved step by step (`StepRefines`): under `Loop`, every step of the loop is an abstract step or a stutter. A `Sleep` is an `AWait` because `Loop` puts the clock below the deadline at the sleep, so after it the clock is below timeout + interval. A timeout is an `ATimeOut` within timeout + interval + `MaxLatency` for the same reason.

**`AgentWorkflowProofs`** proves `TypeCorrect`, `WritesFollowSync` (`[]SyncedBeforeWrites`) and `ImplementsAgentContract` (`Spec => RefinesAgentContract`) for any set of launches. The assumption used is `NoneAssumption` (None is no script).

- `SyncedBeforeWrites` speaks of `sent` only, so it is not inductive: a new envelope of agent.py must be shown to come from a process at a write step, which has seen the node synced.
- The strengthening `ProcOK` ties each process's position to its counter (`StepNonce`: the counter at each call) and to what it has seen.
- `SentOK` ties each envelope to a started process whose counter has reached the envelope's nonce.
- The refinement (`RefineStep`) maps each action to a contract step of the same session. The setup steps that stay in setup are stutters. `Launch` is `GStart`, `SearchFound` `GReady`, `SetupFailed` `GAbort`, `GatherFailed` `GAbort` or `GFail`, `ReadFailed` `GFail`, `SearchEmpty` `GFinish`, `WriteAccepted` and `WriteFailed` `GCall`. The lemma `LogOfAppend` shows that appending an envelope appends its `[proc, seq]`, and `PhaseMove` that moving one process changes only its phase. `EnvelopeType` uses `StepNonce` to bound the counter at a call, and `AfterValues` says where a successful call leads.
- The lemma `AppendEnvelope` carries `SentOK` over every step that appends an envelope. `WriteAccepted` and a delivered `WriteFailed` cite it.

**Only model-checked:**

- the instance-level behaviour of the violation runs;
- liveness: TLAPS's `PTL` backend does not handle the `ENABLED` that weak fairness needs, and no liveness property is checked by TLC either (see Fairness);
- the violations `NonceStrictlyIncreasing` and `ClientReleased`, which are shown by counterexample.

## 5. Not modelled, and the plan

- **`types.py`:** declarations only.
- **Package `__init__` files:** re-exports only.
- **Tests:** these are test code.
- **`_build_url`:** next, the query filtering (drop None values; `params or None`) will become an operator checked against a reference definition over small parameter maps.
- **`asyncio.gather`** is one step in `AgentWorkflow`. A model of its three requests with `sys.exit` inside `async with`, composed with `HttpTransport`, is the next step.
- **`check_balance.py`** is not modelled. At line 19 it passes the DID positionally to a keyword-only parameter, so every run raises `TypeError` deterministically. That is a calling error, not a state-machine behaviour.
- **Liveness** is not checked: the example agents' processes end on their own, and `NodeSync`'s termination is covered by the safety bound `PollBudget`.
