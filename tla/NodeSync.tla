------------------------------ MODULE NodeSync ------------------------------
(***************************************************************************)
(* NodeApi.wait_for_sync / AsyncNodeApi.wait_for_sync (clawtoken/node.py): *)
(* poll get_status until the node reports synced, raising TimeoutError     *)
(* once time.monotonic() has passed the deadline fixed at entry.           *)
(*                                                                         *)
(* Time is time.monotonic() in integer ticks.  It advances while a status  *)
(* request is in flight (1 to MaxLatency ticks: the client's own          *)
(* timeout bounds it) and while the caller sleeps.  The node may catch up  *)
(* or fall behind at any moment.  interval and timeout are the caller's    *)
(* arguments, drawn from small sets.                                       *)
(***************************************************************************)
EXTENDS Naturals

CONSTANTS Intervals,   \* values of the interval argument
          Timeouts,    \* values of the timeout argument
          MaxLatency,  \* longest a get_status round trip takes
          Async,       \* TRUE for AsyncNodeApi (awaits can be cancelled)
          None

ASSUME ArgsAssumption ==
  /\ Intervals \subseteq Nat /\ Intervals # {}
  /\ Timeouts \subseteq Nat /\ Timeouts # {}
  /\ MaxLatency \in Nat \ {0}
  /\ Async \in BOOLEAN

VARIABLES now,         \* time.monotonic()
          interval,    \* the interval argument of the call
          timeout,     \* the timeout argument of the call
          deadline,    \* deadline = time.monotonic() + timeout
          pc,          \* where the call is
          status,      \* status.get("synced") of the last fetched status
          fetches,     \* get_status calls issued so far
          nodeSynced   \* what the node would report now

vars == <<now, interval, timeout, deadline, pc, status, fetches, nodeSynced>>

Ended == {"returned", "timedout", "failed", "cancelled"}

-----------------------------------------------------------------------------
Init ==
  /\ now = 0
  /\ interval = None
  /\ timeout = None
  /\ deadline = None
  /\ pc = "start"
  /\ status = None
  /\ fetches = 0
  /\ nodeSynced \in BOOLEAN

\* Entry: deadline = time.monotonic() + timeout.
Begin ==
  /\ pc = "start"
  /\ \E i \in Intervals, t \in Timeouts :
       /\ interval' = i
       /\ timeout' = t
       /\ deadline' = now + t
  /\ pc' = "fetching"
  /\ UNCHANGED <<now, status, fetches, nodeSynced>>

\* status = self.get_status() returns after d ticks with the node's state.
Fetched(d, synced) ==
  /\ now' = now + d
  /\ status' = synced
  /\ fetches' = fetches + 1

\* if status.get("synced"): return status
FetchSynced ==
  /\ pc = "fetching"
  /\ nodeSynced
  /\ \E d \in 1..MaxLatency : Fetched(d, TRUE)
  /\ pc' = "returned"
  /\ UNCHANGED <<interval, timeout, deadline, nodeSynced>>

\* Mutant: the deadline is checked before the fetch (a timeout without any
\* request when timeout is already spent).
FetchTimedOutNoFetch ==
  /\ pc = "fetching"
  /\ ~nodeSynced
  /\ now >= deadline
  /\ pc' = "timedout"
  /\ UNCHANGED <<now, interval, timeout, deadline, status, fetches, nodeSynced>>

\* if time.monotonic() >= deadline: raise TimeoutError
FetchTimedOut ==
  /\ pc = "fetching"
  /\ ~nodeSynced
  /\ \E d \in 1..MaxLatency : Fetched(d, FALSE) /\ now + d >= deadline
  /\ pc' = "timedout"
  /\ UNCHANGED <<interval, timeout, deadline, nodeSynced>>

\* Mutant: the clock is read before the request and compared after it.
FetchNotSyncedStale ==
  /\ pc = "fetching"
  /\ ~nodeSynced
  /\ now < deadline
  /\ \E d \in 1..MaxLatency : Fetched(d, FALSE)
  /\ pc' = "sleeping"
  /\ UNCHANGED <<interval, timeout, deadline, nodeSynced>>

\* Not synced and time left: go on to time.sleep(interval).
FetchNotSynced ==
  /\ pc = "fetching"
  /\ ~nodeSynced
  /\ \E d \in 1..MaxLatency : Fetched(d, FALSE) /\ now + d < deadline
  /\ pc' = "sleeping"
  /\ UNCHANGED <<interval, timeout, deadline, nodeSynced>>

\* get_status raised (ClawTokenError or a transport error): it propagates.
FetchFailed ==
  /\ pc = "fetching"
  /\ \E d \in 1..MaxLatency : now' = now + d
  /\ pc' = "failed"
  /\ UNCHANGED <<interval, timeout, deadline, status, fetches, nodeSynced>>

\* Mutant: the interval doubles after every sleep (a backoff).
SleepBackoff ==
  /\ pc = "sleeping"
  /\ now' = now + interval
  /\ interval' = 2 * interval
  /\ pc' = "fetching"
  /\ UNCHANGED <<timeout, deadline, status, fetches, nodeSynced>>

\* Mutant: the deadline is recomputed on every turn of the loop.
SleepResetDeadline ==
  /\ pc = "sleeping"
  /\ now' = now + interval
  /\ deadline' = now + interval + timeout
  /\ pc' = "fetching"
  /\ UNCHANGED <<interval, timeout, status, fetches, nodeSynced>>

\* time.sleep(interval) / await asyncio.sleep(interval), back to the loop.
Sleep ==
  /\ pc = "sleeping"
  /\ now' = now + interval
  /\ pc' = "fetching"
  /\ UNCHANGED <<interval, timeout, deadline, status, fetches, nodeSynced>>

\* The awaiting task is cancelled, in the request or in asyncio.sleep.
Cancel ==
  /\ Async
  /\ pc \in {"fetching", "sleeping"}
  /\ pc' = "cancelled"
  /\ UNCHANGED <<now, interval, timeout, deadline, status, fetches, nodeSynced>>

\* The node catches up with the network, or falls behind again.
NodeChanges ==
  /\ nodeSynced' = ~nodeSynced
  /\ UNCHANGED <<now, interval, timeout, deadline, pc, status, fetches>>

\* The steps of the polling loop itself.
Poll ==
  \/ Begin \/ FetchSynced \/ FetchTimedOut \/ FetchNotSynced \/ FetchFailed
  \/ Sleep

Next == Poll \/ Cancel \/ NodeChanges

\* The loop runs on the caller's thread (or task) and each of its waits
\* ends: the request by the client timeout, the sleep after interval.
Spec == Init /\ [][Next]_vars /\ WF_vars(Poll)

-----------------------------------------------------------------------------
TypeOK ==
  /\ now \in Nat
  /\ interval \in Intervals \cup {None}
  /\ timeout \in Timeouts \cup {None}
  /\ deadline \in Nat \cup {None}
  /\ pc \in {"start", "fetching", "sleeping"} \cup Ended
  /\ status \in BOOLEAN \cup {None}
  /\ fetches \in Nat
  /\ nodeSynced \in BOOLEAN

(* wait_for_sync raises TimeoutError only after at least one status fetch, *)
(* never before timeout has elapsed since entry, and no later than timeout *)
(* + interval + one request's latency (spec 4.2 and 8; the deadline is    *)
(* checked with the clock read after get_status returns).                 *)
TimeoutWindow ==
  pc = "timedout" =>
    /\ fetches >= 1
    /\ timeout <= now
    /\ now <= timeout + interval + MaxLatency

(* The number of get_status requests one wait_for_sync issues is bounded  *)
(* by timeout and interval, however long the node stays behind: every turn *)
(* of the loop takes interval plus one round trip, and a new turn starts   *)
(* only before the deadline fixed at entry.                                *)
PollBudget ==
  pc # "start" => fetches * (interval + 1) <= timeout + 2 * interval + 1

\* The loop seen through the contract of spec section 4.2: the loop's
\* positions collapse to "waiting" and a fetch counts as an attempt.
Phase == IF pc = "start" THEN "idle"
         ELSE IF pc \in {"fetching", "sleeping"} THEN "waiting" ELSE pc

AW == INSTANCE SyncWait WITH phase <- Phase, elapsed <- now, attempted <- fetches >= 1

(* wait_for_sync implements the contract of spec section 4.2: every step   *)
(* of the loop is a step of the abstract wait or leaves it unchanged.      *)
RefinesSyncWait == AW!ASpec
=============================================================================
