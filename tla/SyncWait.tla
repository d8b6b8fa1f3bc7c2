------------------------------ MODULE SyncWait ------------------------------
(***************************************************************************)
(* What a sync wait promises (spec section 4.2, "wait_for_sync(interval,   *)
(* timeout)"), without its loop: while it waits, time passes and status    *)
(* fetches are made; it ends by returning when the node reports synced, by *)
(* a timeout failure once timeout has elapsed and at least one fetch was   *)
(* made (at most interval plus one fetch's latency late), by the failure   *)
(* of a fetch, or, in the concurrent variant, by cancellation.             *)
(***************************************************************************)
EXTENDS Naturals

CONSTANTS Intervals, Timeouts, MaxLatency, Async, None

VARIABLES phase,      \* "idle", "waiting" or how the wait ended
          elapsed,    \* time since the call began
          attempted,  \* at least one status fetch has been made
          interval,   \* the call's poll interval
          timeout,    \* the call's timeout
          nodeSynced  \* what the node would report now

avars == <<phase, elapsed, attempted, interval, timeout, nodeSynced>>

AInit ==
  /\ phase = "idle"
  /\ elapsed = 0
  /\ attempted = FALSE
  /\ interval = None
  /\ timeout = None
  /\ nodeSynced \in BOOLEAN

\* The call begins with its arguments.
AStart ==
  /\ phase = "idle"
  /\ phase' = "waiting"
  /\ interval' \in Intervals
  /\ timeout' \in Timeouts
  /\ UNCHANGED <<elapsed, attempted, nodeSynced>>

\* Polling goes on: time passes, fetches may be made, and the wait never
\* goes past timeout + interval without ending.
AWait ==
  /\ phase = "waiting"
  /\ elapsed <= elapsed'
  /\ elapsed' < timeout + interval
  /\ attempted => attempted'
  /\ attempted' \in BOOLEAN
  /\ UNCHANGED <<phase, interval, timeout, nodeSynced>>

\* The single success exit: a fetch observes the node synced.
AReturn ==
  /\ phase = "waiting"
  /\ nodeSynced
  /\ phase' = "returned"
  /\ elapsed <= elapsed'
  /\ attempted' = TRUE
  /\ UNCHANGED <<interval, timeout, nodeSynced>>

\* The timeout failure: after a fetch, once timeout has elapsed.
ATimeOut ==
  /\ phase = "waiting"
  /\ ~nodeSynced
  /\ phase' = "timedout"
  /\ elapsed <= elapsed'
  /\ timeout <= elapsed'
  /\ elapsed' <= timeout + interval + MaxLatency
  /\ attempted' = TRUE
  /\ UNCHANGED <<interval, timeout, nodeSynced>>

\* A fetch fails and the failure propagates.
AFail ==
  /\ phase = "waiting"
  /\ phase' = "failed"
  /\ elapsed <= elapsed'
  /\ UNCHANGED <<attempted, interval, timeout, nodeSynced>>

\* The caller abandons the awaiting task.
ACancel ==
  /\ Async
  /\ phase = "waiting"
  /\ phase' = "cancelled"
  /\ UNCHANGED <<elapsed, attempted, interval, timeout, nodeSynced>>

\* The node's sync state is the environment's.
ANodeChanges ==
  /\ nodeSynced' = ~nodeSynced
  /\ UNCHANGED <<phase, elapsed, attempted, interval, timeout>>

ANext == AStart \/ AWait \/ AReturn \/ ATimeOut \/ AFail \/ ACancel \/ ANodeChanges

ASpec == AInit /\ [][ANext]_avars
=============================================================================
