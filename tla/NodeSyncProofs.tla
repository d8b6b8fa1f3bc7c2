--------------------------- MODULE NodeSyncProofs ---------------------------
(***************************************************************************)
(* Proofs about wait_for_sync for every set of intervals and timeouts and  *)
(* every latency bound: the timeout window, that only a synced status is   *)
(* returned, and the bound on the number of status requests.              *)
(*                                                                         *)
(* The properties speak of the end of the call; the strengthening Loop     *)
(* says where the clock and the fetch count can be at each point of the    *)
(* loop: at the top of a later turn the previous fetch ended before the    *)
(* deadline and a sleep followed, and every finished turn took at least    *)
(* interval + 1 ticks.                                                     *)
(***************************************************************************)
EXTENDS NodeSync, TLAPS

Loop ==
  /\ pc = "start" => now = 0 /\ fetches = 0
  /\ pc # "start" =>
       /\ interval \in Intervals /\ timeout \in Timeouts
       /\ deadline = timeout
       /\ fetches * (interval + 1) <= timeout + 2 * interval + 1
  /\ pc = "fetching" =>
       \/ fetches = 0 /\ now = 0
       \/ /\ fetches >= 1
          /\ now < deadline + interval
          /\ fetches * (interval + 1) <= now
  /\ pc = "sleeping" =>
       /\ fetches >= 1
       /\ now < deadline
       /\ fetches * (interval + 1) <= now + interval
  /\ pc = "returned" => status = TRUE /\ fetches >= 1
  /\ pc = "timedout" =>
       /\ fetches >= 1
       /\ timeout <= now
       /\ now <= timeout + interval + MaxLatency

IInv == TypeOK /\ Loop

-----------------------------------------------------------------------------
LEMMA InitIInv == Init => IInv
BY DEF Init, IInv, TypeOK, Loop

LEMMA NextIInv == IInv /\ [Next]_vars => IInv'
<1> SUFFICES ASSUME IInv, [Next]_vars PROVE IInv'
  OBVIOUS
<1>. USE ArgsAssumption DEF IInv, TypeOK, Loop, Ended
<1>1. CASE Begin
  BY <1>1 DEF Begin
<1>2. CASE FetchSynced
  BY <1>2 DEF FetchSynced, Fetched
<1>3. CASE FetchTimedOut
  <2>1. PICK d \in 1..MaxLatency : Fetched(d, FALSE) /\ now + d >= deadline
    BY <1>3 DEF FetchTimedOut
  <2>2. /\ pc = "fetching" /\ pc' = "timedout"
        /\ now' = now + d /\ fetches' = fetches + 1
        /\ interval' = interval /\ timeout' = timeout /\ deadline' = deadline
    BY <1>3, <2>1 DEF FetchTimedOut, Fetched
  <2>3. status' \in BOOLEAN \cup {None} /\ nodeSynced' \in BOOLEAN
    BY <1>3, <2>1, Zenon DEF FetchTimedOut, Fetched
  <2>4. TypeOK'
    BY <2>1, <2>2, <2>3
  <2>5. interval \in Nat /\ timeout \in Nat /\ deadline = timeout
    BY <2>2
  <2>6. CASE fetches = 0 /\ now = 0
    BY <2>1, <2>2, <2>4, <2>5, <2>6
  <2>7. CASE fetches >= 1 /\ now < deadline + interval /\ fetches * (interval + 1) <= now
    <3>1. (fetches + 1) * (interval + 1) = fetches * (interval + 1) + interval + 1
      BY <2>5
    <3>. QED
      BY <2>1, <2>2, <2>4, <2>5, <2>7, <3>1
  <2>. QED
    BY <2>2, <2>6, <2>7
<1>4. CASE FetchNotSynced
  <2>1. PICK d \in 1..MaxLatency : Fetched(d, FALSE) /\ now + d < deadline
    BY <1>4 DEF FetchNotSynced
  <2>2. /\ pc = "fetching" /\ pc' = "sleeping"
        /\ now' = now + d /\ fetches' = fetches + 1
        /\ interval' = interval /\ timeout' = timeout /\ deadline' = deadline
    BY <1>4, <2>1 DEF FetchNotSynced, Fetched
  <2>3. status' \in BOOLEAN \cup {None} /\ nodeSynced' \in BOOLEAN
    BY <1>4, <2>1, Zenon DEF FetchNotSynced, Fetched
  <2>4. TypeOK'
    BY <2>1, <2>2, <2>3
  <2>5. interval \in Nat /\ timeout \in Nat /\ deadline = timeout
    BY <2>2
  <2>6. CASE fetches = 0 /\ now = 0
    BY <2>1, <2>2, <2>4, <2>5, <2>6
  <2>7. CASE fetches >= 1 /\ now < deadline + interval /\ fetches * (interval + 1) <= now
    <3>1. (fetches + 1) * (interval + 1) = fetches * (interval + 1) + interval + 1
      BY <2>5
    <3>. QED
      BY <2>1, <2>2, <2>4, <2>5, <2>7, <3>1
  <2>. QED
    BY <2>2, <2>6, <2>7
<1>5. CASE FetchFailed
  BY <1>5 DEF FetchFailed
<1>6. CASE Sleep
  BY <1>6 DEF Sleep
<1>7. CASE Cancel
  BY <1>7 DEF Cancel
<1>8. CASE NodeChanges
  BY <1>8 DEF NodeChanges
<1>9. CASE UNCHANGED vars
  BY <1>9 DEF vars
<1>. QED
  BY <1>1, <1>2, <1>3, <1>4, <1>5, <1>6, <1>7, <1>8, <1>9 DEF Next, Poll

LEMMA Invariant == Spec => []IInv
BY InitIInv, NextIInv, PTL DEF Spec

(* The type invariant of the poll loop holds in every reachable state.     *)
THEOREM TypeCorrect == Spec => []TypeOK
<1>1. IInv => TypeOK
  BY DEF IInv
<1>. QED
  BY Invariant, <1>1, PTL

(* TimeoutError is raised only after a fetch, no earlier than timeout and  *)
(* no later than timeout + interval + one request's latency.               *)
THEOREM TimeoutWindowHolds == Spec => []TimeoutWindow
<1>1. IInv => TimeoutWindow
  BY DEF IInv, Loop, TimeoutWindow
<1>. QED
  BY Invariant, <1>1, PTL

(* The number of status requests of one call is bounded by the timeout    *)
(* and the interval.                                                       *)
THEOREM PollBudgetHolds == Spec => []PollBudget
<1>1. IInv => PollBudget
  BY DEF IInv, Loop, PollBudget
<1>. QED
  BY Invariant, <1>1, PTL
-----------------------------------------------------------------------------
(* Every step of the loop, from a state of the invariant, is a step of the *)
(* abstract wait of spec section 4.2 or leaves it unchanged.              *)
LEMMA StepRefines == IInv /\ [Next]_vars => [AW!ANext]_AW!avars
<1> SUFFICES ASSUME IInv, [Next]_vars PROVE [AW!ANext]_AW!avars
  OBVIOUS
<1>. USE ArgsAssumption DEF IInv, TypeOK, Loop, Ended, Phase, AW!avars
<1>1. CASE Begin
  BY <1>1 DEF Begin, AW!ANext, AW!AStart
<1>2. CASE FetchSynced
  BY <1>2 DEF FetchSynced, Fetched, AW!ANext, AW!AReturn
<1>3. CASE FetchTimedOut
  <2>1. PICK d \in 1..MaxLatency : Fetched(d, FALSE) /\ now + d >= deadline
    BY <1>3 DEF FetchTimedOut
  <2>2. now + d <= timeout + interval + MaxLatency
    BY <1>3, <2>1 DEF FetchTimedOut
  <2>. QED
    BY <1>3, <2>1, <2>2 DEF FetchTimedOut, Fetched, AW!ANext, AW!ATimeOut
<1>4. CASE FetchNotSynced
  BY <1>4 DEF FetchNotSynced, Fetched, AW!ANext, AW!AWait
<1>5. CASE FetchFailed
  BY <1>5 DEF FetchFailed, AW!ANext, AW!AFail
<1>6. CASE Sleep
  <2>1. /\ pc = "sleeping" /\ pc' = "fetching" /\ now' = now + interval
        /\ fetches' = fetches /\ interval' = interval /\ timeout' = timeout
        /\ nodeSynced' = nodeSynced
    BY <1>6 DEF Sleep
  <2>2. interval \in Nat /\ timeout \in Nat /\ now < timeout
    BY <2>1
  <2>3. /\ now <= now' /\ now' < timeout + interval
        /\ (fetches >= 1 => fetches' >= 1)
    BY <2>1, <2>2
  <2>4. (fetches >= 1)' \in BOOLEAN
    OBVIOUS
  <2>5. Phase = "waiting" /\ Phase' = "waiting"
    BY <2>1
  <2>. QED
    BY <2>1, <2>3, <2>4, <2>5, Zenon DEF AW!ANext, AW!AWait
<1>7. CASE Cancel
  BY <1>7 DEF Cancel, AW!ANext, AW!ACancel
<1>8. CASE NodeChanges
  BY <1>8 DEF NodeChanges, AW!ANext, AW!ANodeChanges
<1>9. CASE UNCHANGED vars
  BY <1>9 DEF vars
<1>. QED
  BY <1>1, <1>2, <1>3, <1>4, <1>5, <1>6, <1>7, <1>8, <1>9 DEF Next, Poll

(* wait_for_sync implements the abstract wait: the initial state maps to  *)
(* the abstract initial state and every step to an abstract step.          *)
THEOREM ImplementsSyncWait == Spec => RefinesSyncWait
<1>1. Init => AW!AInit
  BY DEF Init, AW!AInit, Phase
<1>. QED
  BY <1>1, StepRefines, Invariant, PTL DEF Spec, RefinesSyncWait, AW!ASpec
=============================================================================
