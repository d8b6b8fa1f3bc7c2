---------------------------- MODULE AgentWorkflow ----------------------------
(***************************************************************************)
(* The example agents (examples/python-agent/agent.py and async_agent.py)  *)
(* run as operating-system processes for one agent DID.  Each launch is a  *)
(* fresh Python process: it builds a client, checks the node, reads its    *)
(* identity and balance, searches the task market and, when a task is      *)
(* found, sends state-changing calls (bid, contract, milestone, review)    *)
(* whose envelope carries nonce = next_nonce(), a counter that lives in    *)
(* the process.  A process ends by returning, by sys.exit(1) from an       *)
(* except clause, or by an exception that nothing catches; the next launch *)
(* (a restart, or another script run for the same DID) starts again.       *)
(*                                                                         *)
(* The node is a black box: a call succeeds, fails with an answer, or      *)
(* fails in transport with the request either lost or already delivered   *)
(* (a timeout after the node applied it).  sent is what the node received  *)
(* for the DID, in order of arrival.                                       *)
(***************************************************************************)
EXTENDS Naturals, Sequences

CONSTANTS Procs,   \* process launches for the same AGENT_DID
          None

Scripts == {"agent", "async_agent"}

\* None marks a launch that has not started: it is no script.
ASSUME NoneAssumption == None \notin Scripts

VARIABLES script,      \* which example each launch runs
          pc,          \* where each process is
          counter,     \* the module-level _nonce of each process
          clientOpen,  \* the process's client still holds its connection pool
          synced,      \* the process has seen the node report synced
          sent         \* envelopes the node received, in order of arrival

vars == <<script, pc, counter, clientOpen, synced, sent>>

Ended == {"done", "exited", "crashed"}

\* The state-changing calls of each script, and the step after each.
AgentAfter == [bid |-> "contract", contract |-> "milestone",
               milestone |-> "record", record |-> "done"]
AsyncAfter == [bid |-> "contract", contract |-> "done"]

After(p) == IF script[p] = "agent" THEN AgentAfter[pc[p]] ELSE AsyncAfter[pc[p]]

WriteSteps == {"bid", "contract", "milestone", "record"}

\* Leaving main: the async with of async_agent.py runs __aexit__, which
\* closes the client; agent.py has no close on any path.
LeaveScope(p) ==
  clientOpen' = IF script[p] = "async_agent"
                  THEN [clientOpen EXCEPT ![p] = FALSE] ELSE clientOpen

\* The nonce the next state-changing call of p carries.
NextNonce(p) == counter[p] + 1

-----------------------------------------------------------------------------
Init ==
  /\ script = [p \in Procs |-> None]
  /\ pc = [p \in Procs |-> "idle"]
  /\ counter = [p \in Procs |-> 0]
  /\ clientOpen = [p \in Procs |-> FALSE]
  /\ synced = [p \in Procs |-> FALSE]
  /\ sent = <<>>

\* The process starts: _nonce = 0 at import, then the client is built.
Launch(p) ==
  /\ pc[p] = "idle"
  /\ \E s \in Scripts :
       /\ script' = [script EXCEPT ![p] = s]
       /\ pc' = [pc EXCEPT ![p] = IF s = "agent" THEN "status" ELSE "gather"]
  /\ counter' = [counter EXCEPT ![p] = 0]
  /\ clientOpen' = [clientOpen EXCEPT ![p] = TRUE]
  /\ UNCHANGED <<synced, sent>>

\* agent.py step 1: get_status() reports synced.
StatusSynced(p) ==
  /\ pc[p] = "status"
  /\ pc' = [pc EXCEPT ![p] = "identity"]
  /\ synced' = [synced EXCEPT ![p] = TRUE]
  /\ UNCHANGED <<script, counter, clientOpen, sent>>

\* Mutant: the `if not status["synced"]` branch is skipped.
StatusNotSyncedNoWait(p) ==
  /\ pc[p] = "status"
  /\ pc' = [pc EXCEPT ![p] = "identity"]
  /\ UNCHANGED <<script, counter, clientOpen, synced, sent>>

\* get_status() reports not synced: wait_for_sync(interval=2.0, timeout=60.0).
StatusNotSynced(p) ==
  /\ pc[p] = "status"
  /\ pc' = [pc EXCEPT ![p] = "waitSync"]
  /\ UNCHANGED <<script, counter, clientOpen, synced, sent>>

\* wait_for_sync returns a synced status.
WaitReturned(p) ==
  /\ pc[p] = "waitSync"
  /\ pc' = [pc EXCEPT ![p] = "identity"]
  /\ synced' = [synced EXCEPT ![p] = TRUE]
  /\ UNCHANGED <<script, counter, clientOpen, sent>>

\* get_status or wait_for_sync raises (node error, transport error,
\* TimeoutError): except ClawNetError / except Exception print and exit(1).
SetupFailed(p) ==
  /\ pc[p] \in {"status", "waitSync"}
  /\ pc' = [pc EXCEPT ![p] = "exited"]
  /\ UNCHANGED <<script, counter, clientOpen, synced, sent>>

\* async_agent.py: gather(get_status, identity.get, get_balance) returns.
GatherReturned(p) ==
  /\ pc[p] = "gather"
  /\ pc' = [pc EXCEPT ![p] = "search"]
  /\ UNCHANGED <<script, counter, clientOpen, synced, sent>>

\* One of the gathered calls raises: a ClawNetError reaches sys.exit(1),
\* anything else propagates; either way the async with closes the client.
GatherFailed(p) ==
  /\ pc[p] = "gather"
  /\ \E e \in {"exited", "crashed"} : pc' = [pc EXCEPT ![p] = e]
  /\ LeaveScope(p)
  /\ UNCHANGED <<script, counter, synced, sent>>

\* agent.py steps 2 and 3: identity.get, wallet.get_balance succeed.
ReadReturned(p) ==
  /\ pc[p] \in {"identity", "balance"}
  /\ pc' = [pc EXCEPT ![p] = IF pc[p] = "identity" THEN "balance" ELSE "search"]
  /\ UNCHANGED <<script, counter, clientOpen, synced, sent>>

\* A read outside any try block raises: the exception ends the process.
ReadFailed(p) ==
  /\ pc[p] \in {"identity", "balance", "search"}
  /\ pc' = [pc EXCEPT ![p] = "crashed"]
  /\ LeaveScope(p)
  /\ UNCHANGED <<script, counter, synced, sent>>

\* markets.search finds no task: main returns.
SearchEmpty(p) ==
  /\ pc[p] = "search"
  /\ pc' = [pc EXCEPT ![p] = "done"]
  /\ LeaveScope(p)
  /\ UNCHANGED <<script, counter, synced, sent>>

\* markets.search finds a task: go on to bid on items[0].
SearchFound(p) ==
  /\ pc[p] = "search"
  /\ pc' = [pc EXCEPT ![p] = "bid"]
  /\ UNCHANGED <<script, counter, clientOpen, synced, sent>>

\* The envelope of p's next call as the node receives it.
Envelope(p) == [proc |-> p, nonce |-> NextNonce(p), synced |-> synced[p]]

\* A state-changing call with nonce=next_nonce() succeeds.
WriteAccepted(p) ==
  /\ pc[p] \in WriteSteps
  /\ counter' = [counter EXCEPT ![p] = NextNonce(p)]
  /\ sent' = Append(sent, Envelope(p))
  /\ pc' = [pc EXCEPT ![p] = After(p)]
  /\ IF After(p) = "done" THEN LeaveScope(p) ELSE UNCHANGED clientOpen
  /\ UNCHANGED <<script, synced>>

\* Mutant: a failed call is retried with the nonce it already used.
WriteFailedRetrySameNonce(p) ==
  /\ pc[p] \in WriteSteps
  /\ sent' = Append(sent, Envelope(p))
  /\ UNCHANGED <<script, pc, counter, clientOpen, synced>>

\* Mutant: a failed call is retried with a fresh nonce.
WriteFailedRetry(p) ==
  /\ pc[p] \in WriteSteps
  /\ counter' = [counter EXCEPT ![p] = NextNonce(p)]
  /\ \E delivered \in BOOLEAN :
       sent' = IF delivered THEN Append(sent, Envelope(p)) ELSE sent
  /\ UNCHANGED <<script, pc, clientOpen, synced>>

\* The call fails: the node answers with an error (it received the
\* envelope), the request is lost, or the request was delivered and the
\* client timed out waiting for the answer.  The nonce is consumed and
\* nothing catches the exception.
WriteFailed(p) ==
  /\ pc[p] \in WriteSteps
  /\ counter' = [counter EXCEPT ![p] = NextNonce(p)]
  /\ \E delivered \in BOOLEAN :
       sent' = IF delivered THEN Append(sent, Envelope(p)) ELSE sent
  /\ pc' = [pc EXCEPT ![p] = "crashed"]
  /\ LeaveScope(p)
  /\ UNCHANGED <<script, synced>>

Next ==
  \E p \in Procs :
    \/ Launch(p)
    \/ StatusSynced(p) \/ StatusNotSynced(p) \/ WaitReturned(p) \/ SetupFailed(p)
    \/ GatherReturned(p) \/ GatherFailed(p)
    \/ ReadReturned(p) \/ ReadFailed(p) \/ SearchEmpty(p) \/ SearchFound(p)
    \/ WriteAccepted(p) \/ WriteFailed(p)

Spec == Init /\ [][Next]_vars

-----------------------------------------------------------------------------
TypeOK ==
  /\ script \in [Procs -> Scripts \cup {None}]
  /\ pc \in [Procs -> {"idle", "status", "waitSync", "gather", "identity",
                       "balance", "search"} \cup WriteSteps \cup Ended]
  \* one nonce per state-changing call of a run
  /\ counter \in [Procs -> 0..4]
  /\ clientOpen \in [Procs -> BOOLEAN]
  /\ synced \in [Procs -> BOOLEAN]
  /\ sent \in Seq([proc : Procs, nonce : 1..4, synced : BOOLEAN])

(* agent.py sends a state-changing call only after the node has reported   *)
(* synced, directly or through wait_for_sync (its step 1 guards the work). *)
SyncedBeforeWrites ==
  \A i \in 1..Len(sent) :
    script[sent[i].proc] = "agent" => sent[i].synced

(* Spec sections 6 and 9: the state-changing calls of one actor carry a    *)
(* strictly increasing sequence number, across the actor's processes.     *)
NonceStrictlyIncreasing ==
  \A i, j \in 1..Len(sent) : i < j => sent[i].nonce < sent[j].nonce

(* Spec sections 5 and 9: the client's connection pool is released on     *)
(* every exit path of the program that created it.                         *)
ClientReleased ==
  \A p \in Procs : pc[p] \in Ended => ~clientOpen[p]
-----------------------------------------------------------------------------
(* The workflow as the contract of spec sections 6, 7 and 9 sees it: the   *)
(* steps before the first state-changing call are setup, sys.exit(1) from  *)
(* an except clause is an abort with a diagnostic, an uncaught exception a *)
(* failure, and the node's log drops the synced flag of each envelope.     *)
PhaseOf ==
  [idle |-> "idle", status |-> "setup", waitSync |-> "setup", gather |-> "setup",
   identity |-> "setup", balance |-> "setup", search |-> "setup",
   bid |-> "work", contract |-> "work", milestone |-> "work", record |-> "work",
   exited |-> "aborted", crashed |-> "failed", done |-> "finished"]

LogOf(s) == [i \in 1..Len(s) |-> [proc |-> s[i].proc, seq |-> s[i].nonce]]

AC == INSTANCE AgentContract
        WITH phase <- [p \in Procs |-> PhaseOf[pc[p]]], seq <- counter, log <- LogOf(sent)

(* Every behaviour of agent.py and async_agent.py launches is a behaviour  *)
(* of the workflow contract: setup before any state-changing call, an      *)
(* exit(1) with diagnostic only during setup, and each call carrying its   *)
(* session's next sequence number.                                         *)
RefinesAgentContract == AC!GSpec
=============================================================================
