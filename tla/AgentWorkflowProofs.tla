------------------------- MODULE AgentWorkflowProofs -------------------------
(***************************************************************************)
(* Proofs about the example agents, for any number of launches: the type   *)
(* invariant, that agent.py writes only after seeing the node synced, and  *)
(* that the agents implement the workflow contract of AgentContract.       *)
(*                                                                         *)
(* The properties speak of the envelopes the node received; the            *)
(* strengthening ties each envelope to the process that sent it (which    *)
(* has started and whose counter has passed the envelope's nonce) and     *)
(* each process's position to its counter and to what it has seen.        *)
(***************************************************************************)
EXTENDS AgentWorkflow, SequenceTheorems, TLAPS

\* What the node can receive for the DID.
Envelopes == [proc : Procs, nonce : 1..4, synced : BOOLEAN]

\* The nonce a process has used when it reaches each state-changing call.
StepNonce == [bid |-> 0, contract |-> 1, milestone |-> 2, record |-> 3]

\* Where each script can be, and what its counter and its view are there.
ProcOK ==
  \A p \in Procs :
    /\ (pc[p] = "idle") <=> (script[p] = None)
    /\ script[p] = "async_agent" =>
         pc[p] \in {"gather", "search", "bid", "contract"} \cup Ended
    /\ script[p] = "agent" => pc[p] # "gather"
    /\ script[p] = "agent" /\ pc[p] \in {"identity", "balance", "search"} \cup WriteSteps
         => synced[p]
    /\ pc[p] \in WriteSteps => counter[p] = StepNonce[pc[p]]
    /\ pc[p] \in {"idle", "status", "waitSync", "gather", "identity", "balance", "search"}
         => counter[p] = 0

\* Every envelope comes from a started process whose counter has reached it.
SentOK ==
  \A i \in 1..Len(sent) :
    /\ pc[sent[i].proc] # "idle"
    /\ sent[i].nonce <= counter[sent[i].proc]
    /\ script[sent[i].proc] = "agent" => sent[i].synced

IInv == TypeOK /\ ProcOK /\ SentOK
-----------------------------------------------------------------------------
LEMMA InitIInv == Init => IInv
<1> SUFFICES ASSUME Init PROVE IInv
  OBVIOUS
<1>1. sent = <<>> /\ Len(sent) = 0
  BY DEF Init
<1>2. sent \in Seq([proc : Procs, nonce : 1..4, synced : BOOLEAN])
  BY <1>1
<1>3. TypeOK
  BY <1>2 DEF Init, TypeOK
<1>4. ProcOK
  <2> SUFFICES ASSUME NEW p \in Procs
               PROVE  /\ pc[p] = "idle" /\ script[p] = None /\ counter[p] = 0
                      /\ script[p] # "async_agent" /\ script[p] # "agent"
    BY DEF ProcOK, WriteSteps
  <2>1. pc[p] = "idle" /\ script[p] = None /\ counter[p] = 0
    BY DEF Init
  <2>. QED
    BY <2>1, NoneAssumption DEF Scripts
<1>5. SentOK
  BY <1>1 DEF SentOK
<1>. QED
  BY <1>3, <1>4, <1>5 DEF IInv

\* A state-changing call of p that reaches the node keeps the envelopes
\* tied to their senders.
LEMMA AppendEnvelope ==
  ASSUME IInv, NEW p \in Procs, NEW x, x # "idle",
         pc[p] \in WriteSteps,
         pc' = [pc EXCEPT ![p] = x],
         counter' = [counter EXCEPT ![p] = counter[p] + 1],
         sent' = Append(sent, Envelope(p)),
         script' = script
  PROVE  sent' \in Seq(Envelopes) /\ SentOK'
<1>. USE DEF IInv, TypeOK
<1>. DEFINE e == [proc |-> p, nonce |-> counter[p] + 1, synced |-> synced[p]]
<1>1. counter[p] \in 0..3
  BY DEF ProcOK, StepNonce, WriteSteps
<1>2. e \in Envelopes /\ Envelope(p) = e
  BY <1>1 DEF Envelopes, Envelope, NextNonce
<1>3. /\ sent' \in Seq(Envelopes)
      /\ Len(sent') = Len(sent) + 1
      /\ \A i \in 1..Len(sent) : sent'[i] = sent[i]
      /\ sent'[Len(sent) + 1] = e
  BY <1>2, AppendProperties DEF Envelopes
<1>4. \A i \in 1..Len(sent) :
        /\ sent[i] \in Envelopes
        /\ pc[sent[i].proc] # "idle" /\ sent[i].nonce <= counter[sent[i].proc]
        /\ script[sent[i].proc] = "agent" => sent[i].synced
  BY ElementOfSeq DEF SentOK, Envelopes
<1>5. \A q \in Procs : (pc[q] # "idle" => pc'[q] # "idle") /\ counter[q] <= counter'[q]
  BY DEF WriteSteps
<1>6. script[p] = "agent" => synced[p]
  BY DEF ProcOK, WriteSteps
<1>7. SentOK'
  <2> SUFFICES ASSUME NEW i \in 1..Len(sent')
               PROVE  /\ pc'[sent'[i].proc] # "idle"
                      /\ sent'[i].nonce <= counter'[sent'[i].proc]
                      /\ script'[sent'[i].proc] = "agent" => sent'[i].synced
    BY DEF SentOK
  <2>1. CASE i \in 1..Len(sent)
    <3>1. sent'[i] = sent[i] /\ sent[i] \in Envelopes
      BY <1>3, <1>4, <2>1
    <3>2. sent[i].proc \in Procs
      BY <3>1 DEF Envelopes
    <3>3. /\ pc[sent[i].proc] # "idle"
          /\ sent[i].nonce <= counter[sent[i].proc]
          /\ script[sent[i].proc] = "agent" => sent[i].synced
      BY <1>4, <2>1
    <3>4. /\ pc[sent[i].proc] # "idle" => pc'[sent[i].proc] # "idle"
          /\ counter[sent[i].proc] <= counter'[sent[i].proc]
      BY <1>5, <3>2
    <3>8. sent[i].nonce \in 1..4
      BY <3>1 DEF Envelopes
    <3>9. counter[sent[i].proc] \in 0..4
      BY <3>2
    <3>5. sent[i].nonce \in Nat /\ counter[sent[i].proc] \in Nat
      BY <3>8, <3>9
    <3>7. counter'[sent[i].proc] \in Nat
      BY <3>2, <3>5
    <3>6. /\ pc'[sent[i].proc] # "idle"
          /\ sent[i].nonce <= counter'[sent[i].proc]
      BY <3>3, <3>4, <3>5, <3>7
    <3>. QED
      BY <3>1, <3>3, <3>6
  <2>2. CASE i = Len(sent) + 1
    <3>1. sent'[i] = e
      BY <1>3, <2>2
    <3>2. pc'[p] = x /\ counter'[p] = counter[p] + 1
      BY DEF WriteSteps
    <3>3. /\ e.proc = p /\ e.nonce = counter[p] + 1 /\ e.synced = synced[p]
          /\ script'[p] = script[p]
      OBVIOUS
    <3>4. /\ sent'[i].proc = p /\ sent'[i].nonce = counter[p] + 1
          /\ sent'[i].synced = synced[p]
      BY <3>1, <3>3
    <3>5. pc'[p] # "idle" /\ sent'[i].nonce <= counter'[p]
      BY <1>1, <3>2, <3>4
    <3>. QED
      BY <1>6, <3>3, <3>4, <3>5
  <2>. QED
    BY <1>3, <2>1, <2>2
<1>. QED
  BY <1>3, <1>7

LEMMA NextIInv == IInv /\ [Next]_vars => IInv'
<1> SUFFICES ASSUME IInv, [Next]_vars PROVE IInv'
  OBVIOUS
<1>. USE NoneAssumption DEF IInv, TypeOK, ProcOK, SentOK, Ended, WriteSteps
<1>1. ASSUME NEW p \in Procs, Launch(p) PROVE IInv'
  BY <1>1 DEF Launch, Scripts
<1>2. ASSUME NEW p \in Procs, StatusSynced(p) PROVE IInv'
  BY <1>2 DEF StatusSynced
<1>3. ASSUME NEW p \in Procs, StatusNotSynced(p) PROVE IInv'
  BY <1>3 DEF StatusNotSynced
<1>4. ASSUME NEW p \in Procs, WaitReturned(p) PROVE IInv'
  BY <1>4 DEF WaitReturned
<1>5. ASSUME NEW p \in Procs, SetupFailed(p) PROVE IInv'
  BY <1>5 DEF SetupFailed
<1>6. ASSUME NEW p \in Procs, GatherReturned(p) PROVE IInv'
  BY <1>6 DEF GatherReturned
<1>7. ASSUME NEW p \in Procs, GatherFailed(p) PROVE IInv'
  BY <1>7 DEF GatherFailed, LeaveScope
<1>8. ASSUME NEW p \in Procs, ReadReturned(p) PROVE IInv'
  BY <1>8 DEF ReadReturned
<1>9. ASSUME NEW p \in Procs, ReadFailed(p) PROVE IInv'
  BY <1>9 DEF ReadFailed, LeaveScope
<1>10. ASSUME NEW p \in Procs, SearchEmpty(p) PROVE IInv'
  BY <1>10 DEF SearchEmpty, LeaveScope
<1>11. ASSUME NEW p \in Procs, SearchFound(p) PROVE IInv'
  BY <1>11 DEF SearchFound, StepNonce
<1>12. ASSUME NEW p \in Procs, WriteAccepted(p) PROVE IInv'
  <2>1. /\ pc[p] \in WriteSteps /\ script[p] \in Scripts
        /\ counter[p] = StepNonce[pc[p]] /\ counter[p] \in 0..3
    BY <1>12 DEF WriteAccepted, StepNonce, Scripts
  <2>2. /\ After(p) \in {"contract", "milestone", "record", "done"}
        /\ After(p) \in WriteSteps => StepNonce[After(p)] = counter[p] + 1
        /\ script[p] = "async_agent" => After(p) \in {"contract", "done"}
    <3>1. CASE script[p] = "agent"
      BY <2>1, <3>1 DEF After, AgentAfter, StepNonce
    <3>2. CASE script[p] = "async_agent"
      <4>1. pc[p] \in {"bid", "contract"}
        BY <2>1, <3>2
      <4>. QED
        BY <2>1, <3>2, <4>1 DEF After, AsyncAfter, StepNonce
    <3>. QED
      BY <2>1, <3>1, <3>2 DEF Scripts
  <2>3. /\ sent' = Append(sent, Envelope(p))
        /\ Len(sent') = Len(sent) + 1
        /\ \A i \in 1..Len(sent) : sent'[i] = sent[i]
        /\ sent'[Len(sent) + 1] = Envelope(p)
    BY <1>12 DEF WriteAccepted
  <2>4. /\ counter' = [counter EXCEPT ![p] = counter[p] + 1]
        /\ pc' = [pc EXCEPT ![p] = After(p)]
        /\ script' = script /\ synced' = synced
        /\ clientOpen' \in [Procs -> BOOLEAN]
    BY <1>12 DEF WriteAccepted, NextNonce, LeaveScope
  <2>5. Envelope(p) = [proc |-> p, nonce |-> counter[p] + 1, synced |-> synced[p]]
    BY DEF Envelope, NextNonce
  <2>6. /\ sent' \in Seq(Envelopes) /\ SentOK'
    BY <2>1, <2>2, <2>3, <2>4, AppendEnvelope
  <2>7. ProcOK'
    BY <2>1, <2>2, <2>4 DEF StepNonce
  <2>8. TypeOK'
    BY <2>1, <2>2, <2>4, <2>6 DEF Envelopes
  <2>. QED
    BY <2>6, <2>7, <2>8
<1>13. ASSUME NEW p \in Procs, WriteFailed(p) PROVE IInv'
  <2>1. /\ pc[p] \in WriteSteps /\ script[p] \in Scripts
        /\ counter[p] = StepNonce[pc[p]] /\ counter[p] \in 0..3
    BY <1>13 DEF WriteFailed, StepNonce, Scripts
  <2>2. PICK delivered \in BOOLEAN :
          sent' = IF delivered THEN Append(sent, Envelope(p)) ELSE sent
    BY <1>13 DEF WriteFailed
  <2>3. /\ counter' = [counter EXCEPT ![p] = counter[p] + 1]
        /\ pc' = [pc EXCEPT ![p] = "crashed"]
        /\ script' = script /\ synced' = synced
        /\ clientOpen' \in [Procs -> BOOLEAN]
    BY <1>13 DEF WriteFailed, NextNonce, LeaveScope
  <2>4. ProcOK'
    BY <2>1, <2>3
  <2>6. CASE delivered
    <3>1. /\ sent' \in Seq(Envelopes) /\ SentOK'
      BY <2>1, <2>2, <2>3, <2>6, AppendEnvelope
    <3>2. TypeOK'
      BY <2>1, <2>3, <3>1 DEF Envelopes
    <3>. QED
      BY <2>4, <3>1, <3>2
  <2>7. CASE ~delivered
    <3>1. sent' = sent
      BY <2>2, <2>7
    <3>2. TypeOK'
      BY <2>1, <2>3, <3>1
    <3>3. SentOK'
      <4> SUFFICES ASSUME NEW i \in 1..Len(sent)
                   PROVE  /\ pc'[sent[i].proc] # "idle"
                          /\ sent[i].nonce <= counter'[sent[i].proc]
                          /\ script'[sent[i].proc] = "agent" => sent[i].synced
        BY <3>1 DEF SentOK
      <4>0. sent \in Seq(Envelopes)
        BY DEF Envelopes
      <4>1. sent[i] \in Envelopes
        BY <4>0, ElementOfSeq
      <4>2. sent[i].proc \in Procs /\ sent[i].nonce \in 1..4
        BY <4>1 DEF Envelopes
      <4>3. /\ pc[sent[i].proc] # "idle"
            /\ sent[i].nonce <= counter[sent[i].proc]
            /\ script[sent[i].proc] = "agent" => sent[i].synced
        BY DEF SentOK
      <4>4. /\ pc'[sent[i].proc] # "idle"
            /\ counter[sent[i].proc] <= counter'[sent[i].proc]
        BY <2>3, <4>2
      <4>5. counter[sent[i].proc] \in 0..4 /\ counter'[sent[i].proc] \in 0..5
        BY <2>3, <4>2
      <4>. QED
        BY <2>3, <4>2, <4>3, <4>4, <4>5
    <3>. QED
      BY <2>4, <3>2, <3>3
  <2>. QED
    BY <2>6, <2>7
<1>14. CASE UNCHANGED vars
  BY <1>14 DEF vars
<1>. QED
  BY <1>1, <1>2, <1>3, <1>4, <1>5, <1>6, <1>7, <1>8, <1>9, <1>10, <1>11,
     <1>12, <1>13, <1>14 DEF Next

LEMMA Invariant == Spec => []IInv
BY InitIInv, NextIInv, PTL DEF Spec

(* The model never leaves its types: process positions, the module-level  *)
(* _nonce of each process (at most one next_nonce() per state-changing    *)
(* call) and the envelopes the node receives.                              *)
THEOREM TypeCorrect == Spec => []TypeOK
<1>1. IInv => TypeOK
  BY DEF IInv
<1>. QED
  BY Invariant, <1>1, PTL

(* For any number of launches, every envelope agent.py sends was built     *)
(* after its process saw get_status() or wait_for_sync report synced.      *)
THEOREM WritesFollowSync == Spec => []SyncedBeforeWrites
<1>1. IInv => SyncedBeforeWrites
  BY DEF IInv, SentOK, SyncedBeforeWrites
<1>. QED
  BY Invariant, <1>1, PTL

-----------------------------------------------------------------------------
\* The step after a state-changing call that does not end the run.
LEMMA AfterValues ==
  ASSUME IInv, NEW p \in Procs, pc[p] \in WriteSteps
  PROVE  After(p) \in {"contract", "milestone", "record", "done"}
<1>1. script[p] \in Scripts
  BY NoneAssumption DEF IInv, TypeOK, ProcOK, WriteSteps
<1>2. CASE script[p] = "agent"
  BY <1>2 DEF After, AgentAfter, WriteSteps
<1>3. CASE script[p] = "async_agent"
  <2>1. pc[p] \in {"bid", "contract"}
    BY <1>3 DEF IInv, ProcOK, WriteSteps, Ended
  <2>. QED
    BY <1>3, <2>1 DEF After, AsyncAfter
<1>. QED
  BY <1>1, <1>2, <1>3 DEF Scripts

-----------------------------------------------------------------------------
(* Refinement of the workflow contract.  Each step of a process is the     *)
(* contract's step of that session, or a stutter for the setup steps that  *)
(* stay in setup.  The node's log is the envelopes without their synced    *)
(* flag; appending an envelope appends its log entry (LogOfAppend).        *)

PcValues == {"idle", "status", "waitSync", "gather", "identity", "balance",
             "search"} \cup WriteSteps \cup Ended

\* The contract's view of the log commutes with Append.
LEMMA LogOfAppend ==
  ASSUME NEW s \in Seq(Envelopes), NEW e \in Envelopes
  PROVE  LogOf(Append(s, e)) = Append(LogOf(s), [proc |-> e.proc, seq |-> e.nonce])
<1>1. Len(Append(s, e)) = Len(s) + 1
      /\ \A i \in 1..Len(s) : Append(s, e)[i] = s[i]
      /\ Append(s, e)[Len(s) + 1] = e
  BY AppendProperties
<1>2. LogOf(s) \in Seq([proc : Procs, seq : 1..4])
  <2>1. \A i \in 1..Len(s) : s[i] \in Envelopes
    BY ElementOfSeq
  <2>. QED
    BY <2>1 DEF LogOf, Envelopes
<1>3. Len(LogOf(s)) = Len(s)
  BY DEF LogOf
<1>. QED
  BY <1>1, <1>2, <1>3 DEF LogOf

\* The contract's view of the positions, updated at one process.
LEMMA PhaseExcept ==
  ASSUME pc \in [Procs -> PcValues], NEW p \in Procs, NEW x \in PcValues
  PROVE  [q \in Procs |-> PhaseOf[[pc EXCEPT ![p] = x][q]]]
           = [[q \in Procs |-> PhaseOf[pc[q]]] EXCEPT ![p] = PhaseOf[x]]
OBVIOUS

\* The envelope of a process at a state-changing call.
LEMMA EnvelopeType ==
  ASSUME IInv, NEW p \in Procs, pc[p] \in WriteSteps
  PROVE  counter[p] \in 0..3 /\ Envelope(p) \in Envelopes
<1>1. counter[p] \in 0..3
  BY DEF IInv, ProcOK, StepNonce, WriteSteps
<1>. QED
  BY <1>1 DEF IInv, TypeOK, Envelope, NextNonce, Envelopes

\* The contract's view of a step of p that moves p to x.
LEMMA PhaseMove ==
  ASSUME IInv, NEW p \in Procs, NEW x \in PcValues, pc' = [pc EXCEPT ![p] = x]
  PROVE  [q \in Procs |-> PhaseOf[pc'[q]]]
           = [[q \in Procs |-> PhaseOf[pc[q]]] EXCEPT ![p] = PhaseOf[x]]
<1>1. pc \in [Procs -> PcValues]
  BY DEF IInv, TypeOK, PcValues
<1>. QED
  BY <1>1, PhaseExcept

LEMMA RefineStep == IInv /\ [Next]_vars => [AC!GNext]_AC!gvars
<1> SUFFICES ASSUME IInv, [Next]_vars PROVE [AC!GNext]_AC!gvars
  OBVIOUS
<1>. DEFINE ph == [q \in Procs |-> PhaseOf[pc[q]]]
<1>0. /\ pc \in [Procs -> PcValues] /\ sent \in Seq(Envelopes)
      /\ counter \in [Procs -> 0..4]
  BY DEF IInv, TypeOK, PcValues, Envelopes
<1>1. ASSUME NEW p \in Procs, Launch(p) PROVE AC!GStart(p)
  <2>1. PICK s \in Scripts :
          pc' = [pc EXCEPT ![p] = IF s = "agent" THEN "status" ELSE "gather"]
    BY <1>1 DEF Launch
  <2>2. ph' = [ph EXCEPT ![p] = "setup"]
    <3>. DEFINE x == IF s = "agent" THEN "status" ELSE "gather"
    <3>1. x \in PcValues /\ PhaseOf[x] = "setup"
      BY DEF PcValues, PhaseOf
    <3>. QED
      BY <2>1, <3>1, PhaseMove
  <2>3. ph[p] = "idle"
    BY <1>1 DEF Launch, PhaseOf
  <2>. QED
    BY <1>1, <2>2, <2>3 DEF Launch, AC!GStart
<1>2. ASSUME NEW p \in Procs,
             \/ StatusSynced(p) \/ StatusNotSynced(p) \/ WaitReturned(p)
             \/ GatherReturned(p) \/ ReadReturned(p)
      PROVE  UNCHANGED AC!gvars
  <2>1. PICK x \in {"identity", "waitSync", "search", "balance"} :
          /\ pc' = [pc EXCEPT ![p] = x] /\ counter' = counter /\ sent' = sent
          /\ pc[p] \in {"status", "waitSync", "gather", "identity", "balance"}
    BY <1>2 DEF StatusSynced, StatusNotSynced, WaitReturned, GatherReturned,
                ReadReturned
  <2>2. ph' = [ph EXCEPT ![p] = PhaseOf[x]]
    BY <2>1, PhaseMove DEF PcValues
  <2>3. [ph EXCEPT ![p] = PhaseOf[x]] = ph
    BY <2>1 DEF PhaseOf
  <2>. QED
    BY <2>1, <2>2, <2>3 DEF AC!gvars
<1>3. ASSUME NEW p \in Procs, SetupFailed(p) PROVE AC!GAbort(p)
  <2>1. /\ pc' = [pc EXCEPT ![p] = "exited"] /\ pc[p] \in {"status", "waitSync"}
        /\ counter' = counter /\ sent' = sent
    BY <1>3 DEF SetupFailed
  <2>2. ph' = [ph EXCEPT ![p] = PhaseOf["exited"]]
    BY <2>1, PhaseMove DEF PcValues, Ended, WriteSteps
  <2>3. PhaseOf["exited"] = "aborted" /\ ph[p] = "setup"
    BY <2>1 DEF PhaseOf
  <2>. QED
    BY <2>1, <2>2, <2>3 DEF AC!GAbort
<1>4. ASSUME NEW p \in Procs, GatherFailed(p) PROVE AC!GAbort(p) \/ AC!GFail(p)
  <2>1. /\ pc[p] = "gather" /\ counter' = counter /\ sent' = sent
        /\ pc' = [pc EXCEPT ![p] = "exited"] \/ pc' = [pc EXCEPT ![p] = "crashed"]
    BY <1>4 DEF GatherFailed
  <2>2. ph[p] = "setup" /\ PhaseOf["exited"] = "aborted" /\ PhaseOf["crashed"] = "failed"
    BY <2>1 DEF PhaseOf
  <2>3. CASE pc' = [pc EXCEPT ![p] = "exited"]
    <3>1. ph' = [ph EXCEPT ![p] = PhaseOf["exited"]]
      BY <2>3, PhaseMove DEF PcValues, Ended
    <3>. QED
      BY <2>1, <2>2, <3>1 DEF AC!GAbort
  <2>4. CASE pc' = [pc EXCEPT ![p] = "crashed"]
    <3>1. ph' = [ph EXCEPT ![p] = PhaseOf["crashed"]]
      BY <2>4, PhaseMove DEF PcValues, Ended
    <3>. QED
      BY <2>1, <2>2, <3>1 DEF AC!GFail
  <2>. QED
    BY <2>1, <2>3, <2>4
<1>5. ASSUME NEW p \in Procs, ReadFailed(p) PROVE AC!GFail(p)
  <2>1. /\ pc' = [pc EXCEPT ![p] = "crashed"] /\ pc[p] \in {"identity", "balance", "search"}
        /\ counter' = counter /\ sent' = sent
    BY <1>5 DEF ReadFailed
  <2>2. ph' = [ph EXCEPT ![p] = PhaseOf["crashed"]]
    BY <2>1, PhaseMove DEF PcValues, Ended, WriteSteps
  <2>3. PhaseOf["crashed"] = "failed" /\ ph[p] = "setup"
    BY <2>1 DEF PhaseOf
  <2>. QED
    BY <2>1, <2>2, <2>3 DEF AC!GFail
<1>6. ASSUME NEW p \in Procs, SearchEmpty(p) PROVE AC!GFinish(p)
  <2>1. /\ pc' = [pc EXCEPT ![p] = "done"] /\ pc[p] \in {"search"}
        /\ counter' = counter /\ sent' = sent
    BY <1>6 DEF SearchEmpty
  <2>2. ph' = [ph EXCEPT ![p] = PhaseOf["done"]]
    BY <2>1, PhaseMove DEF PcValues, Ended, WriteSteps
  <2>3. PhaseOf["done"] = "finished" /\ ph[p] = "setup"
    BY <2>1 DEF PhaseOf
  <2>. QED
    BY <2>1, <2>2, <2>3 DEF AC!GFinish
<1>7. ASSUME NEW p \in Procs, SearchFound(p) PROVE AC!GReady(p)
  <2>1. /\ pc' = [pc EXCEPT ![p] = "bid"] /\ pc[p] \in {"search"}
        /\ counter' = counter /\ sent' = sent
    BY <1>7 DEF SearchFound
  <2>2. ph' = [ph EXCEPT ![p] = PhaseOf["bid"]]
    BY <2>1, PhaseMove DEF PcValues, Ended, WriteSteps
  <2>3. PhaseOf["bid"] = "work" /\ ph[p] = "setup"
    BY <2>1 DEF PhaseOf
  <2>. QED
    BY <2>1, <2>2, <2>3 DEF AC!GReady
<1>8. ASSUME NEW p \in Procs, WriteAccepted(p) PROVE AC!GCall(p)
  <2>1. pc[p] \in WriteSteps /\ counter[p] \in 0..3 /\ Envelope(p) \in Envelopes
    BY <1>8, EnvelopeType DEF WriteAccepted
  <2>2. After(p) \in {"contract", "milestone", "record", "done"}
    BY <2>1, AfterValues
  <2>3. ph' = [ph EXCEPT ![p] = PhaseOf[After(p)]]
    BY <1>8, <2>2, PhaseMove DEF WriteAccepted, PcValues, WriteSteps, Ended
  <2>4. PhaseOf[After(p)] \in {"work", "finished", "failed"} /\ ph[p] = "work"
    BY <2>1, <2>2 DEF PhaseOf, WriteSteps
  <2>5. LogOf(sent') = Append(LogOf(sent), [proc |-> p, seq |-> counter[p] + 1])
    BY <1>0, <1>8, <2>1, LogOfAppend DEF WriteAccepted, Envelope, NextNonce
  <2>. QED
    BY <1>8, <2>3, <2>4, <2>5 DEF WriteAccepted, NextNonce, AC!GCall
<1>9. ASSUME NEW p \in Procs, WriteFailed(p) PROVE AC!GCall(p)
  <2>1. pc[p] \in WriteSteps /\ counter[p] \in 0..3 /\ Envelope(p) \in Envelopes
    BY <1>9, EnvelopeType DEF WriteFailed
  <2>2. ph' = [ph EXCEPT ![p] = PhaseOf["crashed"]]
    BY <1>9, PhaseMove DEF WriteFailed, PcValues, Ended
  <2>4. PhaseOf["crashed"] = "failed" /\ ph[p] = "work"
    BY <2>1 DEF PhaseOf, WriteSteps
  <2>3. \/ LogOf(sent') = Append(LogOf(sent), [proc |-> p, seq |-> counter[p] + 1])
        \/ LogOf(sent') = LogOf(sent)
    BY <1>0, <1>9, <2>1, LogOfAppend DEF WriteFailed, Envelope, NextNonce
  <2>. QED
    BY <1>9, <2>2, <2>3, <2>4 DEF WriteFailed, NextNonce, AC!GCall
<1>10. CASE UNCHANGED vars
  BY <1>10 DEF vars, AC!gvars
<1>. QED
  BY <1>1, <1>2, <1>3, <1>4, <1>5, <1>6, <1>7, <1>8, <1>9, <1>10
  DEF Next, AC!GNext, AC!gvars

(* agent.py and async_agent.py, launched any number of times for one DID,  *)
(* implement the workflow contract of spec sections 6, 7 and 9: setup      *)
(* before the first state-changing call, exit(1) with a diagnostic only    *)
(* during setup, later errors propagating, and every call carrying its     *)
(* session's next sequence number.                                         *)
THEOREM ImplementsAgentContract == Spec => RefinesAgentContract
<1>1. Init => AC!GInit
  BY DEF Init, AC!GInit, PhaseOf, LogOf
<1>. QED
  BY <1>1, RefineStep, Invariant, PTL DEF Spec, RefinesAgentContract, AC!GSpec
=============================================================================
