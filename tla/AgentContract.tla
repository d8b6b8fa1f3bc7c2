--------------------------- MODULE AgentContract ----------------------------
(***************************************************************************)
(* What spec sections 6, 7 and 9 ask of a workflow run for one actor,      *)
(* without its individual calls: a session sets up (status check, reads),  *)
(* then makes state-changing calls, each carrying the session's next       *)
(* sequence number; a call reaches the node or is lost.  An error during   *)
(* setup aborts the run with a diagnostic and a non-zero exit; an error in *)
(* a later step propagates and terminates the process; otherwise the run   *)
(* finishes.  The sequence number belongs to the session (section 9), so   *)
(* it starts at 0 when the session starts.                                 *)
(***************************************************************************)
EXTENDS Naturals, Sequences

CONSTANTS Procs

VARIABLES phase,  \* per session: "idle", "setup", "work" or how it ended
          seq,    \* per session: the last sequence number used
          log     \* what the node received: [proc, seq] in order of arrival

gvars == <<phase, seq, log>>

Outcome == {"aborted", "failed", "finished"}

GInit ==
  /\ phase = [p \in Procs |-> "idle"]
  /\ seq = [p \in Procs |-> 0]
  /\ log = <<>>

GStart(p) ==
  /\ phase[p] = "idle"
  /\ phase' = [phase EXCEPT ![p] = "setup"]
  /\ seq' = [seq EXCEPT ![p] = 0]
  /\ UNCHANGED log

\* Setup is over: the state-changing calls begin.
GReady(p) ==
  /\ phase[p] = "setup"
  /\ phase' = [phase EXCEPT ![p] = "work"]
  /\ UNCHANGED <<seq, log>>

\* Section 7: an error during setup aborts the run with a diagnostic.
GAbort(p) ==
  /\ phase[p] = "setup"
  /\ phase' = [phase EXCEPT ![p] = "aborted"]
  /\ UNCHANGED <<seq, log>>

\* An error propagates and terminates the process.
GFail(p) ==
  /\ phase[p] \in {"setup", "work"}
  /\ phase' = [phase EXCEPT ![p] = "failed"]
  /\ UNCHANGED <<seq, log>>

\* The run ends normally (nothing to do, or the last call done).
GFinish(p) ==
  /\ phase[p] = "setup"
  /\ phase' = [phase EXCEPT ![p] = "finished"]
  /\ UNCHANGED <<seq, log>>

\* A state-changing call with the session's next sequence number; it
\* reaches the node or not, and the run goes on, finishes or fails.
GCall(p) ==
  /\ phase[p] = "work"
  /\ seq' = [seq EXCEPT ![p] = seq[p] + 1]
  /\ \/ log' = Append(log, [proc |-> p, seq |-> seq[p] + 1])
     \/ UNCHANGED log
  /\ \E next \in {"work", "finished", "failed"} :
       phase' = [phase EXCEPT ![p] = next]

GNext ==
  \E p \in Procs :
    GStart(p) \/ GReady(p) \/ GAbort(p) \/ GFail(p) \/ GFinish(p) \/ GCall(p)

GSpec == GInit /\ [][GNext]_gvars
=============================================================================
