----------------------------- MODULE MCNodeSync -----------------------------
(* wait_for_sync with an interval of 0, 1 or 2 ticks, a timeout of 0 (a    *)
(* single attempt), 1 (shorter than some intervals) or 4 (several turns    *)
(* of the loop), and requests taking 1 or 2 ticks.                         *)
EXTENDS NodeSync

MCIntervals == {0, 1, 2}
MCTimeouts == {0, 1, 4}

\* The clock never passes this in the code; it bounds the mutants' runs.
ClockBound == 4 + 2 + 2
StateBound == now <= ClockBound
=============================================================================
