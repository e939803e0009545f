------------------------- MODULE MCExecutionGuards --------------------------
(* Three calls of execute, two of them with the same signal.                *)
EXTENDS ExecutionGuards

CONSTANTS t1, t2, t3, a, b

MCTasks == {t1, t2, t3}
MCSignalOf == [t \in MCTasks |-> IF t = t3 THEN b ELSE a]
=============================================================================
