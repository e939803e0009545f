------------------------------- MODULE Trials -------------------------------
(* The harness for pure algorithms: a behaviour picks one call with one      *)
(* input, records the input and what the code returns for it, and goes back. *)
(* A property is then an invariant about every recorded call.                *)
VARIABLE trial

Idle == [call |-> "idle"]

\* A call is recorded only from the idle state, so the states are the calls.
Record(r) == trial = Idle /\ trial' = r

Finish == trial # Idle /\ trial' = Idle
=============================================================================
