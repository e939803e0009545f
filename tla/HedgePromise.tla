---------------------------- MODULE HedgePromise ----------------------------
(***************************************************************************)
(* What one execution of an arbitrage promises to whoever reads its        *)
(* verdict, whichever venue comes first: a position is opened, hedged and  *)
(* undone at most once each, in that order of dependence, and a verdict of *)
(* "hedged" or "flat" is true and stays true.  "unsure" promises nothing:  *)
(* the position may be open, and may still move.                           *)
(***************************************************************************)
EXTENDS Integers

CONSTANTS
  FullPct,        \* a hedge covers the position from this percentage on
  UndoneBps       \* an unwind closes it from these basis points on

VARIABLES
  verdict,        \* "open" until the execution returns
  opened,         \* base units the first leg really filled
  hedged,         \* base units the second leg really filled
  undone          \* base units bought or sold back

hvars == <<verdict, opened, hedged, undone>>

Settled == verdict \in {"hedged", "flat"}

Init == verdict = "open" /\ opened = 0 /\ hedged = 0 /\ undone = 0

\* Each of the three happens once, and never after a settling verdict.
Open ==
  /\ ~Settled /\ opened = 0 /\ hedged = 0 /\ undone = 0
  /\ opened' \in Nat \ {0}
  /\ UNCHANGED <<verdict, hedged, undone>>

Hedge ==
  /\ ~Settled /\ opened > 0 /\ hedged = 0
  /\ hedged' \in Nat \ {0}
  /\ UNCHANGED <<verdict, opened, undone>>

Undo ==
  /\ ~Settled /\ opened > 0 /\ undone = 0
  /\ undone' \in Nat \ {0}
  /\ UNCHANGED <<verdict, opened, hedged>>

\* The verdict is given once, on the position as it is.
Judge ==
  /\ verdict = "open"
  /\ \/ verdict' = "hedged" /\ opened > 0 /\ hedged * 100 >= FullPct * opened /\ undone = 0
     \/ verdict' = "flat" /\ hedged = 0 /\ (opened > 0 => undone * 10000 >= UndoneBps * opened)
     \/ verdict' = "unsure"
  /\ UNCHANGED <<opened, hedged, undone>>

Next == Open \/ Hedge \/ Undo \/ Judge

Spec == Init /\ [][Next]_hvars
=============================================================================
