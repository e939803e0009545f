------------------------------ MODULE Results ------------------------------
(* Rust's Result and the integer idioms (saturating subtraction, rounding    *)
(* divisions) shared by the modules that model the pure algorithms.          *)
EXTENDS Integers, Sequences

BPS_SCALE == 10000

Ok(v) == [ok |-> TRUE, val |-> v]

Err(e) == [ok |-> FALSE, err |-> e]

\* A panic: an error that nothing recovers from.
Panic == Err("panic")

\* `r.map(F)`, and `F(r?)` for an F that may fail in turn.
MapOk(r, F(_)) == IF r.ok THEN Ok(F(r.val)) ELSE r
AndThen(r, F(_)) == IF r.ok THEN F(r.val) ELSE r

\* a.saturating_sub(b) on unsigned integers.
SatSub(a, b) == IF a > b THEN a - b ELSE 0

Smaller(a, b) == IF a < b THEN a ELSE b
Larger(a, b) == IF a < b THEN b ELSE a

CeilDiv(a, b) == (a + b - 1) \div b

\* `iter().fold(base, op)`.  (SequencesExt has FoldLeft; this one is a recursive
\* function, which proofs can unfold round by round.)
Fold(op(_, _), base, s) ==
  LET acc[k \in 0..Len(s)] == IF k = 0 THEN base ELSE op(acc[k - 1], s[k])
  IN acc[Len(s)]

\* The sum of a sequence of numbers.
SumOf(s) ==
  LET sum[k \in 0..Len(s)] == IF k = 0 THEN 0 ELSE sum[k - 1] + s[k]
  IN sum[Len(s)]

\* The first error of a sequence of results, or the sequence of their values:
\* `iter().map(f).collect::<Result<Vec<_>, _>>()`.
Collect(rs) ==
  LET bad == {i \in DOMAIN rs : ~rs[i].ok}
  IN  IF bad = {} THEN Ok([i \in DOMAIN rs |-> rs[i].val])
      ELSE rs[CHOOSE i \in bad : \A j \in bad : i <= j]

\* The index Iterator::max_by_key returns: the LAST of the largest keys.
LastMax(keys) ==
  CHOOSE i \in DOMAIN keys :
    /\ \A j \in DOMAIN keys : keys[j] <= keys[i]
    /\ \A j \in DOMAIN keys : j > i => keys[j] < keys[i]

\* The index a `best.is_none_or(|b| x > b)` scan keeps: the FIRST of the largest.
FirstMax(keys) ==
  CHOOSE i \in DOMAIN keys :
    /\ \A j \in DOMAIN keys : keys[j] <= keys[i]
    /\ \A j \in DOMAIN keys : j < i => keys[j] < keys[i]
=============================================================================
