--------------------------- MODULE TreasuryProofs ---------------------------
(***************************************************************************)
(* Proofs about Treasury and the operators it moves funds with, for any    *)
(* holdings, thresholds, fees and bounds.                                  *)
(*                                                                         *)
(* A plan is made by a loop over the pairs of venues.  PlanStates says     *)
(* what the loop keeps: what is left of each surplus, deficit and          *)
(* spendable balance, and what the steps so far move, add up to what they  *)
(* were at the start (VisitStays).  PlansStayWithinTarget follows for      *)
(* every list of venues.                                                   *)
(*                                                                         *)
(* TreasuryInv is the inductive invariant of the two loops that share the  *)
(* tracker.  PlanLeft says that the steps still to be taken are the end of *)
(* a sound plan, Paused ties the pause flag to the loop's place in it, and *)
(* ReadIsFresh says that between a sync and its verification the tracker   *)
(* holds what was read unless the balance moved since.                     *)
(***************************************************************************)
EXTENDS Treasury, WellFoundedInduction, TLAPS

\* The provers a leaf is tried with unless it names its own.
USE SMTT(60), SMT, ZenonT(60)

-----------------------------------------------------------------------------
(* Loops.                                                                  *)

\* A set of round numbers that holds the successors of its members and 0 holds
\* every one.
LEMMA Induct ==
  ASSUME NEW n \in Nat, NEW good, 0 \in good,
         \A m \in Nat : m + 1 <= n /\ m \in good => m + 1 \in good
  PROVE  \A m \in 0..n : m \in good
<1> DEFINE bad == {m \in Nat : m <= n /\ m \notin good}
<1>1. SUFFICES ASSUME bad # {} PROVE FALSE
  OBVIOUS
<1>2. PICK m \in bad : \A k \in bad : ~(<<k, m>> \in OpToRel(<, Nat))
  <2>1. bad \subseteq Nat
    OBVIOUS
  <2> HIDE DEF bad
  <2> QED
    BY <1>1, <2>1, NatLessThanWellFounded, WFMin, Zenon
<1>3. \A k \in Nat : k < m => k \notin bad
  <2> SUFFICES ASSUME NEW k \in Nat, k < m, k \in bad PROVE FALSE
    OBVIOUS
  <2>1. <<k, m>> \in OpToRel(<, Nat)
    BY Zenon DEF OpToRel
  <2> QED
    BY <2>1, <1>2, Zenon
<1>4. m # 0 /\ m \in Nat
  OBVIOUS
<1>5. m - 1 \in Nat /\ m - 1 < m /\ (m - 1) + 1 = m
  BY <1>4
<1>6. m - 1 \in good
  BY <1>3, <1>5
<1> QED
  BY <1>5, <1>6

\* The rounds 1..n of a loop, from start and within S.
Runs(n, S, start, step) ==
  \E f \in [0..n -> S] : f[0] = start /\ \A k \in 1..n : f[k] = step[<<f[k - 1], k>>]

\* A loop over the rounds 1..n has a value after each of them, and the values
\* stay in any set the rounds do not leave.
LEMMA LoopExists ==
  ASSUME NEW n \in Nat, NEW S, NEW start \in S, NEW step \in [S \X (1..n) -> S]
  PROVE  Runs(n, S, start, step)
<1> DEFINE Run(f, m) == f[0] = start /\ \A k \in 1..m : f[k] = step[<<f[k - 1], k>>]
           good == {m \in Nat : \E f \in [0..m -> S] : Run(f, m)}
<1>1. 0 \in good
  <2>1. [k \in 0..0 |-> start] \in [0..0 -> S] /\ Run([k \in 0..0 |-> start], 0)
    OBVIOUS
  <2> HIDE DEF Run
  <2> QED
    BY <2>1
<1>2. ASSUME NEW m \in Nat, m + 1 <= n, m \in good PROVE m + 1 \in good
  <2>1. PICK f \in [0..m -> S] : Run(f, m)
    BY <1>2
  <2> DEFINE g == [k \in 0..(m + 1) |-> IF k = m + 1 THEN step[<<f[m], m + 1>>] ELSE f[k]]
  <2>2. step[<<f[m], m + 1>>] \in S
    <3>1. f[m] \in S /\ m + 1 \in 1..n
      BY <1>2
    <3> QED
      BY <3>1
  <2>3. g \in [0..(m + 1) -> S]
    <3>1. ASSUME NEW k \in 0..(m + 1) PROVE g[k] \in S
      BY <2>2
    <3> QED
      BY <3>1
  <2>4. g[0] = start
    BY <2>1
  <2>5. ASSUME NEW k \in 1..(m + 1) PROVE g[k] = step[<<g[k - 1], k>>]
    <3>1. CASE k = m + 1
      <4>1. k - 1 = m /\ m \in 0..(m + 1) /\ m # m + 1 /\ m + 1 \in 0..(m + 1)
        BY <3>1
      <4>2. g[m] = f[m] /\ g[m + 1] = step[<<f[m], m + 1>>]
        BY <4>1, Zenon
      <4> HIDE DEF g
      <4> QED
        BY <3>1, <4>1, <4>2
    <3>2. CASE k \in 1..m
      <4>1. k - 1 \in 0..m /\ k \in 0..m /\ k # m + 1 /\ k - 1 # m + 1
        BY <3>2
      <4> QED
        BY <4>1, <2>1, <3>2
    <3> QED
      BY <3>1, <3>2
  <2> HIDE DEF g
  <2>6. Run(g, m + 1)
    BY <2>4, <2>5
  <2> HIDE DEF Run
  <2> QED
    BY <2>3, <2>6
<1> HIDE DEF good
<1>3. n \in good
  <2>1. \A m \in Nat : m + 1 <= n /\ m \in good => m + 1 \in good
    BY <1>2
  <2>2. \A m \in 0..n : m \in good
    BY <1>1, <2>1, Induct, Zenon
  <2> QED
    BY <2>2
<1> QED
  BY <1>3, Zenon DEF good, Runs

\* The running total of a sequence of numbers.
Running(s) == CHOOSE sum : sum = [k \in 0..Len(s) |-> IF k = 0 THEN 0 ELSE sum[k - 1] + s[k]]

\* It starts at zero and each element is added to it.
LEMMA RunningAdds ==
  ASSUME NEW s \in Seq(Int)
  PROVE  /\ Running(s) \in [0..Len(s) -> Int] /\ Running(s)[0] = 0
         /\ \A k \in 1..Len(s) : Running(s)[k] = Running(s)[k - 1] + s[k]
<1> DEFINE n == Len(s)
           step == [p \in Int \X (1..n) |-> p[1] + s[p[2]]]
<1>1. n \in Nat /\ step \in [Int \X (1..n) -> Int] /\ 0 \in Int
  OBVIOUS
<1>2. PICK f \in [0..n -> Int] : f[0] = 0 /\ \A k \in 1..n : f[k] = step[<<f[k - 1], k>>]
  <2> HIDE DEF step, n
  <2>1. Runs(n, Int, 0, step)
    BY <1>1, LoopExists, Zenon
  <2> QED
    BY <2>1, Zenon DEF Runs
<1>3. ASSUME NEW k \in 1..n PROVE f[k] = f[k - 1] + s[k]
  <2>1. k - 1 \in 0..n
    OBVIOUS
  <2>2. <<f[k - 1], k>> \in Int \X (1..n)
    BY <2>1
  <2> QED
    BY <2>2, <1>2, Zenon
<1> DEFINE Sums(sum) == [k \in 0..n |-> IF k = 0 THEN 0 ELSE sum[k - 1] + s[k]]
<1>4. f = Sums(f)
  <2>1. ASSUME NEW k \in 0..n PROVE f[k] = IF k = 0 THEN 0 ELSE f[k - 1] + s[k]
    BY <1>2, <1>3
  <2> QED
    BY <2>1
<1>5. Running(s) = CHOOSE sum : sum = Sums(sum)
  BY DEF Running
<1>6. Running(s) = Sums(Running(s))
  <2> HIDE DEF Sums
  <2> QED
    BY <1>4, <1>5
<1> DEFINE r == Running(s)
<1>7. r = [k \in 0..n |-> IF k = 0 THEN 0 ELSE r[k - 1] + s[k]]
  BY <1>6, Zenon
<1> HIDE DEF r
<1>8. r[0] = 0 /\ \A k \in 1..n : r[k] = r[k - 1] + s[k]
  <2>1. 0 \in 0..n /\ \A k \in 1..n : k \in 0..n /\ k # 0
    BY <1>1
  <2> HIDE DEF n
  <2> QED
    BY <1>7, <2>1, Zenon
<1> DEFINE good == {m \in Nat : m <= n => r[m] \in Int}
<1>9. \A m \in 0..n : m \in good
  <2>1. 0 \in good
    BY <1>8
  <2>2. ASSUME NEW m \in Nat, m + 1 <= n, m \in good PROVE m + 1 \in good
    <3>1. r[m + 1] = r[m] + s[m + 1] /\ s[m + 1] \in Int
      <4>1. m + 1 \in 1..n /\ (m + 1) - 1 = m
        BY <2>2
      <4>2. r[m + 1] = r[(m + 1) - 1] + s[m + 1]
        BY <4>1, <1>8
      <4> QED
        BY <4>1, <4>2
    <3> QED
      BY <3>1, <2>2
  <2> HIDE DEF good
  <2> QED
    BY <1>1, <2>1, <2>2, Induct, Zenon
<1>10. r \in [0..n -> Int]
  <2>1. \A k \in 0..n : r[k] \in Int
    BY <1>9
  <2> QED
    BY <1>7, <2>1
<1> QED
  BY <1>8, <1>10 DEF r

\* SumOf is the last running total.
LEMMA SumIsRunning ==
  ASSUME NEW s PROVE SumOf(s) = Running(s)[Len(s)]
BY DEF SumOf, Running

\* The sum of numbers is a number.
LEMMA SumType ==
  ASSUME NEW s \in Seq(Int) PROVE SumOf(s) \in Int
<1>1. Len(s) \in 0..Len(s)
  OBVIOUS
<1> QED
  BY <1>1, RunningAdds, SumIsRunning

\* The empty sum.
LEMMA SumEmpty ==
  ASSUME NEW s \in Seq(Int), Len(s) = 0 PROVE SumOf(s) = 0
BY RunningAdds, SumIsRunning, Zenon

\* One more element is added to the sum.
LEMMA SumAdds ==
  ASSUME NEW s \in Seq(Int), NEW t \in Seq(Int), Len(t) = Len(s) + 1, \A i \in 1..Len(s) : t[i] = s[i]
  PROVE  SumOf(t) = SumOf(s) + t[Len(t)]
<1> DEFINE r == Running(s)
           q == Running(t)
           n == Len(s)
<1>1. n \in Nat
  OBVIOUS
<1>2. r \in [0..n -> Int] /\ r[0] = 0 /\ \A k \in 1..n : r[k] = r[k - 1] + s[k]
  BY RunningAdds
<1>3. q[0] = 0 /\ \A k \in 1..(n + 1) : q[k] = q[k - 1] + t[k]
  BY RunningAdds
<1> HIDE DEF r, q
<1> DEFINE good == {m \in Nat : m <= n => q[m] = r[m]}
<1>4. 0 \in good
  BY <1>2, <1>3
<1>5. ASSUME NEW m \in Nat, m + 1 <= n, m \in good PROVE m + 1 \in good
  <2>1. m + 1 \in 1..n /\ m + 1 \in 1..(n + 1) /\ (m + 1) - 1 = m
    BY <1>5
  <2>2. r[m + 1] = r[(m + 1) - 1] + s[m + 1] /\ q[m + 1] = q[(m + 1) - 1] + t[m + 1]
    BY <2>1, <1>2, <1>3
  <2>3. q[m] = r[m] /\ t[m + 1] = s[m + 1]
    BY <1>5, <2>1
  <2> QED
    BY <2>1, <2>2, <2>3
<1>6. n \in good
  <2> HIDE DEF good, n
  <2>1. \A m \in 0..n : m \in good
    BY <1>1, <1>4, <1>5, Induct, Zenon
  <2> QED
    BY <1>1, <2>1
<1>7. q[n + 1] = q[n] + t[n + 1]
  <2>1. n + 1 \in 1..(n + 1) /\ (n + 1) - 1 = n
    BY <1>1
  <2> QED
    BY <1>3, <2>1
<1>8. SumOf(s) = r[n] /\ SumOf(t) = q[n + 1]
  BY SumIsRunning DEF r, q
<1> QED
  BY <1>6, <1>7, <1>8

-----------------------------------------------------------------------------
(* Plans.                                                                  *)

\* What a step takes from a venue and what it brings there; a move between two
\* exchanges is a sell at one and a buy at the other.
Leaves(s, v) == IF s.kind # "buy" /\ s.from = v THEN s.amount ELSE 0
Arrives(s, v) == IF s.kind # "sell" /\ s.to = v THEN s.amount ELSE 0
Leaving(steps, v) == SumOf([i \in 1..Len(steps) |-> Leaves(steps[i], v)])
Arriving(steps, v) == SumOf([i \in 1..Len(steps) |-> Arrives(steps[i], v)])

StepsOver(V) == [kind : {"transfer", "sell", "buy", "withdraw"}, from : V, to : V, amount : Int]

\* A step moves something, a transfer more than its fee between two venues, and
\* a trade is made only where another exchange takes the other side.
SoundStep(V, s, fee) ==
  /\ s.amount > 0
  /\ s.kind \in {"sell", "buy"} =>
       s.from = s.to /\ IsCex(s.from) /\ \E w \in V : IsCex(w) /\ w # s.from
  /\ s.kind \in {"transfer", "withdraw"} => s.amount > fee /\ s.from # s.to
  /\ s.kind = "withdraw" => IsCex(s.from) # IsCex(s.to)

\* What is taken from a venue is its surplus, less what is left of it, and leaves
\* it its minimum.
LeavesEnough(st, h, t, min, v) ==
  IF h > t
  THEN /\ st.gap[v] >= 0 /\ Leaving(st.steps, v) >= 0
       /\ st.gap[v] = h - t - Leaving(st.steps, v)
       /\ st.spendable[v] = h - min - Leaving(st.steps, v)
       /\ Leaving(st.steps, v) > 0 => st.spendable[v] >= 0
  ELSE Leaving(st.steps, v) = 0

\* What is brought to a venue is its deficit, less what is left of it.
BringsNoMore(st, h, t, v) ==
  IF h < t
  THEN /\ st.gap[v] >= 0 /\ Arriving(st.steps, v) >= 0
       /\ st.gap[v] = t - h - Arriving(st.steps, v)
  ELSE Arriving(st.steps, v) = 0

\* The states of the planner's loops.
PlanStates(V, holding, t, min, fee) ==
  {st \in [gap : [V -> Int], spendable : [V -> Int], steps : Seq(StepsOver(V))] :
     /\ \A v \in V : LeavesEnough(st, holding[v], t, min, v) /\ BringsNoMore(st, holding[v], t, v)
     /\ \A i \in 1..Len(st.steps) : SoundStep(V, st.steps[i], fee)}

\* The steps planned there.
PlanSteps(V, holding, t, min, fee) == {st.steps : st \in PlanStates(V, holding, t, min, fee)}

\* The steps of a pair are what the pair moves.
PairSteps(from, to, amount, fee) ==
  {<<[kind |-> k, from |-> from, to |-> to, amount |-> amount]>> :
     k \in {x \in {"transfer", "withdraw"} : amount > fee /\ (x = "withdraw" => IsCex(from) # IsCex(to))}}
  \cup {x \in {<<[kind |-> "sell", from |-> from, to |-> from, amount |-> amount],
                 [kind |-> "buy", from |-> to, to |-> to, amount |-> amount]>>} : IsCex(from) /\ IsCex(to)}

\* What a sequence of steps moves is a sequence of numbers.
LEMMA MovesAreNumbers ==
  ASSUME NEW V, NEW steps \in Seq(StepsOver(V)), NEW v
  PROVE  /\ [i \in 1..Len(steps) |-> Leaves(steps[i], v)] \in Seq(Int)
         /\ [i \in 1..Len(steps) |-> Arrives(steps[i], v)] \in Seq(Int)
         /\ Leaving(steps, v) \in Int /\ Arriving(steps, v) \in Int
<1>0. \A s \in StepsOver(V) : s.amount \in Int
  BY DEF StepsOver
<1>1. \A i \in 1..Len(steps) : steps[i].amount \in Int
  BY <1>0
<1>2. \A i \in 1..Len(steps) : Leaves(steps[i], v) \in Int /\ Arrives(steps[i], v) \in Int
  BY <1>1 DEF Leaves, Arrives
<1> DEFINE f == [i \in 1..Len(steps) |-> Leaves(steps[i], v)]
           g == [i \in 1..Len(steps) |-> Arrives(steps[i], v)]
<1>3. f \in Seq(Int) /\ g \in Seq(Int)
  BY <1>2
<1>4. SumOf(f) \in Int /\ SumOf(g) \in Int
  <2> HIDE DEF f, g
  <2> QED
    BY <1>3, SumType, Zenon
<1> QED
  BY <1>3, <1>4 DEF Leaving, Arriving

\* Nothing is moved by no steps.
LEMMA NothingMoved ==
  ASSUME NEW v PROVE Leaving(<<>>, v) = 0 /\ Arriving(<<>>, v) = 0
<1> DEFINE f == [i \in 1..Len(<<>>) |-> Leaves(<<>>[i], v)]
           g == [i \in 1..Len(<<>>) |-> Arrives(<<>>[i], v)]
<1>1. f \in Seq(Int) /\ Len(f) = 0 /\ g \in Seq(Int) /\ Len(g) = 0
  OBVIOUS
<1>2. SumOf(f) = 0 /\ SumOf(g) = 0
  <2> HIDE DEF f, g
  <2> QED
    BY <1>1, SumEmpty, Zenon
<1> QED
  BY <1>2 DEF Leaving, Arriving

\* A further step adds what it moves.
LEMMA StepMoves ==
  ASSUME NEW V, NEW steps \in Seq(StepsOver(V)), NEW s \in StepsOver(V), NEW v
  PROVE  /\ steps \o <<s>> \in Seq(StepsOver(V))
         /\ Leaving(steps \o <<s>>, v) = Leaving(steps, v) + Leaves(s, v)
         /\ Arriving(steps \o <<s>>, v) = Arriving(steps, v) + Arrives(s, v)
<1> DEFINE more == steps \o <<s>>
           n == Len(steps)
<1>1. more \in Seq(StepsOver(V)) /\ Len(more) = n + 1 /\ n \in Nat
  OBVIOUS
<1>2. (\A i \in 1..n : more[i] = steps[i]) /\ more[n + 1] = s
  OBVIOUS
<1> HIDE DEF more
<1> DEFINE f == [i \in 1..Len(steps) |-> Leaves(steps[i], v)]
           g == [i \in 1..Len(steps) |-> Arrives(steps[i], v)]
           ff == [i \in 1..Len(more) |-> Leaves(more[i], v)]
           gg == [i \in 1..Len(more) |-> Arrives(more[i], v)]
<1>3. f \in Seq(Int) /\ g \in Seq(Int) /\ ff \in Seq(Int) /\ gg \in Seq(Int)
  BY <1>1, MovesAreNumbers, Zenon
<1>4. Len(f) = n /\ Len(g) = n /\ Len(ff) = n + 1 /\ Len(gg) = n + 1
  BY <1>1
<1>5. \A i \in 1..n : ff[i] = f[i] /\ gg[i] = g[i]
  BY <1>1, <1>2
<1>6. ff[n + 1] = Leaves(s, v) /\ gg[n + 1] = Arrives(s, v)
  BY <1>1, <1>2
<1>7. Leaving(steps, v) = SumOf(f) /\ Leaving(more, v) = SumOf(ff)
  BY DEF Leaving
<1>8. Arriving(steps, v) = SumOf(g) /\ Arriving(more, v) = SumOf(gg)
  BY DEF Arriving
<1> HIDE DEF f, g, ff, gg
<1>9. SumOf(ff) = SumOf(f) + ff[n + 1]
  BY <1>3, <1>4, <1>5, SumAdds, Zenon
<1>10. SumOf(gg) = SumOf(g) + gg[n + 1]
  BY <1>3, <1>4, <1>5, SumAdds, Zenon
<1> QED
  BY <1>1, <1>6, <1>7, <1>8, <1>9, <1>10 DEF more

\* Two steps are appended one after the other.
LEMMA AppendTwo ==
  ASSUME NEW S, NEW steps \in Seq(S), NEW s \in S, NEW b \in S
  PROVE  steps \o <<s, b>> = (steps \o <<s>>) \o <<b>>
<1> DEFINE x == steps \o <<s, b>>
           y == (steps \o <<s>>) \o <<b>>
<1>1. x \in Seq(S) /\ y \in Seq(S) /\ Len(x) = Len(steps) + 2 /\ Len(y) = Len(steps) + 2
  OBVIOUS
<1>2. ASSUME NEW i \in 1..(Len(steps) + 2) PROVE x[i] = y[i]
  <2>1. steps \o <<s>> \in Seq(S) /\ Len(steps \o <<s>>) = Len(steps) + 1 /\ Len(steps) \in Nat
    OBVIOUS
  <2>2. CASE i <= Len(steps)
    BY <2>1, <2>2
  <2>3. CASE i = Len(steps) + 1
    BY <2>1, <2>3
  <2>4. CASE i = Len(steps) + 2
    BY <2>1, <2>4
  <2> QED
    BY <2>1, <2>2, <2>3, <2>4
<1> HIDE DEF x, y
<1>3. x = y
  BY <1>1, <1>2
<1> QED
  BY <1>3 DEF x, y

\* A sound step keeps a plan sound.
LEMMA SoundConcat ==
  ASSUME NEW V, NEW steps \in Seq(StepsOver(V)), NEW s \in StepsOver(V), NEW fee,
         \A i \in 1..Len(steps) : SoundStep(V, steps[i], fee), SoundStep(V, s, fee)
  PROVE  \A i \in 1..Len(steps \o <<s>>) : SoundStep(V, (steps \o <<s>>)[i], fee)
<1>1. \A i \in 1..Len(steps \o <<s>>) : (steps \o <<s>>)[i] = IF i <= Len(steps) THEN steps[i] ELSE s
  OBVIOUS
<1> QED
  BY <1>1

\* The steps of a pair move its amount from the one venue to the other.
LEMMA PairMoves ==
  ASSUME NEW V, NEW steps \in Seq(StepsOver(V)), NEW from \in V, NEW to \in V, from # to,
         NEW amount \in Int, amount > 0, NEW fee \in Int, NEW new \in PairSteps(from, to, amount, fee),
         \A i \in 1..Len(steps) : SoundStep(V, steps[i], fee)
  PROVE  /\ steps \o new \in Seq(StepsOver(V))
         /\ \A v : Leaving(steps \o new, v) = Leaving(steps, v) + (IF v = from THEN amount ELSE 0)
         /\ \A v : Arriving(steps \o new, v) = Arriving(steps, v) + (IF v = to THEN amount ELSE 0)
         /\ \A i \in 1..Len(steps \o new) : SoundStep(V, (steps \o new)[i], fee)
<1> DEFINE Moved(x) ==
             /\ x \in Seq(StepsOver(V))
             /\ \A v : Leaving(x, v) = Leaving(steps, v) + (IF v = from THEN amount ELSE 0)
             /\ \A v : Arriving(x, v) = Arriving(steps, v) + (IF v = to THEN amount ELSE 0)
             /\ \A i \in 1..Len(x) : SoundStep(V, x[i], fee)
<1>1. ASSUME NEW k \in {"transfer", "withdraw"}, amount > fee, k = "withdraw" => IsCex(from) # IsCex(to),
             new = <<[kind |-> k, from |-> from, to |-> to, amount |-> amount]>>
      PROVE  Moved(steps \o new)
  <2> DEFINE s == [kind |-> k, from |-> from, to |-> to, amount |-> amount]
  <2>1. s \in StepsOver(V) /\ s.kind = k /\ s.from = from /\ s.to = to /\ s.amount = amount
    BY DEF StepsOver
  <2>2. SoundStep(V, s, fee)
    BY <1>1, <2>1 DEF SoundStep
  <2>3. \A v : Leaves(s, v) = (IF v = from THEN amount ELSE 0) /\ Arrives(s, v) = (IF v = to THEN amount ELSE 0)
    BY <1>1, <2>1 DEF Leaves, Arrives
  <2> HIDE DEF s
  <2>4. /\ steps \o <<s>> \in Seq(StepsOver(V))
        /\ \A v : Leaving(steps \o <<s>>, v) = Leaving(steps, v) + Leaves(s, v)
        /\ \A v : Arriving(steps \o <<s>>, v) = Arriving(steps, v) + Arrives(s, v)
    BY <2>1, StepMoves
  <2>5. \A i \in 1..Len(steps \o <<s>>) : SoundStep(V, (steps \o <<s>>)[i], fee)
    BY <2>1, <2>2, SoundConcat
  <2>6. Moved(steps \o <<s>>)
    BY <2>3, <2>4, <2>5
  <2>7. new = <<s>>
    BY <1>1 DEF s
  <2> QED
    BY <2>6, <2>7, Zenon
<1>2. ASSUME IsCex(from), IsCex(to),
             new = <<[kind |-> "sell", from |-> from, to |-> from, amount |-> amount],
                     [kind |-> "buy", from |-> to, to |-> to, amount |-> amount]>>
      PROVE  Moved(steps \o new)
  <2> DEFINE s == [kind |-> "sell", from |-> from, to |-> from, amount |-> amount]
             b == [kind |-> "buy", from |-> to, to |-> to, amount |-> amount]
             one == steps \o <<s>>
  <2>1. /\ s \in StepsOver(V) /\ s.kind = "sell" /\ s.from = from /\ s.to = from /\ s.amount = amount
        /\ b \in StepsOver(V) /\ b.kind = "buy" /\ b.from = to /\ b.to = to /\ b.amount = amount
    BY DEF StepsOver
  <2>2. SoundStep(V, s, fee) /\ SoundStep(V, b, fee)
    BY <1>2, <2>1 DEF SoundStep
  <2>3. \A v : /\ Leaves(s, v) = (IF v = from THEN amount ELSE 0) /\ Arrives(s, v) = 0
               /\ Leaves(b, v) = 0 /\ Arrives(b, v) = (IF v = to THEN amount ELSE 0)
    BY <2>1 DEF Leaves, Arrives
  <2>4. new = <<s, b>>
    BY <1>2
  <2> HIDE DEF s, b
  <2>5. /\ one \in Seq(StepsOver(V))
        /\ \A v : Leaving(one, v) = Leaving(steps, v) + Leaves(s, v)
        /\ \A v : Arriving(one, v) = Arriving(steps, v) + Arrives(s, v)
    BY <2>1, StepMoves
  <2>6. \A i \in 1..Len(one) : SoundStep(V, one[i], fee)
    BY <2>1, <2>2, SoundConcat
  <2>7. steps \o <<s, b>> = one \o <<b>>
    BY <2>1, AppendTwo
  <2> HIDE DEF one
  <2>8. /\ one \o <<b>> \in Seq(StepsOver(V))
        /\ \A v : Leaving(one \o <<b>>, v) = Leaving(one, v) + Leaves(b, v)
        /\ \A v : Arriving(one \o <<b>>, v) = Arriving(one, v) + Arrives(b, v)
    BY <2>1, <2>5, StepMoves
  <2>9. \A i \in 1..Len(one \o <<b>>) : SoundStep(V, (one \o <<b>>)[i], fee)
    BY <2>1, <2>2, <2>5, <2>6, SoundConcat
  <2>10. \A v : Leaving(steps, v) \in Int /\ Arriving(steps, v) \in Int
    BY MovesAreNumbers
  <2>11. Moved(one \o <<b>>)
    BY <2>3, <2>5, <2>8, <2>9, <2>10
  <2> QED
    BY <2>4, <2>7, <2>11, Zenon
<1>3. \/ \E k \in {"transfer", "withdraw"} :
           /\ amount > fee /\ (k = "withdraw" => IsCex(from) # IsCex(to))
           /\ new = <<[kind |-> k, from |-> from, to |-> to, amount |-> amount]>>
      \/ /\ IsCex(from) /\ IsCex(to)
         /\ new = <<[kind |-> "sell", from |-> from, to |-> from, amount |-> amount],
                    [kind |-> "buy", from |-> to, to |-> to, amount |-> amount]>>
  BY Zenon DEF PairSteps
<1>4. Moved(steps \o new)
  <2> HIDE DEF Moved
  <2> QED
    BY <1>1, <1>2, <1>3, Zenon
<1> QED
  BY <1>4

\* What a pair may move is bounded by its surplus, its deficit and what the
\* source can spend.
LEMMA MovableBounds ==
  ASSUME NEW V, NEW holding, NEW t, NEW min, NEW fee, NEW st \in PlanStates(V, holding, t, min, fee),
         NEW from \in V, NEW to \in V
  PROVE  /\ Movable(st, from, to) \in Int /\ Movable(st, from, to) <= st.gap[from]
         /\ Movable(st, from, to) <= st.gap[to] /\ Movable(st, from, to) <= st.spendable[from]
<1>1. st.gap \in [V -> Int] /\ st.spendable \in [V -> Int]
  BY DEF PlanStates
<1>2. st.gap[from] \in Int /\ st.gap[to] \in Int /\ st.spendable[from] \in Int
  BY <1>1
<1> QED
  BY <1>2 DEF Movable, Smaller

\* A round that moves something keeps the planner within its bounds.
LEMMA AllotStays ==
  ASSUME NEW V, NEW holding \in [V -> Int], NEW t \in Int, NEW min \in Int, NEW fee \in Int,
         NEW st \in PlanStates(V, holding, t, min, fee), NEW from \in V, NEW to \in V,
         holding[from] > t, holding[to] < t, Movable(st, from, to) > 0,
         NEW new \in PairSteps(from, to, Movable(st, from, to), fee)
  PROVE  Allot(st, from, to, Movable(st, from, to), new) \in PlanStates(V, holding, t, min, fee)
<1> DEFINE amount == Movable(st, from, to)
           after == Allot(st, from, to, amount, new)
<1>1. /\ amount \in Int /\ amount > 0 /\ amount <= st.gap[from]
      /\ amount <= st.gap[to] /\ amount <= st.spendable[from]
  BY MovableBounds
<1>2. new \in PairSteps(from, to, amount, fee)
  OBVIOUS
<1> HIDE DEF amount
<1>3. st.gap \in [V -> Int] /\ st.spendable \in [V -> Int] /\ st.steps \in Seq(StepsOver(V))
  BY DEF PlanStates
<1>4. /\ \A v \in V : LeavesEnough(st, holding[v], t, min, v) /\ BringsNoMore(st, holding[v], t, v)
      /\ \A i \in 1..Len(st.steps) : SoundStep(V, st.steps[i], fee)
  BY DEF PlanStates
<1>5. from # to
  OBVIOUS
<1>6. /\ after.steps = st.steps \o new
      /\ after.gap = [st.gap EXCEPT ![from] = @ - amount, ![to] = @ - amount]
      /\ after.spendable = [st.spendable EXCEPT ![from] = @ - amount]
  BY DEF Allot
<1>7. /\ after.steps \in Seq(StepsOver(V))
      /\ \A v : Leaving(after.steps, v) = Leaving(st.steps, v) + (IF v = from THEN amount ELSE 0)
      /\ \A v : Arriving(after.steps, v) = Arriving(st.steps, v) + (IF v = to THEN amount ELSE 0)
      /\ \A i \in 1..Len(after.steps) : SoundStep(V, after.steps[i], fee)
  <2> DEFINE s == st.steps
  <2> HIDE DEF s
  <2>1. s \in Seq(StepsOver(V)) /\ \A i \in 1..Len(s) : SoundStep(V, s[i], fee)
    BY <1>3, <1>4, Zenon DEF s
  <2>2. /\ s \o new \in Seq(StepsOver(V))
        /\ \A v : Leaving(s \o new, v) = Leaving(s, v) + (IF v = from THEN amount ELSE 0)
        /\ \A v : Arriving(s \o new, v) = Arriving(s, v) + (IF v = to THEN amount ELSE 0)
        /\ \A i \in 1..Len(s \o new) : SoundStep(V, (s \o new)[i], fee)
    BY <1>1, <1>2, <1>5, <2>1, PairMoves, Zenon
  <2> QED
    BY <2>2, <1>6, Zenon DEF s
<1>8. /\ \A v \in V : after.gap[v] = st.gap[v] - (IF v \in {from, to} THEN amount ELSE 0)
      /\ \A v \in V : after.spendable[v] = st.spendable[v] - (IF v = from THEN amount ELSE 0)
      /\ after.gap \in [V -> Int] /\ after.spendable \in [V -> Int]
  <2> HIDE DEF after
  <2>1. after.gap \in [V -> Int] /\ \A v \in V : after.gap[v] = st.gap[v] - (IF v \in {from, to} THEN amount ELSE 0)
    BY <1>1, <1>3, <1>5, <1>6
  <2>2. after.spendable \in [V -> Int] /\ \A v \in V : after.spendable[v] = st.spendable[v] - (IF v = from THEN amount ELSE 0)
    BY <1>1, <1>3, <1>6
  <2> QED
    BY <2>1, <2>2
<1>9. after \in [gap : [V -> Int], spendable : [V -> Int], steps : Seq(StepsOver(V))]
  BY <1>7, <1>8, Zenon DEF Allot
<1> HIDE DEF after
<1>10. ASSUME NEW v \in V
       PROVE  LeavesEnough(after, holding[v], t, min, v) /\ BringsNoMore(after, holding[v], t, v)
  <2>1. LeavesEnough(st, holding[v], t, min, v) /\ BringsNoMore(st, holding[v], t, v)
    BY <1>4
  <2>2. /\ Leaving(st.steps, v) \in Int /\ Arriving(st.steps, v) \in Int
        /\ st.gap[v] \in Int /\ st.spendable[v] \in Int /\ holding[v] \in Int
    BY <1>3, MovesAreNumbers
  <2>3. /\ Leaving(after.steps, v) = Leaving(st.steps, v) + (IF v = from THEN amount ELSE 0)
        /\ Arriving(after.steps, v) = Arriving(st.steps, v) + (IF v = to THEN amount ELSE 0)
        /\ after.gap[v] = st.gap[v] - (IF v \in {from, to} THEN amount ELSE 0)
        /\ after.spendable[v] = st.spendable[v] - (IF v = from THEN amount ELSE 0)
    BY <1>7, <1>8
  <2>4. LeavesEnough(after, holding[v], t, min, v)
    BY <1>1, <1>5, <2>1, <2>2, <2>3 DEF LeavesEnough
  <2>5. BringsNoMore(after, holding[v], t, v)
    BY <1>1, <1>5, <2>1, <2>2, <2>3 DEF BringsNoMore
  <2> QED
    BY <2>4, <2>5
<1> QED
  BY <1>7, <1>9, <1>10 DEF PlanStates, after, amount

\* So does any round, whether it moves something or not.
LEMMA VisitStays ==
  ASSUME NEW V, NEW venues, NEW holding \in [V -> Int], NEW min \in Int, NEW fee \in Int,
         Target(venues, holding) \in Int,
         NEW st \in PlanStates(V, holding, Target(venues, holding), min, fee),
         NEW from \in V, NEW to \in V,
         NEW new \in PairSteps(from, to, Movable(st, from, to), fee) \cup {<<>>}
  PROVE  Visit(st, venues, holding, <<from, to>>, new)
           \in PlanStates(V, holding, Target(venues, holding), min, fee)
<1>1. CASE /\ Surplus(venues, holding, from) /\ Deficit(venues, holding, to)
           /\ Movable(st, from, to) > 0 /\ new # <<>>
  <2>1. holding[from] > Target(venues, holding) /\ holding[to] < Target(venues, holding)
    BY <1>1 DEF Surplus, Deficit
  <2>2. new \in PairSteps(from, to, Movable(st, from, to), fee)
    BY <1>1
  <2>3. Visit(st, venues, holding, <<from, to>>, new) = Allot(st, from, to, Movable(st, from, to), new)
    BY <1>1 DEF Visit
  <2> DEFINE t == Target(venues, holding)
  <2> HIDE DEF t
  <2>4. Allot(st, from, to, Movable(st, from, to), new) \in PlanStates(V, holding, t, min, fee)
    BY <1>1, <2>1, <2>2, AllotStays, Zenon DEF t
  <2> QED
    BY <2>3, <2>4, Zenon DEF t
<1>2. CASE ~(/\ Surplus(venues, holding, from) /\ Deficit(venues, holding, to)
             /\ Movable(st, from, to) > 0 /\ new # <<>>)
  BY <1>2 DEF Visit
<1> QED
  BY <1>1, <1>2

\* The planner starts within its bounds.
LEMMA StartStays ==
  ASSUME NEW V, NEW venues, NEW holding \in [V -> Int], NEW min \in Int, NEW fee \in Int,
         Target(venues, holding) \in Int
  PROVE  PlanStart(venues, holding, min) \in PlanStates(V, holding, Target(venues, holding), min, fee)
<1> DEFINE st == PlanStart(venues, holding, min)
           t == Target(venues, holding)
<1>1. /\ st = [gap |-> [v \in V |-> AbsDiff(holding[v], t)],
               spendable |-> [v \in V |-> holding[v] - min], steps |-> <<>>]
  BY DEF PlanStart
<1>2. st.steps = <<>> /\ Len(st.steps) = 0 /\ st.steps \in Seq(StepsOver(V))
  BY <1>1
<1> HIDE DEF t
<1>3. \A v \in V : st.gap[v] = AbsDiff(holding[v], t) /\ st.spendable[v] = holding[v] - min
  BY <1>1
<1>4. \A v \in V : holding[v] \in Int /\ AbsDiff(holding[v], t) \in Int /\ holding[v] - min \in Int
  BY DEF AbsDiff, t
<1>5. st \in [gap : [V -> Int], spendable : [V -> Int], steps : Seq(StepsOver(V))]
  BY <1>1, <1>4
<1> HIDE DEF st
<1>6. ASSUME NEW v \in V
      PROVE  LeavesEnough(st, holding[v], t, min, v) /\ BringsNoMore(st, holding[v], t, v)
  <2>1. Leaving(st.steps, v) = 0 /\ Arriving(st.steps, v) = 0
    BY <1>2, NothingMoved
  <2>2. t \in Int /\ holding[v] \in Int
    BY DEF t
  <2> QED
    BY <1>3, <2>1, <2>2 DEF LeavesEnough, BringsNoMore, AbsDiff
<1> QED
  BY <1>2, <1>5, <1>6 DEF PlanStates, st, t

\* The loops pair venues of the list.
LEMMA PairInVenues ==
  ASSUME NEW V, NEW venues \in Seq(V), NEW k \in 1..(Len(venues) * Len(venues))
  PROVE  \E from, to \in V : VenuePair(venues, k) = <<from, to>>
<1> DEFINE n == Len(venues)
           q == (k - 1) \div n
           r == (k - 1) % n
<1>1. n \in Nat /\ k \in Nat /\ 1 <= k /\ k <= n * n
  <2>1. n * n \in Nat
    OBVIOUS
  <2> QED
    BY <2>1
<1>2. n > 0
  BY <1>1
<1> HIDE DEF n
<1>3. k - 1 \in Nat /\ q \in Nat /\ r \in 0..(n - 1) /\ k - 1 = n * q + r
  BY <1>1, <1>2
<1>4. q < n
  <2> HIDE DEF q, r
  <2>1. SUFFICES ASSUME q >= n PROVE FALSE
    BY <1>1, <1>3
  <2>2. n * q >= n * n
    BY <1>1, <1>3, <2>1
  <2> QED
    BY <1>1, <1>3, <2>2
<1>5. q + 1 \in 1..n /\ r + 1 \in 1..n
  <2> HIDE DEF q, r
  <2> QED
    BY <1>1, <1>3, <1>4
<1>6. venues[q + 1] \in V /\ venues[r + 1] \in V
  <2> HIDE DEF q, r
  <2> QED
    BY <1>5 DEF n
<1>7. VenuePair(venues, k) = <<venues[q + 1], venues[r + 1]>>
  BY DEF VenuePair, n
<1> QED
  BY <1>6, <1>7

\* The target is a number.
LEMMA TargetType ==
  ASSUME NEW V, NEW venues \in Seq(V), Len(venues) > 0, NEW holding \in [V -> Int]
  PROVE  HoldingTotal(venues, holding) \in Int /\ Target(venues, holding) \in Int
<1> DEFINE s == [k \in 1..Len(venues) |-> holding[venues[k]]]
<1>1. s \in Seq(Int)
  OBVIOUS
<1>2. SumOf(s) \in Int
  <2> HIDE DEF s
  <2> QED
    BY <1>1, SumType, Zenon
<1>3. HoldingTotal(venues, holding) \in Int
  BY <1>2, Zenon DEF HoldingTotal
<1> HIDE DEF s
<1> QED
  BY <1>3 DEF Target

\* A loop whose rounds do not leave a set stays in it.
LEMMA LoopStays ==
  ASSUME NEW n \in Nat, NEW S, NEW r, r[0] \in S,
         \A k \in 1..n : r[k - 1] \in S => r[k] \in S
  PROVE  \A k \in 0..n : r[k] \in S
<1> DEFINE good == {m \in Nat : m <= n => r[m] \in S}
<1>1. 0 \in good
  OBVIOUS
<1>2. ASSUME NEW m \in Nat, m + 1 <= n, m \in good PROVE m + 1 \in good
  <2>1. m + 1 \in 1..n /\ (m + 1) - 1 = m /\ r[m] \in S
    BY <1>2
  <2>2. r[(m + 1) - 1] \in S => r[m + 1] \in S
    BY <2>1
  <2> QED
    BY <2>1, <2>2
<1>3. \A m \in 0..n : m \in good
  <2> HIDE DEF good
  <2> QED
    BY <1>1, <1>2, Induct, Zenon
<1> QED
  BY <1>3

\* One round of `plan`.
PlanRound(st, k, venues, holding, fee, min_withdrawal) ==
  LET pair == VenuePair(venues, k)
  IN Visit(st, venues, holding, pair,
           TransferFor(pair[1], pair[2], Movable(st, pair[1], pair[2]), fee, min_withdrawal))

\* A round of `plan` stays within the bounds.
LEMMA PlanRoundStays ==
  ASSUME NEW V, NEW venues \in Seq(V), NEW holding \in [V -> Int], NEW min \in Int, NEW fee \in Int, NEW min_withdrawal \in Int,
         Target(venues, holding) \in Int,
         NEW st \in PlanStates(V, holding, Target(venues, holding), min, fee),
         NEW k \in 1..(Len(venues) * Len(venues))
  PROVE  PlanRound(st, k, venues, holding, fee, min_withdrawal)
           \in PlanStates(V, holding, Target(venues, holding), min, fee)
<1>1. PICK from \in V, to \in V : VenuePair(venues, k) = <<from, to>>
  BY PairInVenues
<1> DEFINE amount == Movable(st, from, to)
           new == TransferFor(from, to, amount, fee, min_withdrawal)
<1>2. amount \in Int
  BY MovableBounds
<1>3. new \in PairSteps(from, to, amount, fee) \cup {<<>>}
  <2> HIDE DEF amount
  <2>1. CASE new = <<>>
    BY <2>1
  <2>2. CASE new # <<>>
    <3>1. amount > fee /\ new = <<[kind |-> "transfer", from |-> from, to |-> to, amount |-> amount]>>
      BY <1>2, <2>2 DEF TransferFor
    <3> HIDE DEF new
    <3> QED
      BY <3>1, Zenon DEF PairSteps
  <2> QED
    BY <2>1, <2>2
<1>4. PlanRound(st, k, venues, holding, fee, min_withdrawal) = Visit(st, venues, holding, <<from, to>>, new)
  BY <1>1 DEF PlanRound
<1> HIDE DEF new
<1>5. Visit(st, venues, holding, <<from, to>>, new) \in PlanStates(V, holding, Target(venues, holding), min, fee)
  BY <1>3, VisitStays
<1> QED
  BY <1>4, <1>5, Zenon

\* The steps of `plan` are those of a state within the planner's bounds.
LEMMA PlanInStates ==
  ASSUME NEW V, NEW venues \in Seq(V), Len(venues) > 0, NEW holding \in [V -> Int], NEW threshold,
         NEW min \in Int, NEW fee \in Int, NEW min_withdrawal \in Int, Plan(venues, holding, threshold, min, fee, min_withdrawal) # <<>>
  PROVE  Plan(venues, holding, threshold, min, fee, min_withdrawal)
           \in PlanSteps(V, holding, Target(venues, holding), min, fee)
<1> DEFINE n == Len(venues) * Len(venues)
           S == PlanStates(V, holding, Target(venues, holding), min, fee)
           start == PlanStart(venues, holding, min)
           Round(st, k) == PlanRound(st, k, venues, holding, fee, min_withdrawal)
           step == [p \in S \X (1..n) |-> Round(p[1], p[2])]
           Loop(f) == [k \in 0..n |-> IF k = 0 THEN start ELSE Round(f[k - 1], k)]
           planned == CHOOSE f : f = Loop(f)
<1>1. Target(venues, holding) \in Int /\ n \in Nat
  BY TargetType
<1>2. start \in S
  BY <1>1, StartStays
<1>3. ASSUME NEW st \in S, NEW k \in 1..n PROVE Round(st, k) \in S
  BY <1>1, PlanRoundStays
<1>4. Plan(venues, holding, threshold, min, fee, min_withdrawal) = planned[n].steps
  BY Zenon DEF Plan, PlanRound
<1> HIDE DEF S, n, start, Round
<1>5. step \in [S \X (1..n) -> S]
  <2>1. ASSUME NEW p \in S \X (1..n) PROVE Round(p[1], p[2]) \in S
    BY <1>3
  <2> QED
    BY <2>1
<1>6. \E f : f = Loop(f)
  <2>1. Runs(n, S, start, step)
    <3> HIDE DEF step
    <3> QED
      BY <1>1, <1>2, <1>5, LoopExists, Zenon
  <2>2. PICK f \in [0..n -> S] : f[0] = start /\ \A k \in 1..n : f[k] = step[<<f[k - 1], k>>]
    BY <2>1, Zenon DEF Runs
  <2>3. ASSUME NEW k \in 1..n PROVE f[k] = Round(f[k - 1], k)
    <3>1. k - 1 \in 0..n
      BY <1>1
    <3>2. <<f[k - 1], k>> \in S \X (1..n)
      BY <3>1
    <3> QED
      BY <3>2, <2>2, Zenon
  <2>4. ASSUME NEW k \in 0..n PROVE f[k] = IF k = 0 THEN start ELSE Round(f[k - 1], k)
    BY <1>1, <2>2, <2>3
  <2>5. f = Loop(f)
    BY <2>4, Zenon
  <2> QED
    BY <2>5, Zenon
<1>7. planned = Loop(planned)
  <2> HIDE DEF Loop
  <2> QED
    BY <1>6, Zenon
<1> HIDE DEF planned
<1>8. planned[0] = start /\ \A k \in 1..n : planned[k] = Round(planned[k - 1], k)
  <2>1. 0 \in 0..n /\ \A k \in 1..n : k \in 0..n /\ k # 0
    BY <1>1
  <2> QED
    BY <1>7, <2>1, Zenon
<1>9. \A k \in 0..n : planned[k] \in S
  <2>1. planned[0] \in S /\ \A k \in 1..n : planned[k - 1] \in S => planned[k] \in S
    BY <1>2, <1>3, <1>8, Zenon
  <2> QED
    BY <1>1, <2>1, LoopStays, Zenon
<1>10. n \in 0..n
  BY <1>1
<1> QED
  BY <1>4, <1>9, <1>10, Zenon DEF S, PlanSteps

\* One round of `plan_executable`.
ExecutableRound(st, k, venues, holding, fee, is_quote) ==
  LET pair == VenuePair(venues, k)
  IN Visit(st, venues, holding, pair,
           StepsFor(pair[1], pair[2], Movable(st, pair[1], pair[2]), fee, is_quote))

\* A round of `plan_executable` stays within the bounds.
LEMMA ExecutableRoundStays ==
  ASSUME NEW V, NEW venues \in Seq(V), NEW holding \in [V -> Int], NEW min \in Int, NEW fee \in Int, NEW is_quote,
         Target(venues, holding) \in Int,
         NEW st \in PlanStates(V, holding, Target(venues, holding), min, fee),
         NEW k \in 1..(Len(venues) * Len(venues))
  PROVE  ExecutableRound(st, k, venues, holding, fee, is_quote)
           \in PlanStates(V, holding, Target(venues, holding), min, fee)
<1>1. PICK from \in V, to \in V : VenuePair(venues, k) = <<from, to>>
  BY PairInVenues
<1> DEFINE amount == Movable(st, from, to)
           new == StepsFor(from, to, amount, fee, is_quote)
<1>2. amount \in Int
  BY MovableBounds
<1>3. new \in PairSteps(from, to, amount, fee) \cup {<<>>}
  <2> HIDE DEF amount
  <2>1. CASE IsCex(from) /\ IsCex(to) /\ ~is_quote
    <3>1. new = <<[kind |-> "sell", from |-> from, to |-> from, amount |-> amount],
                  [kind |-> "buy", from |-> to, to |-> to, amount |-> amount]>>
      BY <2>1 DEF StepsFor, IsCex
    <3> HIDE DEF new
    <3> QED
      BY <2>1, <3>1, Zenon DEF PairSteps
  <2>2. CASE IsCex(from) # IsCex(to) /\ amount > fee
    <3>1. new = <<[kind |-> "withdraw", from |-> from, to |-> to, amount |-> amount]>>
      BY <2>2 DEF StepsFor, IsCex
    <3> HIDE DEF new
    <3> QED
      BY <2>2, <3>1, Zenon DEF PairSteps
  <2>3. CASE ~(IsCex(from) /\ IsCex(to) /\ ~is_quote) /\ ~(IsCex(from) # IsCex(to) /\ amount > fee)
    BY <2>3 DEF StepsFor
  <2> QED
    BY <2>1, <2>2, <2>3
<1>4. ExecutableRound(st, k, venues, holding, fee, is_quote) = Visit(st, venues, holding, <<from, to>>, new)
  BY <1>1 DEF ExecutableRound
<1> HIDE DEF new
<1>5. Visit(st, venues, holding, <<from, to>>, new) \in PlanStates(V, holding, Target(venues, holding), min, fee)
  BY <1>3, VisitStays
<1> QED
  BY <1>4, <1>5, Zenon

\* The steps of `plan_executable` are those of a state within the planner's bounds.
LEMMA PlanExecutableInStates ==
  ASSUME NEW V, NEW venues \in Seq(V), Len(venues) > 0, NEW holding \in [V -> Int], NEW threshold,
         NEW min \in Int, NEW fee \in Int, NEW is_quote, PlanExecutable(venues, holding, threshold, min, fee, is_quote) # <<>>
  PROVE  PlanExecutable(venues, holding, threshold, min, fee, is_quote)
           \in PlanSteps(V, holding, Target(venues, holding), min, fee)
<1> DEFINE n == Len(venues) * Len(venues)
           S == PlanStates(V, holding, Target(venues, holding), min, fee)
           start == PlanStart(venues, holding, min)
           Round(st, k) == ExecutableRound(st, k, venues, holding, fee, is_quote)
           step == [p \in S \X (1..n) |-> Round(p[1], p[2])]
           Loop(f) == [k \in 0..n |-> IF k = 0 THEN start ELSE Round(f[k - 1], k)]
           planned == CHOOSE f : f = Loop(f)
<1>1. Target(venues, holding) \in Int /\ n \in Nat
  BY TargetType
<1>2. start \in S
  BY <1>1, StartStays
<1>3. ASSUME NEW st \in S, NEW k \in 1..n PROVE Round(st, k) \in S
  BY <1>1, ExecutableRoundStays
<1>4. PlanExecutable(venues, holding, threshold, min, fee, is_quote) = planned[n].steps
  BY Zenon DEF PlanExecutable, ExecutableRound
<1> HIDE DEF S, n, start, Round
<1>5. step \in [S \X (1..n) -> S]
  <2>1. ASSUME NEW p \in S \X (1..n) PROVE Round(p[1], p[2]) \in S
    BY <1>3
  <2> QED
    BY <2>1
<1>6. \E f : f = Loop(f)
  <2>1. Runs(n, S, start, step)
    <3> HIDE DEF step
    <3> QED
      BY <1>1, <1>2, <1>5, LoopExists, Zenon
  <2>2. PICK f \in [0..n -> S] : f[0] = start /\ \A k \in 1..n : f[k] = step[<<f[k - 1], k>>]
    BY <2>1, Zenon DEF Runs
  <2>3. ASSUME NEW k \in 1..n PROVE f[k] = Round(f[k - 1], k)
    <3>1. k - 1 \in 0..n
      BY <1>1
    <3>2. <<f[k - 1], k>> \in S \X (1..n)
      BY <3>1
    <3> QED
      BY <3>2, <2>2, Zenon
  <2>4. ASSUME NEW k \in 0..n PROVE f[k] = IF k = 0 THEN start ELSE Round(f[k - 1], k)
    BY <1>1, <2>2, <2>3
  <2>5. f = Loop(f)
    BY <2>4, Zenon
  <2> QED
    BY <2>5, Zenon
<1>7. planned = Loop(planned)
  <2> HIDE DEF Loop
  <2> QED
    BY <1>6, Zenon
<1> HIDE DEF planned
<1>8. planned[0] = start /\ \A k \in 1..n : planned[k] = Round(planned[k - 1], k)
  <2>1. 0 \in 0..n /\ \A k \in 1..n : k \in 0..n /\ k # 0
    BY <1>1
  <2> QED
    BY <1>7, <2>1, Zenon
<1>9. \A k \in 0..n : planned[k] \in S
  <2>1. planned[0] \in S /\ \A k \in 1..n : planned[k - 1] \in S => planned[k] \in S
    BY <1>2, <1>3, <1>8, Zenon
  <2> QED
    BY <1>1, <2>1, LoopStays, Zenon
<1>10. n \in 0..n
  BY <1>1
<1> QED
  BY <1>4, <1>9, <1>10, Zenon DEF S, PlanSteps

\* A plan leaves every venue it takes from at its target share and its minimum
\* balance or above, fills no venue beyond its target share, takes from and
\* brings to no venue alike, and its steps are sound.
StaysWithinTarget(V, holding, target, min, fee, steps) ==
  /\ \A v \in V :
       /\ Leaving(steps, v) > 0 =>
            /\ holding[v] - Leaving(steps, v) >= target /\ holding[v] - Leaving(steps, v) >= min
            /\ Arriving(steps, v) = 0
       /\ Arriving(steps, v) > 0 => holding[v] + Arriving(steps, v) <= target /\ Leaving(steps, v) = 0
  /\ \A i \in 1..Len(steps) : SoundStep(V, steps[i], fee)

\* The steps of a state within the planner's bounds do.
LEMMA StatesStayWithin ==
  ASSUME NEW V, NEW holding \in [V -> Int], NEW t \in Int, NEW min \in Int, NEW fee \in Int,
         NEW steps \in PlanSteps(V, holding, t, min, fee)
  PROVE  StaysWithinTarget(V, holding, t, min, fee, steps) /\ steps \in Seq(StepsOver(V))
<1>0. PICK st \in PlanStates(V, holding, t, min, fee) : steps = st.steps
  BY Zenon DEF PlanSteps
<1>1. /\ st.gap \in [V -> Int] /\ st.spendable \in [V -> Int] /\ st.steps \in Seq(StepsOver(V))
      /\ \A v \in V : LeavesEnough(st, holding[v], t, min, v) /\ BringsNoMore(st, holding[v], t, v)
      /\ \A i \in 1..Len(st.steps) : SoundStep(V, st.steps[i], fee)
  BY DEF PlanStates
<1>2. ASSUME NEW v \in V
      PROVE  /\ Leaving(st.steps, v) > 0 =>
                  /\ holding[v] - Leaving(st.steps, v) >= t /\ holding[v] - Leaving(st.steps, v) >= min
                  /\ Arriving(st.steps, v) = 0
             /\ Arriving(st.steps, v) > 0 => holding[v] + Arriving(st.steps, v) <= t /\ Leaving(st.steps, v) = 0
  <2>1. Leaving(st.steps, v) \in Int /\ Arriving(st.steps, v) \in Int /\ holding[v] \in Int
    BY <1>1, MovesAreNumbers
  <2>2. st.gap[v] \in Int /\ st.spendable[v] \in Int
    BY <1>1
  <2> QED
    BY <1>1, <2>1, <2>2 DEF LeavesEnough, BringsNoMore
<1> QED
  BY <1>0, <1>1, <1>2 DEF StaysWithinTarget

\* No steps do.
LEMMA EmptyStaysWithin ==
  ASSUME NEW V, NEW holding, NEW t, NEW min, NEW fee
  PROVE  StaysWithinTarget(V, holding, t, min, fee, <<>>)
BY NothingMoved DEF StaysWithinTarget

\* For any list of venues, holdings, threshold, minimum, fee and smallest
\* withdrawal, `plan` and `plan_executable` (rebalancer.rs) stay within the
\* targets: whatever earlier pairs took of a surplus or filled of a deficit is
\* gone for the later ones.
THEOREM PlansStayWithinTarget ==
  ASSUME NEW V, NEW venues \in Seq(V), Len(venues) > 0, NEW holding \in [V -> Int], NEW threshold,
         NEW min \in Int, NEW fee \in Int, NEW min_withdrawal \in Int, NEW is_quote
  PROVE  /\ StaysWithinTarget(V, holding, Target(venues, holding), min, fee,
                              Plan(venues, holding, threshold, min, fee, min_withdrawal))
         /\ StaysWithinTarget(V, holding, Target(venues, holding), min, fee,
                              PlanExecutable(venues, holding, threshold, min, fee, is_quote))
<1> DEFINE t == Target(venues, holding)
           p == Plan(venues, holding, threshold, min, fee, min_withdrawal)
           x == PlanExecutable(venues, holding, threshold, min, fee, is_quote)
<1>1. t \in Int
  BY TargetType
<1>2. p = <<>> \/ p \in PlanSteps(V, holding, t, min, fee)
  BY PlanInStates
<1>3. x = <<>> \/ x \in PlanSteps(V, holding, t, min, fee)
  BY PlanExecutableInStates
<1> HIDE DEF t, p, x
<1>4. StaysWithinTarget(V, holding, t, min, fee, p)
  <2>1. CASE p = <<>>
    BY <2>1, EmptyStaysWithin, Zenon
  <2>2. CASE p \in PlanSteps(V, holding, t, min, fee)
    BY <1>1, <2>2, StatesStayWithin, Zenon
  <2> QED
    BY <1>2, <2>1, <2>2
<1>5. StaysWithinTarget(V, holding, t, min, fee, x)
  <2>1. CASE x = <<>>
    BY <2>1, EmptyStaysWithin, Zenon
  <2>2. CASE x \in PlanSteps(V, holding, t, min, fee)
    BY <1>1, <2>2, StatesStayWithin, Zenon
  <2> QED
    BY <1>3, <2>1, <2>2
<1> QED
  BY <1>4, <1>5 DEF t, p, x

-----------------------------------------------------------------------------
(* The main loop and the rebalance loop.                                   *)

Active == {"validate", "submit", "confirm"}
Planned == Active \cup {"alert"}
SideNames == {"ETH", "WETH", "USDC.E", "USDC"}
Entries == [free : Nat, locked : Nat, reserved : Nat]
Books == UNION {[D -> Entries] : D \in SUBSET (SideNames \cup {Asset})}

ConfigTypes == [dry_run : {"yes", "no"}, pause_trading : {"yes", "no"}, chain : {"arbitrum", "other"}, side : Sides]
RebTypes == [at : {"sleep", "stopped"} \cup Planned, steps : Seq(StepsOver(VenueSet)), snap : [VenueSet -> Int]]

\* The types, those that TypeOK leaves out included.
Typed ==
  /\ actual \in [VenueSet -> Nat] /\ transit \in [VenueSet -> Nat] /\ book \in [VenueSet -> Books]
  /\ config \in ConfigTypes
  /\ main \in [at : {"tick", "sync", "verify", "compare", "wallet", "wallet_apply"}, seen : Nat]
  /\ reb \in RebTypes
  /\ tick \in {"idle", "running"} /\ pause \in {"yes", "no"} /\ halted \in {"yes", "no"}
  /\ moved \in {"yes", "no"} /\ late \in Nat
  /\ fills \in 0..MaxFills /\ plans \in 0..MaxPlans /\ syncs \in 0..MaxSyncs

\* The steps left of a plan: each moves more than its fee from one venue to the
\* other, and together they leave every venue its minimum of what was held when
\* the plan was made.
StepsLeft(steps, held) ==
  /\ steps \in Seq(StepsOver(VenueSet))
  /\ \A i \in 1..Len(steps) :
       /\ steps[i].kind \in {"withdraw", "transfer"} /\ steps[i].amount > WithdrawFee
       /\ steps[i].from # steps[i].to
  /\ \A v \in VenueSet : Leaving(steps, v) > 0 => held[v] - Leaving(steps, v) >= MinBalance

\* What is left of the plan that is being carried out.
PlanLeft ==
  /\ reb.at \in Planned => reb.steps # <<>>
  /\ StepsLeft(reb.steps, reb.snap)

\* The pause, and the one tick that may be past its check.
Paused ==
  /\ pause = "yes" <=> (reb.at \in Active /\ Live /\ config.pause_trading = "yes")
  /\ pause = "yes" => late <= 1 /\ (tick = "running" => late = 0)

\* The tracker's names at the exchange are those of what it holds.
Named == DOMAIN book["binance"] \subseteq {CexKey(config.chain, a) : a \in DOMAIN config.side \cup {Asset}}

\* A book that a sync has written: of each name, an asset reported with n of it.
Synced(cfg, b, n) ==
  /\ DOMAIN b = {CexKey(cfg.chain, a) : a \in DOMAIN CexReport(cfg.side, n)}
  /\ \A c \in DOMAIN b : \E a \in DOMAIN CexReport(cfg.side, n) :
       CexKey(cfg.chain, a) = c /\ Total(b[c]) = CexReport(cfg.side, n)[a].free

\* Until the exchange balance moves again, what the sync read is what there is,
\* and once applied what the tracker holds.
ReadIsFresh ==
  moved = "no" =>
    /\ main.at \in {"sync", "compare"} => main.seen = actual["binance"]
    /\ main.at \in {"verify", "compare"} => Synced(config, book["binance"], actual["binance"])

TreasuryInv == Typed /\ PlanLeft /\ Paused /\ Named /\ ReadIsFresh

\* The first element of a sum taken out.
LEMMA SumTail ==
  ASSUME NEW s \in Seq(Int), NEW t \in Seq(Int), Len(s) = Len(t) + 1, \A i \in 1..Len(t) : t[i] = s[i + 1]
  PROVE  SumOf(s) = s[1] + SumOf(t)
<1> DEFINE r == Running(s)
           q == Running(t)
           n == Len(t)
<1>1. n \in Nat /\ s[1] \in Int
  OBVIOUS
<1>2. r[0] = 0 /\ \A k \in 1..(n + 1) : r[k] = r[k - 1] + s[k]
  BY RunningAdds
<1>3. q \in [0..n -> Int] /\ q[0] = 0 /\ \A k \in 1..n : q[k] = q[k - 1] + t[k]
  BY RunningAdds
<1> HIDE DEF r, q
<1> DEFINE good == {m \in Nat : m <= n => r[m + 1] = s[1] + q[m]}
<1>4. 0 \in good
  <2>1. r[1] = r[1 - 1] + s[1]
    BY <1>1, <1>2
  <2>2. 1 - 1 = 0 /\ 0 + 1 = 1
    OBVIOUS
  <2> QED
    BY <1>1, <1>2, <1>3, <2>1, <2>2
<1>5. ASSUME NEW m \in Nat, m + 1 <= n, m \in good PROVE m + 1 \in good
  <2>1. m + 1 \in 1..n /\ m + 2 \in 1..(n + 1) /\ (m + 1) - 1 = m /\ (m + 2) - 1 = m + 1 /\ (m + 1) + 1 = m + 2
    BY <1>5
  <2>2. r[m + 2] = r[(m + 2) - 1] + s[m + 2] /\ q[m + 1] = q[(m + 1) - 1] + t[m + 1]
    BY <2>1, <1>2, <1>3
  <2>3. r[m + 1] = s[1] + q[m] /\ t[m + 1] = s[m + 2] /\ q[m] \in Int /\ s[m + 2] \in Int
    BY <1>3, <1>5, <2>1
  <2>4. r[m + 2] = s[1] + q[m + 1]
    BY <1>1, <2>1, <2>2, <2>3
  <2> QED
    BY <2>1, <2>4
<1>6. n \in good
  <2> HIDE DEF good, n
  <2>1. \A m \in 0..n : m \in good
    BY <1>1, <1>4, <1>5, Induct, Zenon
  <2> QED
    BY <1>1, <2>1
<1>7. SumOf(t) = q[n] /\ SumOf(s) = r[n + 1]
  BY SumIsRunning DEF r, q
<1> QED
  BY <1>1, <1>6, <1>7

\* What the rest of a plan takes from a venue.
LEMMA LeavingTail ==
  ASSUME NEW V, NEW steps \in Seq(StepsOver(V)), steps # <<>>, NEW v
  PROVE  /\ Tail(steps) \in Seq(StepsOver(V)) /\ Leaving(Tail(steps), v) \in Int
         /\ Leaving(steps, v) = Leaves(steps[1], v) + Leaving(Tail(steps), v)
         /\ Leaves(steps[1], v) \in Int
<1> DEFINE rest == Tail(steps)
<1>1. /\ rest \in Seq(StepsOver(V)) /\ Len(steps) = Len(rest) + 1 /\ Len(rest) \in Nat
      /\ \A i \in 1..Len(rest) : rest[i] = steps[i + 1]
  OBVIOUS
<1> HIDE DEF rest
<1> DEFINE f == [i \in 1..Len(steps) |-> Leaves(steps[i], v)]
           g == [i \in 1..Len(rest) |-> Leaves(rest[i], v)]
<1>2. f \in Seq(Int) /\ g \in Seq(Int) /\ Leaving(rest, v) \in Int
  BY <1>1, MovesAreNumbers, Zenon
<1>3. Len(f) = Len(g) + 1 /\ (\A i \in 1..Len(g) : g[i] = f[i + 1]) /\ f[1] = Leaves(steps[1], v)
  BY <1>1
<1>4. SumOf(f) = Leaving(steps, v) /\ SumOf(g) = Leaving(rest, v)
  BY DEF Leaving
<1>5. f[1] \in Int
  BY <1>1, <1>2
<1> HIDE DEF f, g
<1>6. SumOf(f) = f[1] + SumOf(g)
  BY <1>2, <1>3, SumTail, Zenon
<1> QED
  BY <1>1, <1>2, <1>3, <1>4, <1>5, <1>6 DEF rest

-----------------------------------------------------------------------------

\* What a venue reports of its one asset.
LEMMA ReportDomain ==
  ASSUME NEW n \in Nat
  PROVE  /\ n > 0 => DOMAIN Reported(n) = {Asset} /\ Reported(n)[Asset] = n
         /\ n = 0 => DOMAIN Reported(n) = {}
         /\ FetchWallet(Reported(n), {}) = Reported(n)
<1>1. n > 0 => DOMAIN Reported(n) = {Asset} /\ Reported(n)[Asset] = n
  BY DEF Reported
<1>2. n = 0 => DOMAIN Reported(n) = {}
  BY DEF Reported
<1>3. Reported(n) = [a \in DOMAIN Reported(n) |-> n]
  BY Zenon DEF Reported
<1>4. {b \in DOMAIN Reported(n) \ {} : Reported(n)[b] > 0} = DOMAIN Reported(n)
  <2>1. ASSUME NEW b \in DOMAIN Reported(n) PROVE Reported(n)[b] > 0
    BY <1>1, <1>2
  <2> QED
    BY <2>1
<1>5. FetchWallet(Reported(n), {}) = [a \in DOMAIN Reported(n) |-> Reported(n)[a]]
  BY <1>4, Zenon DEF FetchWallet
<1>6. [a \in DOMAIN Reported(n) |-> Reported(n)[a]] = Reported(n)
  BY <1>3, Zenon
<1> QED
  BY <1>1, <1>2, <1>5, <1>6

\* A wallet sync leaves the tracker with a book.
LEMMA WalletBook ==
  ASSUME NEW n \in Nat, NEW b \in Books \cup {<<>>}
  PROVE  UpdateFromWallet(b, Reported(n)) \in Books
<1>1. \A a \in DOMAIN b : b[a] \in Entries
  BY DEF Books
<1>2. \A a : KeptReserved(b, a) \in Nat
  BY <1>1 DEF KeptReserved, Entries
<1>3. \A a \in DOMAIN Reported(n) : Reported(n)[a] \in Nat
  BY DEF Reported
<1>4. \A a \in DOMAIN Reported(n) : Entry(Reported(n)[a], 0, KeptReserved(b, a)) \in Entries
  BY <1>2, <1>3 DEF Entry, Entries
<1>5. UpdateFromWallet(b, Reported(n)) \in [DOMAIN Reported(n) -> Entries]
  BY <1>4, Zenon DEF UpdateFromWallet
<1>6. DOMAIN Reported(n) \in SUBSET (SideNames \cup {Asset})
  BY DEF Reported
<1> QED
  BY <1>5, <1>6, Zenon DEF Books

\* What the exchange reports of n: the assets beside it, and the asset unless n is 0.
LEMMA ReportOfAll ==
  ASSUME config \in ConfigTypes, NEW n \in Nat
  PROVE  /\ DOMAIN CexReport(config.side, n) \subseteq DOMAIN config.side \cup {Asset}
         /\ DOMAIN config.side \subseteq DOMAIN CexReport(config.side, n) /\ DOMAIN config.side \subseteq SideNames
         /\ \A a \in DOMAIN CexReport(config.side, n) : CexReport(config.side, n)[a].free \in Nat /\ CexReport(config.side, n)[a].locked = 0
         /\ \A a \in DOMAIN config.side : CexReport(config.side, n)[a].free > 0
<1>1. config.side \in Sides
  BY DEF ConfigTypes
<1>2. DOMAIN config.side \subseteq SideNames /\ \A a \in DOMAIN config.side : config.side[a] \in Nat \ {0}
  BY <1>1, SidesAssumption, Zenon DEF SideNames
<1> DEFINE side == config.side
           D == DOMAIN side \cup DOMAIN Reported(n)
           free == [a \in D |-> IF a \in DOMAIN side THEN side[a] ELSE n]
<1>3. CexReport(config.side, n) = [a \in D |-> [free |-> free[a], locked |-> 0]]
  BY DEF CexReport
<1>4. DOMAIN Reported(n) \subseteq {Asset}
  BY DEF Reported
<1>5. \A a \in D : free[a] \in Nat /\ (a \in DOMAIN side => free[a] > 0)
  BY <1>2
<1> HIDE DEF free, side
<1>6. DOMAIN CexReport(config.side, n) = D /\ \A a \in D : CexReport(config.side, n)[a].free = free[a] /\ CexReport(config.side, n)[a].locked = 0
  BY <1>3
<1> QED
  BY <1>2, <1>4, <1>5, <1>6 DEF side

\* The tracked names are among the known ones.
LEMMA KeysAreNames ==
  /\ \A chain, a : a \in SideNames => CexKey(chain, a) \in SideNames
  /\ \A chain : CexKey(chain, Asset) = Asset /\ Asset \notin SideNames
BY DEF CexKey, Canonical, SideNames, Asset

\* A report by tracked name: each name stands for an asset reported under it.
LEMMA KeyedIs ==
  ASSUME NEW chain, NEW fresh, NEW kept \in Keyed(chain, fresh)
  PROVE  /\ \A a \in DOMAIN fresh : CexKey(chain, a) \in DOMAIN kept
         /\ \A c \in DOMAIN kept : \E a \in DOMAIN fresh : CexKey(chain, a) = c /\ kept[c] = fresh[a]
<1> DEFINE keys == {CexKey(chain, a) : a \in DOMAIN fresh}
<1>1. PICK pick \in {p \in [keys -> DOMAIN fresh] : \A c \in keys : CexKey(chain, p[c]) = c} :
        kept = [c \in keys |-> fresh[pick[c]]]
  BY Zenon DEF Keyed
<1> HIDE DEF keys
<1>2. DOMAIN kept = keys /\ \A c \in keys : kept[c] = fresh[pick[c]] /\ pick[c] \in DOMAIN fresh /\ CexKey(chain, pick[c]) = c
  BY <1>1
<1> QED
  BY <1>2, Zenon DEF keys

\* An exchange sync leaves the tracker with a book that totals what was read.
LEMMA CexBook ==
  ASSUME config \in ConfigTypes, NEW n \in Nat, NEW b \in Books \cup {<<>>},
         NEW x \in UpdateFromCex(b, CexReport(config.side, n), config.chain)
  PROVE  /\ x \in Books /\ Synced(config, x, n)
         /\ DOMAIN x \subseteq {CexKey(config.chain, a) : a \in DOMAIN config.side \cup {Asset}}
<1> DEFINE fresh == CexReport(config.side, n)
           chain == config.chain
<1>1. PICK kept \in Keyed(chain, fresh) :
        x = [c \in DOMAIN kept |-> Entry(kept[c].free, kept[c].locked, KeptReserved(b, c))]
  BY Zenon DEF UpdateFromCex
<1>2. /\ DOMAIN kept = {CexKey(chain, a) : a \in DOMAIN fresh}
      /\ \A c \in DOMAIN kept : \E a \in DOMAIN fresh : CexKey(chain, a) = c /\ kept[c] = fresh[a]
  <2> HIDE DEF chain, fresh
  <2>1. \A a \in DOMAIN fresh : CexKey(chain, a) \in DOMAIN kept
    BY <1>1, KeyedIs, Zenon
  <2>2. \A c \in DOMAIN kept : \E a \in DOMAIN fresh : CexKey(chain, a) = c /\ kept[c] = fresh[a]
    BY <1>1, KeyedIs, SMT
  <2> QED
    BY <2>1, <2>2, Zenon
<1>3. \A a \in DOMAIN fresh : fresh[a].free \in Nat /\ fresh[a].locked = 0
  BY ReportOfAll, Zenon
<1>4. DOMAIN fresh \subseteq DOMAIN config.side \cup {Asset} /\ DOMAIN config.side \subseteq SideNames
  BY ReportOfAll, Zenon
<1> HIDE DEF fresh, chain
<1>5. \A a \in DOMAIN b : b[a] \in Entries
  BY DEF Books
<1>6. \A a : KeptReserved(b, a) \in Nat
  BY <1>5 DEF KeptReserved, Entries
<1>7. \A c \in DOMAIN kept : kept[c].free \in Nat /\ kept[c].locked = 0
  BY <1>2, <1>3
<1>8. ASSUME NEW c \in DOMAIN kept PROVE x[c] \in Entries /\ Total(x[c]) = kept[c].free
  <2>1. x[c] = [free |-> kept[c].free, locked |-> kept[c].locked, reserved |-> KeptReserved(b, c)]
    BY <1>1 DEF Entry
  <2> QED
    BY <2>1, <1>6, <1>7 DEF Entries, Total
<1>9. DOMAIN x = DOMAIN kept
  BY <1>1, Zenon
<1>10. DOMAIN kept \subseteq SideNames \cup {Asset}
  BY <1>2, <1>4, KeysAreNames
<1>11. x \in Books
  <2>1. x \in [DOMAIN kept -> Entries]
    BY <1>1, <1>8
  <2> QED
    BY <2>1, <1>10, Zenon DEF Books
<1>12. Synced(config, x, n)
  <2>1. \A c \in DOMAIN x : \E a \in DOMAIN fresh : CexKey(chain, a) = c /\ Total(x[c]) = fresh[a].free
    BY <1>2, <1>8, <1>9
  <2> QED
    BY <1>2, <1>9, <2>1, Zenon DEF Synced, fresh, chain
<1> QED
  BY <1>2, <1>4, <1>9, <1>11, <1>12, Zenon DEF chain

\* Without a clash of names the tracker's names are the canonical ones, each of one
\* asset.
LEMMA NamesAgree ==
  ASSUME config \in ConfigTypes, ~NamesClash, NEW n \in Nat,
         NEW a \in DOMAIN CexReport(config.side, n)
  PROVE  /\ CexKey(config.chain, a) = Canonical(a)
         /\ \A b \in DOMAIN CexReport(config.side, n) : Canonical(b) = Canonical(a) => b = a
<1>1. /\ DOMAIN CexReport(config.side, n) \subseteq DOMAIN config.side \cup {Asset}
      /\ DOMAIN config.side \subseteq SideNames
  BY ReportOfAll, Zenon
<1>2. \A c \in DOMAIN config.side :
        /\ ~(config.chain = "other" /\ Canonical(c) # c)
        /\ \A b \in DOMAIN config.side \ {c} : Canonical(b) # Canonical(c)
  BY Zenon DEF NamesClash
<1>3. config.chain \in {"arbitrum", "other"}
  BY DEF ConfigTypes
<1>4. Canonical(Asset) = Asset /\ \A c \in SideNames : Canonical(c) \in SideNames /\ c # Asset
  BY DEF Canonical, Asset, SideNames
<1>5. CexKey(config.chain, a) = Canonical(a)
  <2>1. config.chain = "other" => Canonical(a) = a
    BY <1>1, <1>2, <1>4, Zenon
  <2> QED
    BY <2>1, <1>3 DEF CexKey
<1>6. ASSUME NEW b \in DOMAIN CexReport(config.side, n), Canonical(b) = Canonical(a) PROVE b = a
  BY <1>1, <1>2, <1>4, <1>6, Zenon
<1> QED
  BY <1>5, <1>6

\* A comparison with what the sync has just written finds no mismatch, whatever the
\* tolerance, unless names clash.
LEMMA EqualMeansVerified ==
  ASSUME config \in ConfigTypes, ~NamesClash, NEW n \in Nat, NEW b \in Books, Synced(config, b, n),
         NEW kept \in Keyed("arbitrum", CexReport(config.side, n)), NEW totals,
         totals = [a \in DOMAIN kept |-> Total(kept[a])]
  PROVE  VerifyBalances(b, totals, Tolerance) = {}
<1>1. SUFFICES ASSUME NEW c \in VerifyBalances(b, totals, Tolerance) PROVE FALSE
  OBVIOUS
<1>2. c \in DOMAIN kept /\ totals[c] = Total(kept[c])
  BY DEF VerifyBalances
<1>3. PICK a \in DOMAIN CexReport(config.side, n) : CexKey("arbitrum", a) = c /\ kept[c] = CexReport(config.side, n)[a]
  BY <1>2, KeyedIs
<1>4. Canonical(a) = c /\ CexKey(config.chain, a) = c
  BY <1>3, NamesAgree DEF CexKey
<1>5. c \in DOMAIN b
  BY <1>4, Zenon DEF Synced
<1>6. PICK e \in DOMAIN CexReport(config.side, n) : CexKey(config.chain, e) = c /\ Total(b[c]) = CexReport(config.side, n)[e].free
  BY <1>5, Zenon DEF Synced
<1>7. e = a
  BY <1>4, <1>6, NamesAgree, Zenon
<1>8. CexReport(config.side, n)[a].free \in Nat /\ CexReport(config.side, n)[a].locked = 0
  BY ReportOfAll, Zenon
<1> DEFINE x == CexReport(config.side, n)[a].free
<1>9. Tracked(b, c) = x /\ totals[c] = x /\ x \in Nat
  BY <1>2, <1>3, <1>5, <1>6, <1>7, <1>8 DEF Tracked, Total
<1> HIDE DEF x
<1>10. 100 * AbsDiff(x, x) > x * Tolerance
  BY <1>9, Zenon DEF VerifyBalances
<1>11. AbsDiff(x, x) = 0 /\ x * Tolerance \in Nat
  BY <1>9, ConfigAssumption DEF AbsDiff
<1> QED
  BY <1>10, <1>11

\* Off Arbitrum an asset that the tracker does not hold under its canonical name is
\* a mismatch.
LEMMA LostMeansMismatch ==
  ASSUME config \in ConfigTypes, LostName, Named, NEW n \in Nat,
         NEW kept \in Keyed("arbitrum", CexReport(config.side, n)), NEW totals,
         totals = [a \in DOMAIN kept |-> Total(kept[a])]
  PROVE  VerifyBalances(book["binance"], totals, Tolerance) # {}
<1>1. PICK a \in DOMAIN config.side : Canonical(a) # a /\ Canonical(a) \notin DOMAIN config.side
  BY Zenon DEF LostName
<1> DEFINE c == Canonical(a)
<1>2. /\ DOMAIN CexReport(config.side, n) \subseteq DOMAIN config.side \cup {Asset}
      /\ DOMAIN config.side \subseteq DOMAIN CexReport(config.side, n) /\ DOMAIN config.side \subseteq SideNames
      /\ \A e \in DOMAIN CexReport(config.side, n) : CexReport(config.side, n)[e].free \in Nat /\ CexReport(config.side, n)[e].locked = 0
      /\ \A e \in DOMAIN config.side : CexReport(config.side, n)[e].free > 0
  BY ReportOfAll, Zenon
<1>3. c \in SideNames /\ Canonical(Asset) = Asset /\ Asset \notin SideNames
  BY <1>2 DEF Canonical, Asset, SideNames
<1>4. CexKey("arbitrum", a) = c /\ \A e : CexKey("arbitrum", e) = Canonical(e)
  BY DEF CexKey
<1> HIDE DEF c
<1>5. c \in DOMAIN kept
  BY <1>2, <1>4, KeyedIs
<1>6. PICK e \in DOMAIN CexReport(config.side, n) : Canonical(e) = c /\ kept[c] = CexReport(config.side, n)[e]
  BY <1>4, <1>5, KeyedIs
<1>7. e \in DOMAIN config.side
  BY <1>2, <1>3, <1>6, Zenon
<1>8. c \in DOMAIN totals /\ totals[c] = CexReport(config.side, n)[e].free + 0
  BY <1>2, <1>5, <1>6 DEF Total
<1>9. totals[c] \in Nat /\ totals[c] > 0
  BY <1>2, <1>7, <1>8
<1>10. c \notin DOMAIN book["binance"]
  <2>1. config.chain = "other"
    BY DEF LostName
  <2>2. \A d : CexKey(config.chain, d) = d
    BY <2>1 DEF CexKey
  <2> QED
    BY <1>1, <1>3, <2>2, Zenon DEF Named, c
<1>11. Tracked(book["binance"], c) = 0
  BY <1>10 DEF Tracked
<1>12. 0 * Tolerance = 0 /\ 100 * AbsDiff(0, totals[c]) > 0
  BY <1>9, ConfigAssumption DEF AbsDiff
<1>13. c \in VerifyBalances(book["binance"], totals, Tolerance)
  <2>1. ~(Tracked(book["binance"], c) = 0 /\ totals[c] = 0)
    BY <1>9
  <2>2. 100 * AbsDiff(Tracked(book["binance"], c), totals[c]) > Tracked(book["binance"], c) * Tolerance
    BY <1>11, <1>12
  <2> QED
    BY <1>8, <2>1, <2>2, Zenon DEF VerifyBalances
<1> QED
  BY <1>13

\* What the tracker holds is a number at each venue.
LEMMA HoldingType ==
  ASSUME book \in [VenueSet -> Books]
  PROVE  Holding(book) \in [VenueSet -> Int]
<1>1. ASSUME NEW b \in Books PROVE Tracked(b, Asset) \in Int
  <2>1. \A a \in DOMAIN b : b[a] \in Entries
    BY DEF Books
  <2>2. \A e \in Entries : Total(e) \in Int
    BY DEF Entries, Total
  <2> QED
    BY <2>1, <2>2 DEF Tracked
<1>2. \A v \in VenueSet : Tracked(book[v], Asset) \in Int
  BY <1>1
<1> QED
  BY <1>2 DEF Holding

\* So are those of the plan that the rebalance loop makes: between an exchange and
\* the wallet there is nothing but withdrawals.
LEMMA PlanMade ==
  ASSUME NEW held \in [VenueSet -> Int], NEW is_quote, NEW steps,
         steps = PlanExecutable(Venues, held, Threshold, MinBalance, WithdrawFee, is_quote), steps # <<>>
  PROVE  StepsLeft(steps, held)
<1>1. Venues \in Seq(VenueSet) /\ Len(Venues) = 2
  BY DEF Venues, VenueSet
<1>2. MinBalance \in Int /\ WithdrawFee \in Int
  BY ConfigAssumption
<1> DEFINE t == Target(Venues, held)
<1>3. t \in Int
  <2>1. Len(Venues) > 0
    BY <1>1
  <2> QED
    BY <1>1, <2>1, TargetType, Zenon
<1>4. steps \in PlanSteps(VenueSet, held, t, MinBalance, WithdrawFee)
  <2>1. Len(Venues) > 0
    BY <1>1
  <2> QED
    BY <1>1, <1>2, <2>1, PlanExecutableInStates, Zenon
<1> HIDE DEF t
<1>5. StaysWithinTarget(VenueSet, held, t, MinBalance, WithdrawFee, steps) /\ steps \in Seq(StepsOver(VenueSet))
  BY <1>2, <1>3, <1>4, StatesStayWithin, Zenon
<1>6. ASSUME NEW i \in 1..Len(steps)
      PROVE  /\ steps[i].kind \in {"withdraw", "transfer"}
             /\ steps[i].amount > WithdrawFee /\ steps[i].from # steps[i].to
  <2>1. SoundStep(VenueSet, steps[i], WithdrawFee) /\ steps[i] \in StepsOver(VenueSet)
    BY <1>5 DEF StaysWithinTarget
  <2> DEFINE s == steps[i]
  <2> HIDE DEF s
  <2>2. SoundStep(VenueSet, s, WithdrawFee) /\ s \in StepsOver(VenueSet)
    BY <2>1, Zenon DEF s
  <2>3. s.kind \in {"transfer", "sell", "buy", "withdraw"}
    BY <2>2 DEF StepsOver
  <2>4. ~(s.kind \in {"sell", "buy"})
    <3>1. SUFFICES ASSUME s.kind \in {"sell", "buy"} PROVE FALSE
      OBVIOUS
    <3>2. IsCex(s.from) /\ s.from \in VenueSet /\ \E w \in VenueSet : IsCex(w) /\ w # s.from
      BY <3>1, <2>2 DEF SoundStep, StepsOver
    <3> QED
      BY <3>2 DEF IsCex, VenueSet
  <2>5. s.kind \in {"transfer", "withdraw"} /\ s.amount > WithdrawFee /\ s.from # s.to
    BY <2>2, <2>3, <2>4 DEF SoundStep
  <2> QED
    BY <2>5 DEF s
<1>7. \A v \in VenueSet : Leaving(steps, v) > 0 => held[v] - Leaving(steps, v) >= MinBalance
  BY <1>5, Zenon DEF StaysWithinTarget
<1> QED
  BY <1>5, <1>6, <1>7, Zenon DEF StepsLeft

\* The first of the steps that are left.
LEMMA FirstStep ==
  ASSUME Typed, PlanLeft, reb.at \in Active
  PROVE  /\ From \in VenueSet /\ To \in VenueSet /\ From # To
         /\ Amount \in Int /\ Amount > WithdrawFee /\ Amount > 0
         /\ Head(reb.steps) = reb.steps[1]
<1> DEFINE steps == reb.steps
<1>1. steps \in Seq(StepsOver(VenueSet)) /\ steps # <<>>
  BY DEF Typed, PlanLeft, RebTypes, Active, Planned
<1>2. \A i \in 1..Len(steps) :
        /\ steps[i].kind \in {"withdraw", "transfer"} /\ steps[i].amount > WithdrawFee
        /\ steps[i].from # steps[i].to
  BY Zenon DEF PlanLeft, StepsLeft
<1>3. Head(steps) = steps[1] /\ 1 \in 1..Len(steps)
  BY <1>1
<1>4. steps[1] \in StepsOver(VenueSet)
  BY <1>1, <1>3
<1> DEFINE first == steps[1]
<1>5. From = first.from /\ To = first.to /\ Amount = first.amount
  BY <1>3, Zenon DEF From, To, Amount
<1>6. first \in StepsOver(VenueSet) /\ first.amount > WithdrawFee /\ first.from # first.to
  BY <1>2, <1>3, <1>4, Zenon
<1> HIDE DEF first
<1>7. first.from \in VenueSet /\ first.to \in VenueSet /\ first.amount \in Int
  BY <1>6 DEF StepsOver
<1>8. Amount > 0
  BY <1>5, <1>6, <1>7, ConfigAssumption
<1> QED
  BY <1>3, <1>5, <1>6, <1>7, <1>8

\* The rest of the steps are left when the first is done.
LEMMA RestLeft ==
  ASSUME NEW steps, NEW held \in [VenueSet -> Int], StepsLeft(steps, held), Len(steps) # 1, steps # <<>>
  PROVE  StepsLeft(Tail(steps), held) /\ Tail(steps) # <<>>
<1> DEFINE rest == Tail(steps)
<1>1. steps \in Seq(StepsOver(VenueSet))
  BY DEF StepsLeft
<1>2. /\ rest \in Seq(StepsOver(VenueSet)) /\ rest # <<>> /\ Len(rest) = Len(steps) - 1
      /\ Len(steps) \in Nat /\ Len(steps) > 1
      /\ \A i \in 1..Len(rest) : rest[i] = steps[i + 1]
  <2>1. Len(steps) \in Nat /\ Len(steps) # 0
    BY <1>1
  <2>2. Len(steps) > 1
    <3> DEFINE n == Len(steps)
    <3>1. n \in Nat /\ n # 0 /\ n # 1
      BY <2>1, Zenon
    <3> HIDE DEF n
    <3>2. n > 1
      BY <3>1
    <3> QED
      BY <3>2 DEF n
  <2>3. rest \in Seq(StepsOver(VenueSet)) /\ Len(rest) = Len(steps) - 1
    BY <1>1, <2>2
  <2>4. rest # <<>>
    <3>1. Len(rest) # 0
      BY <2>1, <2>2, <2>3
    <3> HIDE DEF rest
    <3> QED
      BY <3>1
  <2>5. \A i \in 1..Len(rest) : rest[i] = steps[i + 1]
    BY <1>1, <2>2, <2>3
  <2> QED
    BY <2>1, <2>2, <2>3, <2>4, <2>5
<1>3. \A i \in 1..Len(steps) :
        /\ steps[i].kind \in {"withdraw", "transfer"} /\ steps[i].amount > WithdrawFee
        /\ steps[i].from # steps[i].to
  BY Zenon DEF StepsLeft
<1>4. ASSUME NEW i \in 1..Len(rest)
      PROVE  /\ rest[i].kind \in {"withdraw", "transfer"} /\ rest[i].amount > WithdrawFee
             /\ rest[i].from # rest[i].to
  <2>1. i + 1 \in 1..Len(steps) /\ rest[i] = steps[i + 1]
    BY <1>2
  <2> HIDE DEF rest
  <2> QED
    BY <1>3, <2>1
<1>5. ASSUME NEW v \in VenueSet, Leaving(rest, v) > 0 PROVE held[v] - Leaving(rest, v) >= MinBalance
  <2>1. /\ Leaving(rest, v) \in Int /\ Leaves(steps[1], v) \in Int
        /\ Leaving(steps, v) = Leaves(steps[1], v) + Leaving(rest, v)
    BY <1>1, LeavingTail
  <2> HIDE DEF rest
  <2>2. Leaves(steps[1], v) >= 0
    <3>1. steps[1].amount > WithdrawFee /\ steps[1] \in StepsOver(VenueSet)
      BY <1>1, <1>2, <1>3
    <3>2. steps[1].amount \in Int /\ steps[1].amount > 0
      BY <3>1, ConfigAssumption DEF StepsOver
    <3> QED
      BY <3>2 DEF Leaves
  <2>3. Leaving(steps, v) > 0
    BY <1>5, <2>1, <2>2
  <2>4. held[v] - Leaving(steps, v) >= MinBalance
    BY <2>3 DEF StepsLeft
  <2>5. held[v] \in Int /\ MinBalance \in Int
    BY ConfigAssumption
  <2> QED
    BY <2>1, <2>2, <2>4, <2>5
<1> QED
  BY <1>2, <1>4, <1>5, Zenon DEF StepsLeft

\* No steps are left of a plan that has ended.
LEMMA NoneLeft ==
  ASSUME NEW held PROVE StepsLeft(<<>>, held)
BY NothingMoved DEF StepsLeft

\* Going on to the next step, or returning after the last.
LEMMA GoesOn ==
  ASSUME Typed, PlanLeft, reb.at \in Active, NextStep
  PROVE  /\ reb' \in RebTypes /\ PlanLeft'
         /\ (pause' = "no" /\ reb'.at = "sleep") \/ (pause' = pause /\ reb'.at = "validate")
<1>1. reb \in RebTypes /\ reb.steps # <<>> /\ StepsLeft(reb.steps, reb.snap)
  BY DEF Typed, PlanLeft, RebTypes, Active, Planned
<1>2. reb.snap \in [VenueSet -> Int] /\ reb.steps \in Seq(StepsOver(VenueSet))
  BY <1>1 DEF RebTypes
<1>3. CASE Len(reb.steps) = 1
  <2>1. reb' = [at |-> "sleep", steps |-> <<>>, snap |-> reb.snap] /\ pause' = "no"
    BY <1>3 DEF NextStep, Return
  <2>2. reb'.at = "sleep" /\ reb'.steps = <<>> /\ reb'.snap = reb.snap /\ reb' \in RebTypes
    BY <1>2, <2>1 DEF RebTypes
  <2>3. StepsLeft(reb'.steps, reb'.snap)
    BY <2>2, NoneLeft, Zenon
  <2> QED
    BY <2>1, <2>2, <2>3 DEF PlanLeft, Active, Planned
<1>4. CASE Len(reb.steps) # 1
  <2>1. reb' = [reb EXCEPT !.at = "validate", !.steps = Tail(@)] /\ pause' = pause
    BY <1>4 DEF NextStep
  <2>2. StepsLeft(Tail(reb.steps), reb.snap) /\ Tail(reb.steps) # <<>>
    BY <1>1, <1>2, <1>4, RestLeft
  <2>3. Tail(reb.steps) \in Seq(StepsOver(VenueSet))
    BY <2>2 DEF StepsLeft
  <2>4. /\ reb'.at = "validate" /\ reb'.steps = Tail(reb.steps) /\ reb'.snap = reb.snap
        /\ reb' \in RebTypes
    BY <1>1, <2>1, <2>3, Zenon DEF RebTypes, Active, Planned
  <2>5. StepsLeft(reb'.steps, reb'.snap)
    BY <2>2, <2>4, Zenon
  <2> QED
    BY <2>1, <2>2, <2>4, <2>5 DEF PlanLeft
<1> QED
  BY <1>3, <1>4

\* Returning.
LEMMA GoesHome ==
  ASSUME Typed, PlanLeft, NEW at \in {"sleep", "stopped"}, Return(at)
  PROVE  reb' \in RebTypes /\ PlanLeft' /\ pause' = "no" /\ reb'.at = at
<1>1. reb.snap \in [VenueSet -> Int]
  BY DEF Typed, RebTypes
<1>2. reb' = [at |-> at, steps |-> <<>>, snap |-> reb.snap] /\ pause' = "no"
  BY DEF Return
<1>3. reb'.at = at /\ reb'.steps = <<>> /\ reb'.snap = reb.snap /\ reb' \in RebTypes
  BY <1>1, <1>2 DEF RebTypes
<1>4. StepsLeft(reb'.steps, reb'.snap)
  BY <1>3, NoneLeft, Zenon
<1> QED
  BY <1>2, <1>3, <1>4 DEF PlanLeft, Active, Planned

\* Going on within a step.
LEMMA GoesThrough ==
  ASSUME Typed, PlanLeft, reb.at \in Planned, NEW at \in Active, reb' = [reb EXCEPT !.at = at]
  PROVE  reb' \in RebTypes /\ PlanLeft' /\ reb'.at = at
<1>1. reb \in RebTypes /\ reb.steps # <<>> /\ StepsLeft(reb.steps, reb.snap)
  BY DEF Typed, PlanLeft, RebTypes
<1>2. reb' \in RebTypes /\ reb'.at = at /\ reb'.steps = reb.steps /\ reb'.snap = reb.snap
  BY <1>1 DEF RebTypes, Planned
<1> QED
  BY <1>1, <1>2, Zenon DEF PlanLeft

\* A book never tracks a negative amount.
LEMMA BooksAreTyped ==
  ASSUME NEW b \in Books
  PROVE  \A a \in DOMAIN b : b[a].free >= 0
BY DEF Books, Entries

\* The types are those of TypeOK.
LEMMA TypedIsTypeOK ==
  ASSUME Typed PROVE TypeOK
<1>1. \A v \in VenueSet : \A a \in DOMAIN book[v] : book[v][a].free >= 0
  BY BooksAreTyped DEF Typed
<1>2. main.at \in {"tick", "sync", "verify", "compare", "wallet", "wallet_apply"}
  BY DEF Typed
<1>3. reb.at \in {"sleep", "alert", "validate", "submit", "confirm", "stopped"}
  BY DEF Typed, RebTypes, Active, Planned
<1> QED
  BY <1>1, <1>2, <1>3 DEF TypeOK, Typed

\* The types, initially.
LEMMA TypedInit ==
  ASSUME Init PROVE Typed
<1>1. actual \in [VenueSet -> Nat]
  BY StartAssumption DEF Init
<1>2. \A v \in VenueSet : UpdateFromWallet(<<>>, Reported(actual[v])) \in Books
  BY <1>1, WalletBook
<1>3. book \in [VenueSet -> Books] /\ config \in ConfigTypes
  <2>1. config \in ConfigTypes /\ actual["binance"] \in Nat
    BY <1>1 DEF Init, ConfigTypes, VenueSet
  <2>2. PICK b \in UpdateFromCex(<<>>, CexReport(config.side, actual["binance"]), config.chain) :
          book = [v \in VenueSet |-> IF v = "binance" THEN b ELSE UpdateFromWallet(<<>>, Reported(actual[v]))]
    BY Zenon DEF Init
  <2>3. b \in Books
    BY <2>1, CexBook, Zenon
  <2> QED
    BY <1>2, <2>1, <2>2, <2>3, Zenon
<1>4. reb \in RebTypes
  <2>1. reb = [at |-> "sleep", steps |-> <<>>, snap |-> actual]
    BY DEF Init
  <2>2. actual \in [VenueSet -> Int]
    BY <1>1
  <2> QED
    BY <2>1, <2>2 DEF RebTypes
<1>5. /\ transit \in [VenueSet -> Nat] /\ main = [at |-> "tick", seen |-> 0] /\ tick = "idle"
      /\ pause = "no" /\ halted = "no" /\ moved = "no"
      /\ late = 0 /\ fills = 0 /\ plans = 0 /\ syncs = 0
  BY DEF Init
<1>6. fills \in 0..MaxFills /\ plans \in 0..MaxPlans /\ syncs \in 0..MaxSyncs
  BY <1>5, BoundsAssumption
<1> QED
  BY <1>1, <1>3, <1>4, <1>5, <1>6 DEF Typed

\* A sync writes a book.
LEMMA BookWritten ==
  ASSUME book \in [VenueSet -> Books], NEW v \in VenueSet, NEW b \in Books, book' = [book EXCEPT ![v] = b]
  PROVE  book' \in [VenueSet -> Books] /\ book'[v] = b
OBVIOUS

\* A plan that is made: from what the tracker holds.
LEMMA PlanBegins ==
  ASSUME Typed, RebalanceCheck
  PROVE  reb' \in RebTypes /\ PlanLeft' /\ reb'.at = "alert"
<1> DEFINE held == Holding(book)
           no == FALSE
           steps == PlanExecutable(Venues, held, Threshold, MinBalance, WithdrawFee, no)
<1>1. steps # <<>> /\ reb' = [at |-> "alert", steps |-> steps, snap |-> held]
  BY Zenon DEF RebalanceCheck
<1>2. held \in [VenueSet -> Int]
  BY HoldingType DEF Typed
<1>3. steps = PlanExecutable(Venues, held, Threshold, MinBalance, WithdrawFee, no)
  OBVIOUS
<1> HIDE DEF steps, no, held
<1>4. StepsLeft(steps, held)
  BY <1>1, <1>2, <1>3, PlanMade, Zenon
<1>5. steps \in Seq(StepsOver(VenueSet))
  BY <1>4 DEF StepsLeft
<1>6. reb' \in RebTypes /\ reb'.at = "alert" /\ reb'.steps = steps /\ reb'.snap = held
  BY <1>1, <1>2, <1>5 DEF RebTypes, Planned
<1> QED
  BY <1>1, <1>4, <1>6, Zenon DEF PlanLeft

\* Every step preserves the types.
LEMMA TypedNext ==
  ASSUME Typed, PlanLeft, [Next]_vars
  PROVE  Typed'
<1> USE DEF Typed
<1>1. CASE TickBegin
  BY <1>1 DEF TickBegin
<1>2. CASE TickEnd
  <2>1. late' \in Nat
    BY <1>2 DEF TickEnd
  <2> QED
    BY <1>2, <2>1 DEF TickEnd
<1>3. CASE SyncFetch
  <2>1. actual["binance"] \in Nat
    BY DEF VenueSet
  <2>2. main' \in [at : {"tick", "sync", "verify", "compare", "wallet", "wallet_apply"}, seen : Nat]
    BY <1>3, <2>1 DEF SyncFetch
  <2>3. syncs' \in 0..MaxSyncs /\ moved' \in {"yes", "no"}
    BY <1>3, BoundsAssumption DEF SyncFetch
  <2> QED
    BY <1>3, <2>2, <2>3 DEF SyncFetch
<1>4. CASE SyncApply
  <2>1. PICK b \in UpdateFromCex(book["binance"], CexReport(config.side, main.seen), config.chain) : book' = [book EXCEPT !["binance"] = b]
    BY <1>4, Zenon DEF SyncApply
  <2>2. main.seen \in Nat /\ book["binance"] \in Books /\ "binance" \in VenueSet
    BY DEF VenueSet
  <2>3. b \in Books
    BY <2>2, CexBook, Zenon
  <2>4. book' \in [VenueSet -> Books]
    BY <2>1, <2>2, <2>3, BookWritten
  <2>5. main' \in [at : {"tick", "sync", "verify", "compare", "wallet", "wallet_apply"}, seen : Nat]
    BY <1>4 DEF SyncApply
  <2> QED
    BY <1>4, <2>4, <2>5 DEF SyncApply
<1>5. CASE VerifyFetch
  <2>1. actual["binance"] \in Nat
    BY DEF VenueSet
  <2>2. main' \in [at : {"tick", "sync", "verify", "compare", "wallet", "wallet_apply"}, seen : Nat]
    BY <1>5, <2>1 DEF VerifyFetch
  <2> QED
    BY <1>5, <2>2 DEF VerifyFetch
<1>6. CASE VerifyCompare
  <2>1. main' \in [at : {"tick", "sync", "verify", "compare", "wallet", "wallet_apply"}, seen : Nat]
    BY <1>6 DEF VerifyCompare
  <2>2. halted' \in {"yes", "no"}
    BY <1>6, Zenon DEF VerifyCompare
  <2> QED
    BY <1>6, <2>1, <2>2 DEF VerifyCompare
<1>7. CASE WalletFetch
  <2>1. actual["wallet"] \in Nat
    BY DEF VenueSet
  <2>2. main' \in [at : {"tick", "sync", "verify", "compare", "wallet", "wallet_apply"}, seen : Nat]
    BY <1>7, <2>1 DEF WalletFetch
  <2> QED
    BY <1>7, <2>2 DEF WalletFetch
<1>8. CASE WalletApply
  <2>1. main.seen \in Nat /\ book["wallet"] \in Books /\ "wallet" \in VenueSet
    BY DEF VenueSet
  <2>2. UpdateFromWallet(book["wallet"], Reported(main.seen)) \in Books
    BY <2>1, WalletBook
  <2>3. book' = [book EXCEPT !["wallet"] = UpdateFromWallet(book["wallet"], Reported(main.seen))]
    BY <1>8, <2>1, ReportDomain, Zenon DEF WalletApply
  <2>4. book' \in [VenueSet -> Books]
    BY <2>1, <2>2, <2>3, BookWritten
  <2>5. main' \in [at : {"tick", "sync", "verify", "compare", "wallet", "wallet_apply"}, seen : Nat]
    BY <1>8 DEF WalletApply
  <2> QED
    BY <1>8, <2>4, <2>5 DEF WalletApply
<1>9. CASE RebalanceCheck
  <2>1. reb' \in RebTypes
    BY <1>9, PlanBegins
  <2>2. plans' \in 0..MaxPlans
    BY <1>9, BoundsAssumption DEF RebalanceCheck
  <2> QED
    BY <1>9, <2>1, <2>2 DEF RebalanceCheck
<1>10. CASE RebalanceStop
  <2>1. reb' \in RebTypes
    BY <1>10, Zenon DEF RebalanceStop, RebTypes
  <2> QED
    BY <1>10, <2>1 DEF RebalanceStop
<1>11. CASE ValidateStep
  <2>1. reb.at \in Active
    BY <1>11 DEF ValidateStep, Active
  <2>2. reb' \in RebTypes /\ pause' \in {pause, "no"}
    <3>1. CASE NextStep
      BY <2>1, <3>1, GoesOn
    <3>2. CASE Return("sleep")
      BY <3>2, GoesHome
    <3>3. CASE reb' = [reb EXCEPT !.at = "submit"] /\ UNCHANGED pause
      BY <2>1, <3>3, GoesThrough DEF Active, Planned
    <3> QED
      BY <1>11, <3>1, <3>2, <3>3 DEF ValidateStep
  <2> QED
    BY <1>11, <2>2 DEF ValidateStep
<1>12. CASE SubmitStep
  <2>1. reb.at \in Active
    BY <1>12 DEF SubmitStep, Active
  <2>2. reb' \in RebTypes /\ pause' \in {pause, "no"}
    <3>1. CASE Return("sleep")
      BY <3>1, GoesHome
    <3>2. CASE reb' = [reb EXCEPT !.at = "confirm"] /\ UNCHANGED pause
      BY <2>1, <3>2, GoesThrough DEF Active, Planned
    <3> QED
      BY <1>12, <3>1, <3>2 DEF SubmitStep
  <2>3. actual' \in [VenueSet -> Nat] /\ transit' \in [VenueSet -> Nat] /\ moved' \in {"yes", "no"}
    <3>1. CASE UNCHANGED <<actual, transit, moved>>
      BY <3>1
    <3>2. CASE /\ actual[From] >= Amount
               /\ actual' = [actual EXCEPT ![From] = @ - Amount]
               /\ transit' = [transit EXCEPT ![To] = @ + Amount - (IF IsCex(From) THEN WithdrawFee ELSE 0)]
               /\ Moves(From)
      <4>1. From \in VenueSet /\ To \in VenueSet /\ Amount \in Int /\ Amount > WithdrawFee /\ Amount > 0
        BY <2>1, FirstStep
      <4>2. actual[From] - Amount \in Nat
        BY <3>2, <4>1
      <4>3. transit[To] + Amount - (IF IsCex(From) THEN WithdrawFee ELSE 0) \in Nat
        BY <4>1, ConfigAssumption
      <4>4. moved' \in {"yes", "no"}
        BY <3>2 DEF Moves
      <4> QED
        BY <3>2, <4>1, <4>2, <4>3, <4>4
    <3> QED
      BY <1>12, <3>1, <3>2, Zenon DEF SubmitStep
  <2> QED
    BY <1>12, <2>2, <2>3 DEF SubmitStep
<1>13. CASE ConfirmStep
  <2>1. reb.at \in Active
    BY <1>13 DEF ConfirmStep, Active
  <2>2. reb' \in RebTypes /\ pause' \in {pause, "no"}
    <3>1. CASE NextStep
      BY <2>1, <3>1, GoesOn
    <3>2. CASE Return("sleep")
      BY <3>2, GoesHome
    <3> QED
      BY <1>13, <3>1, <3>2 DEF ConfirmStep
  <2> QED
    BY <1>13, <2>2 DEF ConfirmStep
<1>14. ASSUME NEW v \in VenueSet, Credit(v) PROVE Typed'
  <2>1. actual' \in [VenueSet -> Nat] /\ transit' \in [VenueSet -> Nat] /\ moved' \in {"yes", "no"}
    BY <1>14 DEF Credit, Moves
  <2> QED
    BY <1>14, <2>1 DEF Credit
<1>15. ASSUME NEW v \in VenueSet, NEW d \in {-2, 2}, Fill(v, d) PROVE Typed'
  <2>1. actual' \in [VenueSet -> Nat] /\ moved' \in {"yes", "no"} /\ fills' \in 0..MaxFills
    BY <1>15, BoundsAssumption DEF Fill, Moves
  <2> QED
    BY <1>15, <2>1 DEF Fill
<1>16. CASE UNCHANGED vars
  BY <1>16 DEF vars
<1>17. CASE PauseTrading
  <2>1. reb' \in RebTypes
    BY <1>17, GoesThrough DEF PauseTrading, Active, Planned
  <2>2. pause' \in {"yes", "no"} /\ late' \in Nat
    BY <1>17 DEF PauseTrading
  <2> QED
    BY <1>17, <2>1, <2>2 DEF PauseTrading
<1> QED
  BY <1>1, <1>2, <1>3, <1>4, <1>5, <1>6, <1>7, <1>8, <1>9, <1>10, <1>11, <1>12, <1>13, <1>14, <1>15, <1>16, <1>17, Zenon
     DEF Next, MainStep, RebalanceStep

\* Every step leaves of the plan what is left of it.
LEMMA PlanLeftNext ==
  ASSUME Typed, PlanLeft, [Next]_vars
  PROVE  PlanLeft'
<1>1. CASE reb' = reb
  BY <1>1, Zenon DEF PlanLeft
<1>2. CASE RebalanceCheck
  BY <1>2, PlanBegins
<1>3. CASE RebalanceStop
  <2>1. reb'.at = "stopped" /\ reb'.steps = reb.steps /\ reb'.snap = reb.snap
    BY <1>3 DEF RebalanceStop, Typed, RebTypes
  <2> QED
    BY <2>1 DEF PlanLeft, Active, Planned
<1>4. CASE ValidateStep
  <2>1. reb.at \in Active
    BY <1>4 DEF ValidateStep, Active
  <2>2. CASE NextStep
    BY <2>1, <2>2, GoesOn
  <2>3. CASE Return("sleep")
    BY <2>3, GoesHome
  <2>4. CASE reb' = [reb EXCEPT !.at = "submit"]
    BY <2>1, <2>4, GoesThrough DEF Active, Planned
  <2> QED
    BY <1>4, <2>2, <2>3, <2>4 DEF ValidateStep
<1>5. CASE SubmitStep
  <2>1. reb.at \in Active
    BY <1>5 DEF SubmitStep, Active
  <2>2. CASE Return("sleep")
    BY <2>2, GoesHome
  <2>3. CASE reb' = [reb EXCEPT !.at = "confirm"]
    BY <2>1, <2>3, GoesThrough DEF Active, Planned
  <2> QED
    BY <1>5, <2>2, <2>3 DEF SubmitStep
<1>6. CASE ConfirmStep
  <2>1. reb.at \in Active
    BY <1>6 DEF ConfirmStep, Active
  <2>2. CASE NextStep
    BY <2>1, <2>2, GoesOn
  <2>3. CASE Return("sleep")
    BY <2>3, GoesHome
  <2> QED
    BY <1>6, <2>2, <2>3 DEF ConfirmStep
<1>7. MainStep => reb' = reb
  BY DEF MainStep, TickBegin, TickEnd, SyncFetch, SyncApply, VerifyFetch, VerifyCompare, WalletFetch, WalletApply
<1>8. \A v \in VenueSet : Credit(v) \/ (\E d \in {-2, 2} : Fill(v, d)) => reb' = reb
  BY DEF Credit, Fill
<1>9. CASE PauseTrading
  BY <1>9, GoesThrough DEF PauseTrading, Active, Planned
<1> QED
  BY <1>1, <1>2, <1>3, <1>4, <1>5, <1>6, <1>7, <1>8, <1>9, Zenon DEF Next, RebalanceStep, vars

\* The pause stays with the plan.
LEMMA PausedNext ==
  ASSUME Typed, PlanLeft, Paused, [Next]_vars
  PROVE  Paused'
<1> USE DEF Paused, Live, Active, Planned
<1>1. CASE TickBegin
  BY <1>1 DEF TickBegin
<1>2. CASE TickEnd
  BY <1>2 DEF TickEnd, Typed
<1>3. CASE UNCHANGED <<config, reb, pause, late, tick>>
  BY <1>3
<1>4. CASE RebalanceCheck
  <2>1. reb'.at = "alert"
    BY <1>4, PlanBegins
  <2>2. reb.at = "sleep" /\ UNCHANGED <<config, pause, late, tick>>
    BY <1>4 DEF RebalanceCheck
  <2> QED
    BY <2>1, <2>2
<1>12. CASE PauseTrading
  <2>1. reb'.at = "validate"
    BY <1>12, GoesThrough DEF PauseTrading
  <2>2. reb.at = "alert" /\ late' = 0 /\ config' = config /\ tick' = tick
    BY <1>12 DEF PauseTrading
  <2>3. pause' = IF Live /\ config.pause_trading = "yes" THEN "yes" ELSE pause
    BY <1>12 DEF PauseTrading
  <2>4. pause = "no"
    BY <2>2 DEF Typed
  <2> QED
    BY <2>1, <2>2, <2>3, <2>4
<1>5. CASE RebalanceStop
  <2>1. reb'.at = "stopped" /\ reb.at = "sleep"
    BY <1>5 DEF RebalanceStop, Typed, RebTypes
  <2> QED
    BY <1>5, <2>1 DEF RebalanceStop
<1>6. CASE ValidateStep
  <2>1. reb.at \in Active /\ UNCHANGED <<config, late, tick>>
    BY <1>6 DEF ValidateStep
  <2>2. CASE NextStep
    BY <2>1, <2>2, GoesOn
  <2>3. CASE Return("sleep")
    <3>1. pause' = "no" /\ reb'.at = "sleep"
      BY <2>3, GoesHome
    <3> QED
      BY <3>1
  <2>4. CASE reb' = [reb EXCEPT !.at = "submit"] /\ UNCHANGED pause
    <3>1. reb'.at = "submit"
      BY <2>1, <2>4, GoesThrough
    <3> QED
      BY <2>1, <2>4, <3>1
  <2> QED
    BY <1>6, <2>2, <2>3, <2>4 DEF ValidateStep
<1>7. CASE SubmitStep
  <2>1. reb.at \in Active /\ UNCHANGED <<config, late, tick>>
    BY <1>7 DEF SubmitStep
  <2>2. CASE Return("sleep")
    <3>1. pause' = "no" /\ reb'.at = "sleep"
      BY <2>2, GoesHome
    <3> QED
      BY <3>1
  <2>3. CASE reb' = [reb EXCEPT !.at = "confirm"] /\ UNCHANGED pause
    <3>1. reb'.at = "confirm"
      BY <2>1, <2>3, GoesThrough
    <3> QED
      BY <2>1, <2>3, <3>1
  <2> QED
    BY <1>7, <2>2, <2>3 DEF SubmitStep
<1>8. CASE ConfirmStep
  <2>1. reb.at \in Active /\ UNCHANGED <<config, late, tick>>
    BY <1>8 DEF ConfirmStep
  <2>2. CASE NextStep
    BY <2>1, <2>2, GoesOn
  <2>3. CASE Return("sleep")
    <3>1. pause' = "no" /\ reb'.at = "sleep"
      BY <2>3, GoesHome
    <3> QED
      BY <3>1
  <2> QED
    BY <1>8, <2>2, <2>3 DEF ConfirmStep
<1>9. SyncFetch \/ SyncApply \/ VerifyFetch \/ VerifyCompare \/ WalletFetch \/ WalletApply
        => UNCHANGED <<config, reb, pause, late, tick>>
  BY DEF SyncFetch, SyncApply, VerifyFetch, VerifyCompare, WalletFetch, WalletApply
<1>10. \A v \in VenueSet : Credit(v) \/ (\E d \in {-2, 2} : Fill(v, d)) => UNCHANGED <<config, reb, pause, late, tick>>
  BY DEF Credit, Fill
<1>11. UNCHANGED vars => UNCHANGED <<config, reb, pause, late, tick>>
  BY DEF vars
<1> HIDE DEF Paused
<1> QED
  BY <1>1, <1>2, <1>3, <1>4, <1>5, <1>6, <1>7, <1>8, <1>9, <1>10, <1>11, <1>12, Zenon
     DEF Next, MainStep, RebalanceStep

\* The names stay: only a sync writes the exchange's book.
LEMMA NamedNext ==
  ASSUME Typed, Named, [Next]_vars
  PROVE  Named'
<1>1. config' = config
  BY Zenon DEF Next, MainStep, RebalanceStep, TickBegin, TickEnd, SyncFetch, SyncApply, VerifyFetch, VerifyCompare,
     WalletFetch, WalletApply, RebalanceCheck, PauseTrading, RebalanceStop, ValidateStep, SubmitStep, ConfirmStep,
     Credit, Fill, vars
<1>2. CASE book'["binance"] = book["binance"]
  BY <1>1, <1>2, Zenon DEF Named
<1>3. CASE SyncApply
  <2>1. PICK b \in UpdateFromCex(book["binance"], CexReport(config.side, main.seen), config.chain) : book' = [book EXCEPT !["binance"] = b]
    BY <1>3, Zenon DEF SyncApply
  <2>2. /\ main.seen \in Nat /\ book["binance"] \in Books /\ "binance" \in VenueSet
        /\ book \in [VenueSet -> Books] /\ config \in ConfigTypes
    BY DEF VenueSet, Typed
  <2>3. b \in Books /\ DOMAIN b \subseteq {CexKey(config.chain, a) : a \in DOMAIN config.side \cup {Asset}}
    BY <2>2, CexBook, Zenon
  <2>4. book'["binance"] = b
    BY <2>1, <2>2, <2>3, BookWritten
  <2> QED
    BY <1>1, <2>3, <2>4, Zenon DEF Named
<1>4. CASE WalletApply
  BY <1>2, <1>4 DEF WalletApply, Typed, VenueSet
<1>5. SyncApply \/ WalletApply \/ book' = book
  BY Zenon DEF Next, MainStep, RebalanceStep, TickBegin, TickEnd, SyncFetch, VerifyFetch, VerifyCompare,
     WalletFetch, RebalanceCheck, PauseTrading, RebalanceStop, ValidateStep, SubmitStep, ConfirmStep,
     Credit, Fill, vars
<1> QED
  BY <1>2, <1>3, <1>4, <1>5

\* A balance that moves is marked, unless it is not the exchange's.
LEMMA MovesMarks ==
  ASSUME Typed, NEW v \in VenueSet, NEW amount, actual' = [actual EXCEPT ![v] = amount], Moves(v)
  PROVE  moved' = "yes" \/ (moved' = moved /\ actual'["binance"] = actual["binance"])
BY DEF Typed, Moves, VenueSet

\* What was read stays fresh until the balance moves.
LEMMA FreshNext ==
  ASSUME Typed, PlanLeft, ReadIsFresh, [Next]_vars
  PROVE  ReadIsFresh'
<1> USE DEF ReadIsFresh
<1>1. CASE UNCHANGED <<config, main, book>> /\ (moved' = "yes" \/ (moved' = moved /\ actual'["binance"] = actual["binance"]))
  BY <1>1
<1>2. CASE SyncFetch
  BY <1>2 DEF SyncFetch
<1>3. CASE SyncApply
  <2>1. PICK b \in UpdateFromCex(book["binance"], CexReport(config.side, main.seen), config.chain) :
          book' = [book EXCEPT !["binance"] = b]
    BY <1>3, Zenon DEF SyncApply
  <2>2. /\ main.seen \in Nat /\ book["binance"] \in Books /\ "binance" \in VenueSet
        /\ book \in [VenueSet -> Books] /\ config \in ConfigTypes
    BY DEF VenueSet, Typed
  <2>3. b \in Books /\ Synced(config, b, main.seen)
    BY <2>2, CexBook, Zenon
  <2>4. book'["binance"] = b
    BY <2>1, <2>2, <2>3, BookWritten
  <2>5. main.at = "sync" /\ main'.at = "verify" /\ moved' = moved /\ actual' = actual /\ config' = config
    BY <1>3 DEF SyncApply, Typed
  <2> QED
    BY <2>3, <2>4, <2>5
<1>4. CASE VerifyFetch
  <2>1. main'.at \in {"compare", "wallet"} /\ UNCHANGED <<config, actual, book, moved>> /\ main.at = "verify"
    BY <1>4 DEF VerifyFetch
  <2>2. main'.at = "compare" => main'.seen = actual["binance"]
    BY <1>4 DEF VerifyFetch
  <2> QED
    BY <2>1, <2>2
<1>5. CASE VerifyCompare
  BY <1>5 DEF VerifyCompare
<1>6. CASE WalletFetch
  BY <1>6 DEF WalletFetch
<1>7. CASE WalletApply
  <2>1. main'.at = "tick"
    BY <1>7 DEF WalletApply
  <2> QED
    BY <2>1
<1> DEFINE Still == /\ UNCHANGED <<config, main, book>>
                    /\ moved' = "yes" \/ (moved' = moved /\ actual'["binance"] = actual["binance"])
<1>8. TickBegin \/ TickEnd \/ RebalanceCheck \/ PauseTrading \/ RebalanceStop \/ ValidateStep \/ ConfirmStep => Still
  BY Zenon DEF TickBegin, TickEnd, RebalanceCheck, PauseTrading, RebalanceStop, ValidateStep, ConfirmStep
<1>9. SubmitStep => Still
  <2>1. SUFFICES ASSUME SubmitStep PROVE Still
    OBVIOUS
  <2>2. reb.at \in Active /\ UNCHANGED <<config, main, book>>
    BY <2>1 DEF SubmitStep, Active
  <2>3. From \in VenueSet
    BY <2>2, FirstStep
  <2>4. CASE UNCHANGED <<actual, transit, moved>>
    BY <2>2, <2>4
  <2>5. CASE actual' = [actual EXCEPT ![From] = @ - Amount] /\ Moves(From)
    BY <2>2, <2>3, <2>5, MovesMarks, Zenon
  <2> QED
    BY <2>1, <2>4, <2>5, Zenon DEF SubmitStep
<1>10. ASSUME NEW v \in VenueSet, Credit(v) PROVE Still
  BY <1>10, MovesMarks, Zenon DEF Credit
<1>11. ASSUME NEW v \in VenueSet, NEW d \in {-2, 2}, Fill(v, d) PROVE Still
  BY <1>11, MovesMarks, Zenon DEF Fill
<1>12. UNCHANGED vars => Still
  BY DEF vars
<1>13. Still => ReadIsFresh'
  BY <1>1
<1> HIDE DEF ReadIsFresh, Still
<1> QED
  BY <1>2, <1>3, <1>4, <1>5, <1>6, <1>7, <1>8, <1>9, <1>10, <1>11, <1>12, <1>13, Zenon DEF Next, MainStep, RebalanceStep

\* The invariant of the two loops is inductive.
LEMMA TreasuryInvariant == Spec => []TreasuryInv
<1>1. Init => TreasuryInv
  <2> SUFFICES ASSUME Init PROVE TreasuryInv
    OBVIOUS
  <2>1. Typed
    BY TypedInit
  <2>2. reb.at = "sleep" /\ reb.steps = <<>> /\ pause = "no" /\ main.at = "tick"
    BY DEF Init
  <2>3. PlanLeft
    BY <2>2, NoneLeft DEF PlanLeft, Active, Planned
  <2>4. Paused
    BY <2>2 DEF Paused, Active
  <2>5. ReadIsFresh
    BY <2>2 DEF ReadIsFresh
  <2>6. Named
    <3>1. config \in ConfigTypes /\ actual["binance"] \in Nat
      BY <2>1 DEF Typed, VenueSet
    <3>2. PICK b \in UpdateFromCex(<<>>, CexReport(config.side, actual["binance"]), config.chain) :
            book = [v \in VenueSet |-> IF v = "binance" THEN b ELSE UpdateFromWallet(<<>>, Reported(actual[v]))]
      BY Zenon DEF Init
    <3>3. book["binance"] = b
      BY <3>2 DEF VenueSet
    <3> QED
      BY <3>1, <3>3, CexBook, Zenon DEF Named
  <2> QED
    BY <2>1, <2>3, <2>4, <2>5, <2>6 DEF TreasuryInv
<1>2. TreasuryInv /\ [Next]_vars => TreasuryInv'
  BY TypedNext, PlanLeftNext, PausedNext, NamedNext, FreshNext, Zenon DEF TreasuryInv
<1> QED
  BY <1>1, <1>2, PTL DEF Spec

\* Trading is paused exactly while a live plan is carried out, and at most one
\* signal is pushed meanwhile, for any holdings, configuration and interleaving of
\* the main loop, the rebalance loop, fills and credits (arb_bot.rs
\* `run_rebalance_check`, `tick`).
THEOREM PauseCoversPlan == Spec => []PauseMatchesPlan
<1>1. TreasuryInv => PauseMatchesPlan
  BY TypedIsTypeOK DEF TreasuryInv, PauseMatchesPlan, Paused, Active
<1> QED
  BY <1>1, TreasuryInvariant, PTL

\* A mismatch that halts the bot means that the exchange balance moved between
\* the two reads or that two readings name an asset differently, whatever the
\* tracker held before; and off Arbitrum a renamed asset halts it without fail
\* (arb_bot.rs `sync_cex_balance`, `verify_cex_balance`; tracker.rs
\* `update_from_cex`).
THEOREM HaltMeansMoved == Spec => MismatchMeansMoved
<1> DEFINE Verdict == main.at = "compare" /\ main'.at = "wallet" =>
                        /\ halted' # halted => moved = "yes" \/ NamesClash
                        /\ LostName => halted' = "yes"
<1>1. TreasuryInv /\ [Next]_vars => [Verdict]_vars
  <2> SUFFICES ASSUME TreasuryInv, [Next]_vars, main.at = "compare", main'.at = "wallet"
               PROVE  /\ halted' # halted => moved = "yes" \/ NamesClash
                      /\ LostName => halted' = "yes"
    OBVIOUS
  <2>1. VerifyCompare
    <3>1. MainStep => VerifyCompare
      BY DEF MainStep, TickBegin, TickEnd, SyncFetch, SyncApply, VerifyFetch, WalletFetch, WalletApply
    <3>2. main' # main
      OBVIOUS
    <3>3. ~RebalanceCheck /\ ~RebalanceStep /\ ~UNCHANGED vars
      BY <3>2, Zenon DEF RebalanceCheck, RebalanceStep, PauseTrading, RebalanceStop, ValidateStep, SubmitStep, ConfirmStep, vars
    <3>4. \A v \in VenueSet : ~Credit(v) /\ \A d \in {-2, 2} : ~Fill(v, d)
      BY <3>2 DEF Credit, Fill
    <3> QED
      BY <3>1, <3>3, <3>4, Zenon DEF Next
  <2>2. PICK kept \in Keyed("arbitrum", CexReport(config.side, main.seen)) :
          halted' = IF VerifyBalances(book["binance"], [a \in DOMAIN kept |-> Total(kept[a])], Tolerance) = {}
                    THEN halted ELSE "yes"
    BY <2>1, Zenon DEF VerifyCompare
  <2> DEFINE totals == [a \in DOMAIN kept |-> Total(kept[a])]
  <2>3. main.seen \in Nat /\ book["binance"] \in Books /\ moved \in {"yes", "no"} /\ config \in ConfigTypes /\ Named
    BY DEF TreasuryInv, Typed, VenueSet
  <2>4. ASSUME halted' # halted, moved # "yes", ~NamesClash PROVE FALSE
    <3>1. Synced(config, book["binance"], main.seen)
      BY <2>3, <2>4 DEF TreasuryInv, ReadIsFresh
    <3>2. totals = [a \in DOMAIN kept |-> Total(kept[a])]
      OBVIOUS
    <3> HIDE DEF totals
    <3>3. VerifyBalances(book["binance"], totals, Tolerance) = {}
      BY <2>3, <2>4, <3>1, <3>2, EqualMeansVerified, Zenon
    <3> QED
      BY <2>2, <2>4, <3>3, Zenon DEF totals
  <2>5. ASSUME LostName PROVE halted' = "yes"
    <3>1. totals = [a \in DOMAIN kept |-> Total(kept[a])]
      OBVIOUS
    <3> HIDE DEF totals
    <3>2. VerifyBalances(book["binance"], totals, Tolerance) # {}
      BY <2>3, <2>5, <3>1, LostMeansMismatch, Zenon
    <3> QED
      BY <2>2, <3>2, Zenon DEF totals
  <2> QED
    BY <2>4, <2>5
<1> QED
  BY <1>1, TreasuryInvariant, PTL DEF Spec, MismatchMeansMoved

\* The steps still to be carried out together leave each venue its minimum
\* operating balance of what the tracker held when they were planned.
PlanSparesMinimum ==
  \A v \in VenueSet : Leaving(reb.steps, v) > 0 => reb.snap[v] - Leaving(reb.steps, v) >= MinBalance

\* It holds through every step of a plan, for any holdings and configuration.
THEOREM MinimumIsSpared == Spec => []PlanSparesMinimum
<1>1. TreasuryInv => PlanSparesMinimum
  BY Zenon DEF TreasuryInv, PlanLeft, StepsLeft, PlanSparesMinimum
<1> QED
  BY <1>1, TreasuryInvariant, PTL
=============================================================================
