------------------------ MODULE ExecutionGuardsProofs ------------------------
(***************************************************************************)
(* Proofs about ExecutionGuards, for every set of calls, every assignment  *)
(* of signals to them and every setting of the breaker and of the replay   *)
(* protection: the breaker's pruned window decides as its full history     *)
(* would, a tripped breaker stops every later call, and the replay check   *)
(* lets no signal through that is marked and not expired, across restarts. *)
(***************************************************************************)
EXTENDS ExecutionGuards, FiniteSetTheorems, TLAPS

\* The provers a leaf is tried with unless it names its own.
USE SMTT(60), SMT, ZenonT(60)

-----------------------------------------------------------------------------
(* The inductive invariant.                                                *)

\* How many failures of the history the deque has dropped.
Dropped == Len(history) - Len(failures)

\* The deque is the end of the history, which is in order of time: what was
\* dropped had left the window of the last failure, what is kept had not.
WindowInv ==
  /\ \A j \in 1..Len(history) : history[j] <= now
  /\ \A j, k \in 1..Len(history) : j <= k => history[j] <= history[k]
  /\ Len(failures) <= Len(history)
  /\ \A k \in 1..Len(failures) : failures[k] = history[Dropped + k]
  /\ \A j \in 1..Dropped : history[j] <= history[Len(history)] - Window
  /\ \A j \in (Dropped + 1)..Len(history) : history[j] > history[Len(history)] - Window

\* What the replay memory says of a mark that this process knows of: it gives
\* its age to within a second, or has forgotten it because it had expired.  The
\* journal never expires an entry before a full TTL of the clock's range.
ReplayInv ==
  \A i \in Ids :
    /\ journal[i] # None => journal[i] >= TtlSecs
    /\ i \in durable =>
         /\ marked[i] # None /\ marked[i] <= now
         /\ executed[i] # None => marked[i] - executed[i] <= TicksPerSec
         /\ executed[i] = None => now - marked[i] > Ttl - TicksPerSec

\* BreakerMatchesHistory, its type part apart.
BreakerInv ==
  IF tripped_at = None
  THEN \A k \in 1..Len(history) : InWindow(history[k]) < Threshold
  ELSE InWindow(tripped_at) >= Threshold

IInv == TypeOK /\ TripStopsNewCalls /\ WindowInv /\ BreakerInv /\ ReplayInv

-----------------------------------------------------------------------------
(* Whole seconds.                                                          *)

\* The unix time of an instant is a natural number of whole seconds, the last
\* ones before it.
LEMMA WholeSeconds ==
  ASSUME NEW t \in Nat
  PROVE  /\ Unix(t) \in Nat
         /\ Unix(t) * TicksPerSec <= t
         /\ t < Unix(t) * TicksPerSec + TicksPerSec
<1>1. Unix(t) \in Nat
  BY DurationAssumption DEF Unix
<1>2. Unix(t) * TicksPerSec <= t
  BY DurationAssumption DEF Unix
<1>3. t < Unix(t) * TicksPerSec + TicksPerSec
  BY DurationAssumption DEF Unix
<1>4. QED
  BY <1>1, <1>2, <1>3

\* Fewer seconds are fewer ticks.
LEMMA TicksOrdered ==
  ASSUME NEW m \in Int, NEW n \in Int, m <= n
  PROVE  m * TicksPerSec <= n * TicksPerSec
BY DurationAssumption

\* The ticks between two instants differ from the whole seconds between them by
\* less than a second.
LEMMA SecondsApart ==
  ASSUME NEW s \in Nat, NEW t \in Nat
  PROVE  /\ (Unix(t) - Unix(s)) * TicksPerSec \in Int
         /\ (Unix(t) - Unix(s)) * TicksPerSec - (t - s) < TicksPerSec
         /\ (t - s) - (Unix(t) - Unix(s)) * TicksPerSec < TicksPerSec
<1>1. TicksPerSec \in Nat
  BY DurationAssumption
<1>2. /\ Unix(t) \in Nat /\ Unix(t) * TicksPerSec <= t
      /\ t < Unix(t) * TicksPerSec + TicksPerSec
  BY WholeSeconds
<1>3. /\ Unix(s) \in Nat /\ Unix(s) * TicksPerSec <= s
      /\ s < Unix(s) * TicksPerSec + TicksPerSec
  BY WholeSeconds
<1>4. (Unix(t) - Unix(s)) * TicksPerSec = Unix(t) * TicksPerSec - Unix(s) * TicksPerSec
  BY <1>1, <1>2, <1>3
<1>5. Unix(t) * TicksPerSec \in Nat /\ Unix(s) * TicksPerSec \in Nat
  BY <1>1, <1>2, <1>3
<1>6. QED
  BY <1>1, <1>2, <1>3, <1>4, <1>5

-----------------------------------------------------------------------------
(* The breaker.                                                            *)

\* The failures of a history h that fall in the window ending at t.
Counted(h, t) == {k \in 1..Len(h) : t - Window < h[k] /\ h[k] <= t}

\* They are finitely many.
LEMMA CountedFinite ==
  ASSUME NEW h \in Seq(0..MaxTime), NEW t
  PROVE  IsFiniteSet(Counted(h, t)) /\ Cardinality(Counted(h, t)) \in Nat
<1>1. Len(h) \in Nat
  OBVIOUS
<1>2. IsFiniteSet(1..Len(h))
  BY <1>1, FS_Interval
<1>3. Counted(h, t) \subseteq 1..Len(h)
  BY DEF Counted
<1>4. IsFiniteSet(Counted(h, t))
  BY <1>2, <1>3, FS_Subset
<1>5. QED
  BY <1>4, FS_CardinalityType

\* When all but the first d failures lie in the window of the last one, that
\* window holds Len(h) - d of them.
LEMMA LastWindow ==
  ASSUME NEW h \in Seq(0..MaxTime), NEW d \in 0..Len(h), NEW t \in Int,
         \A j \in 1..Len(h) : h[j] <= t,
         \A j \in 1..d : h[j] <= t - Window,
         \A j \in (d + 1)..Len(h) : h[j] > t - Window
  PROVE  Cardinality(Counted(h, t)) = Len(h) - d
<1>1. /\ Len(h) \in Nat /\ Window \in Nat \ {0} /\ MaxTime \in Nat
      /\ \A j \in 1..Len(h) : h[j] \in 0..MaxTime
  BY DurationAssumption
<1>2. Counted(h, t) = (d + 1)..Len(h)
  <2>1. ASSUME NEW k \in Counted(h, t) PROVE k \in (d + 1)..Len(h)
    <3>1. k \in 1..Len(h) /\ t - Window < h[k]
      BY DEF Counted
    <3>2. ~(h[k] <= t - Window)
      BY <3>1, <1>1
    <3>3. k \notin 1..d
      BY <3>2
    <3>4. QED
      BY <3>1, <3>3, <1>1
  <2>2. ASSUME NEW k \in (d + 1)..Len(h) PROVE k \in Counted(h, t)
    <3>1. k \in 1..Len(h)
      BY <1>1
    <3>2. t - Window < h[k]
      BY <1>1, <3>1
    <3>3. QED
      BY <3>1, <3>2 DEF Counted
  <2>3. QED
    BY <2>1, <2>2, Zenon
<1>3. Cardinality((d + 1)..Len(h)) = IF d + 1 > Len(h) THEN 0 ELSE Len(h) - (d + 1) + 1
  <2>1. d + 1 \in Int /\ Len(h) \in Int
    BY <1>1
  <2>2. QED
    BY <2>1, FS_Interval, Zenon
<1>4. QED
  BY <1>1, <1>2, <1>3

\* A failure at `now`, the breaker's cooldown not being over.
Fails ==
  LET fs == Append(failures, now)
  IN /\ \E n \in 0..Len(fs) : Popped(fs, n) /\ failures' = SubSeq(fs, n + 1, Len(fs))
     /\ history' = Append(history, now)
     /\ now' = now

\* What Append leaves and adds.
LEMMA AppendEntries ==
  ASSUME NEW S, NEW s \in Seq(S), NEW e \in S
  PROVE  /\ Len(s) \in Nat /\ Append(s, e) \in Seq(S) /\ Len(Append(s, e)) = Len(s) + 1
         /\ \A j \in 1..Len(s) : Append(s, e)[j] = s[j] /\ s[j] \in S
         /\ Append(s, e)[Len(s) + 1] = e
OBVIOUS

\* What is left when the first n entries are popped.
LEMMA PoppedEntries ==
  ASSUME NEW S, NEW s \in Seq(S), NEW n \in 0..Len(s)
  PROVE  /\ SubSeq(s, n + 1, Len(s)) \in Seq(S)
         /\ Len(SubSeq(s, n + 1, Len(s))) = Len(s) - n
         /\ \A k \in 1..(Len(s) - n) : SubSeq(s, n + 1, Len(s))[k] = s[n + k]
<1>1. Len(s) \in Nat /\ n \in Nat /\ n <= Len(s)
  OBVIOUS
<1>2. \A k \in 1..(Len(s) - n) : n + k = n + 1 + k - 1 /\ n + k \in 1..Len(s)
  BY <1>1
<1>3. Len(SubSeq(s, n + 1, Len(s))) = Len(s) - n
  BY <1>1
<1>4. \A k \in 1..(Len(s) - n) : SubSeq(s, n + 1, Len(s))[k] = s[n + k]
  BY <1>1
<1>5. SubSeq(s, n + 1, Len(s)) \in Seq(S)
  BY <1>1
<1>6. QED
  BY <1>3, <1>4, <1>5

\* The history after a failure.
LEMMA HistoryGrows ==
  ASSUME TypeOK, Fails
  PROVE  /\ Len(history) \in Nat /\ Len(history') = Len(history) + 1
         /\ \A j \in 1..Len(history) : history'[j] = history[j] /\ history[j] \in 0..MaxTime
         /\ history'[Len(history) + 1] = now
<1>1. history \in Seq(0..MaxTime) /\ now \in 0..MaxTime /\ history' = Append(history, now)
  BY DEF TypeOK, Fails
<1>2. /\ Len(history) \in Nat /\ Append(history, now) \in Seq(0..MaxTime)
      /\ Len(Append(history, now)) = Len(history) + 1
      /\ \A j \in 1..Len(history) :
           Append(history, now)[j] = history[j] /\ history[j] \in 0..MaxTime
      /\ Append(history, now)[Len(history) + 1] = now
  <2> DEFINE S == 0..MaxTime
  <2> HIDE DEF S
  <2>1. history \in Seq(S) /\ now \in S
    BY <1>1 DEF S
  <2>2. /\ Len(history) \in Nat /\ Append(history, now) \in Seq(S)
        /\ Len(Append(history, now)) = Len(history) + 1
        /\ \A j \in 1..Len(history) : Append(history, now)[j] = history[j] /\ history[j] \in S
        /\ Append(history, now)[Len(history) + 1] = now
    BY <2>1, AppendEntries
  <2>3. QED
    BY <2>2 DEF S
<1>3. QED
  BY <1>1, <1>2

\* What the deque is after a failure, entry by entry.
LEMMA DequeAfter ==
  ASSUME TypeOK, NEW n \in 0..Len(Append(failures, now)),
         failures' = SubSeq(Append(failures, now), n + 1, Len(Append(failures, now)))
  PROVE  /\ Len(failures) \in Nat
         /\ failures' \in Seq(0..MaxTime)
         /\ Len(failures') = Len(failures) + 1 - n
         /\ \A k \in 1..(Len(failures) + 1 - n) : failures'[k] = Append(failures, now)[n + k]
         /\ Len(Append(failures, now)) = Len(failures) + 1
         /\ \A k \in 1..Len(failures) : Append(failures, now)[k] = failures[k]
         /\ Append(failures, now)[Len(failures) + 1] = now
<1>1. failures \in Seq(0..MaxTime) /\ now \in 0..MaxTime
  BY DEF TypeOK
<1>2. /\ Len(failures) \in Nat /\ Append(failures, now) \in Seq(0..MaxTime)
      /\ Len(Append(failures, now)) = Len(failures) + 1
      /\ \A j \in 1..Len(failures) :
           Append(failures, now)[j] = failures[j] /\ failures[j] \in 0..MaxTime
      /\ Append(failures, now)[Len(failures) + 1] = now
  <2> DEFINE S == 0..MaxTime
  <2> HIDE DEF S
  <2>1. failures \in Seq(S) /\ now \in S
    BY <1>1 DEF S
  <2>2. /\ Len(failures) \in Nat /\ Append(failures, now) \in Seq(S)
        /\ Len(Append(failures, now)) = Len(failures) + 1
        /\ \A j \in 1..Len(failures) : Append(failures, now)[j] = failures[j] /\ failures[j] \in S
        /\ Append(failures, now)[Len(failures) + 1] = now
    BY <2>1, AppendEntries
  <2>3. QED
    BY <2>2 DEF S
<1> DEFINE fs == Append(failures, now)
<1> HIDE DEF fs
<1>3. n \in 0..Len(fs) /\ failures' = SubSeq(fs, n + 1, Len(fs))
  BY DEF fs
<1>4. /\ SubSeq(fs, n + 1, Len(fs)) \in Seq(0..MaxTime)
      /\ Len(SubSeq(fs, n + 1, Len(fs))) = Len(fs) - n
      /\ \A k \in 1..(Len(fs) - n) : SubSeq(fs, n + 1, Len(fs))[k] = fs[n + k]
  BY <1>2, <1>3, PoppedEntries DEF fs
<1>5. QED
  BY <1>2, <1>3, <1>4 DEF fs

\* A failure keeps the deque the end of the ordered history, cut where the
\* window of that failure begins.
LEMMA WindowKept ==
  ASSUME TypeOK, WindowInv, Fails
  PROVE  WindowInv'
<1> DEFINE fs == Append(failures, now)
           L == Len(history)
           M == Len(failures)
<1>1. /\ L \in Nat /\ Len(history') = L + 1
      /\ \A j \in 1..L : history'[j] = history[j] /\ history[j] \in 0..MaxTime
      /\ history'[L + 1] = now
  BY HistoryGrows
<1>2. PICK n \in 0..Len(fs) : Popped(fs, n) /\ failures' = SubSeq(fs, n + 1, Len(fs))
  BY Zenon DEF Fails
<1>3. /\ M \in Nat /\ Len(fs) = M + 1
      /\ Len(failures') = M + 1 - n
      /\ \A k \in 1..(M + 1 - n) : failures'[k] = fs[n + k]
      /\ \A k \in 1..M : fs[k] = failures[k]
      /\ fs[M + 1] = now
  BY <1>2, DequeAfter
<1> HIDE DEF fs
<1>4. n \in 0..(M + 1)
  BY <1>2, <1>3
<1>5. /\ Len(failures') = M + 1 - n
      /\ \A k \in 1..(M + 1 - n) : failures'[k] = fs[n + k]
      /\ \A k \in 1..M : fs[k] = failures[k]
      /\ fs[M + 1] = now
  BY <1>3
<1>6. /\ now \in 0..MaxTime /\ MaxTime \in Nat /\ Window \in Nat \ {0} /\ now' = now
      /\ M <= L
  BY DurationAssumption DEF TypeOK, Fails, WindowInv
<1>7. \A k \in 1..(M + 1) : fs[k] = history'[L - M + k]
  <2> SUFFICES ASSUME NEW k \in 1..(M + 1) PROVE fs[k] = history'[L - M + k]
    OBVIOUS
  <2>1. CASE k = M + 1
    BY <2>1, <1>1, <1>3, <1>5
  <2>2. CASE k \in 1..M
    <3>1. fs[k] = history[Dropped + k]
      BY <2>2, <1>5 DEF WindowInv
    <3>2. Dropped + k = L - M + k /\ L - M + k \in 1..L
      BY <2>2, <1>1, <1>3, <1>6 DEF Dropped
    <3>3. QED
      BY <3>1, <3>2, <1>1
  <2>3. QED
    BY <2>1, <2>2, <1>3
<1>8. Dropped' = L - M + n
  BY <1>1, <1>3, <1>4, <1>5, <1>6 DEF Dropped
<1>9. \A j \in 1..(L + 1) : history'[j] \in 0..MaxTime /\ history'[j] <= now
  BY <1>1, <1>6 DEF WindowInv
<1>10. \A j, k \in 1..(L + 1) : j <= k => history'[j] <= history'[k]
  <2> SUFFICES ASSUME NEW j \in 1..(L + 1), NEW k \in 1..(L + 1), j <= k
               PROVE  history'[j] <= history'[k]
    OBVIOUS
  <2>1. CASE k = L + 1
    BY <2>1, <1>1, <1>9
  <2>2. CASE k \in 1..L
    <3>1. j \in 1..L
      BY <2>2, <1>1
    <3>2. history[j] <= history[k]
      BY <2>2, <3>1 DEF WindowInv
    <3>3. QED
      BY <2>2, <3>1, <3>2, <1>1
  <2>3. QED
    BY <2>1, <2>2, <1>1
<1>11. \A j \in 1..(L - M + n) : history'[j] <= now - Window
  <2> SUFFICES ASSUME NEW j \in 1..(L - M + n) PROVE history'[j] <= now - Window
    OBVIOUS
  <2>1. CASE j > L - M
    <3>1. j - (L - M) \in 1..n /\ j - (L - M) \in 1..(M + 1)
      BY <2>1, <1>1, <1>3, <1>4, <1>6
    <3>2. fs[j - (L - M)] <= now - Window
      BY <3>1, <1>2 DEF Popped
    <3>3. fs[j - (L - M)] = history'[L - M + (j - (L - M))]
      BY <3>1, <1>7
    <3>4. L - M + (j - (L - M)) = j
      BY <1>1, <1>3
    <3>5. QED
      BY <3>2, <3>3, <3>4
  <2>2. CASE j <= L - M
    <3>1. j \in 1..Dropped /\ j \in 1..L /\ L \in 1..L
      BY <2>2, <1>1, <1>3, <1>6 DEF Dropped
    <3>2. history[j] <= history[L] - Window
      BY <3>1 DEF WindowInv
    <3>3. history[L] <= now /\ history[L] \in 0..MaxTime /\ history[j] \in 0..MaxTime
      BY <3>1, <1>1 DEF WindowInv
    <3>4. history[j] <= now - Window
      BY <3>2, <3>3, <1>6
    <3>5. QED
      BY <3>1, <3>4, <1>1
  <2>3. QED
    BY <2>1, <2>2, <1>1, <1>3
<1>12. \A j \in (L - M + n + 1)..(L + 1) : history'[j] > now - Window
  <2> SUFFICES ASSUME NEW j \in (L - M + n + 1)..(L + 1) PROVE history'[j] > now - Window
    OBVIOUS
  <2>1. n < Len(fs) /\ n + 1 \in 1..(M + 1)
    BY <1>1, <1>3, <1>4, <1>6
  <2>2. fs[n + 1] > now - Window
    BY <2>1, <1>2 DEF Popped
  <2>3. fs[n + 1] = history'[L - M + (n + 1)]
    BY <2>1, <1>7
  <2>4. L - M + (n + 1) \in 1..(L + 1) /\ j \in 1..(L + 1) /\ L - M + (n + 1) <= j
    BY <2>1, <1>1, <1>3, <1>4, <1>6
  <2>5. history'[L - M + (n + 1)] <= history'[j]
    BY <2>4, <1>10
  <2>6. history'[L - M + (n + 1)] \in 0..MaxTime /\ history'[j] \in 0..MaxTime
    BY <2>4, <1>9
  <2>7. QED
    BY <2>2, <2>3, <2>5, <2>6, <1>6
<1>13. \A k \in 1..Len(failures') : failures'[k] = history'[Dropped' + k]
  <2> SUFFICES ASSUME NEW k \in 1..(M + 1 - n) PROVE failures'[k] = history'[Dropped' + k]
    BY <1>5, Zenon
  <2>1. n + k \in 1..(M + 1) /\ L - M + (n + k) = L - M + n + k
    BY <1>1, <1>3, <1>4
  <2>2. failures'[k] = fs[n + k]
    BY <1>5
  <2>3. fs[n + k] = history'[L - M + (n + k)]
    BY <2>1, <1>7
  <2>4. QED
    BY <2>1, <2>2, <2>3, <1>8
<1>14. Len(failures') <= Len(history')
  BY <1>1, <1>3, <1>4, <1>5, <1>6
<1>15. \A j \in 1..Dropped' : history'[j] <= history'[Len(history')] - Window
  BY <1>1, <1>8, <1>11
<1>16. \A j \in (Dropped' + 1)..Len(history') : history'[j] > history'[Len(history')] - Window
  BY <1>1, <1>8, <1>12
<1>17. QED
  BY <1>1, <1>6, <1>9, <1>10, <1>13, <1>14, <1>15, <1>16 DEF WindowInv


\* After a failure the window that ends now holds the failures of the deque.
LEMMA DequeCounts ==
  ASSUME TypeOK, TypeOK', Fails, WindowInv'
  PROVE  Cardinality(Counted(history', now)) = Len(failures')
<1>1. /\ Len(history) \in Nat /\ Len(history') = Len(history) + 1
      /\ history'[Len(history) + 1] = now
  BY HistoryGrows
<1>2. /\ history' \in Seq(0..MaxTime) /\ failures' \in Seq(0..MaxTime) /\ now \in Int
      /\ Len(failures') \in Nat /\ now' = now
  BY DEF TypeOK, Fails
<1>3. /\ \A j \in 1..Len(history') : history'[j] <= now
      /\ Len(failures') <= Len(history')
      /\ \A j \in 1..Dropped' : history'[j] <= now - Window
      /\ \A j \in (Dropped' + 1)..Len(history') : history'[j] > now - Window
  BY <1>1, <1>2 DEF WindowInv
<1>4. Dropped' \in 0..Len(history') /\ Len(history') - Dropped' = Len(failures')
  BY <1>1, <1>2, <1>3 DEF Dropped
<1>5. Cardinality(Counted(history', now)) = Len(history') - Dropped'
  BY <1>2, <1>3, <1>4, LastWindow, Zenon
<1>6. QED
  BY <1>4, <1>5

\* A failure keeps the breaker in agreement with its history, whether it trips it
\* or not.
LEMMA BreakerKept ==
  ASSUME TypeOK, TypeOK', WindowInv, WindowInv', BreakerInv, Fails,
         \/ Len(failures') >= Threshold /\ tripped_at = None /\ tripped_at' = now
         \/ ~(Len(failures') >= Threshold /\ tripped_at = None) /\ tripped_at' = tripped_at
  PROVE  BreakerInv'
<1> DEFINE L == Len(history)
<1>1. /\ L \in Nat /\ Len(history') = L + 1
      /\ \A j \in 1..L : history'[j] = history[j] /\ history[j] \in 0..MaxTime
      /\ history'[L + 1] = now
  BY HistoryGrows
<1>2. /\ history \in Seq(0..MaxTime) /\ history' \in Seq(0..MaxTime) /\ now \in 0..MaxTime
      /\ MaxTime \in Nat /\ Len(failures') \in Nat /\ Threshold \in Nat
  BY ThresholdAssumption, DurationAssumption DEF TypeOK
<1>3. Cardinality(Counted(history', now)) = Len(failures')
  BY DequeCounts
<1>4. /\ \A t : InWindow(t) = Cardinality(Counted(history, t))
      /\ InWindow(tripped_at)' = Cardinality(Counted(history', tripped_at'))
      /\ \A k : InWindow(history[k])' = Cardinality(Counted(history', history'[k]))
  BY DEF InWindow, Counted
<1>5. CASE Len(failures') >= Threshold /\ tripped_at = None /\ tripped_at' = now
  <2>1. tripped_at' # None
    BY <1>5, <1>2 DEF None
  <2>2. InWindow(tripped_at)' >= Threshold
    BY <1>3, <1>4, <1>5
  <2>3. QED
    BY <2>1, <2>2 DEF BreakerInv
<1>6. CASE tripped_at # None /\ tripped_at' = tripped_at
  <2>1. Cardinality(Counted(history, tripped_at)) >= Threshold
    BY <1>4, <1>6 DEF BreakerInv
  <2>2. Counted(history, tripped_at) \subseteq Counted(history', tripped_at)
    BY <1>1 DEF Counted
  <2>3. IsFiniteSet(Counted(history', tripped_at))
    BY <1>2, CountedFinite
  <2>4. Cardinality(Counted(history, tripped_at)) <= Cardinality(Counted(history', tripped_at))
    BY <2>2, <2>3, FS_Subset
  <2>5. /\ Cardinality(Counted(history, tripped_at)) \in Nat
        /\ Cardinality(Counted(history', tripped_at)) \in Nat
    BY <1>2, CountedFinite
  <2>6. InWindow(tripped_at)' >= Threshold
    BY <2>1, <2>4, <2>5, <1>2, <1>4, <1>6
  <2>7. QED
    BY <2>6, <1>6 DEF BreakerInv, None
<1>7. CASE Len(failures') < Threshold /\ tripped_at = None /\ tripped_at' = None
  <2>1. ASSUME NEW k \in 1..(L + 1)
        PROVE  Cardinality(Counted(history', history'[k])) < Threshold
    <3>1. CASE history'[k] = now
      BY <3>1, <1>3, <1>7
    <3>2. CASE history'[k] # now
      <4>1. k \in 1..L /\ history'[k] = history[k] /\ history[k] \in 0..MaxTime
        BY <3>2, <1>1
      <4>2. history[k] <= now
        BY <4>1 DEF WindowInv
      <4>3. history[k] < now
        BY <4>1, <4>2, <3>2, <1>2
      <4>4. Counted(history', history[k]) = Counted(history, history[k])
        <5> DEFINE t == history[k]
        <5>1. ~(history'[L + 1] <= t)
          BY <4>1, <4>3, <1>1, <1>2
        <5>2. \A j \in Counted(history', t) : j \in 1..L
          BY <5>1, <1>1 DEF Counted
        <5>3. Counted(history', t) \subseteq Counted(history, t)
          BY <5>2, <1>1 DEF Counted
        <5>4. Counted(history, t) \subseteq Counted(history', t)
          BY <1>1 DEF Counted
        <5>5. QED
          BY <5>3, <5>4, Zenon
      <4>5. Cardinality(Counted(history, history[k])) < Threshold
        BY <4>1, <1>4, <1>7 DEF BreakerInv
      <4>6. QED
        BY <4>1, <4>4, <4>5
    <3>3. QED
      BY <3>1, <3>2
  <2>2. \A k \in 1..Len(history') : InWindow(history[k])' < Threshold
    BY <2>1, <1>1, <1>4
  <2>3. QED
    BY <2>2, <1>7 DEF BreakerInv
<1>8. QED
  BY <1>2, <1>5, <1>6, <1>7


\* A reset leaves an empty window and a closed breaker.
LEMMA ClosedBreaker ==
  ASSUME Closed
  PROVE  WindowInv' /\ BreakerInv' /\ TripStopsNewCalls'
<1>1. Len(failures') = 0 /\ Len(history') = 0 /\ tripped_at' = None
  BY DEF Closed
<1>2. WindowInv'
  BY <1>1 DEF WindowInv, Dropped
<1>3. BreakerInv'
  BY <1>1 DEF BreakerInv
<1>4. TripStopsNewCalls'
  BY <1>1 DEF TripStopsNewCalls
<1>5. QED
  BY <1>2, <1>3, <1>4

\* Time alone changes nothing the breaker has decided.
LEMMA QuietBreaker ==
  ASSUME TypeOK, WindowInv, BreakerInv, UNCHANGED breaker, now' \in Int, now <= now'
  PROVE  WindowInv' /\ BreakerInv'
<1>1. UNCHANGED <<failures, history, tripped_at>>
  BY DEF breaker
<1>2. now \in Int /\ \A j \in 1..Len(history) : history[j] \in 0..MaxTime
  BY DurationAssumption DEF TypeOK
<1>3. \A j \in 1..Len(history) : history[j] <= now'
  BY <1>2, DurationAssumption DEF WindowInv
<1>4. WindowInv'
  BY <1>1, <1>3 DEF WindowInv, Dropped
<1>5. BreakerInv'
  BY <1>1 DEF BreakerInv, InWindow
<1>6. QED
  BY <1>4, <1>5

\* `record_failure_at` resets an expired breaker, or records the failure.
LEMMA FailureRecorded ==
  ASSUME RecordFailure, UNCHANGED now
  PROVE  \/ Closed
         \/ /\ Fails
            /\ \/ /\ Len(failures') >= Threshold /\ tripped_at = None
                  /\ tripped_at' = now /\ before_trip' = PastCheck
               \/ /\ ~(Len(failures') >= Threshold /\ tripped_at = None)
                  /\ tripped_at' = tripped_at /\ before_trip' = before_trip
BY DEF RecordFailure, Fails

\* What a step does to the breaker: nothing, a reset, or a failure.
LEMMA BreakerStep ==
  ASSUME TypeOK, [Next]_vars
  PROVE  \/ UNCHANGED breaker /\ now' \in Int /\ now <= now'
         \/ Closed
         \/ \E t \in Tasks : Report(t) /\ RecordFailure
<1>1. now \in Int
  BY DurationAssumption DEF TypeOK
<1>2. CASE UNCHANGED vars
  BY <1>1, <1>2 DEF vars
<1>3. ASSUME NEW t \in Tasks, TaskStep(t)
      PROVE  \/ UNCHANGED breaker /\ now' \in Int /\ now <= now'
             \/ Closed
             \/ Report(t) /\ RecordFailure
  <2>1. CASE CheckBreaker(t)
    BY <2>1, <1>1 DEF CheckBreaker, IsOpenEffect
  <2>2. CASE CheckReplay(t)
    BY <2>2, <1>1 DEF CheckReplay
  <2>3. CASE Validate(t)
    BY <2>3, <1>1 DEF Validate
  <2>4. CASE FinishLegs(t)
    BY <2>4, <1>1 DEF FinishLegs
  <2>5. CASE Report(t)
    BY <2>5, <1>1 DEF Report, IsOpenEffect
  <2>6. QED
    BY <1>3, <2>1, <2>2, <2>3, <2>4, <2>5 DEF TaskStep
<1>4. CASE PollBreaker
  BY <1>1, <1>4 DEF PollBreaker, IsOpenEffect
<1>5. CASE Advance
  BY <1>1, <1>5 DEF Advance
<1>6. CASE Restart
  BY <1>6 DEF Restart
<1>7. CASE Over
  BY <1>1, <1>7 DEF Over, vars
<1>8. QED
  BY <1>2, <1>3, <1>4, <1>5, <1>6, <1>7 DEF Next

\* Every step keeps the window and the breaker's decision.
LEMMA WindowNext ==
  ASSUME TypeOK, TypeOK', WindowInv, BreakerInv, [Next]_vars
  PROVE  WindowInv' /\ BreakerInv'
<1>1. CASE UNCHANGED breaker /\ now' \in Int /\ now <= now'
  BY <1>1, QuietBreaker
<1>2. CASE Closed
  BY <1>2, ClosedBreaker
<1>3. ASSUME NEW t \in Tasks, Report(t), RecordFailure, ~Closed
      PROVE  WindowInv' /\ BreakerInv'
  <2>1. /\ Fails
        /\ \/ Len(failures') >= Threshold /\ tripped_at = None /\ tripped_at' = now
           \/ ~(Len(failures') >= Threshold /\ tripped_at = None) /\ tripped_at' = tripped_at
    BY <1>3, FailureRecorded DEF Report
  <2>2. WindowInv'
    BY <2>1, WindowKept
  <2>3. QED
    BY <2>1, <2>2, BreakerKept
<1>4. QED
  BY <1>1, <1>2, <1>3, BreakerStep

-----------------------------------------------------------------------------
(* A tripped breaker.                                                      *)

\* The calls past the check and what a step makes of them.
LEMMA TripNext ==
  ASSUME TypeOK, TripStopsNewCalls, [Next]_vars
  PROVE  TripStopsNewCalls'
<1>1. pc \in [Tasks -> {"called", "replay", "fresh", "running", "report", "returned", "crashed"}]
  BY DEF TypeOK
<1>2. CASE UNCHANGED vars
  BY <1>2 DEF vars, breaker, TripStopsNewCalls, PastCheck
<1>3. ASSUME NEW t \in Tasks, TaskStep(t), ~Closed
      PROVE  TripStopsNewCalls'
  <2>1. CASE CheckBreaker(t)
    <3>1. UNCHANGED breaker /\ ~CooldownOver
      BY <2>1, <1>3 DEF CheckBreaker, IsOpenEffect
    <3>2. CASE tripped_at = None
      BY <3>1, <3>2 DEF breaker, TripStopsNewCalls
    <3>3. CASE tripped_at # None
      <4>1. pc' = [pc EXCEPT ![t] = "returned"]
        BY <2>1, <3>1, <3>3 DEF CheckBreaker, IsOpen
      <4>2. PastCheck' \subseteq PastCheck
        BY <4>1, <1>1 DEF PastCheck
      <4>3. QED
        BY <4>2, <3>1, <3>3 DEF breaker, TripStopsNewCalls
    <3>4. QED
      BY <3>2, <3>3
  <2>2. CASE CheckReplay(t) \/ Validate(t) \/ FinishLegs(t)
    <3>1. UNCHANGED breaker
      BY <2>2 DEF CheckReplay, Validate, FinishLegs
    <3>2. PastCheck' \subseteq PastCheck
      BY <2>2, <1>1 DEF CheckReplay, Validate, FinishLegs, PastCheck
    <3>3. QED
      BY <3>1, <3>2 DEF breaker, TripStopsNewCalls
  <2>3. CASE Report(t)
    <3>1. PastCheck' = PastCheck
      BY <2>3, <1>1 DEF Report, PastCheck
    <3>2. \/ UNCHANGED breaker
          \/ tripped_at' = now /\ before_trip' = PastCheck
          \/ tripped_at' = tripped_at /\ before_trip' = before_trip
      BY <2>3, <1>3, FailureRecorded DEF Report, IsOpenEffect
    <3>3. QED
      BY <3>1, <3>2 DEF breaker, TripStopsNewCalls
  <2>4. QED
    BY <1>3, <2>1, <2>2, <2>3 DEF TaskStep
<1>4. CASE ~Closed /\ (PollBreaker \/ Advance \/ Over)
  BY <1>4 DEF PollBreaker, IsOpenEffect, Advance, Over, vars, breaker, TripStopsNewCalls, PastCheck
<1>5. CASE Restart
  BY <1>5, ClosedBreaker DEF Restart
<1>6. QED
  BY <1>2, <1>3, <1>4, <1>5, ClosedBreaker DEF Next


-----------------------------------------------------------------------------
(* The replay protection.                                                  *)

ReplayTypes ==
  /\ executed \in [Ids -> 0..now \cup {None}] /\ journal \in [Ids -> Nat \cup {None}]
  /\ marked \in [Ids -> 0..MaxTime \cup {None}] /\ durable \subseteq Ids

\* What a step does to the replay protection: nothing, a cleanup, a mark, or the
\* reload of a restart.
LEMMA ReplayStep ==
  ASSUME TypeOK, [Next]_vars
  PROVE  \/ UNCHANGED replay /\ now' \in now..MaxTime
         \/ /\ executed' = CleanMemory /\ journal' = PrunedJournal
            /\ UNCHANGED <<now, marked, durable>>
         \/ \E i \in Ids : MarkExecuted(i) /\ UNCHANGED now
         \/ Restart
<1>1. now \in 0..MaxTime /\ MaxTime \in Nat
  BY DurationAssumption DEF TypeOK
<1>2. CASE UNCHANGED vars
  BY <1>1, <1>2 DEF vars
<1>3. ASSUME NEW t \in Tasks, TaskStep(t)
      PROVE  \/ UNCHANGED replay /\ now' \in now..MaxTime
             \/ /\ executed' = CleanMemory /\ journal' = PrunedJournal
                /\ UNCHANGED <<now, marked, durable>>
             \/ MarkExecuted(SignalOf[t]) /\ UNCHANGED now
  <2>1. CASE CheckBreaker(t)
    BY <2>1, <1>1 DEF CheckBreaker
  <2>2. CASE CheckReplay(t)
    BY <2>2 DEF CheckReplay
  <2>3. CASE Validate(t)
    BY <2>3, <1>1 DEF Validate
  <2>4. CASE FinishLegs(t)
    BY <2>4 DEF FinishLegs
  <2>5. CASE Report(t)
    BY <2>5, <1>1 DEF Report
  <2>6. QED
    BY <1>3, <2>1, <2>2, <2>3, <2>4, <2>5 DEF TaskStep
<1>4. CASE PollBreaker
  BY <1>1, <1>4 DEF PollBreaker
<1>5. CASE Advance
  BY <1>1, <1>5 DEF Advance
<1>6. CASE Over
  BY <1>1, <1>6 DEF Over, vars
<1>7. \A t \in Tasks : SignalOf[t] \in Ids
  BY DEF Ids
<1>8. QED
  BY <1>2, <1>3, <1>4, <1>5, <1>6, <1>7 DEF Next

\* Time passing.
LEMMA QuietReplay ==
  ASSUME TypeOK, ReplayInv, UNCHANGED replay, now' \in now..MaxTime
  PROVE  ReplayTypes' /\ ReplayInv'
<1>1. now \in Int /\ Ttl \in Int /\ TicksPerSec \in Nat /\ MaxTime \in Nat
  BY DurationAssumption DEF TypeOK, Ttl
<1>2. UNCHANGED <<executed, journal, marked, durable>> /\ now' \in Int /\ now <= now'
  BY <1>1 DEF replay
<1>3. ReplayTypes'
  BY <1>1, <1>2 DEF TypeOK, ReplayTypes
<1>4. ReplayInv'
  <2> SUFFICES ASSUME NEW i \in Ids
               PROVE  /\ journal'[i] # None => journal'[i] >= TtlSecs
                      /\ i \in durable' =>
                           /\ marked'[i] # None /\ marked'[i] <= now'
                           /\ executed'[i] # None => marked'[i] - executed'[i] <= TicksPerSec
                           /\ executed'[i] = None => now' - marked'[i] > Ttl - TicksPerSec
    BY DEF ReplayInv
  <2>1. marked[i] \in 0..MaxTime \cup {None}
    BY DEF TypeOK
  <2>2. marked[i] \in Int
    BY <2>1, <1>1 DEF None
  <2>3. QED
    BY <1>1, <1>2, <2>2 DEF ReplayInv
<1>5. QED
  BY <1>3, <1>4

\* `cleanup` forgets a mark only when it is older than the TTL, or older than it
\* to within the second by which the memory may be early.
LEMMA CleanReplay ==
  ASSUME TypeOK, ReplayInv, executed' = CleanMemory, journal' = PrunedJournal,
         UNCHANGED <<now, marked, durable>>
  PROVE  ReplayTypes' /\ ReplayInv'
<1>1. now \in Int /\ Ttl \in Int /\ TicksPerSec \in Nat /\ MaxTime \in Nat
  BY DurationAssumption DEF TypeOK, Ttl
<1>2. \A i \in Ids : /\ executed'[i] = IF Fresh(executed[i]) THEN executed[i] ELSE None
                     /\ journal'[i] = journal[i] \/ journal'[i] = None
  BY DEF CleanMemory, PrunedJournal
<1>3. ReplayTypes'
  <2>1. \A i \in Ids : /\ executed'[i] \in 0..now \cup {None}
                       /\ journal'[i] \in Nat \cup {None}
    BY <1>2 DEF TypeOK
  <2>2. executed' \in [Ids -> 0..now \cup {None}] /\ journal' \in [Ids -> Nat \cup {None}]
    BY <2>1 DEF CleanMemory, PrunedJournal
  <2>3. QED
    BY <2>2 DEF TypeOK, ReplayTypes
<1>4. ReplayInv'
  <2> SUFFICES ASSUME NEW i \in Ids
               PROVE  /\ journal'[i] # None => journal'[i] >= TtlSecs
                      /\ i \in durable' =>
                           /\ marked'[i] # None /\ marked'[i] <= now'
                           /\ executed'[i] # None => marked'[i] - executed'[i] <= TicksPerSec
                           /\ executed'[i] = None => now' - marked'[i] > Ttl - TicksPerSec
    BY DEF ReplayInv
  <2>1. journal'[i] # None => journal'[i] >= TtlSecs
    BY <1>2 DEF ReplayInv
  <2>2. marked[i] \in 0..MaxTime \cup {None} /\ executed[i] \in 0..now \cup {None}
    BY DEF TypeOK
  <2>3. marked[i] \in Int /\ executed[i] \in Int
    BY <2>2, <1>1 DEF None
  <2>4. CASE Fresh(executed[i])
    <3>1. executed'[i] = executed[i]
      BY <2>4, <1>2
    <3>2. QED
      BY <2>1, <3>1 DEF ReplayInv
  <2>5. CASE ~Fresh(executed[i])
    <3>1. executed'[i] = None
      BY <2>5, <1>2
    <3>2. executed[i] = None \/ now - executed[i] > Ttl
      BY <2>3, <2>5, <1>1 DEF Fresh
    <3>3. i \in durable => now - marked[i] > Ttl - TicksPerSec
      <4>1. CASE executed[i] = None
        BY <4>1 DEF ReplayInv
      <4>2. CASE executed[i] # None
        <5> SUFFICES ASSUME i \in durable PROVE now - marked[i] > Ttl - TicksPerSec
          OBVIOUS
        <5>1. marked[i] - executed[i] <= TicksPerSec
          BY <4>2 DEF ReplayInv
        <5>2. QED
          BY <5>1, <3>2, <4>2, <2>3, <1>1
      <4>3. QED
        BY <4>1, <4>2
    <3>4. QED
      BY <2>1, <3>1, <3>3 DEF ReplayInv
  <2>6. QED
    BY <2>4, <2>5
<1>5. QED
  BY <1>3, <1>4

\* `mark_executed` starts a new age, in memory at least.
LEMMA MarkReplay ==
  ASSUME TypeOK, ReplayInv, NEW m \in Ids, MarkExecuted(m), UNCHANGED now
  PROVE  ReplayTypes' /\ ReplayInv'
<1>1. /\ now \in 0..MaxTime /\ now \in Nat /\ Ttl \in Int /\ TicksPerSec \in Nat
      /\ TtlSecs \in Nat
  BY DurationAssumption DEF TypeOK, Ttl
<1>2. Unix(now) \in Nat
  BY <1>1, WholeSeconds
<1>3. /\ executed' = [executed EXCEPT ![m] = now] /\ marked' = [marked EXCEPT ![m] = now]
      /\ durable' = durable \cup {m}
      /\ journal' = [journal EXCEPT ![m] = Unix(now) + TtlSecs] \/ journal' = journal
  BY DEF MarkExecuted
<1>4. ReplayTypes'
  BY <1>1, <1>2, <1>3 DEF TypeOK, ReplayTypes
<1>5. ReplayInv'
  <2> SUFFICES ASSUME NEW i \in Ids
               PROVE  /\ journal'[i] # None => journal'[i] >= TtlSecs
                      /\ i \in durable' =>
                           /\ marked'[i] # None /\ marked'[i] <= now'
                           /\ executed'[i] # None => marked'[i] - executed'[i] <= TicksPerSec
                           /\ executed'[i] = None => now' - marked'[i] > Ttl - TicksPerSec
    BY DEF ReplayInv
  <2>1. journal'[i] = journal[i] \/ journal'[i] = Unix(now) + TtlSecs
    BY <1>3 DEF TypeOK
  <2>2. journal'[i] # None => journal'[i] >= TtlSecs
    BY <2>1, <1>1, <1>2 DEF ReplayInv
  <2>3. CASE i = m
    <3>1. executed'[i] = now /\ marked'[i] = now
      BY <2>3, <1>3 DEF TypeOK
    <3>2. QED
      BY <3>1, <2>2, <1>1 DEF None
  <2>4. CASE i # m
    <3>1. executed'[i] = executed[i] /\ marked'[i] = marked[i] /\ (i \in durable' => i \in durable)
      BY <2>4, <1>3 DEF TypeOK
    <3>2. QED
      BY <3>1, <2>2 DEF ReplayInv
  <2>5. QED
    BY <2>3, <2>4
<1>6. QED
  BY <1>4, <1>5


\* `with_journal`: the instant rebuilt from a journal entry lies in the past of
\* this clock, and gives the age of the mark to within a second.
LEMMA RebuiltInstant ==
  ASSUME TypeOK, NEW i \in Ids, journal[i] \in Nat, journal[i] >= TtlSecs
  PROVE  /\ SeenAt(i) \in 0..now
         /\ \A s \in 0..now : journal[i] = Unix(s) + TtlSecs => s - SeenAt(i) <= TicksPerSec
<1>1. now \in Nat /\ TicksPerSec \in Nat /\ TtlSecs \in Nat
  BY DurationAssumption DEF TypeOK
<1>2. Unix(now) \in Nat /\ Unix(now) * TicksPerSec <= now /\ Unix(now) * TicksPerSec \in Nat
  BY <1>1, WholeSeconds
<1> DEFINE age == Unix(now) - (journal[i] - TtlSecs)
           back == IF age > 0 THEN age ELSE 0
<1>3. age \in Int /\ age <= Unix(now) /\ back \in 0..Unix(now)
  BY <1>1, <1>2
<1>4. SeenAt(i) = now - back * TicksPerSec
  BY DEF SeenAt
<1>5. back * TicksPerSec <= Unix(now) * TicksPerSec
  <2>1. back \in Int /\ Unix(now) \in Int /\ back <= Unix(now)
    BY <1>2, <1>3
  <2> HIDE DEF back
  <2>2. QED
    BY <2>1, TicksOrdered
<1>6. back * TicksPerSec \in Nat
  BY <1>1, <1>2, <1>3
<1>7. ASSUME NEW s \in 0..now, journal[i] = Unix(s) + TtlSecs
      PROVE  s - SeenAt(i) <= TicksPerSec
  <2>1. s \in Nat /\ s <= now
    BY <1>1
  <2>2. Unix(s) \in Nat
    BY <2>1, WholeSeconds
  <2>3. age = Unix(now) - Unix(s)
    BY <1>7, <2>2, <1>1, <1>2
  <2>4. CASE age > 0
    <3>1. (Unix(now) - Unix(s)) * TicksPerSec - (now - s) < TicksPerSec
      BY <1>1, <2>1, SecondsApart
    <3>2. back * TicksPerSec = (Unix(now) - Unix(s)) * TicksPerSec
      BY <2>3, <2>4
    <3> HIDE DEF back
    <3>3. QED
      BY <3>1, <3>2, <1>1, <1>4, <1>6, <2>1
  <2>5. CASE ~(age > 0)
    <3>1. back = 0
      BY <2>5
    <3>2. SeenAt(i) = now
      BY <3>1, <1>1, <1>4
    <3>3. QED
      BY <3>2, <2>1, <1>1
  <2>6. QED
    BY <2>4, <2>5
<1>8. SeenAt(i) \in 0..now
  <2> HIDE DEF back
  <2>1. QED
    BY <1>1, <1>2, <1>4, <1>5, <1>6
<1>9. QED
  BY <1>7, <1>8

\* A mark whose journal entry has expired is older than the TTL, less a second.
LEMMA ExpiredEntry ==
  ASSUME NEW s \in Nat, NEW t \in Nat, Unix(s) + TtlSecs <= Unix(t)
  PROVE  t - s > Ttl - TicksPerSec
<1>1. TicksPerSec \in Nat /\ TtlSecs \in Nat /\ Unix(s) \in Nat /\ Unix(t) \in Nat
  BY DurationAssumption, WholeSeconds
<1>2. TtlSecs \in Int /\ Unix(t) - Unix(s) \in Int /\ TtlSecs <= Unix(t) - Unix(s)
  BY <1>1
<1>3. TtlSecs * TicksPerSec <= (Unix(t) - Unix(s)) * TicksPerSec
  BY <1>2, TicksOrdered
<1>4. /\ (Unix(t) - Unix(s)) * TicksPerSec \in Int
      /\ (Unix(t) - Unix(s)) * TicksPerSec - (t - s) < TicksPerSec
  BY SecondsApart
<1>5. TtlSecs * TicksPerSec \in Int
  BY <1>1
<1>6. QED
  BY <1>1, <1>3, <1>4, <1>5 DEF Ttl

\* A restart rebuilds from the journal what it needs of the marks it keeps.
LEMMA RestartReplay ==
  ASSUME TypeOK, ReplayInv, Restart
  PROVE  ReplayTypes' /\ ReplayInv'
<1>1. now \in Nat /\ Ttl \in Int /\ TicksPerSec \in Nat /\ MaxTime \in Nat /\ now' = now
  BY DurationAssumption DEF TypeOK, Ttl, Restart
<1>2. Unix(now) \in Nat
  BY <1>1, WholeSeconds
<1>3. /\ journal' = PrunedJournal /\ marked' = marked
      /\ executed' = [i \in Ids |-> IF PrunedJournal[i] # None THEN SeenAt(i) ELSE None]
      /\ durable' = {i \in durable : journal[i] = Unix(marked[i]) + TtlSecs}
  BY DEF Restart
<1>4. \A i \in Ids : PrunedJournal[i] = IF journal[i] # None /\ journal[i] <= Unix(now)
                                        THEN None ELSE journal[i]
  BY DEF PrunedJournal
<1>5. \A i \in Ids : PrunedJournal[i] # None =>
         journal[i] \in Nat /\ journal[i] >= TtlSecs /\ PrunedJournal[i] = journal[i]
  BY <1>4 DEF TypeOK, ReplayInv
<1>6. \A i \in Ids : executed'[i] \in 0..now \cup {None}
  BY <1>3, <1>5, RebuiltInstant
<1>7. ReplayTypes'
  <2>1. executed' \in [Ids -> 0..now \cup {None}]
    BY <1>3, <1>6
  <2>2. \A i \in Ids : PrunedJournal[i] \in Nat \cup {None}
    BY <1>4 DEF TypeOK
  <2>3. journal' \in [Ids -> Nat \cup {None}]
    BY <2>2, <1>3 DEF PrunedJournal
  <2>4. QED
    BY <2>1, <2>3, <1>1, <1>3 DEF TypeOK, ReplayTypes
<1>8. ReplayInv'
  <2> SUFFICES ASSUME NEW i \in Ids
               PROVE  /\ journal'[i] # None => journal'[i] >= TtlSecs
                      /\ i \in durable' =>
                           /\ marked'[i] # None /\ marked'[i] <= now'
                           /\ executed'[i] # None => marked'[i] - executed'[i] <= TicksPerSec
                           /\ executed'[i] = None => now' - marked'[i] > Ttl - TicksPerSec
    BY DEF ReplayInv
  <2>1. journal'[i] # None => journal'[i] >= TtlSecs
    BY <1>3, <1>5
  <2>2. ASSUME i \in durable'
        PROVE  /\ marked'[i] # None /\ marked'[i] <= now'
               /\ executed'[i] # None => marked'[i] - executed'[i] <= TicksPerSec
               /\ executed'[i] = None => now' - marked'[i] > Ttl - TicksPerSec
    <3>1. i \in durable /\ journal[i] = Unix(marked[i]) + TtlSecs
      BY <2>2, <1>3
    <3>2. marked[i] # None /\ marked[i] <= now
      BY <3>1 DEF ReplayInv
    <3>3. marked[i] \in 0..now /\ marked[i] \in Nat
      BY <3>2, <1>1 DEF TypeOK
    <3>4. Unix(marked[i]) \in Nat /\ TtlSecs \in Nat
      BY <3>3, WholeSeconds, DurationAssumption
    <3>5. journal[i] \in Nat /\ journal[i] # None
      BY <3>1, <3>4 DEF None
    <3>6. CASE journal[i] <= Unix(now)
      <4>1. executed'[i] = None
        BY <3>5, <3>6, <1>3, <1>4
      <4>2. now - marked[i] > Ttl - TicksPerSec
        BY <3>1, <3>3, <3>6, <1>1, ExpiredEntry
      <4>3. QED
        BY <4>1, <4>2, <3>2, <1>1, <1>3
    <3>7. CASE ~(journal[i] <= Unix(now))
      <4>1. executed'[i] = SeenAt(i) /\ journal[i] >= TtlSecs
        BY <3>5, <3>7, <1>3, <1>4, <1>5
      <4>2. SeenAt(i) \in 0..now /\ marked[i] - SeenAt(i) <= TicksPerSec
        BY <4>1, <3>1, <3>3, <3>5, RebuiltInstant
      <4>3. executed'[i] # None
        BY <4>1, <4>2 DEF None
      <4>4. QED
        BY <4>1, <4>2, <4>3, <3>2, <1>1, <1>3
    <3>8. QED
      BY <3>6, <3>7
  <2>3. QED
    BY <2>1, <2>2
<1>9. QED
  BY <1>7, <1>8

\* Every step keeps the replay protection's part of the invariant.
LEMMA ReplayNext ==
  ASSUME TypeOK, ReplayInv, [Next]_vars
  PROVE  ReplayTypes' /\ ReplayInv'
BY ReplayStep, QuietReplay, CleanReplay, MarkReplay, RestartReplay


-----------------------------------------------------------------------------
(* Types, and the theorems.                                                *)

\* The clock and the calls keep their types.
LEMMA CallTypes ==
  ASSUME TypeOK, [Next]_vars
  PROVE  /\ now' \in 0..MaxTime
         /\ pc' \in [Tasks -> {"called", "replay", "fresh", "running", "report",
                               "returned", "crashed"}]
         /\ outcome' \in [Tasks -> Outcomes \cup {"none"}]
<1> USE DEF TypeOK
<1>1. CASE UNCHANGED vars
  BY <1>1 DEF vars
<1>2. ASSUME NEW t \in Tasks, TaskStep(t)
      PROVE  /\ now' \in 0..MaxTime
             /\ pc' \in [Tasks -> {"called", "replay", "fresh", "running", "report",
                                   "returned", "crashed"}]
             /\ outcome' \in [Tasks -> Outcomes \cup {"none"}]
  <2>1. CASE CheckBreaker(t)
    BY <2>1 DEF CheckBreaker
  <2>2. CASE CheckReplay(t)
    BY <2>2 DEF CheckReplay
  <2>3. CASE Validate(t)
    BY <2>3 DEF Validate
  <2>4. CASE FinishLegs(t)
    BY <2>4 DEF FinishLegs
  <2>5. CASE Report(t)
    BY <2>5 DEF Report
  <2>6. QED
    BY <1>2, <2>1, <2>2, <2>3, <2>4, <2>5 DEF TaskStep
<1>3. CASE PollBreaker
  BY <1>3 DEF PollBreaker
<1>4. CASE Advance
  BY <1>4, DurationAssumption DEF Advance
<1>5. CASE Restart
  BY <1>5 DEF Restart
<1>6. CASE Over
  BY <1>6 DEF Over, vars
<1>7. QED
  BY <1>1, <1>2, <1>3, <1>4, <1>5, <1>6 DEF Next

\* So does the breaker.
LEMMA BreakerTypes ==
  ASSUME TypeOK, [Next]_vars
  PROVE  /\ failures' \in Seq(0..MaxTime) /\ history' \in Seq(0..MaxTime)
         /\ tripped_at' \in 0..MaxTime \cup {None} /\ before_trip' \in SUBSET Tasks
<1>1. CASE UNCHANGED breaker
  BY <1>1 DEF TypeOK, breaker
<1>2. CASE Closed
  BY <1>2 DEF Closed
<1>3. ASSUME NEW t \in Tasks, Report(t), RecordFailure, ~Closed
      PROVE  /\ failures' \in Seq(0..MaxTime) /\ history' \in Seq(0..MaxTime)
             /\ tripped_at' \in 0..MaxTime \cup {None} /\ before_trip' \in SUBSET Tasks
  <2>1. /\ Fails
        /\ tripped_at' = now \/ tripped_at' = tripped_at
        /\ before_trip' = PastCheck \/ before_trip' = before_trip
    BY <1>3, FailureRecorded DEF Report
  <2>2. failures' \in Seq(0..MaxTime)
    BY <2>1, DequeAfter, Zenon DEF Fails
  <2>3. history \in Seq(0..MaxTime) /\ now \in 0..MaxTime /\ history' = Append(history, now)
    BY <2>1 DEF TypeOK, Fails
  <2>4. history' \in Seq(0..MaxTime)
    BY <2>3
  <2>5. QED
    BY <2>1, <2>2, <2>4 DEF TypeOK, PastCheck
<1>4. QED
  BY <1>1, <1>2, <1>3, BreakerStep

\* The invariant holds at the start.
LEMMA InitInv == Init => IInv
<1> SUFFICES ASSUME Init PROVE IInv
  OBVIOUS
<1>1. TypeOK
  BY DurationAssumption DEF Init, TypeOK
<1>2. Len(failures) = 0 /\ Len(history) = 0
  BY DEF Init
<1>3. WindowInv
  BY <1>2 DEF WindowInv, Dropped
<1>4. BreakerInv /\ TripStopsNewCalls
  BY <1>2 DEF Init, BreakerInv, TripStopsNewCalls
<1>5. ReplayInv
  BY DEF Init, ReplayInv
<1>6. QED
  BY <1>1, <1>3, <1>4, <1>5 DEF IInv

\* Every step keeps it.
LEMMA InvNext == IInv /\ [Next]_vars => IInv'
<1> SUFFICES ASSUME IInv, [Next]_vars PROVE IInv'
  OBVIOUS
<1>1. TypeOK /\ TripStopsNewCalls /\ WindowInv /\ BreakerInv /\ ReplayInv
  BY DEF IInv
<1>2. ReplayTypes' /\ ReplayInv'
  BY <1>1, ReplayNext
<1>3. TypeOK'
  <2>1. /\ now' \in 0..MaxTime
        /\ pc' \in [Tasks -> {"called", "replay", "fresh", "running", "report",
                              "returned", "crashed"}]
        /\ outcome' \in [Tasks -> Outcomes \cup {"none"}]
    BY <1>1, CallTypes
  <2>2. /\ failures' \in Seq(0..MaxTime) /\ history' \in Seq(0..MaxTime)
        /\ tripped_at' \in 0..MaxTime \cup {None} /\ before_trip' \in SUBSET Tasks
    BY <1>1, BreakerTypes
  <2>3. QED
    BY <1>2, <2>1, <2>2 DEF TypeOK, ReplayTypes
<1>4. WindowInv' /\ BreakerInv'
  BY <1>1, <1>3, WindowNext
<1>5. TripStopsNewCalls'
  BY <1>1, TripNext
<1>6. QED
  BY <1>2, <1>3, <1>4, <1>5 DEF IInv

\* The invariant holds in every reachable state.
LEMMA Inductive == Spec => []IInv
BY InitInv, InvNext, PTL DEF Spec

\* `record_failure_at` prunes its deque as it goes, yet the breaker decides as the
\* whole history would: it trips only on `failure_threshold` failures within one
\* window and never stays closed once there were that many, whatever the threshold,
\* the window, the cooldown, and the calls that interleave.
THEOREM BreakerIsExact == Spec => []BreakerMatchesHistory
<1>1. IInv => BreakerMatchesHistory
  BY DEF IInv, BreakerInv, BreakerMatchesHistory
<1>2. QED
  BY <1>1, Inductive, PTL

\* While the breaker is tripped, the only calls of `execute` still on their way to
\* a leg are those that had passed its check before it tripped.
THEOREM TripIsFinal == Spec => []TripStopsNewCalls
<1>1. IInv => TripStopsNewCalls
  BY DEF IInv
<1>2. QED
  BY <1>1, Inductive, PTL

\* `is_duplicate` lets no call through with a signal marked within the TTL, less
\* the second the journal's unix time may cost: not after other calls' cleanups and
\* marks, and not after any number of restarts.
THEOREM ReplayIsBlocked == Spec => FreshMeansUnmarked
<1> DEFINE Unmarked ==
             \A t \in Tasks :
               (pc[t] = "replay" /\ pc'[t] = "fresh" /\ SignalOf[t] \in durable)
                 => now - marked[SignalOf[t]] > Ttl - TicksPerSec
<1>1. IInv /\ [Next]_vars => [Unmarked]_vars
  <2> SUFFICES ASSUME IInv, [Next]_vars, NEW t \in Tasks,
                      pc[t] = "replay", pc'[t] = "fresh", SignalOf[t] \in durable
               PROVE  now - marked[SignalOf[t]] > Ttl - TicksPerSec
    OBVIOUS
  <2>1. TypeOK /\ ReplayInv
    BY DEF IInv
  <2>2. pc \in [Tasks -> {"called", "replay", "fresh", "running", "report",
                          "returned", "crashed"}]
    BY <2>1 DEF TypeOK
  <2>3. ASSUME NEW u \in Tasks, TaskStep(u)
        PROVE  CheckReplay(t)
    BY <2>2, <2>3 DEF TaskStep, CheckBreaker, CheckReplay, Validate, FinishLegs, Report
  <2>4. pc' # pc
    BY <2>2
  <2>5. ~Restart
    BY <2>2 DEF Restart
  <2>6. CheckReplay(t)
    BY <2>3, <2>4, <2>5 DEF Next, vars, PollBreaker, Advance, Over
  <2>7. executed'[SignalOf[t]] = None
    BY <2>2, <2>6 DEF CheckReplay
  <2>8. executed' = CleanMemory /\ journal' = PrunedJournal /\ UNCHANGED <<now, marked, durable>>
    BY <2>6 DEF CheckReplay
  <2>9. ReplayInv'
    BY <2>1, <2>8, CleanReplay
  <2>10. SignalOf[t] \in Ids
    BY DEF Ids
  <2>11. QED
    BY <2>7, <2>8, <2>9, <2>10 DEF ReplayInv
<1>2. QED
  BY <1>1, Inductive, PTL DEF Spec, FreshMeansUnmarked

=============================================================================
