------------------------ MODULE TradingPipelineProofs ------------------------
(***************************************************************************)
(* Proofs about TradingPipeline, for any number of signals, any balances   *)
(* and any limits of queue, worker and risk manager.                       *)
(*                                                                         *)
(* A step moves one signal, or a few, from one status to another.  The     *)
(* lemmas named ...Moves say what that does to the sets of signals that    *)
(* hold a permit, a position or a reservation; the rest of the proof then  *)
(* counts these sets and never looks at a status again.  The invariant     *)
(* needs more than the properties state: who is in the worker's hands when *)
(* it stops, that a tick works on one signal at a time, and that the       *)
(* completion channel holds each signal once.                              *)
(***************************************************************************)
EXTENDS TradingPipeline, FiniteSetTheorems, TLAPS

\* The provers a leaf is tried with unless it names its own.
USE SMTT(60), SMT, ZenonT(60)

-----------------------------------------------------------------------------
(* Sums of amounts.                                                        *)

\* What Total counts.
Units(amount, signals) == UNION {{s} \X (1..amount[s]) : s \in signals}

\* The units of finitely many signals are finitely many.
LEMMA UnitsFinite ==
  ASSUME NEW w \in [Signals -> Nat], NEW S \in SUBSET Signals
  PROVE  IsFiniteSet(Units(w, S))
<1> DEFINE T == {{s} \X (1..w[s]) : s \in S}
           f == [s \in S |-> {s} \X (1..w[s])]
<1>1. IsFiniteSet(S)
  BY SignalsAssumption, FS_Subset
<1>2. f \in Surjection(S, T)
  BY Zenon DEF Surjection
<1>3. IsFiniteSet(T)
  BY <1>1, <1>2, FS_Surjection
<1>4. ASSUME NEW s \in S PROVE IsFiniteSet({s} \X (1..w[s]))
  <2>1. w[s] \in Int /\ 1 \in Int
    OBVIOUS
  <2>2. IsFiniteSet(1..w[s])
    BY <2>1, FS_Interval
  <2>3. IsFiniteSet({s})
    BY FS_Singleton
  <2> QED
    BY <2>2, <2>3, FS_Product
<1>5. \A t \in T : IsFiniteSet(t)
  BY <1>4
<1>6. IsFiniteSet(UNION T)
  BY <1>3, <1>5, FS_UNION, Zenon
<1> QED
  BY <1>6 DEF Units

\* One signal more adds its amount.
LEMMA TotalAdd ==
  ASSUME NEW w \in [Signals -> Nat], NEW S \in SUBSET Signals, NEW x \in Signals
  PROVE  /\ Total(w, S) \in Nat
         /\ x \notin S => Total(w, S \cup {x}) = Total(w, S) + w[x]
<1>1. IsFiniteSet(Units(w, S)) /\ Cardinality(Units(w, S)) \in Nat
  BY UnitsFinite, FS_CardinalityType
<1>2. Total(w, S) = Cardinality(Units(w, S)) /\ Total(w, S \cup {x}) = Cardinality(Units(w, S \cup {x}))
  BY DEF Total, Units
<1>3. ASSUME x \notin S PROVE Total(w, S \cup {x}) = Total(w, S) + w[x]
  <2> DEFINE X == {x} \X (1..w[x])
  <2>1. IsFiniteSet(1..w[x]) /\ Cardinality(1..w[x]) = w[x]
    <3>1. w[x] \in Nat /\ w[x] \in Int /\ 1 \in Int
      OBVIOUS
    <3> QED
      BY <3>1, FS_Interval
  <2>2. IsFiniteSet({x}) /\ Cardinality({x}) = 1
    BY FS_Singleton, Zenon
  <2>3. IsFiniteSet(X) /\ Cardinality(X) = 1 * w[x]
    BY <2>1, <2>2, FS_Product
  <2>4. Units(w, S) \cap X = {}
    BY <1>3 DEF Units
  <2>5. Units(w, S \cup {x}) = Units(w, S) \cup X
    BY DEF Units
  <2>6. Cardinality(Units(w, S) \cup X)
          = Cardinality(Units(w, S)) + Cardinality(X) - Cardinality(Units(w, S) \cap X)
    BY <1>1, <2>3, FS_Union
  <2>7. Cardinality(X) = w[x] /\ w[x] \in Nat
    BY <2>3
  <2>8. Cardinality(Units(w, S) \cap X) = 0
    BY <2>4, FS_EmptySet
  <2>9. Total(w, S \cup {x}) = Cardinality(Units(w, S) \cup X)
    BY <1>2, <2>5
  <2> HIDE DEF X
  <2>10. Cardinality(Units(w, S) \cup X) = Cardinality(Units(w, S)) + w[x]
    BY <1>1, <2>6, <2>7, <2>8
  <2> QED
    BY <1>2, <2>9, <2>10
<1> QED
  BY <1>1, <1>2, <1>3

\* One signal less takes its amount away.
LEMMA TotalRemove ==
  ASSUME NEW w \in [Signals -> Nat], NEW S \in SUBSET Signals, NEW x \in S
  PROVE  /\ Total(w, S \ {x}) \in Nat
         /\ Total(w, S) = Total(w, S \ {x}) + w[x]
<1>1. S \ {x} \in SUBSET Signals /\ x \in Signals /\ x \notin S \ {x} /\ (S \ {x}) \cup {x} = S
  OBVIOUS
<1> QED
  BY <1>1, TotalAdd

\* The amounts of a signal.
LEMMA AmountsNat ==
  ASSUME NEW k \in Keys
  PROVE  Made(k) \in [Signals -> Nat] /\ ReleasedAgain(k) \in [Signals -> Nat]
<1>1. ASSUME NEW s \in Signals, NEW p \in Nat PROVE LegAmounts(s, p) \in [Keys -> Nat]
  <2>1. Info[s].size \in Nat
    BY InfoAssumption
  <2>2. Info[s].size * p \in Nat
    BY <2>1
  <2> QED
    BY <2>1, <2>2 DEF LegAmounts
<1>2. \A s \in Signals : Info[s].cex_price \in Nat /\ Info[s].dex_price \in Nat
  BY InfoAssumption
<1>3. \A s \in Signals : ReservedBy(s) \in [Keys -> Nat]
  BY <1>1, <1>2 DEF ReservedBy
<1>4. \A s \in Signals : ReleasedByConsumer(s) \in [Keys -> Nat]
  BY <1>1, <1>2 DEF ReleasedByConsumer
<1> QED
  BY <1>3, <1>4 DEF Made, ReleasedAgain

-----------------------------------------------------------------------------
(* Where the signals are.                                                  *)

\* Signals that hold a position, a reservation or a second release, and those
\* that a halt dropped.
Counted == Live \cup Forgotten
Held == Holding \cup With("panicked")
Resolved == Among({"settling", "settled"})
Lost == With("lost")
Checked == With("checked")
Charged == Counted \cup Lost

\* A tick takes a signal up.
LEMMA TickCheckMoves ==
  ASSUME NEW s \in Signals, TypeOK, TickCheck(s)
  PROVE  /\ InTick' = InTick \cup {s} /\ s \notin InTick
         /\ Checked' = Checked \cup {s} /\ s \notin Checked
         /\ UNCHANGED <<InWorker, Running, Holding, Held, Counted, Lost, Resolved, Charged>>
BY DEF TickCheck, TypeOK, Move, Live, Forgotten, Counted, Held, Resolved, Lost, Checked,
   Charged, InTick, InWorker, Running, Holding, LiveStatuses, With, Among

\* A low score drops it again.
LEMMA TickBelowScoreMoves ==
  ASSUME NEW s \in Signals, TypeOK, TickBelowScore(s)
  PROVE  /\ InTick' = InTick \ {s} /\ s \in InTick
         /\ Checked' = Checked \ {s} /\ s \in Checked
         /\ UNCHANGED <<InWorker, Running, Holding, Held, Counted, Lost, Resolved, Charged>>
BY DEF TickBelowScore, TypeOK, Move, Live, Forgotten, Counted, Held, Resolved, Lost,
   Checked, Charged, InTick, InWorker, Running, Holding, LiveStatuses, With, Among

\* record_trade_started counts it.
LEMMA TickStartMoves ==
  ASSUME NEW s \in Signals, TypeOK, TickStart(s)
  PROVE  /\ Counted' = Counted \cup {s} /\ s \notin Counted
         /\ Checked' = Checked \ {s} /\ s \in Checked
         /\ Charged' = Charged \cup {s} /\ s \notin Charged
         /\ UNCHANGED <<InTick, InWorker, Running, Holding, Held, Lost, Resolved>>
BY DEF TickStart, TypeOK, Move, Live, Forgotten, Counted, Held, Resolved, Lost, Checked,
   Charged, InTick, InWorker, Running, Holding, LiveStatuses, With, Among

\* A refused signal is taken off the count.
LEMMA TickNotStartedMoves ==
  ASSUME NEW s \in Signals, TypeOK, TickNotStarted(s)
  PROVE  /\ InTick' = InTick \ {s} /\ s \in InTick
         /\ Counted' = Counted \ {s} /\ s \in Counted
         /\ Charged' = Charged \ {s} /\ s \in Charged
         /\ UNCHANGED <<InWorker, Running, Holding, Held, Lost, Resolved, Checked>>
BY DEF TickNotStarted, TypeOK, Move, Live, Forgotten, Counted, Held, Resolved, Lost,
   Checked, Charged, InTick, InWorker, Running, Holding, LiveStatuses, With, Among

\* The worker spawns an execution.
LEMMA WorkerSpawnMoves ==
  ASSUME NEW s \in Signals, TypeOK, WorkerSpawn(s)
  PROVE  /\ InWorker' = InWorker \ {s} /\ s \in InWorker
         /\ Running' = Running \cup {s} /\ s \notin Running
         /\ UNCHANGED <<InTick, Holding, Held, Counted, Lost, Resolved, Checked, Charged>>
BY DEF WorkerSpawn, TypeOK, Move, Live, Forgotten, Counted, Held, Resolved, Lost, Checked,
   Charged, InTick, InWorker, Running, Holding, LiveStatuses, With, Among

\* An execution returns.
LEMMA ExecuteMoves ==
  ASSUME NEW s \in Signals, TypeOK, Execute(s)
  PROVE  /\ UNCHANGED <<InTick, InWorker, Running, Holding, Held, Counted, Lost, Resolved, Checked, Charged>>
BY DEF Execute, TypeOK, Move, Live, Forgotten, Counted, Held, Resolved, Lost, Checked,
   Charged, InTick, InWorker, Running, Holding, LiveStatuses, With, Among

\* A task gives back its reservation and its permit.
LEMMA TaskFinishMoves ==
  ASSUME NEW s \in Signals, TypeOK, TaskFinish(s)
  PROVE  /\ Running' = Running \ {s} /\ s \in Running
         /\ Holding' = Holding \ {s} /\ s \in Holding
         /\ Held' = Held \ {s} /\ s \in Held
         /\ UNCHANGED <<InTick, InWorker, Counted, Lost, Resolved, Checked, Charged>>
BY DEF TaskFinish, TypeOK, Move, Live, Forgotten, Counted, Held, Resolved, Lost, Checked,
   Charged, InTick, InWorker, Running, Holding, LiveStatuses, With, Among

\* A panic keeps the reservation and the position.
LEMMA TaskPanicMoves ==
  ASSUME NEW s \in Signals, TypeOK, TaskPanic(s)
  PROVE  /\ Running' = Running \ {s} /\ s \in Running
         /\ Holding' = Holding \ {s} /\ s \in Holding
         /\ UNCHANGED <<InTick, InWorker, Held, Counted, Lost, Resolved, Checked, Charged>>
BY DEF TaskPanic, TypeOK, Move, Live, Forgotten, Counted, Held, Resolved, Lost, Checked,
   Charged, InTick, InWorker, Running, Holding, LiveStatuses, With, Among

\* The consumer settles a signal.
LEMMA ConsumerSettleMoves ==
  ASSUME NEW s \in Signals, TypeOK, ConsumerSettle(s)
  PROVE  /\ Counted' = Counted \ {s} /\ s \in Counted
         /\ Charged' = Charged \ {s} /\ s \in Charged
         /\ UNCHANGED <<InTick, InWorker, Running, Holding, Held, Lost, Resolved, Checked>>
BY DEF ConsumerSettle, TypeOK, Move, Live, Forgotten, Counted, Held, Resolved, Lost,
   Checked, Charged, InTick, InWorker, Running, Holding, LiveStatuses, With, Among

\* The queue takes, refuses or swaps a signal: the positions stay counted.
LEMMA PushMoves ==
  ASSUME NEW s \in Signals, TypeOK, Push(s)
  PROVE  /\ InTick' \subseteq InTick
         /\ UNCHANGED <<InWorker, Running, Holding, Held, Counted, Lost, Resolved, Checked, Charged>>
BY ZenonT(60) DEF Push, Queued, TypeOK, Move, Live, Forgotten, Counted, Held, Resolved, Lost, Checked,
   Charged, InTick, InWorker, Running, Holding, LiveStatuses, With, Among

\* A pop hands one signal to the worker and throws stale ones away.
LEMMA WorkerPopMoves ==
  ASSUME TypeOK, WorkerPop
  PROVE  UNCHANGED <<InTick, Running, Holding, Held, Counted, Lost, Resolved, Checked, Charged>>
BY ZenonT(60) DEF WorkerPop, Queued, TypeOK, Move, Live, Forgotten, Counted, Held, Resolved, Lost,
   Checked, Charged, InTick, InWorker, Running, Holding, LiveStatuses, With, Among

\* Leaving the main loop loses the signal of the tick.
LEMMA ShutdownMoves ==
  ASSUME TypeOK, Shutdown
  PROVE  /\ InTick' = {} /\ Checked' = {}
         /\ Counted' \subseteq Counted /\ Charged \subseteq Charged'
         /\ UNCHANGED <<InWorker, Running, Holding, Held, Resolved>>
BY DEF Shutdown, TypeOK, Move, Live, Forgotten, Counted, Held, Resolved, Lost, Checked,
   Charged, InTick, InWorker, Running, Holding, LiveStatuses, With, Among

\* The worker reserves both legs, or rejects the signal to the consumer.
LEMMA WorkerReserveMoves ==
  ASSUME NEW s \in Signals, TypeOK, WorkerReserve(s)
  PROVE  /\ \/ /\ reserved' = Reserve(s) /\ completions' = completions
               /\ Holding' = Holding \cup {s} /\ s \notin Holding
               /\ Held' = Held \cup {s} /\ s \notin Held
            \/ /\ status'[s] = "sent" /\ completions' = Append(completions, s)
               /\ UNCHANGED <<Holding, Held, reserved>>
         /\ InWorker' \subseteq InWorker
         /\ UNCHANGED <<InTick, Running, Counted, Lost, Resolved, Checked, Charged>>
<1>1. CASE status' = [status EXCEPT ![s] = "reserved"]
  BY <1>1 DEF WorkerReserve, TypeOK, Move, Live, Forgotten, Counted, Held, Resolved, Lost,
     Checked, Charged, InTick, InWorker, Running, Holding, LiveStatuses, With, Among
<1>2. CASE status' = [status EXCEPT ![s] = "sent"]
  BY <1>2 DEF WorkerReserve, TypeOK, Move, Live, Forgotten, Counted, Held, Resolved, Lost,
     Checked, Charged, InTick, InWorker, Running, Holding, LiveStatuses, With, Among
<1> QED
  BY <1>1, <1>2 DEF WorkerReserve, Move

\* Steps that move no signal.
LEMMA NothingMoves ==
  ASSUME UNCHANGED status
  PROVE  UNCHANGED <<InTick, InWorker, Running, Holding, Held, Counted, Lost, Resolved, Checked, Charged>>
BY DEF Live, Forgotten, Counted, Held, Resolved, Lost, Checked, Charged, InTick, InWorker,
   Running, Holding, LiveStatuses, With, Among

\* What is in the completion channel waits there, once.
SentInv ==
  /\ \A i \in DOMAIN completions : status[completions[i]] = "sent"
  /\ \A i, j \in DOMAIN completions : completions[i] = completions[j] => i = j

\* The consumer takes up a completion.
LEMMA ConsumerReleaseMoves ==
  ASSUME TypeOK, SentInv, ConsumerRelease
  PROVE  \E s \in Signals :
           /\ reserved' = Release(ReleasedByConsumer(s))
           /\ Resolved' = Resolved \cup {s} /\ s \notin Resolved
           /\ UNCHANGED <<InTick, InWorker, Running, Holding, Held, Counted, Lost, Checked, Charged>>
<1> DEFINE s == Head(completions)
<1>1. s \in Signals /\ status[s] = "sent"
  BY DEF TypeOK, SentInv, ConsumerRelease
<1>2. status' = [status EXCEPT ![s] = "settling"] /\ reserved' = Release(ReleasedByConsumer(s))
  BY DEF ConsumerRelease, Move
<1> HIDE DEF s
<1>3. /\ Resolved' = Resolved \cup {s} /\ s \notin Resolved
      /\ UNCHANGED <<InTick, InWorker, Running, Holding, Held, Counted, Lost, Checked, Charged>>
  BY <1>1, <1>2 DEF TypeOK, Move, Live, Forgotten, Counted, Held, Resolved, Lost, Checked,
     Charged, InTick, InWorker, Running, Holding, LiveStatuses, With, Among
<1> QED
  BY <1>1, <1>2, <1>3

-----------------------------------------------------------------------------
(* The inductive invariant.                                                *)

\* A permit is out for every running execution.
PermitInv == permits \in Nat /\ permits + Cardinality(Running) = MaxConcurrent

\* The worker leaves the top of its loop with nothing in its hands, and stops
\* with no execution running.
WorkerInv ==
  /\ worker # "top" => InWorker = {}
  /\ worker = "stopped" => Running = {}
  /\ clean = TRUE => worker = "stopped"

\* One signal a tick; the limit it was checked against still holds.
TickInv ==
  /\ \A s, t \in InTick : s = t
  /\ Checked # {} => open_positions < MaxOpen

\* The bounds of the open-position counter.
CountInv ==
  /\ Cardinality(Counted) <= open_positions
  /\ open_positions <= Cardinality(Charged)
  /\ open_positions <= MaxOpen

IInv == TypeOK /\ SentInv /\ PermitInv /\ WorkerInv /\ TickInv /\ CountInv /\ ReservationsAccounted

\* Counting signals.
LEMMA Card ==
  ASSUME NEW S \in SUBSET Signals
  PROVE  /\ IsFiniteSet(S) /\ Cardinality(S) \in Nat
         /\ \A x : x \notin S => Cardinality(S \cup {x}) = Cardinality(S) + 1
         /\ \A x : x \in S => Cardinality(S \ {x}) = Cardinality(S) - 1
         /\ \A T \in SUBSET S : Cardinality(T) <= Cardinality(S)
<1>1. IsFiniteSet(S)
  BY SignalsAssumption, FS_Subset
<1>2. Cardinality(S) \in Nat
  BY <1>1, FS_CardinalityType
<1>3. ASSUME NEW x, x \notin S PROVE Cardinality(S \cup {x}) = Cardinality(S) + 1
  BY <1>1, <1>3, FS_AddElement
<1>4. ASSUME NEW x, x \in S PROVE Cardinality(S \ {x}) = Cardinality(S) - 1
  BY <1>1, <1>4, FS_RemoveElement
<1>5. ASSUME NEW T \in SUBSET S PROVE Cardinality(T) <= Cardinality(S)
  BY <1>1, FS_Subset
<1> QED
  BY <1>1, <1>2, <1>3, <1>4, <1>5

\* The tracked sets are sets of signals.
LEMMA Tracked ==
  /\ Running \in SUBSET Signals /\ Holding \in SUBSET Signals /\ Held \in SUBSET Signals
  /\ Counted \in SUBSET Signals /\ Charged \in SUBSET Signals /\ Resolved \in SUBSET Signals
  /\ Checked \subseteq InTick /\ Counted \subseteq Charged
BY DEF Live, Forgotten, Counted, Held, Resolved, Lost, Checked, Charged, InTick, InWorker,
   Running, Holding, LiveStatuses, With, Among

\* A signal that is sent was not in the channel before.
LEMMA AppendSent ==
  ASSUME TypeOK, SentInv, NEW s \in Signals, status[s] # "sent",
         status' = [status EXCEPT ![s] = "sent"], completions' = Append(completions, s)
  PROVE  SentInv'
<1>1. /\ completions \in Seq(Signals) /\ status \in [Signals -> Statuses]
      /\ Len(completions) \in Nat /\ DOMAIN completions = 1..Len(completions)
  BY DEF TypeOK
<1>2. /\ DOMAIN completions' = 1..(Len(completions) + 1)
      /\ completions'[Len(completions) + 1] = s
      /\ \A i \in 1..Len(completions) : completions'[i] = completions[i]
  BY <1>1
<1>3. \A i \in 1..Len(completions) :
         completions[i] \in Signals /\ completions[i] # s /\ status[completions[i]] = "sent"
  BY <1>1 DEF SentInv
<1>4. \A i \in 1..(Len(completions) + 1) : i = Len(completions) + 1 \/ i \in 1..Len(completions)
  BY <1>1
<1>5. \A i \in DOMAIN completions' : status'[completions'[i]] = "sent"
  BY <1>1, <1>2, <1>3, <1>4
<1>6. \A i, j \in DOMAIN completions' : completions'[i] = completions'[j] => i = j
  BY <1>1, <1>2, <1>3, <1>4 DEF SentInv
<1> QED
  BY <1>5, <1>6 DEF SentInv

\* The signal taken out was in the channel once.
LEMMA TakeSent ==
  ASSUME TypeOK, SentInv, ConsumerRelease
  PROVE  SentInv'
<1> DEFINE s == Head(completions)
<1>1. /\ completions \in Seq(Signals) /\ completions # <<>> /\ status \in [Signals -> Statuses]
      /\ completions' = Tail(completions) /\ status' = [status EXCEPT ![s] = "settling"]
      /\ Len(completions) \in Nat /\ DOMAIN completions = 1..Len(completions)
  BY DEF TypeOK, ConsumerRelease, Move
<1>2. /\ DOMAIN completions' = 1..(Len(completions) - 1) /\ s = completions[1]
      /\ \A i \in 1..(Len(completions) - 1) :
           i + 1 \in DOMAIN completions /\ i + 1 # 1 /\ completions'[i] = completions[i + 1]
  BY <1>1
<1>3. 1 \in DOMAIN completions
  BY <1>1
<1>4. ASSUME NEW i \in DOMAIN completions'
      PROVE  status'[completions'[i]] = "sent"
  <2>1. completions[i + 1] # s /\ completions[i + 1] \in Signals
    BY <1>1, <1>2, <1>3 DEF SentInv
  <2> QED
    BY <1>1, <1>2, <2>1 DEF SentInv
<1>5. \A i, j \in DOMAIN completions' : completions'[i] = completions'[j] => i = j
  BY <1>1, <1>2 DEF SentInv
<1> QED
  BY <1>4, <1>5 DEF SentInv

\* Completions enter the channel once and leave it in order.
LEMMA SentNext == TypeOK /\ SentInv /\ [Next]_vars => SentInv'
<1> SUFFICES ASSUME TypeOK, SentInv, [Next]_vars PROVE SentInv'
  OBVIOUS
<1>1. CASE \E s \in Signals : TickCheck(s)
  BY <1>1 DEF TickCheck, SentInv, TypeOK, Move, InTick, Queued, With, Among
<1>2. CASE \E s \in Signals : TickBelowScore(s)
  BY <1>2 DEF TickBelowScore, SentInv, TypeOK, Move, InTick, Queued, With, Among
<1>3. CASE \E s \in Signals : TickStart(s)
  BY <1>3 DEF TickStart, SentInv, TypeOK, Move, InTick, Queued, With, Among
<1>4. CASE \E s \in Signals : Push(s)
  <2>1. \A q \in Signals : status[q] = "sent" => status'[q] = "sent"
    BY <1>4, Zenon DEF Push, TypeOK, Move, Queued, With
  <2>2. UNCHANGED completions
    BY <1>4 DEF Push
  <2> QED
    BY <2>1, <2>2 DEF SentInv, TypeOK
<1>5. CASE \E s \in Signals : TickNotStarted(s)
  BY <1>5 DEF TickNotStarted, SentInv, TypeOK, Move, InTick, Queued, With, Among
<1>6. CASE \E s \in Signals : WorkerReserve(s)
  <2> PICK s \in Signals : WorkerReserve(s)
    BY <1>6
  <2>1. CASE completions' = Append(completions, s) /\ Move(s, "sent")
    BY <2>1, AppendSent, Zenon DEF WorkerReserve, Move
  <2>2. CASE UNCHANGED completions /\ Move(s, "reserved")
    BY <2>2 DEF WorkerReserve, Move, SentInv, TypeOK
  <2> QED
    BY <2>1, <2>2 DEF WorkerReserve
<1>7. CASE \E s \in Signals : WorkerSpawn(s)
  BY <1>7 DEF WorkerSpawn, SentInv, TypeOK, Move, InTick, Queued, With, Among
<1>8. CASE \E s \in Signals : Execute(s)
  BY <1>8 DEF Execute, SentInv, TypeOK, Move, InTick, Queued, With, Among
<1>9. CASE \E s \in Signals : TaskFinish(s)
  BY <1>9, AppendSent, Zenon DEF TaskFinish, Move
<1>10. CASE \E s \in Signals : TaskPanic(s)
  BY <1>10 DEF TaskPanic, SentInv, TypeOK, Move, InTick, Queued, With, Among
<1>11. CASE \E s \in Signals : ConsumerSettle(s)
  BY <1>11 DEF ConsumerSettle, SentInv, TypeOK, Move, InTick, Queued, With, Among
<1>12. CASE WorkerPop
  BY <1>12 DEF WorkerPop, SentInv, TypeOK, Move, InTick, Queued, With, Among
<1>13. CASE Shutdown
  BY <1>13 DEF Shutdown, SentInv, TypeOK, Move, InTick, Queued, With, Among
<1>14. CASE ConsumerRelease
  BY <1>14, TakeSent
<1>15. CASE \E s \in Signals : Expire(s)
  BY <1>15 DEF Expire, SentInv, TypeOK, Move, InTick, Queued, With, Among
<1>16. CASE WorkerCheck
  BY <1>16 DEF WorkerCheck, SentInv, TypeOK, Move, InTick, Queued, With, Among
<1>17. CASE WorkerDrained
  BY <1>17 DEF WorkerDrained, SentInv, TypeOK, Move, InTick, Queued, With, Among
<1>18. CASE Halt
  BY <1>18 DEF Halt, SentInv, TypeOK, Move, InTick, Queued, With, Among
<1>19. CASE SignalStop
  BY <1>19 DEF SignalStop, SentInv, TypeOK, Move, InTick, Queued, With, Among
<1>20. CASE Exit
  BY <1>20 DEF Exit, SentInv, TypeOK, Move, InTick, Queued, With, Among
<1>21. CASE UNCHANGED vars
  BY <1>21 DEF vars, SentInv, TypeOK, Move, InTick, Queued, With, Among
<1> QED
  BY <1>1, <1>2, <1>3, <1>4, <1>5, <1>6, <1>7, <1>8, <1>9, <1>10, <1>11, <1>12, <1>13,
     <1>14, <1>15, <1>16, <1>17, <1>18, <1>19, <1>20, <1>21 DEF Next, MainStep, WorkerStep,
     ConsumerStep, TaskStep, Exited

\* A permit goes out with each execution and comes back with it.
LEMMA PermitNext == TypeOK /\ SentInv /\ PermitInv /\ [Next]_vars => PermitInv'
<1> SUFFICES ASSUME TypeOK, SentInv, PermitInv, [Next]_vars PROVE PermitInv'
  OBVIOUS
<1>1. CASE \E s \in Signals : TickCheck(s)
  BY <1>1, TickCheckMoves DEF TickCheck, PermitInv
<1>2. CASE \E s \in Signals : TickBelowScore(s)
  BY <1>2, TickBelowScoreMoves DEF TickBelowScore, PermitInv
<1>3. CASE \E s \in Signals : TickStart(s)
  BY <1>3, TickStartMoves DEF TickStart, PermitInv
<1>4. CASE \E s \in Signals : Push(s)
  BY <1>4, PushMoves DEF Push, PermitInv
<1>5. CASE \E s \in Signals : TickNotStarted(s)
  BY <1>5, TickNotStartedMoves DEF TickNotStarted, PermitInv
<1>6. CASE \E s \in Signals : WorkerReserve(s)
  BY <1>6, WorkerReserveMoves DEF WorkerReserve, PermitInv
<1>7. CASE \E s \in Signals : WorkerSpawn(s)
  <2>1. PICK s \in Signals : WorkerSpawn(s)
    BY <1>7
  <2>2. Running' = Running \cup {s} /\ s \notin Running
    BY <2>1, WorkerSpawnMoves
  <2>3. Cardinality(Running') = Cardinality(Running) + 1 /\ Cardinality(Running) \in Nat
    BY <2>2, Card, Tracked
  <2> QED
    BY <2>1, <2>3, LimitsAssumption DEF PermitInv, WorkerSpawn
<1>8. CASE \E s \in Signals : Execute(s)
  BY <1>8, ExecuteMoves DEF Execute, PermitInv
<1>9. CASE \E s \in Signals : TaskFinish(s)
  <2>1. PICK s \in Signals : TaskFinish(s)
    BY <1>9
  <2>2. Running' = Running \ {s} /\ s \in Running
    BY <2>1, TaskFinishMoves
  <2>3. Cardinality(Running') = Cardinality(Running) - 1 /\ Cardinality(Running) \in Nat
    BY <2>2, Card, Tracked
  <2> QED
    BY <2>1, <2>3, LimitsAssumption DEF PermitInv, TaskFinish
<1>10. CASE \E s \in Signals : TaskPanic(s)
  <2>1. PICK s \in Signals : TaskPanic(s)
    BY <1>10
  <2>2. Running' = Running \ {s} /\ s \in Running
    BY <2>1, TaskPanicMoves
  <2>3. Cardinality(Running') = Cardinality(Running) - 1 /\ Cardinality(Running) \in Nat
    BY <2>2, Card, Tracked
  <2> QED
    BY <2>1, <2>3, LimitsAssumption DEF PermitInv, TaskPanic
<1>11. CASE \E s \in Signals : ConsumerSettle(s)
  BY <1>11, ConsumerSettleMoves DEF ConsumerSettle, PermitInv
<1>12. CASE WorkerPop
  BY <1>12, WorkerPopMoves DEF WorkerPop, PermitInv
<1>13. CASE Shutdown
  BY <1>13, ShutdownMoves DEF Shutdown, PermitInv
<1>14. CASE ConsumerRelease
  BY <1>14, ConsumerReleaseMoves DEF ConsumerRelease, PermitInv
<1>15. CASE \E s \in Signals : Expire(s)
  BY <1>15, NothingMoves DEF Expire, PermitInv
<1>16. CASE WorkerCheck
  BY <1>16, NothingMoves DEF WorkerCheck, PermitInv
<1>17. CASE WorkerDrained
  BY <1>17, NothingMoves DEF WorkerDrained, PermitInv
<1>18. CASE Halt
  BY <1>18, NothingMoves DEF Halt, PermitInv
<1>19. CASE SignalStop
  BY <1>19, NothingMoves DEF SignalStop, PermitInv
<1>20. CASE Exit
  BY <1>20, NothingMoves DEF Exit, PermitInv
<1>21. CASE UNCHANGED vars
  BY <1>21, NothingMoves DEF vars, PermitInv
<1> QED
  BY <1>1, <1>2, <1>3, <1>4, <1>5, <1>6, <1>7, <1>8, <1>9, <1>10, <1>11, <1>12, <1>13,
     <1>14, <1>15, <1>16, <1>17, <1>18, <1>19, <1>20, <1>21 DEF Next, MainStep, WorkerStep,
     ConsumerStep, TaskStep, Exited

\* The worker stops only when no execution runs, and takes up none after that.
LEMMA WorkerNext == TypeOK /\ SentInv /\ PermitInv /\ WorkerInv /\ [Next]_vars => WorkerInv'
<1> SUFFICES ASSUME TypeOK, SentInv, PermitInv, WorkerInv, [Next]_vars PROVE WorkerInv'
  OBVIOUS
<1>1. CASE \E s \in Signals : TickCheck(s)
  BY <1>1, TickCheckMoves DEF TickCheck, WorkerInv
<1>2. CASE \E s \in Signals : TickBelowScore(s)
  BY <1>2, TickBelowScoreMoves DEF TickBelowScore, WorkerInv
<1>3. CASE \E s \in Signals : TickStart(s)
  BY <1>3, TickStartMoves DEF TickStart, WorkerInv
<1>4. CASE \E s \in Signals : Push(s)
  BY <1>4, PushMoves DEF Push, WorkerInv
<1>5. CASE \E s \in Signals : TickNotStarted(s)
  BY <1>5, TickNotStartedMoves DEF TickNotStarted, WorkerInv
<1>6. CASE \E s \in Signals : WorkerReserve(s)
  BY <1>6, WorkerReserveMoves DEF WorkerReserve, WorkerInv
<1>7. CASE \E s \in Signals : WorkerSpawn(s)
  <2>1. InWorker' \subseteq InWorker /\ InWorker # {}
    BY <1>7, WorkerSpawnMoves
  <2> QED
    BY <1>7, <2>1 DEF WorkerInv, WorkerSpawn
<1>8. CASE \E s \in Signals : Execute(s)
  BY <1>8, ExecuteMoves DEF Execute, WorkerInv
<1>9. CASE \E s \in Signals : TaskFinish(s)
  BY <1>9, TaskFinishMoves DEF TaskFinish, WorkerInv
<1>10. CASE \E s \in Signals : TaskPanic(s)
  BY <1>10, TaskPanicMoves DEF TaskPanic, WorkerInv
<1>11. CASE \E s \in Signals : ConsumerSettle(s)
  BY <1>11, ConsumerSettleMoves DEF ConsumerSettle, WorkerInv
<1>12. CASE WorkerPop
  BY <1>12, WorkerPopMoves DEF WorkerPop, WorkerInv
<1>13. CASE Shutdown
  BY <1>13, ShutdownMoves DEF Shutdown, WorkerInv
<1>14. CASE ConsumerRelease
  BY <1>14, ConsumerReleaseMoves DEF ConsumerRelease, WorkerInv
<1>15. CASE \E s \in Signals : Expire(s)
  BY <1>15, NothingMoves DEF Expire, WorkerInv
<1>16. CASE WorkerCheck
  BY <1>16, NothingMoves DEF WorkerCheck, WorkerInv
<1>17. CASE WorkerDrained
  <2>1. Cardinality(Running) = 0
    BY <1>17, Card, Tracked, LimitsAssumption DEF PermitInv, WorkerDrained
  <2>2. Running = {}
    BY <2>1, Card, Tracked, FS_EmptySet
  <2> QED
    BY <1>17, <2>2, NothingMoves DEF WorkerInv, WorkerDrained
<1>18. CASE Halt
  BY <1>18, NothingMoves DEF Halt, WorkerInv
<1>19. CASE SignalStop
  BY <1>19, NothingMoves DEF SignalStop, WorkerInv
<1>20. CASE Exit
  BY <1>20, NothingMoves, Zenon DEF Exit, WorkerInv
<1>21. CASE UNCHANGED vars
  BY <1>21, NothingMoves DEF vars, WorkerInv
<1> QED
  BY <1>1, <1>2, <1>3, <1>4, <1>5, <1>6, <1>7, <1>8, <1>9, <1>10, <1>11, <1>12, <1>13,
     <1>14, <1>15, <1>16, <1>17, <1>18, <1>19, <1>20, <1>21 DEF Next, MainStep, WorkerStep,
     ConsumerStep, TaskStep, Exited

\* One signal a tick, and only the tick raises the counter.
LEMMA TickNext == TypeOK /\ SentInv /\ TickInv /\ [Next]_vars => TickInv'
<1> SUFFICES ASSUME TypeOK, SentInv, TickInv, [Next]_vars PROVE TickInv'
  OBVIOUS
<1>1. CASE \E s \in Signals : TickCheck(s)
  BY <1>1, TickCheckMoves DEF TickCheck, TickInv
<1>2. CASE \E s \in Signals : TickBelowScore(s)
  BY <1>2, TickBelowScoreMoves DEF TickBelowScore, TickInv
<1>3. CASE \E s \in Signals : TickStart(s)
  <2>1. PICK s \in Signals : TickStart(s)
    BY <1>3
  <2>2. Checked' = Checked \ {s} /\ InTick' = InTick /\ s \in Checked
    BY <2>1, TickStartMoves
  <2>3. Checked' = {}
    BY <2>2, Tracked DEF TickInv
  <2> QED
    BY <2>2, <2>3 DEF TickInv
<1>4. CASE \E s \in Signals : Push(s)
  BY <1>4, PushMoves DEF Push, TickInv
<1>5. CASE \E s \in Signals : TickNotStarted(s)
  <2>1. InTick' \subseteq InTick /\ Checked' = Checked
    BY <1>5, TickNotStartedMoves
  <2>2. open_positions' <= open_positions /\ open_positions \in Nat /\ open_positions' \in Nat
    <3>1. open_positions \in Nat /\ open_positions' = SatSub1(open_positions)
      BY <1>5 DEF TypeOK, TickNotStarted
    <3> QED
      BY <3>1 DEF SatSub1
  <2> QED
    BY <2>1, <2>2, LimitsAssumption DEF TickInv
<1>6. CASE \E s \in Signals : WorkerReserve(s)
  BY <1>6, WorkerReserveMoves, Zenon DEF WorkerReserve, TickInv
<1>7. CASE \E s \in Signals : WorkerSpawn(s)
  BY <1>7, WorkerSpawnMoves DEF WorkerSpawn, TickInv
<1>8. CASE \E s \in Signals : Execute(s)
  BY <1>8, ExecuteMoves DEF Execute, TickInv
<1>9. CASE \E s \in Signals : TaskFinish(s)
  BY <1>9, TaskFinishMoves DEF TaskFinish, TickInv
<1>10. CASE \E s \in Signals : TaskPanic(s)
  BY <1>10, TaskPanicMoves DEF TaskPanic, TickInv
<1>11. CASE \E s \in Signals : ConsumerSettle(s)
  <2>1. InTick' \subseteq InTick /\ Checked' = Checked
    BY <1>11, ConsumerSettleMoves
  <2>2. open_positions' <= open_positions /\ open_positions \in Nat /\ open_positions' \in Nat
    <3>1. open_positions \in Nat /\ open_positions' = SatSub1(open_positions)
      BY <1>11 DEF TypeOK, ConsumerSettle
    <3> QED
      BY <3>1 DEF SatSub1
  <2> QED
    BY <2>1, <2>2, LimitsAssumption DEF TickInv
<1>12. CASE WorkerPop
  BY <1>12, WorkerPopMoves DEF WorkerPop, TickInv
<1>13. CASE Shutdown
  BY <1>13, ShutdownMoves DEF Shutdown, TickInv
<1>14. CASE ConsumerRelease
  BY <1>14, ConsumerReleaseMoves DEF ConsumerRelease, TickInv
<1>15. CASE \E s \in Signals : Expire(s)
  BY <1>15, NothingMoves DEF Expire, TickInv
<1>16. CASE WorkerCheck
  BY <1>16, NothingMoves DEF WorkerCheck, TickInv
<1>17. CASE WorkerDrained
  BY <1>17, NothingMoves DEF WorkerDrained, TickInv
<1>18. CASE Halt
  BY <1>18, NothingMoves DEF Halt, TickInv
<1>19. CASE SignalStop
  BY <1>19, NothingMoves DEF SignalStop, TickInv
<1>20. CASE Exit
  BY <1>20, NothingMoves DEF Exit, TickInv
<1>21. CASE UNCHANGED vars
  BY <1>21, NothingMoves DEF vars, TickInv
<1> QED
  BY <1>1, <1>2, <1>3, <1>4, <1>5, <1>6, <1>7, <1>8, <1>9, <1>10, <1>11, <1>12, <1>13,
     <1>14, <1>15, <1>16, <1>17, <1>18, <1>19, <1>20, <1>21 DEF Next, MainStep, WorkerStep,
     ConsumerStep, TaskStep, Exited

\* The counter moves with the positions, except for those it forgets.
LEMMA CountNext == TypeOK /\ SentInv /\ TickInv /\ CountInv /\ [Next]_vars => CountInv'
<1> SUFFICES ASSUME TypeOK, SentInv, TickInv, CountInv, [Next]_vars PROVE CountInv'
  OBVIOUS
<1>1. CASE \E s \in Signals : TickCheck(s)
  BY <1>1, TickCheckMoves DEF TickCheck, CountInv
<1>2. CASE \E s \in Signals : TickBelowScore(s)
  BY <1>2, TickBelowScoreMoves DEF TickBelowScore, CountInv
<1>3. CASE \E s \in Signals : TickStart(s)
  <2>1. PICK s \in Signals : TickStart(s)
    BY <1>3
  <2>2. /\ Counted' = Counted \cup {s} /\ s \notin Counted
        /\ Charged' = Charged \cup {s} /\ s \notin Charged
    BY <2>1, TickStartMoves
  <2>3. Cardinality(Counted') = Cardinality(Counted) + 1 /\ Cardinality(Counted) \in Nat
    BY <2>2, Card, Tracked
  <2>4. Cardinality(Charged') = Cardinality(Charged) + 1 /\ Cardinality(Charged) \in Nat
    BY <2>2, Card, Tracked
  <2>5. open_positions' = open_positions + 1 /\ open_positions < MaxOpen /\ open_positions \in Nat
    BY <2>1, TickStartMoves DEF TickStart, TickInv, TypeOK
  <2> QED
    BY <2>3, <2>4, <2>5, LimitsAssumption DEF CountInv
<1>4. CASE \E s \in Signals : Push(s)
  BY <1>4, PushMoves DEF Push, CountInv
<1>5. CASE \E s \in Signals : TickNotStarted(s)
  <2>1. PICK s \in Signals : TickNotStarted(s)
    BY <1>5
  <2>2. /\ Counted' = Counted \ {s} /\ s \in Counted
        /\ Charged' = Charged \ {s} /\ s \in Charged
    BY <2>1, TickNotStartedMoves
  <2>3. Cardinality(Counted') = Cardinality(Counted) - 1 /\ Cardinality(Counted') \in Nat
    BY <2>2, Card, Tracked
  <2>4. Cardinality(Charged') = Cardinality(Charged) - 1 /\ Cardinality(Charged) \in Nat
    BY <2>2, Card, Tracked
  <2>5. Cardinality(Counted) \in Nat
    BY Card, Tracked
  <2>6. open_positions \in Nat /\ open_positions > 0
    BY <2>3, <2>5 DEF CountInv, TypeOK
  <2>7. open_positions' = open_positions - 1
    BY <2>1, <2>6 DEF TickNotStarted, SatSub1
  <2> QED
    BY <2>3, <2>4, <2>5, <2>6, <2>7, LimitsAssumption DEF CountInv
<1>6. CASE \E s \in Signals : WorkerReserve(s)
  BY <1>6, WorkerReserveMoves DEF WorkerReserve, CountInv
<1>7. CASE \E s \in Signals : WorkerSpawn(s)
  BY <1>7, WorkerSpawnMoves DEF WorkerSpawn, CountInv
<1>8. CASE \E s \in Signals : Execute(s)
  BY <1>8, ExecuteMoves DEF Execute, CountInv
<1>9. CASE \E s \in Signals : TaskFinish(s)
  BY <1>9, TaskFinishMoves DEF TaskFinish, CountInv
<1>10. CASE \E s \in Signals : TaskPanic(s)
  BY <1>10, TaskPanicMoves DEF TaskPanic, CountInv
<1>11. CASE \E s \in Signals : ConsumerSettle(s)
  <2>1. PICK s \in Signals : ConsumerSettle(s)
    BY <1>11
  <2>2. /\ Counted' = Counted \ {s} /\ s \in Counted
        /\ Charged' = Charged \ {s} /\ s \in Charged
    BY <2>1, ConsumerSettleMoves
  <2>3. Cardinality(Counted') = Cardinality(Counted) - 1 /\ Cardinality(Counted') \in Nat
    BY <2>2, Card, Tracked
  <2>4. Cardinality(Charged') = Cardinality(Charged) - 1 /\ Cardinality(Charged) \in Nat
    BY <2>2, Card, Tracked
  <2>5. Cardinality(Counted) \in Nat
    BY Card, Tracked
  <2>6. open_positions \in Nat /\ open_positions > 0
    BY <2>3, <2>5 DEF CountInv, TypeOK
  <2>7. open_positions' = open_positions - 1
    BY <2>1, <2>6 DEF ConsumerSettle, SatSub1
  <2> QED
    BY <2>3, <2>4, <2>5, <2>6, <2>7, LimitsAssumption DEF CountInv
<1>12. CASE WorkerPop
  BY <1>12, WorkerPopMoves DEF WorkerPop, CountInv
<1>13. CASE Shutdown
  <2>1. Counted' \subseteq Counted /\ Charged \subseteq Charged' /\ UNCHANGED open_positions
    BY <1>13, ShutdownMoves DEF Shutdown
  <2>2. Charged' \in SUBSET Signals
    BY DEF Live, Forgotten, Counted, Held, Resolved, Lost, Checked, Charged, InTick,
       InWorker, Running, Holding, LiveStatuses, With, Among
  <2>3. Cardinality(Counted') <= Cardinality(Counted) /\ Cardinality(Counted) \in Nat
    BY <2>1, Card, Tracked
  <2>4. Cardinality(Counted') \in Nat
    BY <2>1, Card, Tracked
  <2>5. Cardinality(Charged) <= Cardinality(Charged') /\ Cardinality(Charged') \in Nat
    BY <2>1, <2>2, Card
  <2>6. Cardinality(Charged) \in Nat
    BY Card, Tracked
  <2> QED
    BY <2>1, <2>3, <2>4, <2>5, <2>6 DEF CountInv, TypeOK
<1>14. CASE ConsumerRelease
  BY <1>14, ConsumerReleaseMoves DEF ConsumerRelease, CountInv
<1>15. CASE \E s \in Signals : Expire(s)
  BY <1>15, NothingMoves DEF Expire, CountInv
<1>16. CASE WorkerCheck
  BY <1>16, NothingMoves DEF WorkerCheck, CountInv
<1>17. CASE WorkerDrained
  BY <1>17, NothingMoves DEF WorkerDrained, CountInv
<1>18. CASE Halt
  BY <1>18, NothingMoves DEF Halt, CountInv
<1>19. CASE SignalStop
  BY <1>19, NothingMoves DEF SignalStop, CountInv
<1>20. CASE Exit
  BY <1>20, NothingMoves DEF Exit, CountInv
<1>21. CASE UNCHANGED vars
  BY <1>21, NothingMoves DEF vars, CountInv
<1> QED
  BY <1>1, <1>2, <1>3, <1>4, <1>5, <1>6, <1>7, <1>8, <1>9, <1>10, <1>11, <1>12, <1>13,
     <1>14, <1>15, <1>16, <1>17, <1>18, <1>19, <1>20, <1>21 DEF Next, MainStep, WorkerStep,
     ConsumerStep, TaskStep, Exited

\* The two bounds on a reservation.
Bounds(k) ==
  /\ reserved[k] <= Total(Made(k), Held)
  /\ Total(Made(k), Holding) - reserved[k] <= Total(ReleasedAgain(k), Resolved)

\* ReservationsAccounted is the two bounds on every key.
LEMMA BoundsHold == ReservationsAccounted <=> \A k \in Keys : Bounds(k)
BY DEF ReservationsAccounted, Bounds, Held, Resolved

\* All sums are natural numbers.
LEMMA Sums ==
  ASSUME TypeOK, NEW k \in Keys
  PROVE  /\ reserved[k] \in Nat /\ Total(Made(k), Held) \in Nat /\ Total(Made(k), Holding) \in Nat
         /\ Total(ReleasedAgain(k), Resolved) \in Nat
         /\ \A s \in Signals : /\ Made(k)[s] = ReservedBy(s)[k] /\ Made(k)[s] \in Nat
                               /\ ReleasedAgain(k)[s] = ReleasedByConsumer(s)[k]
                               /\ ReleasedAgain(k)[s] \in Nat
<1>1. Made(k) \in [Signals -> Nat] /\ ReleasedAgain(k) \in [Signals -> Nat]
  BY AmountsNat
<1>2. \A s \in Signals : Made(k)[s] = ReservedBy(s)[k] /\ ReleasedAgain(k)[s] = ReleasedByConsumer(s)[k]
  BY DEF Made, ReleasedAgain
<1>3. reserved[k] \in Nat
  BY DEF TypeOK
<1>4. IsFiniteSet(Units(Made(k), Held)) /\ IsFiniteSet(Units(Made(k), Holding))
  BY <1>1, Tracked, UnitsFinite
<1>5. IsFiniteSet(Units(ReleasedAgain(k), Resolved))
  BY <1>1, Tracked, UnitsFinite
<1>6. Total(Made(k), Held) \in Nat /\ Total(Made(k), Holding) \in Nat
  BY <1>4, FS_CardinalityType DEF Total, Units
<1>7. Total(ReleasedAgain(k), Resolved) \in Nat
  BY <1>5, FS_CardinalityType DEF Total, Units
<1> QED
  BY <1>1, <1>2, <1>3, <1>6, <1>7

\* A step that moves no reservation keeps the bounds.
LEMMA ReserveKept ==
  ASSUME ReservationsAccounted, UNCHANGED <<Holding, Held, Resolved, reserved>>
  PROVE  ReservationsAccounted'
<1>1. \A k \in Keys : Bounds(k)
  BY BoundsHold
<1>2. \A k \in Keys : Bounds(k)'
  BY <1>1 DEF Bounds
<1> QED
  BY <1>2 DEF ReservationsAccounted, Bounds, Held, Resolved

\* The bounds after a step, key by key.
LEMMA BoundsNext ==
  ASSUME \A k \in Keys :
           /\ reserved'[k] <= Total(Made(k), Held')
           /\ Total(Made(k), Holding') - reserved'[k] <= Total(ReleasedAgain(k), Resolved')
  PROVE  ReservationsAccounted'
BY DEF ReservationsAccounted, Held, Resolved

\* Reserving adds the same amount to both sides.
LEMMA ReserveStep ==
  ASSUME TypeOK, ReservationsAccounted, NEW s \in Signals, reserved' = Reserve(s),
         Holding' = Holding \cup {s}, s \notin Holding, Held' = Held \cup {s}, s \notin Held,
         Resolved' = Resolved
  PROVE  ReservationsAccounted'
<1> SUFFICES ASSUME NEW k \in Keys
             PROVE  /\ reserved'[k] <= Total(Made(k), Held')
                    /\ Total(Made(k), Holding') - reserved'[k] <= Total(ReleasedAgain(k), Resolved')
  BY BoundsNext
<1>1. reserved'[k] = reserved[k] + Made(k)[s]
  BY Sums DEF Reserve
<1>2. Total(Made(k), Held') = Total(Made(k), Held) + Made(k)[s]
  BY Tracked, TotalAdd, AmountsNat
<1>3. Total(Made(k), Holding') = Total(Made(k), Holding) + Made(k)[s]
  BY Tracked, TotalAdd, AmountsNat
<1>4. /\ reserved[k] <= Total(Made(k), Held)
      /\ Total(Made(k), Holding) - reserved[k] <= Total(ReleasedAgain(k), Resolved)
  BY BoundsHold DEF Bounds
<1>5. /\ reserved[k] \in Nat /\ Made(k)[s] \in Nat /\ Total(Made(k), Held) \in Nat
      /\ Total(Made(k), Holding) \in Nat /\ Total(ReleasedAgain(k), Resolved) \in Nat
  BY Sums
<1> QED
  BY <1>1, <1>2, <1>3, <1>4, <1>5

\* The task's release takes it away again, and clamps in its favour.
LEMMA ReleaseStep ==
  ASSUME TypeOK, ReservationsAccounted, NEW s \in Signals, reserved' = Release(ReservedBy(s)),
         Holding' = Holding \ {s}, s \in Holding, Held' = Held \ {s}, s \in Held,
         Resolved' = Resolved
  PROVE  ReservationsAccounted'
<1> SUFFICES ASSUME NEW k \in Keys
             PROVE  /\ reserved'[k] <= Total(Made(k), Held')
                    /\ Total(Made(k), Holding') - reserved'[k] <= Total(ReleasedAgain(k), Resolved')
  BY BoundsNext
<1>1. reserved'[k] = IF reserved[k] < Made(k)[s] THEN 0 ELSE reserved[k] - Made(k)[s]
  BY Sums DEF Release
<1>2. Total(Made(k), Held) = Total(Made(k), Held') + Made(k)[s] /\ Total(Made(k), Held') \in Nat
  BY Tracked, TotalRemove, AmountsNat, Zenon
<1>3. /\ Total(Made(k), Holding) = Total(Made(k), Holding') + Made(k)[s]
      /\ Total(Made(k), Holding') \in Nat
  BY Tracked, TotalRemove, AmountsNat
<1>4. /\ reserved[k] <= Total(Made(k), Held)
      /\ Total(Made(k), Holding) - reserved[k] <= Total(ReleasedAgain(k), Resolved)
  BY BoundsHold DEF Bounds
<1>5. reserved[k] \in Nat /\ Made(k)[s] \in Nat /\ Total(ReleasedAgain(k), Resolved) \in Nat
  BY Sums
<1> QED
  BY <1>1, <1>2, <1>3, <1>4, <1>5

\* A panic keeps the reservation and ends the execution.
LEMMA PanicStep ==
  ASSUME TypeOK, ReservationsAccounted, NEW s \in Signals,
         Holding' = Holding \ {s}, s \in Holding, UNCHANGED <<Held, Resolved, reserved>>
  PROVE  ReservationsAccounted'
<1> SUFFICES ASSUME NEW k \in Keys
             PROVE  /\ reserved'[k] <= Total(Made(k), Held')
                    /\ Total(Made(k), Holding') - reserved'[k] <= Total(ReleasedAgain(k), Resolved')
  BY BoundsNext
<1>1. /\ Total(Made(k), Holding) = Total(Made(k), Holding') + Made(k)[s]
      /\ Total(Made(k), Holding') \in Nat
  BY Tracked, TotalRemove, AmountsNat
<1>2. /\ reserved[k] <= Total(Made(k), Held)
      /\ Total(Made(k), Holding) - reserved[k] <= Total(ReleasedAgain(k), Resolved)
  BY BoundsHold DEF Bounds
<1>3. reserved[k] \in Nat /\ Made(k)[s] \in Nat /\ Total(ReleasedAgain(k), Resolved) \in Nat
  BY Sums
<1> QED
  BY <1>1, <1>2, <1>3

\* The consumer's release is charged to the completion it is made for.
LEMMA SecondRelease ==
  ASSUME TypeOK, ReservationsAccounted, NEW s \in Signals,
         reserved' = Release(ReleasedByConsumer(s)),
         Resolved' = Resolved \cup {s}, s \notin Resolved, UNCHANGED <<Holding, Held>>
  PROVE  ReservationsAccounted'
<1> SUFFICES ASSUME NEW k \in Keys
             PROVE  /\ reserved'[k] <= Total(Made(k), Held')
                    /\ Total(Made(k), Holding') - reserved'[k] <= Total(ReleasedAgain(k), Resolved')
  BY BoundsNext, ZenonT(60)
<1>1. reserved'[k] = IF reserved[k] < ReleasedAgain(k)[s] THEN 0 ELSE reserved[k] - ReleasedAgain(k)[s]
  BY Sums DEF Release
<1>2. Total(ReleasedAgain(k), Resolved') = Total(ReleasedAgain(k), Resolved) + ReleasedAgain(k)[s]
  BY Tracked, TotalAdd, AmountsNat
<1>3. /\ reserved[k] <= Total(Made(k), Held)
      /\ Total(Made(k), Holding) - reserved[k] <= Total(ReleasedAgain(k), Resolved)
  BY BoundsHold DEF Bounds
<1>4. /\ reserved[k] \in Nat /\ ReleasedAgain(k)[s] \in Nat /\ Total(Made(k), Held) \in Nat
      /\ Total(Made(k), Holding) \in Nat /\ Total(ReleasedAgain(k), Resolved) \in Nat
  BY Sums
<1> QED
  BY <1>1, <1>2, <1>3, <1>4

\* Reservations follow the executions.
LEMMA ReserveNext == TypeOK /\ SentInv /\ ReservationsAccounted /\ [Next]_vars => ReservationsAccounted'
<1> SUFFICES ASSUME TypeOK, SentInv, ReservationsAccounted, [Next]_vars PROVE ReservationsAccounted'
  OBVIOUS
<1>1. CASE \E s \in Signals : TickCheck(s)
  BY <1>1, TickCheckMoves, ReserveKept DEF TickCheck
<1>2. CASE \E s \in Signals : TickBelowScore(s)
  BY <1>2, TickBelowScoreMoves, ReserveKept DEF TickBelowScore
<1>3. CASE \E s \in Signals : TickStart(s)
  BY <1>3, TickStartMoves, ReserveKept DEF TickStart
<1>4. CASE \E s \in Signals : Push(s)
  BY <1>4, PushMoves, ReserveKept DEF Push
<1>5. CASE \E s \in Signals : TickNotStarted(s)
  BY <1>5, TickNotStartedMoves, ReserveKept DEF TickNotStarted
<1>6. CASE \E s \in Signals : WorkerReserve(s)
  BY <1>6, WorkerReserveMoves, ReserveStep, ReserveKept
<1>7. CASE \E s \in Signals : WorkerSpawn(s)
  BY <1>7, WorkerSpawnMoves, ReserveKept DEF WorkerSpawn
<1>8. CASE \E s \in Signals : Execute(s)
  BY <1>8, ExecuteMoves, ReserveKept DEF Execute
<1>9. CASE \E s \in Signals : TaskFinish(s)
  BY <1>9, TaskFinishMoves, ReleaseStep DEF TaskFinish
<1>10. CASE \E s \in Signals : TaskPanic(s)
  BY <1>10, TaskPanicMoves, PanicStep DEF TaskPanic
<1>11. CASE \E s \in Signals : ConsumerSettle(s)
  BY <1>11, ConsumerSettleMoves, ReserveKept DEF ConsumerSettle
<1>12. CASE WorkerPop
  BY <1>12, WorkerPopMoves, ReserveKept DEF WorkerPop
<1>13. CASE Shutdown
  BY <1>13, ShutdownMoves, ReserveKept DEF Shutdown
<1>14. CASE ConsumerRelease
  BY <1>14, ConsumerReleaseMoves, SecondRelease
<1>15. CASE \E s \in Signals : Expire(s)
  BY <1>15, NothingMoves, ReserveKept DEF Expire
<1>16. CASE WorkerCheck
  BY <1>16, NothingMoves, ReserveKept DEF WorkerCheck
<1>17. CASE WorkerDrained
  BY <1>17, NothingMoves, ReserveKept DEF WorkerDrained
<1>18. CASE Halt
  BY <1>18, NothingMoves, ReserveKept DEF Halt
<1>19. CASE SignalStop
  BY <1>19, NothingMoves, ReserveKept DEF SignalStop
<1>20. CASE Exit
  BY <1>20, NothingMoves, ReserveKept DEF Exit
<1>21. CASE UNCHANGED vars
  BY <1>21, NothingMoves, ReserveKept DEF vars
<1> QED
  BY <1>1, <1>2, <1>3, <1>4, <1>5, <1>6, <1>7, <1>8, <1>9, <1>10, <1>11, <1>12, <1>13,
     <1>14, <1>15, <1>16, <1>17, <1>18, <1>19, <1>20, <1>21 DEF Next, MainStep, WorkerStep,
     ConsumerStep, TaskStep, Exited

\* The statuses.
LEMMA StatusesMembers ==
  /\ "new" \in Statuses /\ "checked" \in Statuses /\ "started" \in Statuses /\ "unqueued" \in Statuses
  /\ "queued" \in Statuses /\ "popped" \in Statuses /\ "reserved" \in Statuses /\ "executing" \in Statuses
  /\ "executed" \in Statuses /\ "sent" \in Statuses /\ "settling" \in Statuses /\ "settled" \in Statuses
  /\ "dropped" \in Statuses /\ "evicted" \in Statuses /\ "expired" \in Statuses /\ "panicked" \in Statuses
  /\ "lost" \in Statuses
BY DEF Statuses

\* Reservations stay natural numbers: they grow by natural amounts, and a
\* release clamps.
LEMMA ReservedNat ==
  ASSUME TypeOK, NEW s \in Signals
  PROVE  /\ Reserve(s) \in [Keys -> Nat] /\ Release(ReservedBy(s)) \in [Keys -> Nat]
         /\ Release(ReleasedByConsumer(s)) \in [Keys -> Nat]
<1>1. \A k \in Keys : reserved[k] \in Nat /\ ReservedBy(s)[k] \in Nat /\ ReleasedByConsumer(s)[k] \in Nat
  BY Sums
<1> QED
  BY <1>1 DEF Reserve, Release

\* Types, with the permits in range.
LEMMA TypeNext == TypeOK /\ permits' \in 0..MaxConcurrent /\ [Next]_vars => TypeOK'
<1> SUFFICES ASSUME TypeOK, permits' \in 0..MaxConcurrent, [Next]_vars PROVE TypeOK'
  OBVIOUS
<1>1. CASE \E s \in Signals : TickCheck(s)
  BY <1>1, StatusesMembers DEF TickCheck, TypeOK, Move
<1>2. CASE \E s \in Signals : TickBelowScore(s)
  BY <1>2, StatusesMembers DEF TickBelowScore, TypeOK, Move
<1>3. CASE \E s \in Signals : TickStart(s)
  BY <1>3, StatusesMembers DEF TickStart, TypeOK, Move
<1>4. CASE \E s \in Signals : Push(s)
  <2>1. status' \in [Signals -> Statuses]
    BY <1>4, StatusesMembers, ZenonT(60) DEF TypeOK, Push, Move, Queued, With
  <2>2. PICK s \in Signals :
          \/ UNCHANGED <<enqueued_at, clock>>
          \/ enqueued_at' = [enqueued_at EXCEPT ![s] = clock] /\ clock' = clock + 1
    BY <1>4 DEF Push
  <2>3. enqueued_at' \in [Signals -> Nat] /\ clock' \in Nat
    BY <2>2 DEF TypeOK
  <2> QED
    BY <1>4, <2>1, <2>3 DEF TypeOK, Push
<1>5. CASE \E s \in Signals : TickNotStarted(s)
  BY <1>5, StatusesMembers DEF TickNotStarted, TypeOK, Move, SatSub1
<1>6. CASE \E s \in Signals : WorkerReserve(s)
  <2>1. PICK s \in Signals : WorkerReserve(s)
    BY <1>6
  <2>2. status' \in [Signals -> Statuses]
    BY <2>1, StatusesMembers, Zenon DEF TypeOK, WorkerReserve, Move
  <2>3. reserved' \in [Keys -> Nat]
    BY <2>1, ReservedNat DEF TypeOK, WorkerReserve
  <2>4. completions' \in Seq(Signals)
    <3>1. completions' = completions \/ completions' = Append(completions, s)
      BY <2>1 DEF WorkerReserve
    <3>2. completions \in Seq(Signals)
      BY DEF TypeOK
    <3> QED
      BY <3>1, <3>2
  <2> QED
    BY <2>1, <2>2, <2>3, <2>4 DEF TypeOK, WorkerReserve
<1>7. CASE \E s \in Signals : WorkerSpawn(s)
  BY <1>7, StatusesMembers DEF WorkerSpawn, TypeOK, Move
<1>8. CASE \E s \in Signals : Execute(s)
  BY <1>8, StatusesMembers DEF Execute, TypeOK, Move
<1>9. CASE \E s \in Signals : TaskFinish(s)
  BY <1>9, StatusesMembers, ReservedNat DEF TaskFinish, TypeOK, Move
<1>10. CASE \E s \in Signals : TaskPanic(s)
  BY <1>10, StatusesMembers DEF TaskPanic, TypeOK, Move
<1>11. CASE \E s \in Signals : ConsumerSettle(s)
  BY <1>11, StatusesMembers DEF ConsumerSettle, TypeOK, Move, SatSub1
<1>12. CASE WorkerPop
  BY <1>12, StatusesMembers, Zenon DEF WorkerPop, TypeOK, Move
<1>13. CASE Shutdown
  BY <1>13, StatusesMembers DEF Shutdown, TypeOK, Move, InTick, Among
<1>14. CASE ConsumerRelease
  <2>1. Head(completions) \in Signals /\ completions' \in Seq(Signals)
    BY <1>14 DEF TypeOK, ConsumerRelease
  <2> QED
    BY <1>14, <2>1, StatusesMembers, ReservedNat DEF TypeOK, ConsumerRelease, Move
<1>15. CASE \E s \in Signals : Expire(s)
  BY <1>15, StatusesMembers DEF Expire, TypeOK, Move
<1>16. CASE WorkerCheck
  BY <1>16, StatusesMembers DEF WorkerCheck, TypeOK, Move
<1>17. CASE WorkerDrained
  BY <1>17, StatusesMembers DEF WorkerDrained, TypeOK, Move
<1>18. CASE Halt
  BY <1>18, StatusesMembers DEF Halt, TypeOK, Move
<1>19. CASE SignalStop
  BY <1>19, StatusesMembers DEF SignalStop, TypeOK, Move
<1>20. CASE Exit
  BY <1>20, StatusesMembers DEF Exit, TypeOK, Move
<1>21. CASE UNCHANGED vars
  BY <1>21 DEF vars, TypeOK
<1> QED
  BY <1>1, <1>2, <1>3, <1>4, <1>5, <1>6, <1>7, <1>8, <1>9, <1>10, <1>11, <1>12, <1>13,
     <1>14, <1>15, <1>16, <1>17, <1>18, <1>19, <1>20, <1>21 DEF Next, MainStep, WorkerStep,
     ConsumerStep, TaskStep, Exited

\* A fresh process.
LEMMA InitInv == Init => IInv
<1> SUFFICES ASSUME Init PROVE IInv
  OBVIOUS
<1>1. TypeOK
  <2>1. status \in [Signals -> Statuses] /\ enqueued_at \in [Signals -> Nat]
    BY StatusesMembers DEF Init
  <2>2. reserved \in [Keys -> Nat] /\ permits \in 0..MaxConcurrent /\ completions \in Seq(Signals)
    BY LimitsAssumption DEF Init
  <2> QED
    BY <2>1, <2>2, Zenon DEF Init, TypeOK
<1>2. /\ Running = {} /\ InWorker = {} /\ InTick = {} /\ Checked = {} /\ Counted = {}
      /\ Charged = {} /\ Holding = {} /\ Held = {} /\ Resolved = {}
  BY DEF Init, Live, Forgotten, Counted, Held, Resolved, Lost, Checked, Charged, InTick,
     InWorker, Running, Holding, LiveStatuses, With, Among
<1>3. Cardinality({}) = 0
  BY FS_EmptySet
<1>4. SentInv /\ PermitInv /\ WorkerInv /\ TickInv /\ CountInv
  BY <1>2, <1>3, LimitsAssumption DEF Init, SentInv, PermitInv, WorkerInv, TickInv, CountInv
<1>5. \A k \in Keys : Bounds(k)
  <2>1. \A w : Total(w, {}) = 0
    BY <1>3 DEF Total
  <2>2. \A k \in Keys : reserved[k] = 0
    BY DEF Init
  <2> QED
    BY <1>2, <2>1, <2>2 DEF Bounds
<1> QED
  BY <1>1, <1>4, <1>5, BoundsHold DEF IInv

\* Every step keeps the invariant.
LEMMA NextInv == IInv /\ [Next]_vars => IInv'
<1> SUFFICES ASSUME IInv, [Next]_vars PROVE IInv'
  OBVIOUS
<1>1. SentInv' /\ PermitInv'
  BY SentNext, PermitNext DEF IInv
<1>2. WorkerInv' /\ TickInv' /\ CountInv'
  BY WorkerNext, TickNext, CountNext DEF IInv
<1>3. ReservationsAccounted'
  BY ReserveNext DEF IInv
<1>4. permits' \in 0..MaxConcurrent
  <2>1. Running' \in SUBSET Signals
    BY DEF Running, Among
  <2>2. Cardinality(Running') \in Nat
    BY <2>1, Card
  <2> QED
    BY <1>1, <2>2, LimitsAssumption DEF PermitInv
<1>5. TypeOK'
  BY <1>4, TypeNext DEF IInv
<1> QED
  BY <1>1, <1>2, <1>3, <1>5 DEF IInv

\* The invariant holds of every run of the bot.
LEMMA Invariance == Spec => []IInv
BY InitInv, NextInv, PTL DEF Spec

-----------------------------------------------------------------------------
\* The open-position counter is exact up to the signals a halt dropped from
\* their tick, never passes its limit, and never loses a position: whatever the
\* queue evicts or lets expire, and whatever panics, stays counted for ever.
THEOREM PositionsAccounted == Spec => []OpenPositionsAccounted
<1>1. IInv => OpenPositionsAccounted
  BY DEF IInv, CountInv, OpenPositionsAccounted, Counted, Charged, Lost
<1> QED
  BY Invariance, <1>1, PTL

\* No more than max_concurrent_executions run, and a worker that reports itself
\* drained, or a process that reports a clean exit, leaves none behind.
THEOREM DrainedLeavesNone == Spec => []DrainedMeansIdle
<1>1. IInv => DrainedMeansIdle
  <2> SUFFICES ASSUME IInv PROVE DrainedMeansIdle
    OBVIOUS
  <2>1. Cardinality(Running) \in Nat /\ Cardinality(Running) <= MaxConcurrent
    BY Card, Tracked, LimitsAssumption DEF IInv, PermitInv
  <2>2. worker = "stopped" => Running = {}
    BY DEF IInv, WorkerInv
  <2>3. clean => clean = TRUE
    BY DEF IInv, TypeOK
  <2> QED
    BY <2>1, <2>2, <2>3 DEF IInv, WorkerInv, DrainedMeansIdle
<1> QED
  BY Invariance, <1>1, PTL

\* No reservation outlives its execution unless that panicked, and what is
\* missing from the reservations of the executions under way is no more than what
\* the consumer has released a second time.
THEOREM ReservationsFollow == Spec => []ReservationsAccounted
<1>1. IInv => ReservationsAccounted
  BY DEF IInv
<1> QED
  BY Invariance, <1>1, PTL

=============================================================================
