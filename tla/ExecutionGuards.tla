--------------------------- MODULE ExecutionGuards ---------------------------
(***************************************************************************)
(* The guards around an execution: `Executor::execute`                     *)
(* (src/executor/engine.rs) with the `CircuitBreaker` and the SQLite       *)
(* journalled `ReplayProtection` of src/executor/recovery.rs.  Several     *)
(* calls of `execute` run at once and take each lock separately; the       *)
(* process may crash and restart at any point, keeping only the journal.   *)
(*                                                                         *)
(* Time is counted in ticks, TicksPerSec of them to a second: `Instant`    *)
(* has tick resolution, the journal's unix time whole seconds.             *)
(***************************************************************************)
EXTENDS Integers, Sequences, FiniteSets

CONSTANTS
  Tasks,        \* calls of execute
  SignalOf,     \* per task: the signal id it is called with
  Threshold,    \* CircuitBreakerConfig.failure_threshold
  Window,       \* CircuitBreakerConfig.window, in ticks
  Cooldown,     \* CircuitBreakerConfig.cooldown, in ticks
  TtlSecs,      \* replay TTL, in seconds
  TicksPerSec,
  MaxTime       \* bound: last instant of a behaviour

ASSUME ThresholdAssumption == Threshold \in Nat \ {0}
ASSUME DurationAssumption ==
  /\ Window \in Nat \ {0} /\ Cooldown \in Nat /\ TtlSecs \in Nat \ {0}
  /\ TicksPerSec \in Nat \ {0} /\ MaxTime \in Nat

Ids == {SignalOf[t] : t \in Tasks}
Ttl == TtlSecs * TicksPerSec
None == -1
Unix(t) == t \div TicksPerSec

VARIABLES
  now,
  pc,          \* where each call of execute is
  outcome,     \* how its legs ended, until it is reported
  failures,    \* CircuitBreaker.failures
  tripped_at,  \* CircuitBreaker.tripped_at
  executed,    \* ReplayProtection.executed: per id, the Instant or None
  journal,     \* replay_seen table: per id, expires_at in unix seconds or None
  history,     \* ghost: every failure since the breaker was last reset
  before_trip, \* ghost: calls past the breaker check when it tripped
  marked,      \* ghost: per id, when it was last marked
  durable      \* ghost: the ids whose mark this process has in memory or loaded from the journal

breaker == <<failures, tripped_at, history, before_trip>>
replay == <<executed, journal, marked, durable>>
vars == <<now, pc, outcome, breaker, replay>>

\* What the breaker tells apart: Done at a loss and every state but Done and
\* Rejected is a "failure"; record_success is a no-op and a rejection is
\* neutral.
Outcomes == {"failure", "neutral"}

Init ==
  /\ now = 0
  /\ pc = [t \in Tasks |-> "called"]
  /\ outcome = [t \in Tasks |-> "none"]
  /\ failures = <<>> /\ tripped_at = None /\ history = <<>> /\ before_trip = {}
  /\ executed = [i \in Ids |-> None] /\ journal = [i \in Ids |-> None]
  /\ marked = [i \in Ids |-> None] /\ durable = {}

-----------------------------------------------------------------------------
(* CircuitBreaker.                                                         *)

\* The calls that have passed the breaker check and may trade yet.
PastCheck == {t \in Tasks : pc[t] \in {"replay", "fresh", "running"}}

\* A fresh or auto-reset breaker.
Closed == failures' = <<>> /\ tripped_at' = None /\ history' = <<>> /\ before_trip' = {}

\* The cooldown is over: the next is_open resets the breaker.
CooldownOver == tripped_at # None /\ now - tripped_at > Cooldown

\* Mutant: the check lets a call through at the last instant of the cooldown.
IsOpenShort == tripped_at # None /\ now - tripped_at < Cooldown

\* `is_open_at`: its answer, and its side effect.
IsOpen == tripped_at # None /\ ~CooldownOver

IsOpenEffect ==
  \/ CooldownOver /\ Closed
  \/ ~CooldownOver /\ UNCHANGED breaker

\* Mutant: entries that have left the window are still counted.
PoppedNone(fs, n) == n = 0

\* How many entries the loop at a failure pops off the front: those at or before
\* the cutoff, up to the first one after it.
Popped(fs, n) ==
  /\ \A k \in 1..n : fs[k] <= now - Window
  /\ n < Len(fs) => fs[n + 1] > now - Window

\* `record_failure_at(now)`, and the is_open execute calls under the same lock.
RecordFailure ==
  LET fs == Append(failures, now)
  IN \/ CooldownOver /\ Closed
     \/ /\ ~CooldownOver
        /\ \E n \in 0..Len(fs) : Popped(fs, n) /\ failures' = SubSeq(fs, n + 1, Len(fs))
        /\ history' = Append(history, now)
        /\ \/ /\ Len(failures') >= Threshold /\ tripped_at = None
              /\ tripped_at' = now /\ before_trip' = PastCheck
           \/ /\ ~(Len(failures') >= Threshold /\ tripped_at = None)
              /\ UNCHANGED <<tripped_at, before_trip>>

-----------------------------------------------------------------------------
(* ReplayProtection.                                                       *)

\* `cleanup` keeps entries of age at most the TTL.
Fresh(at) == at # None /\ now - at <= Ttl

\* `cleanup`: memory by Instant, journal by unix seconds.
CleanMemory == [i \in Ids |-> IF Fresh(executed[i]) THEN executed[i] ELSE None]
PrunedJournal == [i \in Ids |-> IF journal[i] # None /\ journal[i] <= Unix(now) THEN None ELSE journal[i]]

\* Mutant: the age is added to the instant of the restart.
SeenAtAhead(i) == now + (Unix(now) - (journal[i] - TtlSecs)) * TicksPerSec

\* Mutant: the age is taken from the expiry, not from when the signal was seen.
SeenAtExpiry(i) ==
  LET age == Unix(now) - (journal[i] - 2 * TtlSecs)
  IN now - (IF age > 0 THEN age ELSE 0) * TicksPerSec

\* `with_journal`: the Instant rebuilt from an entry, whole seconds back from now.
SeenAt(i) ==
  LET age == Unix(now) - (journal[i] - TtlSecs)
  IN now - (IF age > 0 THEN age ELSE 0) * TicksPerSec

-----------------------------------------------------------------------------
(* Executor::execute.                                                      *)

\* Pre-flight 1: the breaker.
CheckBreaker(t) ==
  /\ pc[t] = "called"
  /\ pc' = [pc EXCEPT ![t] = IF IsOpen THEN "returned" ELSE "replay"]
  /\ IsOpenEffect
  /\ UNCHANGED <<now, outcome, replay>>

\* Pre-flight 2: is_duplicate.
CheckReplay(t) ==
  /\ pc[t] = "replay"
  /\ executed' = CleanMemory /\ journal' = PrunedJournal
  /\ pc' = [pc EXCEPT ![t] = IF executed'[SignalOf[t]] # None THEN "returned" ELSE "fresh"]
  /\ UNCHANGED <<now, outcome, breaker, marked, durable>>

\* Signal::is_valid fails, or the legs start.
Validate(t) ==
  /\ pc[t] = "fresh"
  /\ \E next \in {"returned", "running"} : pc' = [pc EXCEPT ![t] = next]
  /\ UNCHANGED <<now, outcome, breaker, replay>>

\* `mark_executed`: memory first, then an upsert whose failure is only logged.
MarkExecuted(i) ==
  /\ executed' = [executed EXCEPT ![i] = now]
  /\ marked' = [marked EXCEPT ![i] = now]
  /\ durable' = durable \cup {i}
  /\ \/ journal' = [journal EXCEPT ![i] = Unix(now) + TtlSecs]
     \/ UNCHANGED journal

\* The legs end, whatever their outcome, and the signal is marked.
FinishLegs(t) ==
  /\ pc[t] = "running"
  /\ \E o \in Outcomes : outcome' = [outcome EXCEPT ![t] = o]
  /\ MarkExecuted(SignalOf[t])
  /\ pc' = [pc EXCEPT ![t] = "report"]
  /\ UNCHANGED <<now, breaker>>

\* The outcome is fed to the breaker, and is_open is read under the same lock.
Report(t) ==
  /\ pc[t] = "report"
  /\ \/ outcome[t] = "failure" /\ RecordFailure
     \/ outcome[t] = "neutral" /\ IsOpenEffect
  /\ pc' = [pc EXCEPT ![t] = "returned"]
  /\ outcome' = [outcome EXCEPT ![t] = "none"]
  /\ UNCHANGED <<now, replay>>

-----------------------------------------------------------------------------
(* Around it.                                                              *)

\* The tick's fast path and the one-second breaker watcher call is_open.
PollBreaker ==
  /\ CooldownOver /\ IsOpenEffect
  /\ UNCHANGED <<now, pc, outcome, replay>>

Advance ==
  /\ now < MaxTime /\ now' = now + 1
  /\ UNCHANGED <<pc, outcome, breaker, replay>>

\* The process dies and comes back: calls under way are gone, the breaker is
\* new, the replay memory is what with_journal loads.
Restart ==
  /\ pc' = [t \in Tasks |-> IF pc[t] \in {"called", "returned"} THEN pc[t] ELSE "crashed"]
  /\ pc' # pc \/ \E i \in Ids : executed[i] # None
  /\ Closed
  /\ journal' = PrunedJournal
  /\ executed' = [i \in Ids |-> IF PrunedJournal[i] # None THEN SeenAt(i) ELSE None]
  /\ durable' = {i \in durable : journal[i] = Unix(marked[i]) + TtlSecs}
  /\ outcome' = [t \in Tasks |-> "none"]
  /\ UNCHANGED <<now, marked>>

\* Every call has returned and time is up.
Over == now = MaxTime /\ (\A t \in Tasks : pc[t] \in {"returned", "crashed"}) /\ UNCHANGED vars

TaskStep(t) == CheckBreaker(t) \/ CheckReplay(t) \/ Validate(t) \/ FinishLegs(t) \/ Report(t)

Next == (\E t \in Tasks : TaskStep(t)) \/ PollBreaker \/ Advance \/ Restart \/ Over

Spec == Init /\ [][Next]_vars

-----------------------------------------------------------------------------
(* Properties.                                                             *)

\* The type invariant; in particular no entry of the replay memory, journalled
\* ones rebuilt after a restart included, lies before the start of time or in
\* the future, where `duration_since` would keep it alive too long.
TypeOK ==
  /\ now \in 0..MaxTime
  /\ pc \in [Tasks -> {"called", "replay", "fresh", "running", "report", "returned", "crashed"}]
  /\ outcome \in [Tasks -> Outcomes \cup {"none"}]
  /\ failures \in Seq(0..MaxTime) /\ history \in Seq(0..MaxTime)
  /\ tripped_at \in 0..MaxTime \cup {None} /\ before_trip \in SUBSET Tasks
  /\ executed \in [Ids -> 0..now \cup {None}] /\ journal \in [Ids -> Nat \cup {None}]
  /\ marked \in [Ids -> 0..MaxTime \cup {None}] /\ durable \subseteq Ids

\* How many failures of the full history fall in the window that ends at t.
InWindow(t) == Cardinality({k \in 1..Len(history) : t - Window < history[k] /\ history[k] <= t})

\* The pruned deque decides exactly as the definition over the whole history
\* would: the breaker is tripped only after `failure_threshold` failures within
\* one window, and it is never left closed once there were that many.
BreakerMatchesHistory ==
  TypeOK /\
  IF tripped_at = None
  THEN \A k \in 1..Len(history) : InWindow(history[k]) < Threshold
  ELSE InWindow(tripped_at) >= Threshold

\* Once tripped, the breaker stops every call that comes later, for the whole
\* cool-off: only calls that were past the check when it tripped may still be on
\* their way to a leg.
TripStopsNewCalls == tripped_at # None => PastCheck \subseteq before_trip

\* A call that gets past is_duplicate carries a signal that was not marked
\* within the TTL, in this process or in an earlier one that journalled it; the
\* journal's whole seconds may end the window less than a second early.
FreshMeansUnmarked ==
  [][\A t \in Tasks :
       (pc[t] = "replay" /\ pc'[t] = "fresh" /\ SignalOf[t] \in durable)
         => now - marked[SignalOf[t]] > Ttl - TicksPerSec]_vars

=============================================================================
