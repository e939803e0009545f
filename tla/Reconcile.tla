------------------------------ MODULE Reconcile ------------------------------
(***************************************************************************)
(* The background reconciler of LEG2_TIMEOUT executions: `ReconcileStore`  *)
(* and `ReconcileWorker` (src/executor/reconcile.rs), the loop that drives *)
(* them and `handle_reconcile_outcomes` (src/bin/arb_bot.rs).              *)
(*                                                                         *)
(* The store is SQLite and survives a crash; the batch the worker is in    *)
(* the middle of does not.  The swap behind an entry lands, or not, at any *)
(* moment: between the receipt query and the store update in particular.   *)
(*                                                                         *)
(* The specification's own names carry the prefix Rec, so that a module    *)
(* can extend this one and LegExecution, which feeds the store.            *)
(***************************************************************************)
EXTENDS Integers

CONSTANTS
  Signals,   \* signal ids whose leg 2 timed out
  Repeated,  \* the ids among them that are added more than once
  MaxAdds    \* bound: calls of `add` for one id

\* A PendingReconcile as the n-th `add` of its signal id writes it.
Entries == [signal : Signals, n : {1}] \cup [signal : Repeated, n : 1..MaxAdds]

VARIABLES
  hash,      \* tx_hash: the entry whose own swap each entry names
  tx,        \* truth: the leg-2 transaction an execution stored with each entry
  status,    \* status column while the row holds the entry, else "absent" or "superseded"
  raced,     \* ghost: entries that replaced one the worker was about to mark
  old,       \* entries at least max_age old
  phase,     \* the worker: sleeping, in tick_once, marking, handling outcomes
  todo,      \* entries of this tick's list_pending not yet inspected
  current,   \* the entry being marked and the outcome inspect gave it
  out,       \* outcomes collected by this tick
  attempts   \* ghost: calls of unwind_position per entry

rowvars == <<hash, status, raced>>
recvars == <<hash, tx, status, raced, old, phase, todo, current, out, attempts>>

Idle == [outcome |-> "none"]

\* The status column a terminal outcome is stored as.
MarkedAs == [ReceiptSuccess |-> "resolved", ReceiptReverted |-> "reverted", Expired |-> "expired"]
Outcomes == DOMAIN MarkedAs

TxStates == {"inflight", "mined", "reverted", "replaced"}

RecInit ==
  /\ hash = [e \in Entries |-> e]
  /\ tx = [e \in Entries |-> "none"]
  /\ status = [e \in Entries |-> "absent"]
  /\ raced = {} /\ old = {}
  /\ phase = "sleep" /\ todo = {} /\ current = Idle /\ out = {}
  /\ attempts = [e \in Entries |-> 0]

-----------------------------------------------------------------------------
(* Around the worker.                                                      *)

\* The entry the row of a signal id holds.
InRow(e) == status[e] \notin {"absent", "superseded"}

\* The worker has listed an entry of the signal and not marked it yet.
Listed(s) == (\E d \in todo : d.signal = s) \/ (phase = "mark" /\ current.entry.signal = s)

\* ReconcileStore::add: a new row, or ON CONFLICT(signal_id) the old one is
\* overwritten and pending again, with a fresh started_at, whatever its status.
\* The worker may be in the middle of the entry that is replaced.
Upsert(e) ==
  /\ status[e] = "absent"
  /\ \A d \in Entries : d.signal = e.signal /\ d.n < e.n => status[d] # "absent"
  /\ status' = [d \in Entries |-> IF d = e THEN "pending"
                                  ELSE IF d.signal = e.signal /\ InRow(d) THEN "superseded"
                                  ELSE status[d]]
  /\ raced' = IF Listed(e.signal) THEN raced \cup {e} ELSE raced
  /\ UNCHANGED <<old, phase, todo, current, out, attempts>>

\* maybe_push_reconcile: a timed-out execution enters the store with its swap,
\* which may have landed by now.  Signal ids are drawn at random, so the id may
\* be in the store already.
Add(e) ==
  /\ \E r \in TxStates : tx' = [tx EXCEPT ![e] = r]
  /\ Upsert(e) /\ UNCHANGED hash

\* The operator queues the row of a signal id again, for the swap it names.
Requeue(e) ==
  /\ \E d \in Entries : /\ d.signal = e.signal /\ InRow(d)
                        /\ hash' = [hash EXCEPT ![e] = hash[d]]
  /\ Upsert(e) /\ UNCHANGED tx

\* The swap is mined, reverts, or loses its nonce to a replacement; a replaced
\* transaction never has a receipt.
TxLands(e) ==
  /\ tx[e] = "inflight"
  /\ \E r \in TxStates \ {"inflight"} : tx' = [tx EXCEPT ![e] = r]
  /\ UNCHANGED rowvars /\ UNCHANGED <<old, phase, todo, current, out, attempts>>

Ages(e) ==
  /\ status[e] # "absent" /\ e \notin old /\ old' = old \cup {e}
  /\ UNCHANGED rowvars /\ UNCHANGED <<tx, phase, todo, current, out, attempts>>

-----------------------------------------------------------------------------
(* ReconcileWorker::tick_once.                                             *)

\* The poll interval elapsed: list_pending.
ListPending ==
  /\ phase = "sleep" /\ phase' = "tick"
  /\ todo' = {e \in Entries : status[e] = "pending"} /\ out' = {}
  /\ UNCHANGED rowvars /\ UNCHANGED <<tx, old, current, attempts>>

\* Mutant: an old entry without a receipt is taken for a revert.
InspectOldAsReverted(e) ==
  IF tx[hash[e]] = "mined" THEN "ReceiptSuccess"
  ELSE IF tx[hash[e]] = "reverted" \/ e \in old THEN "ReceiptReverted"
  ELSE "StillPending"

\* Mutant: an entry never expires.
InspectNoExpiry(e) ==
  IF tx[hash[e]] = "mined" THEN "ReceiptSuccess"
  ELSE IF tx[hash[e]] = "reverted" THEN "ReceiptReverted"
  ELSE "StillPending"

\* `inspect`: the receipt decides, age only without one.
Inspect(e) ==
  IF tx[hash[e]] = "mined" THEN "ReceiptSuccess"
  ELSE IF tx[hash[e]] = "reverted" THEN "ReceiptReverted"
  ELSE IF e \in old THEN "Expired"
  ELSE "StillPending"

\* get_receipt answers: a terminal outcome goes on to be marked.
InspectNext(e) ==
  /\ phase = "tick" /\ e \in todo /\ todo' = todo \ {e}
  /\ \/ /\ Inspect(e) \in Outcomes
        /\ phase' = "mark" /\ current' = [entry |-> e, outcome |-> Inspect(e)]
     \/ /\ Inspect(e) = "StillPending"
        /\ UNCHANGED <<phase, current>>
  /\ UNCHANGED rowvars /\ UNCHANGED <<tx, old, out, attempts>>

\* get_receipt fails: logged, the entry stays pending whatever its age.
InspectError(e) ==
  /\ phase = "tick" /\ e \in todo /\ todo' = todo \ {e}
  /\ UNCHANGED rowvars /\ UNCHANGED <<tx, old, phase, current, out, attempts>>

\* The row is updated by signal id, whichever entry it holds by now, and the
\* outcome kept for the caller.
Mark ==
  /\ phase = "mark" /\ phase' = "tick"
  /\ status' = [d \in Entries |-> IF d.signal = current.entry.signal /\ InRow(d)
                                  THEN MarkedAs[current.outcome] ELSE status[d]]
  /\ out' = out \cup {current}
  /\ current' = Idle
  /\ UNCHANGED <<hash, tx, raced, old, todo, attempts>>

\* Mutant: a failed update is skipped over and its outcome handled anyway.
MarkErrorIgnored ==
  /\ phase = "mark" /\ phase' = "tick"
  /\ out' = out \cup {current}
  /\ current' = Idle
  /\ UNCHANGED rowvars /\ UNCHANGED <<tx, old, todo, attempts>>

\* The update fails: tick_once returns the error, and with it goes every
\* outcome of this tick that was already marked.
MarkError ==
  /\ phase = "mark" /\ phase' = "sleep"
  /\ todo' = {} /\ out' = {} /\ current' = Idle
  /\ UNCHANGED rowvars /\ UNCHANGED <<tx, old, attempts>>

\* tick_once returns its outcomes.
TickDone ==
  /\ phase = "tick" /\ todo = {} /\ phase' = "handle"
  /\ UNCHANGED rowvars /\ UNCHANGED <<tx, old, todo, current, out, attempts>>

-----------------------------------------------------------------------------
(* handle_reconcile_outcomes.                                              *)

\* unwind_position on a revert; its failure is logged.  A size that does not
\* parse or is not positive, which only a row queued by hand can carry, is
\* reported instead, and so is a resolved or expired entry.
HandleOutcome ==
  /\ phase = "handle"
  /\ \E o \in out :
       /\ out' = out \ {o}
       /\ \/ /\ o.outcome = "ReceiptReverted"
             /\ attempts' = [attempts EXCEPT ![o.entry] = @ + 1]
          \/ /\ o.outcome # "ReceiptReverted" \/ hash[o.entry] # o.entry
             /\ UNCHANGED attempts
  /\ UNCHANGED rowvars /\ UNCHANGED <<tx, old, phase, todo, current>>

\* Every outcome is handled: the worker sleeps for poll_interval.
HandleDone ==
  /\ phase = "handle" /\ out = {} /\ phase' = "sleep"
  /\ UNCHANGED rowvars /\ UNCHANGED <<tx, old, todo, current, out, attempts>>

\* The process dies at any point and is started again.
Crash ==
  /\ phase # "sleep" /\ phase' = "sleep"
  /\ todo' = {} /\ out' = {} /\ current' = Idle
  /\ UNCHANGED rowvars /\ UNCHANGED <<tx, old, attempts>>

-----------------------------------------------------------------------------
Answered == \E e \in Entries : InspectNext(e)
WorkerStep ==
  \/ ListPending \/ TickDone \/ HandleOutcome \/ HandleDone \/ Mark
  \/ Answered
Failures == (\E e \in Entries : InspectError(e)) \/ MarkError \/ Crash
Environment == \E e \in Entries : Add(e) \/ Requeue(e) \/ TxLands(e) \/ Ages(e)

RecNext == WorkerStep \/ Failures \/ Environment

RecSpec == RecInit /\ [][RecNext]_recvars

\* The worker's task is polled, time passes, a store call returns, well or ill,
\* and so does the unwind order (the exchange's HTTP client times out).  The
\* receipt query of ChainClient has no timeout: it need never return.
RecFairness ==
  /\ WF_recvars(ListPending) /\ WF_recvars(Mark \/ MarkError) /\ WF_recvars(TickDone)
  /\ WF_recvars(HandleOutcome) /\ WF_recvars(HandleDone)
  /\ \A e \in Entries : WF_recvars(Ages(e))
RecFairSpec == RecSpec /\ RecFairness

-----------------------------------------------------------------------------
(* Properties.                                                             *)

\* The type invariant; ReconcileStatus::Errored is never stored.
RecTypeOK ==
  /\ hash \in [Entries -> Entries]
  /\ tx \in [Entries -> TxStates \cup {"none"}]
  /\ status \in [Entries -> {"absent", "superseded", "pending", "resolved", "reverted", "expired"}]
  /\ raced \subseteq Entries /\ old \subseteq Entries
  /\ phase \in {"sleep", "tick", "mark", "handle"}
  /\ todo \subseteq Entries
  /\ IF phase = "mark" THEN current \in [entry : Entries, outcome : Outcomes] ELSE current = Idle
  /\ out \subseteq [entry : Entries, outcome : Outcomes]
  /\ attempts \in [Entries -> Nat]

\* Leg 1 is unwound only behind a swap that really reverted, and at most once
\* for each time its signal was added to the store, across failed store updates,
\* failed queries and crashes: only a requeue can have one leg 1 unwound twice.
UnwoundOnceAfterRevert ==
  \A e \in Entries :
    /\ attempts[e] <= 1
    /\ attempts[e] = 1 => tx[hash[e]] = "reverted" /\ status[e] \in {"reverted", "superseded"}

\* What the chain, or the age of the entry, has to say for each status.
Given(e, st) ==
  /\ st = "resolved" => tx[hash[e]] = "mined"
  /\ st = "reverted" => tx[hash[e]] = "reverted"
  /\ st = "expired" => e \in old

\* A verdict in the store is the chain's: it matches the receipt for ever after,
\* though that was read before the store was written.  It is the verdict on the
\* swap the row names, unless the row was overwritten while the worker was at
\* the entry before: then it is the verdict on that one.
VerdictMatchesChain ==
  \A e \in Entries : status[e] \in {"resolved", "reverted", "expired"} =>
    \/ Given(e, status[e])
    \/ /\ e \in raced
       /\ \E d \in Entries : /\ d.signal = e.signal /\ status[d] = "superseded"
                             /\ Given(d, status[e])

\* The receipt query of an entry fails with a verdict to be had.
VerdictMissed(e) == InspectError(e) /\ Inspect(e) \in Outcomes

\* A store update fails, or the process dies, before the tick is through.
TickCut == MarkError \/ (Crash /\ phase # "handle")

\* An entry stays pending for ever only if the receipt query never returns, or
\* keeps failing for this entry, or the store or the process keep failing.  A
\* swap that was replaced, and has no receipt, is no such reason.
EntriesResolve ==
  \A e \in Entries :
    <>[](status[e] = "pending") =>
      \/ <>[](phase = "tick" /\ todo # {}) \/ []<><<VerdictMissed(e)>>_recvars
      \/ []<><<TickCut>>_recvars

(* What the documentation says and the code does not do.                   *)

\* ReconcileStatus::Reverted: "unwind was attempted".
RevertedMeansAttempted ==
  \A e \in Entries : (phase = "sleep" /\ status[e] = "reverted") => attempts[e] > 0

=============================================================================
