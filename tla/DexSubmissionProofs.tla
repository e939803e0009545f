------------------------- MODULE DexSubmissionProofs -------------------------
(***************************************************************************)
(* Proofs about DexSubmission, for any number of jobs, restarts, blocks    *)
(* and send attempts.                                                      *)
(*                                                                         *)
(* CancelledMeansDead rests on ChainInv: a nonce is mined once, so a mined *)
(* replacement and a mined original exclude each other.                    *)
(*                                                                         *)
(* NonceReuseHasCause speaks of what has been sent only; whether a nonce   *)
(* given back by `mark_failed` may be handed out again also depends on who *)
(* still holds it.  NonceInv adds the reservations: nobody else holds or   *)
(* has sent a nonce that a job holds, and the counter is ahead of them     *)
(* all.  Jobs that roll back a nonce already sent are left out (Culprit).  *)
(*                                                                         *)
(* NonceGapHasOwner counts on a job keeping its nonce until it is used:    *)
(* GapInv says who owns what is sent and what is reserved, and Fits that a *)
(* job moves to another nonce, or ends with a receipt, only past the       *)
(* account's nonce.  Ownership of what is sent is needed because after a   *)
(* restart the counter starts again from what the mempool carries          *)
(* (PendingIsFirstFree).                                                   *)
(***************************************************************************)
EXTENDS DexSubmission, TLAPS

\* The provers a leaf is tried with unless it names its own.
USE SMTT(60), SMT, ZenonT(60)

\* A job has the fields of Idle.
IsJob(r) == r = [at |-> r.at, tx |-> r.tx, nonce |-> r.nonce, tries |-> r.tries,
                 target |-> r.target, out |-> r.out]

HoldingAwaits == {"sign", "send", "await", "cancel_check", "cancel_wait", "target", "relay",
                  "poll", "poll_block"}
Holds(j) == job[j].at \in HoldingAwaits
Culprit(j) == role[j] = "transfer" /\ job[j].out = "SendFailed"

JobInv ==
  /\ job = [j \in Jobs |-> job[j]]
  /\ \A j \in Jobs :
       /\ IsJob(job[j])
       /\ job[j].at # "ended" => job[j].out = "running"
       /\ job[j].at = "cancel_wait" => job[j].tx = "cancel"

ChainInv ==
  /\ account_nonce \in Nat
  /\ \A r \in receipts : r.tx.nonce \in Nat /\ r.tx.nonce < account_nonce
  /\ \A r, s \in receipts : r.tx.nonce = s.tx.nonce => r.tx = s.tx

DeadInv ==
  \A j \in Jobs : job[j].out = "Cancelled" =>
    ~Mined(SwapTx(j)) /\ job[j].nonce \in Nat /\ job[j].nonce < account_nonce

\* Before the first reservation nothing has been sent.
FreshInv ==
  next_nonce = NoNonce =>
    /\ account_nonce = 0 /\ mempool = {} /\ bundles = {} /\ receipts = {}
    /\ \A j \in Jobs : ~Holds(j)

AheadInv ==
  /\ next_nonce \in {NoNonce} \cup Nat
  /\ \A j \in Jobs : Holds(j) => job[j].nonce \in Nat /\ job[j].nonce < next_nonce
  /\ \A j \in Jobs : ~Culprit(j) => \A a \in Sent(j) : a.nonce \in Nat /\ a.nonce < next_nonce

OwnInv ==
  /\ \A j, k \in Jobs : j # k /\ Holds(j) /\ Holds(k) => job[j].nonce # job[k].nonce
  /\ \A j, k \in Jobs : j # k /\ ~Culprit(j) /\ Holds(k) =>
       \A a \in Sent(j) : a.nonce # job[k].nonce
  /\ \A j, k \in Jobs : j # k /\ ~Culprit(j) /\ ~Culprit(k) =>
       \A a \in Sent(j), b \in Sent(k) : a.nonce # b.nonce
  /\ \A j \in Jobs : job[j].at = "sign" => \A a \in Sent(j) : a.nonce # job[j].nonce

NonceInv == FreshInv /\ AheadInv /\ OwnInv

IInv ==
  /\ restarts \in Nat
  /\ JobInv /\ ChainInv /\ DeadInv
  /\ restarts = 0 => NonceInv
-----------------------------------------------------------------------------
(* The shape of a job step.                                                *)

\* What job j sends, if anything, carries the nonce it holds.
Sends(j) ==
  /\ UNCHANGED <<next_nonce, role, restarts, account_nonce, receipts>>
  /\ \/ UNCHANGED <<mempool, bundles>>
     \/ /\ Holds(j)
        /\ \A tx \in mempool' : tx \in mempool \/ (tx.by = j /\ tx.nonce = job[j].nonce)
        /\ \A b \in bundles' : b \in bundles \/ (b.by = j /\ b.nonce = job[j].nonce)

\* A step of job j that reserves nothing and gives nothing back.
Quiet(j) ==
  /\ job[j].at # "ended"
  /\ job' = [job EXCEPT ![j] = job'[j]] /\ IsJob(job'[j])
  /\ job'[j].at # "ended" => job'[j].out = "running"
  /\ job'[j].at = "cancel_wait" => job'[j].tx = "cancel"
  /\ job'[j].out = "Cancelled" =>
       /\ job'[j].nonce = job[j].nonce
       /\ Mined([by |-> j, kind |-> "cancel", nonce |-> job[j].nonce])
  /\ job'[j].at \in HoldingAwaits => Holds(j) /\ job'[j].nonce = job[j].nonce
  /\ job'[j].at # "sign"
  /\ Sends(j)

\* What is in Sent(k), one source at a time.
LEMMA SentFrom ==
  ASSUME NEW k
  PROVE  /\ \A a \in mempool : a.by = k => a \in Sent(k)
         /\ \A r \in receipts : r.tx.by = k => r.tx \in Sent(k)
         /\ \A b \in bundles : b.by = k => \E a \in Sent(k) : a.nonce = b.nonce
  <1>1. ASSUME NEW b \in bundles, b.by = k PROVE \E a \in Sent(k) : a.nonce = b.nonce
    <2> DEFINE a == [by |-> k, kind |-> "swap", nonce |-> b.nonce]
    <2>1. a \in Sent(k)
      BY <1>1 DEF Sent
    <2>2. a.nonce = b.nonce
      OBVIOUS
    <2> QED BY <2>1, <2>2
  <1>2. \A a \in mempool : a.by = k => a \in Sent(k)
    BY DEF Sent
  <1>3. \A r \in receipts : r.tx.by = k => r.tx \in Sent(k)
    BY DEF Sent
  <1> QED BY <1>1, <1>2, <1>3

LEMMA QuietInv == \A j \in Jobs : IInv /\ Quiet(j) => IInv'
  \* A quiet step sends only under the nonce its job holds.
  <1>QuietSent.
    ASSUME NEW j \in Jobs, Quiet(j), NEW k \in Jobs, NEW a \in Sent(k)'
    PROVE  \/ \E o \in Sent(k) : o.nonce = a.nonce
           \/ k = j /\ Holds(j) /\ a.nonce = job[j].nonce
    <2> USE <1>QuietSent
    <2>1. \/ a \in mempool' /\ a.by = k
          \/ \E r \in receipts' : r.tx = a /\ a.by = k
          \/ \E b \in bundles' : b.by = k /\ a.nonce = b.nonce
      BY DEF Sent
    <2>2. CASE a \in mempool' /\ a.by = k
      BY <2>2, SentFrom DEF Quiet, Sends
    <2>3. CASE \E r \in receipts' : r.tx = a /\ a.by = k
      BY <2>3, SentFrom DEF Quiet, Sends
    <2>4. CASE \E b \in bundles' : b.by = k /\ a.nonce = b.nonce
      BY <2>4, SentFrom DEF Quiet, Sends
    <2> QED BY <2>1, <2>2, <2>3, <2>4
  \* The other jobs do not move.
  <1>QuietJobs.
    ASSUME JobInv, NEW j \in Jobs, Quiet(j)
    PROVE  /\ JobInv'
           /\ \A k \in Jobs : k # j => job'[k] = job[k]
           /\ ~Culprit(j)
           /\ \A k \in Jobs : k # j => (Culprit(k)' <=> Culprit(k)) /\ (Holds(k)' <=> Holds(k))
           /\ Holds(j)' => Holds(j) /\ job'[j].nonce = job[j].nonce
    <2> USE <1>QuietJobs
    <2>1. \A k \in Jobs : k # j => job'[k] = job[k]
      BY DEF JobInv, Quiet, Sends
    <2>2. job' = [k \in Jobs |-> job'[k]]
      BY DEF JobInv, Quiet, Sends
    <2>3. JobInv'
      BY <2>1, <2>2 DEF JobInv, Quiet, Sends, IsJob
    <2>4. ~Culprit(j)
      BY DEF JobInv, Quiet, Sends, Culprit
    <2>5. \A k \in Jobs : k # j => (Culprit(k)' <=> Culprit(k)) /\ (Holds(k)' <=> Holds(k))
      BY <2>1 DEF Culprit, Holds, Quiet, Sends
    <2>6. Holds(j)' => Holds(j) /\ job'[j].nonce = job[j].nonce
      BY DEF Holds, Quiet, Sends
    <2> QED BY <2>1, <2>3, <2>4, <2>5, <2>6
  <1>QuietDead.
    ASSUME JobInv, ChainInv, DeadInv, NEW j \in Jobs, Quiet(j)
    PROVE  DeadInv'
    <2> USE <1>QuietDead
    <2> SUFFICES ASSUME NEW k \in Jobs, job'[k].out = "Cancelled"
                 PROVE  /\ ~Mined(SwapTx(k))'
                        /\ job'[k].nonce \in Nat /\ job'[k].nonce < account_nonce'
      BY DEF DeadInv
    <2>1. receipts' = receipts /\ account_nonce' = account_nonce
      BY DEF Quiet, Sends
    <2>2. CASE k # j
      <3>1. job'[k] = job[k]
        BY <2>2, <1>QuietJobs
      <3> QED BY <2>1, <3>1 DEF DeadInv, Mined, SwapTx
    <2>3. CASE k = j
      <3> DEFINE c == [by |-> j, kind |-> "cancel", nonce |-> job[j].nonce]
                 o == [by |-> j, kind |-> "swap", nonce |-> job[j].nonce]
      <3>1. job'[j].nonce = job[j].nonce /\ Mined(c)
        BY <2>3 DEF Quiet, Sends
      <3>2. PICK r \in receipts : r.tx = c
        BY <3>1 DEF Mined
      <3>3. job[j].nonce \in Nat /\ job[j].nonce < account_nonce
        BY <3>2 DEF ChainInv
      <3>4. ~Mined(o)
        <4>1. SUFFICES ASSUME NEW q \in receipts, q.tx = o PROVE FALSE
          BY DEF Mined
        <4>2. q.tx.nonce = r.tx.nonce
          BY <3>2, <4>1
        <4>3. o = c
          BY <3>2, <4>1, <4>2 DEF ChainInv
        <4>4. o.kind = "swap" /\ c.kind = "cancel"
          OBVIOUS
        <4> QED BY <4>3, <4>4
      <3> QED BY <2>1, <2>3, <3>1, <3>3, <3>4 DEF Mined, SwapTx
    <2> QED BY <2>2, <2>3
  <1>QuietNonce.
    ASSUME JobInv, NonceInv, NEW j \in Jobs, Quiet(j)
    PROVE  NonceInv'
    <2> USE <1>QuietNonce
    <2>1. next_nonce' = next_nonce /\ account_nonce' = account_nonce /\ receipts' = receipts
      BY DEF Quiet, Sends
    <2>2. /\ ~Culprit(j)
          /\ \A k \in Jobs : k # j =>
               job'[k] = job[k] /\ (Culprit(k)' <=> Culprit(k)) /\ (Holds(k)' <=> Holds(k))
          /\ Holds(j)' => Holds(j) /\ job'[j].nonce = job[j].nonce
      BY <1>QuietJobs
    <2>3. \A k \in Jobs : /\ Culprit(k) => Culprit(k)'
                          /\ Holds(k)' => Holds(k) /\ job'[k].nonce = job[k].nonce
      BY <2>2
    <2>4. \A k \in Jobs : \A a \in Sent(k)' :
            (\E o \in Sent(k) : o.nonce = a.nonce) \/ (k = j /\ Holds(j) /\ a.nonce = job[j].nonce)
      BY <1>QuietSent
    <2>5. FreshInv'
      <3> SUFFICES ASSUME next_nonce = NoNonce
                   PROVE  /\ account_nonce' = 0 /\ mempool' = {} /\ bundles' = {} /\ receipts' = {}
                          /\ \A k \in Jobs : ~Holds(k)'
        BY <2>1 DEF FreshInv
      <3>1. /\ account_nonce = 0 /\ mempool = {} /\ bundles = {} /\ receipts = {}
            /\ \A k \in Jobs : ~Holds(k)
        BY DEF NonceInv, FreshInv
      <3>2. UNCHANGED <<mempool, bundles>>
        BY <3>1 DEF Quiet, Sends
      <3> QED BY <2>1, <2>3, <3>1, <3>2
    <2>6. AheadInv'
      <3>1. \A k \in Jobs : Holds(k)' => job'[k].nonce \in Nat /\ job'[k].nonce < next_nonce'
        BY <2>1, <2>3 DEF NonceInv, AheadInv
      <3>2. \A k \in Jobs : ~Culprit(k)' => \A a \in Sent(k)' : a.nonce \in Nat /\ a.nonce < next_nonce'
        BY <2>1, <2>2, <2>3, <2>4 DEF NonceInv, AheadInv
      <3> QED BY <2>1, <3>1, <3>2 DEF NonceInv, AheadInv
    <2>7. OwnInv'
      <3>1. \A k, l \in Jobs : k # l /\ Holds(k)' /\ Holds(l)' => job'[k].nonce # job'[l].nonce
        BY <2>3 DEF NonceInv, OwnInv
      <3>2. \A k, l \in Jobs : k # l /\ ~Culprit(k)' /\ Holds(l)' =>
              \A a \in Sent(k)' : a.nonce # job'[l].nonce
        BY <2>3, <2>4 DEF NonceInv, OwnInv
      <3>3. \A k, l \in Jobs : k # l /\ ~Culprit(k)' /\ ~Culprit(l)' =>
              \A a \in Sent(k)', b \in Sent(l)' : a.nonce # b.nonce
        <4> SUFFICES ASSUME NEW k \in Jobs, NEW l \in Jobs, k # l, ~Culprit(k)', ~Culprit(l)',
                            NEW a \in Sent(k)', NEW b \in Sent(l)'
                     PROVE  a.nonce # b.nonce
          OBVIOUS
        <4>1. ~Culprit(k) /\ ~Culprit(l)
          BY <2>3
        <4>2. CASE (\E o \in Sent(k) : o.nonce = a.nonce) /\ (\E o \in Sent(l) : o.nonce = b.nonce)
          BY <4>1, <4>2 DEF NonceInv, OwnInv
        <4>3. CASE k = j /\ Holds(j) /\ a.nonce = job[j].nonce
          BY <2>4, <4>1, <4>3 DEF NonceInv, OwnInv
        <4>4. CASE l = j /\ Holds(j) /\ b.nonce = job[j].nonce
          BY <2>4, <4>1, <4>4 DEF NonceInv, OwnInv
        <4> QED BY <2>4, <4>2, <4>3, <4>4
      <3>4. \A k \in Jobs : job'[k].at = "sign" => \A a \in Sent(k)' : a.nonce # job'[k].nonce
        <4> SUFFICES ASSUME NEW k \in Jobs, job'[k].at = "sign", NEW a \in Sent(k)'
                     PROVE  a.nonce # job'[k].nonce
          OBVIOUS
        <4>1. k # j
          BY DEF Quiet, Sends
        <4>2. job'[k] = job[k] /\ \E o \in Sent(k) : o.nonce = a.nonce
          BY <2>2, <2>4, <4>1
        <4> QED BY <4>2 DEF NonceInv, OwnInv
      <3> QED BY <3>1, <3>2, <3>3, <3>4 DEF OwnInv
    <2> QED BY <2>5, <2>6, <2>7 DEF NonceInv
  <1> SUFFICES ASSUME IInv, NEW j \in Jobs, Quiet(j) PROVE IInv'
    OBVIOUS
  <1>1. restarts' = restarts /\ account_nonce' = account_nonce /\ receipts' = receipts
    BY DEF Quiet, Sends
  <1>2. JobInv' /\ DeadInv'
    BY <1>QuietJobs, <1>QuietDead DEF IInv
  <1>3. ChainInv'
    BY <1>1 DEF IInv, ChainInv
  <1>4. restarts = 0 => NonceInv'
    BY <1>QuietNonce DEF IInv
  <1> QED BY <1>1, <1>2, <1>3, <1>4 DEF IInv

-----------------------------------------------------------------------------
(* The steps every transaction goes through.                               *)

\* A job built from its six fields.
Made(at, tx, nonce, tries, target, out) ==
  [at |-> at, tx |-> tx, nonce |-> nonce, tries |-> tries, target |-> target, out |-> out]

LEMMA MadeFields ==
  ASSUME NEW at, NEW tx, NEW nonce, NEW tries, NEW target, NEW out,
         NEW r, r = Made(at, tx, nonce, tries, target, out)
  PROVE  /\ r.at = at /\ r.tx = tx /\ r.nonce = nonce /\ r.tries = tries /\ r.target = target
         /\ r.out = out /\ IsJob(r)
  BY DEF Made, IsJob

\* How the helpers of the actions rewrite a job.
Fields == {"at", "tx", "nonce", "tries", "target", "out"}

LEMMA RewriteEnd ==
  ASSUME NEW r, IsJob(r), NEW x
  PROVE  [r EXCEPT !.at = "ended", !.out = x, !.tx = "none", !.tries = 0, !.target = 0]
           = Made("ended", "none", r.nonce, 0, 0, x)
  <1>1. DOMAIN r = Fields
    BY DEF IsJob, Fields
  <1>2. [r EXCEPT !.at = "ended", !.out = x, !.tx = "none", !.tries = 0, !.target = 0]
          = [f \in Fields |-> IF f = "target" THEN 0 ELSE IF f = "tries" THEN 0
                              ELSE IF f = "tx" THEN "none" ELSE IF f = "out" THEN x
                              ELSE IF f = "at" THEN "ended" ELSE r[f]]
    BY <1>1, Zenon DEF Fields
  <1> QED BY <1>2 DEF Made, Fields

LEMMA RewriteAt ==
  ASSUME NEW r, IsJob(r), NEW x
  PROVE  [r EXCEPT !.at = x]
           = Made(x, r.tx, r.nonce, r.tries, r.target, r.out)
  BY DEF Made, IsJob

LEMMA RewriteTries ==
  ASSUME NEW r, IsJob(r), NEW x
  PROVE  [r EXCEPT !.tries = x]
           = Made(r.at, r.tx, r.nonce, x, r.target, r.out)
  BY DEF Made, IsJob

LEMMA RewriteNonce ==
  ASSUME NEW r, IsJob(r), NEW x, NEW y
  PROVE  [r EXCEPT !.at = x, !.nonce = y]
           = Made(x, r.tx, y, r.tries, r.target, r.out)
  <1>1. DOMAIN r = Fields
    BY DEF IsJob, Fields
  <1>2. [r EXCEPT !.at = x, !.nonce = y]
          = [f \in Fields |-> IF f = "nonce" THEN y ELSE IF f = "at" THEN x ELSE r[f]]
    BY <1>1, Zenon DEF Fields
  <1> QED BY <1>2 DEF Made, Fields

LEMMA RewriteTx ==
  ASSUME NEW r, IsJob(r), NEW x, NEW y
  PROVE  [r EXCEPT !.at = x, !.tx = y, !.tries = 0]
           = Made(x, y, r.nonce, 0, r.target, r.out)
  <1>1. DOMAIN r = Fields
    BY DEF IsJob, Fields
  <1>2. [r EXCEPT !.at = x, !.tx = y, !.tries = 0]
          = [f \in Fields |-> IF f = "tries" THEN 0 ELSE IF f = "tx" THEN y ELSE IF f = "at" THEN x ELSE r[f]]
    BY <1>1, Zenon DEF Fields
  <1> QED BY <1>2 DEF Made, Fields

LEMMA RewriteTarget ==
  ASSUME NEW r, IsJob(r), NEW x, NEW y
  PROVE  [r EXCEPT !.at = x, !.target = y, !.tries = 1]
           = Made(x, r.tx, r.nonce, 1, y, r.out)
  <1>1. DOMAIN r = Fields
    BY DEF IsJob, Fields
  <1>2. [r EXCEPT !.at = x, !.target = y, !.tries = 1]
          = [f \in Fields |-> IF f = "tries" THEN 1 ELSE IF f = "target" THEN y
                              ELSE IF f = "at" THEN x ELSE r[f]]
    BY <1>1, Zenon DEF Fields
  <1> QED BY <1>2 DEF Made, Fields

LEMMA RewriteRound ==
  ASSUME NEW r, IsJob(r), NEW x, NEW y
  PROVE  [r EXCEPT !.target = x, !.tries = y]
           = Made(r.at, r.tx, r.nonce, y, x, r.out)
  <1>1. DOMAIN r = Fields
    BY DEF IsJob, Fields
  <1>2. [r EXCEPT !.target = x, !.tries = y]
          = [f \in Fields |-> IF f = "tries" THEN y ELSE IF f = "target" THEN x ELSE r[f]]
    BY <1>1, Zenon DEF Fields
  <1> QED BY <1>2 DEF Made, Fields

\* What the node answers when it is asked for the pending nonce: the first one
\* at or above the account's that nothing in the mempool carries.
FirstFree ==
  /\ PendingNonce \in Nat /\ PendingNonce >= account_nonce
  /\ \A n \in account_nonce..(PendingNonce - 1) : \E tx \in mempool : tx.nonce = n

LEMMA JobStepInv == \A j \in Jobs : IInv /\ FirstFree /\ (JobStep(j) \/ LegTimeout(j)) => IInv'
  <1>StillSends.
    ASSUME NEW j \in Jobs, UNCHANGED <<next_nonce, role, restarts>>, UNCHANGED chain
    PROVE  Sends(j)
    BY <1>StillSends DEF Sends, chain
  <1>EndQuiet.
    ASSUME JobInv, NEW j \in Jobs, job[j].at # "ended", NEW out, End(j, out), Sends(j),
           out = "Cancelled" => Mined([by |-> j, kind |-> "cancel", nonce |-> job[j].nonce])
    PROVE  Quiet(j)
    <2> USE <1>EndQuiet
    <2> DEFINE r == Made("ended", "none", job[j].nonce, 0, 0, out)
    <2>1. job' = [job EXCEPT ![j] = [job[j] EXCEPT !.at = "ended", !.out = out, !.tx = "none",
                                                   !.tries = 0, !.target = 0]]
      BY Zenon DEF JobInv, End
    <2>2. job' = [job EXCEPT ![j] = r]
      BY <2>1, RewriteEnd, ZenonT(60) DEF JobInv
    <2>3. job'[j] = r
      BY <2>2 DEF JobInv
    <2>4. r.at = "ended" /\ r.out = out /\ r.nonce = job[j].nonce /\ IsJob(r)
      BY MadeFields
    <2> HIDE DEF r
    <2> QED BY <2>2, <2>3, <2>4, Zenon DEF Quiet, HoldingAwaits
  <1>MoveQuiet.
    ASSUME JobInv, NEW j \in Jobs, job[j].at # "ended", Sends(j),
           NEW at, NEW tx, NEW tries, NEW target,
           job' = [job EXCEPT ![j] = Made(at, tx, job[j].nonce, tries, target, job[j].out)],
           at \notin {"ended", "sign"}, at \in HoldingAwaits => Holds(j),
           at = "cancel_wait" => tx = "cancel"
    PROVE  Quiet(j)
    <2> USE <1>MoveQuiet
    <2> DEFINE r == Made(at, tx, job[j].nonce, tries, target, job[j].out)
    <2>1. job' = [job EXCEPT ![j] = r] /\ job'[j] = r
      BY DEF JobInv
    <2>2. r.at = at /\ r.tx = tx /\ r.nonce = job[j].nonce /\ r.out = job[j].out /\ IsJob(r)
      BY MadeFields
    <2>3. job[j].out = "running"
      BY DEF JobInv
    <2> HIDE DEF r
    <2> QED BY <2>1, <2>2, <2>3, Zenon DEF Quiet
  <1>GotoQuiet.
    ASSUME JobInv, NEW j \in Jobs, job[j].at # "ended", Sends(j), NEW at, Goto(j, at),
           at \notin {"ended", "sign"}, at \in HoldingAwaits => Holds(j),
           at = "cancel_wait" => job[j].tx = "cancel"
    PROVE  Quiet(j)
    <2> USE <1>GotoQuiet
    <2>1. job' = [job EXCEPT ![j] = [job[j] EXCEPT !.at = at]]
      BY DEF JobInv, Goto
    <2>2. job' = [job EXCEPT ![j] = Made(at, job[j].tx, job[j].nonce, job[j].tries, job[j].target, job[j].out)]
      BY <2>1, RewriteAt, Zenon DEF JobInv
    <2> QED BY <2>2, <1>MoveQuiet, Zenon
  <1>PrepareQuiet.
    ASSUME JobInv, NEW j \in Jobs, job[j].at # "ended", Sends(j), NEW tx, Prepare(j, tx)
    PROVE  Quiet(j)
    <2> USE <1>PrepareQuiet
    <2>1. job' = [job EXCEPT ![j] = [job[j] EXCEPT !.at = "build", !.tx = tx, !.tries = 0]]
      BY Zenon DEF JobInv, Prepare
    <2>2. job' = [job EXCEPT ![j] = Made("build", tx, job[j].nonce, 0, job[j].target, job[j].out)]
      BY <2>1, RewriteTx, Zenon DEF JobInv
    <2>3. "build" \notin HoldingAwaits
      BY DEF HoldingAwaits
    <2> QED BY <2>2, <2>3, <1>MoveQuiet, Zenon

  \* The actions that neither reserve a nonce nor give one back.
  <1>SubmitsQuiet.
    ASSUME JobInv, NEW j \in Jobs, NEW r, NEW first \in {"allowance", "weth"}, Submits(j, r, first)
    PROVE  Quiet(j)
    <2> USE <1>SubmitsQuiet
    <2>1. Sends(j) /\ job[j].at # "ended"
      BY <1>StillSends DEF Submits
    <2>2. first \notin HoldingAwaits
      BY DEF HoldingAwaits
    <2> QED BY <2>1, <2>2, <1>EndQuiet, <1>GotoQuiet, Zenon DEF Submits
  <1>BeginTransferQuiet.
    ASSUME JobInv, NEW j \in Jobs, BeginTransfer(j)
    PROVE  Quiet(j)
    <2> USE <1>BeginTransferQuiet
    <2>1. Sends(j) /\ job[j].at # "ended"
      BY <1>StillSends DEF BeginTransfer
    <2> QED BY <2>1, <1>PrepareQuiet DEF BeginTransfer
  <1>EnsureWethBalanceQuiet.
    ASSUME JobInv, NEW j \in Jobs, EnsureWethBalance(j)
    PROVE  Quiet(j)
    <2> USE <1>EnsureWethBalanceQuiet
    <2>1. Sends(j) /\ job[j].at # "ended"
      BY <1>StillSends DEF EnsureWethBalance
    <2>2. "allowance" \notin HoldingAwaits
      BY DEF HoldingAwaits
    <2> QED BY <2>1, <2>2, <1>EndQuiet, <1>PrepareQuiet, <1>GotoQuiet, Zenon DEF EnsureWethBalance
  <1>EnsureAllowanceQuiet.
    ASSUME JobInv, NEW j \in Jobs, EnsureAllowance(j)
    PROVE  Quiet(j)
    <2> USE <1>EnsureAllowanceQuiet
    <2>1. Sends(j) /\ job[j].at # "ended"
      BY <1>StillSends DEF EnsureAllowance
    <2> QED BY <2>1, <1>EndQuiet, <1>PrepareQuiet, Zenon DEF EnsureAllowance
  \* A job that replaces nothing may send, take another turn, or go on waiting.
  <1>SendAttemptQuiet.
    ASSUME JobInv, NEW j \in Jobs, SendAttempt(j)
    PROVE  Quiet(j)
    <2> USE <1>SendAttemptQuiet
    <2>1. job[j].at = "send" /\ Holds(j)
      BY DEF SendAttempt, Holds, HoldingAwaits
    <2>2. Sends(j)
      <3>1. UNCHANGED mempool \/ Broadcast(Tx(j))
        BY DEF SendAttempt
      <3>2. Tx(j).by = j /\ Tx(j).nonce = job[j].nonce
        BY DEF Tx
      <3>3. \A tx \in mempool' : tx \in mempool \/ (tx.by = j /\ tx.nonce = job[j].nonce)
        BY <3>1, <3>2 DEF Broadcast
      <3> QED BY <2>1, <3>3 DEF SendAttempt, Sends
    <2>3. CASE Goto(j, AfterSend(j))
      <3>1. AfterSend(j) \in {"cancel_wait", "await"} /\ (AfterSend(j) = "cancel_wait" => job[j].tx = "cancel")
        BY DEF AfterSend
      <3> QED BY <2>1, <2>2, <2>3, <3>1, <1>GotoQuiet
    <2>4. CASE job' = [job EXCEPT ![j].tries = @ + 1]
      <3>1. job' = [job EXCEPT ![j] = [job[j] EXCEPT !.tries = job[j].tries + 1]]
        BY <2>4 DEF JobInv
      <3>2. job' = [job EXCEPT ![j] = Made(job[j].at, job[j].tx, job[j].nonce, job[j].tries + 1,
                                           job[j].target, job[j].out)]
        BY <3>1, RewriteTries, Zenon DEF JobInv
      <3> QED BY <2>1, <2>2, <3>2, <1>MoveQuiet, Zenon
    <2> QED BY <2>3, <2>4 DEF SendAttempt
  <1>RefetchQuiet.
    ASSUME JobInv, NEW j \in Jobs, job[j].at # "ended", Sends(j), RefetchOriginal(j)
    PROVE  Quiet(j)
    <2> USE <1>RefetchQuiet
    <2>1. PICK out \in {"Error", "OriginalMined", "OriginalReverted", "Unknown"} : End(j, out)
      BY DEF RefetchOriginal
    <2> QED BY <2>1, <1>EndQuiet, Zenon
  <1>AwaitReceiptQuiet.
    ASSUME JobInv, NEW j \in Jobs, AwaitReceipt(j)
    PROVE  Quiet(j)
    <2> USE <1>AwaitReceiptQuiet
    <2>1. Sends(j) /\ job[j].at # "ended"
      BY <1>StillSends DEF AwaitReceipt
    <2>2. "allowance" \notin HoldingAwaits
      BY DEF HoldingAwaits
    <2> QED BY <2>1, <2>2, <1>EndQuiet, <1>PrepareQuiet, <1>GotoQuiet, Zenon DEF AwaitReceipt
  <1>LegTimeoutQuiet.
    ASSUME JobInv, NEW j \in Jobs, LegTimeout(j)
    PROVE  Quiet(j)
    <2> USE <1>LegTimeoutQuiet
    <2>1. Sends(j) /\ job[j].at # "ended"
      BY <1>StillSends DEF LegTimeout
    <2>2. job[j].at = "await" => Holds(j)
      BY DEF Holds, HoldingAwaits
    <2> QED BY <2>1, <2>2, <1>EndQuiet, <1>GotoQuiet, Zenon DEF LegTimeout
  <1>CancelCheckQuiet.
    ASSUME JobInv, NEW j \in Jobs, CancelCheck(j)
    PROVE  Quiet(j)
    <2> USE <1>CancelCheckQuiet
    <2>1. Sends(j) /\ job[j].at # "ended" /\ Holds(j)
      BY <1>StillSends DEF CancelCheck, Holds, HoldingAwaits
    <2>2. CASE RefetchOriginal(j)
      BY <2>1, <2>2, <1>RefetchQuiet
    <2>3. CASE job' = [job EXCEPT ![j].at = "send", ![j].tx = "cancel", ![j].tries = 0]
      <3>1. job' = [job EXCEPT ![j] = [job[j] EXCEPT !.at = "send", !.tx = "cancel", !.tries = 0]]
        BY <2>3, Zenon DEF JobInv
      <3>2. job' = [job EXCEPT ![j] = Made("send", "cancel", job[j].nonce, 0, job[j].target, job[j].out)]
        BY <3>1, RewriteTx, ZenonT(60) DEF JobInv
      <3>3. "send" \notin {"ended", "sign"} /\ "send" # "cancel_wait"
        OBVIOUS
      <3> QED BY <2>1, <3>2, <3>3, <1>MoveQuiet, Zenon
    <2> QED BY <2>2, <2>3 DEF CancelCheck
  \* Cancelled is only answered for a mined replacement.
  <1>CancelWaitQuiet.
    ASSUME JobInv, NEW j \in Jobs, CancelWait(j)
    PROVE  Quiet(j)
    <2> USE <1>CancelWaitQuiet
    <2>1. Sends(j) /\ job[j].at # "ended"
      BY <1>StillSends DEF CancelWait
    <2>2. Tx(j) = [by |-> j, kind |-> "cancel", nonce |-> job[j].nonce]
      BY DEF CancelWait, JobInv, Tx
    <2>3. MinedOk(Tx(j)) => Mined(Tx(j))
      BY DEF MinedOk, Mined
    <2> QED BY <2>1, <2>2, <2>3, <1>EndQuiet, <1>RefetchQuiet DEF CancelWait
  <1>BundleTargetQuiet.
    ASSUME JobInv, NEW j \in Jobs, BundleTarget(j)
    PROVE  Quiet(j)
    <2> USE <1>BundleTargetQuiet
    <2>1. Sends(j) /\ job[j].at # "ended" /\ Holds(j)
      BY <1>StillSends DEF BundleTarget, Holds, HoldingAwaits
    <2>2. ASSUME NEW t, job' = [job EXCEPT ![j].at = "relay", ![j].target = t, ![j].tries = 1]
          PROVE  Quiet(j)
      <3>1. job' = [job EXCEPT ![j] = [job[j] EXCEPT !.at = "relay", !.target = t, !.tries = 1]]
        BY <2>2, Zenon DEF JobInv
      <3>2. job' = [job EXCEPT ![j] = Made("relay", job[j].tx, job[j].nonce, 1, t, job[j].out)]
        BY <3>1, RewriteTarget, ZenonT(60) DEF JobInv
      <3>3. "relay" \notin {"ended", "sign"} /\ "relay" # "cancel_wait"
        OBVIOUS
      <3> QED BY <2>1, <3>2, <3>3, <1>MoveQuiet, Zenon
    <2> QED BY <2>1, <2>2, <1>EndQuiet, Zenon DEF BundleTarget
  <1>BundleRelayQuiet.
    ASSUME JobInv, NEW j \in Jobs, BundleRelay(j)
    PROVE  Quiet(j)
    <2> USE <1>BundleRelayQuiet
    <2>1. job[j].at = "relay" /\ Holds(j)
      BY DEF BundleRelay, Holds, HoldingAwaits
    <2>2. Sends(j)
      <3>1. UNCHANGED bundles \/ bundles' = bundles \cup {Bundle(j)}
        BY DEF BundleRelay
      <3>2. Bundle(j).by = j /\ Bundle(j).nonce = job[j].nonce
        BY DEF Bundle
      <3>3. \A b \in bundles' : b \in bundles \/ (b.by = j /\ b.nonce = job[j].nonce)
        BY <3>1, <3>2
      <3> QED BY <2>1, <3>3 DEF BundleRelay, Sends
    <2>3. CASE job' = [job EXCEPT ![j].target = @ + 1, ![j].tries = @ + 1]
      <3>1. job' = [job EXCEPT ![j] = [job[j] EXCEPT !.target = job[j].target + 1,
                                                     !.tries = job[j].tries + 1]]
        BY <2>3, Zenon DEF JobInv
      <3>2. job' = [job EXCEPT ![j] = Made(job[j].at, job[j].tx, job[j].nonce, job[j].tries + 1,
                                           job[j].target + 1, job[j].out)]
        <4>1. IsJob(job[j])
          BY DEF JobInv
        <4>2. [job[j] EXCEPT !.target = job[j].target + 1, !.tries = job[j].tries + 1]
                = Made(job[j].at, job[j].tx, job[j].nonce, job[j].tries + 1, job[j].target + 1, job[j].out)
          BY <4>1, RewriteRound, Zenon
        <4> QED BY <3>1, <4>2, Zenon
      <3> QED BY <2>1, <2>2, <3>2, <1>MoveQuiet, Zenon
    <2>4. CASE Goto(j, "poll")
      BY <2>1, <2>2, <2>4, <1>GotoQuiet
    <2>5. CASE End(j, "Error")
      BY <2>1, <2>2, <2>5, <1>EndQuiet, Zenon
    <2> QED BY <2>3, <2>4, <2>5 DEF BundleRelay
  <1>PollReceiptQuiet.
    ASSUME JobInv, NEW j \in Jobs, PollReceipt(j)
    PROVE  Quiet(j)
    <2> USE <1>PollReceiptQuiet
    <2>1. Sends(j) /\ job[j].at # "ended" /\ Holds(j)
      BY <1>StillSends DEF PollReceipt, Holds, HoldingAwaits
    <2> QED BY <2>1, <1>EndQuiet, <1>GotoQuiet, Zenon DEF PollReceipt
  <1>PollBlockQuiet.
    ASSUME JobInv, NEW j \in Jobs, PollBlock(j)
    PROVE  Quiet(j)
    <2> USE <1>PollBlockQuiet
    <2>1. Sends(j) /\ job[j].at # "ended" /\ Holds(j)
      BY <1>StillSends DEF PollBlock, Holds, HoldingAwaits
    <2> QED BY <2>1, <1>EndQuiet, <1>GotoQuiet, Zenon DEF PollBlock

  \* Reserving a nonce and giving it back.
  \* A step of one job that leaves the chain alone and answers no cancellation.
  <1>OneJob.
    ASSUME JobInv, ChainInv, DeadInv, NEW j \in Jobs,
           NEW at, NEW tx, NEW nonce, NEW tries, NEW target, NEW out,
           job' = [job EXCEPT ![j] = Made(at, tx, nonce, tries, target, out)],
           at # "ended" => out = "running", at # "cancel_wait", out # "Cancelled",
           UNCHANGED chain
    PROVE  /\ JobInv' /\ ChainInv' /\ DeadInv'
           /\ job'[j].at = at /\ job'[j].nonce = nonce /\ job'[j].out = out
           /\ \A k \in Jobs : k # j => job'[k] = job[k]
           /\ \A k : Sent(k)' = Sent(k)
    <2> USE <1>OneJob
    <2> DEFINE r == Made(at, tx, nonce, tries, target, out)
    <2>1. job' = [job EXCEPT ![j] = r] /\ job'[j] = r
      BY DEF JobInv
    <2>2. r.at = at /\ r.nonce = nonce /\ r.out = out /\ IsJob(r)
      BY MadeFields
    <2> HIDE DEF r
    <2>3. \A k \in Jobs : k # j => job'[k] = job[k]
      BY <2>1 DEF JobInv
    <2>4. job' = [k \in Jobs |-> job'[k]]
      BY <2>1 DEF JobInv
    <2>5. JobInv'
      BY <2>1, <2>2, <2>3, <2>4 DEF JobInv, IsJob
    <2>6. ChainInv'
      BY DEF ChainInv, chain
    <2>7. DeadInv'
      BY <2>1, <2>2, <2>3 DEF DeadInv, Mined, SwapTx, chain
    <2>8. \A k : Sent(k)' = Sent(k)
      BY DEF Sent, chain
    <2> QED BY <2>1, <2>2, <2>3, <2>5, <2>6, <2>7, <2>8
  \* The node is asked for a nonce only before anything was sent.
  <1>FirstNonce.
    ASSUME NonceInv, FirstFree, next_nonce = NoNonce
    PROVE  PendingNonce = 0
    <2> USE <1>FirstNonce
    <2>1. account_nonce = 0 /\ mempool = {}
      BY DEF NonceInv, FreshInv
    <2> QED BY <2>1 DEF FirstFree
  <1>ReserveInv.
    ASSUME IInv, FirstFree, NEW j \in Jobs, job[j].at = "build", ReserveNext(j),
           UNCHANGED <<role, restarts>>, UNCHANGED chain
    PROVE  IInv'
    <2> USE <1>ReserveInv
    <2> DEFINE nonce == IF next_nonce = NoNonce THEN PendingNonce ELSE next_nonce
    <2>1. next_nonce' = nonce + 1 /\ job' = [job EXCEPT ![j] = [job[j] EXCEPT !.at = "sign", !.nonce = nonce]]
      BY Zenon DEF ReserveNext, IInv, JobInv
    <2>2. restarts = 0 =>
            /\ nonce \in Nat
            /\ \A k \in Jobs : Holds(k) => job[k].nonce \in Nat /\ job[k].nonce < nonce
            /\ \A k \in Jobs : ~Culprit(k) => \A a \in Sent(k) : a.nonce \in Nat /\ a.nonce < nonce
      <3> SUFFICES ASSUME restarts = 0
                   PROVE  /\ nonce \in Nat
                          /\ \A k \in Jobs : Holds(k) => job[k].nonce \in Nat /\ job[k].nonce < nonce
                          /\ \A k \in Jobs : ~Culprit(k) =>
                               \A a \in Sent(k) : a.nonce \in Nat /\ a.nonce < nonce
        OBVIOUS
      <3>1. NonceInv
        BY DEF IInv
      <3>2. CASE next_nonce = NoNonce
        <4>1. nonce = 0
          BY <3>1, <3>2, <1>FirstNonce
        <4>2. mempool = {} /\ bundles = {} /\ receipts = {} /\ \A k \in Jobs : ~Holds(k)
          BY <3>1, <3>2 DEF NonceInv, FreshInv
        <4>3. \A k \in Jobs : Sent(k) = {}
          BY <4>2 DEF Sent
        <4> HIDE DEF nonce
        <4> QED BY <4>1, <4>2, <4>3
      <3>3. CASE next_nonce # NoNonce
        BY <3>1, <3>3 DEF NonceInv, AheadInv
      <3> QED BY <3>2, <3>3
    <2> HIDE DEF nonce
    <2>3. job' = [job EXCEPT ![j] = Made("sign", job[j].tx, nonce, job[j].tries, job[j].target, job[j].out)]
      <3>1. IsJob(job[j])
        BY DEF IInv, JobInv
      <3>2. [job[j] EXCEPT !.at = "sign", !.nonce = nonce]
              = Made("sign", job[j].tx, nonce, job[j].tries, job[j].target, job[j].out)
        BY <3>1, RewriteNonce, Zenon
      <3> QED BY <2>1, <3>2, Zenon
    <2>4. job[j].out = "running"
      BY DEF IInv, JobInv
    <2>5. /\ JobInv' /\ ChainInv' /\ DeadInv'
          /\ job'[j].at = "sign" /\ job'[j].nonce = nonce /\ job'[j].out = "running"
          /\ \A k \in Jobs : k # j => job'[k] = job[k]
          /\ \A k : Sent(k)' = Sent(k)
      BY <2>3, <2>4, <1>OneJob, Zenon DEF IInv
    <2>6. \A k \in Jobs : (Culprit(k)' <=> Culprit(k)) /\ (k # j => (Holds(k)' <=> Holds(k)))
      BY <2>4, <2>5 DEF Culprit, Holds
    <2>7. ASSUME restarts = 0 PROVE NonceInv'
      <3>1. nonce \in Nat /\ next_nonce' = nonce + 1 /\ NonceInv
        BY <2>1, <2>2, <2>7 DEF IInv
      <3>2. FreshInv'
        BY <3>1 DEF FreshInv, NoNonce
      <3>3. AheadInv'
        <4>1. \A k \in Jobs : Holds(k)' => job'[k].nonce \in Nat /\ job'[k].nonce < next_nonce'
          BY <2>2, <2>5, <2>6, <2>7, <3>1
        <4>2. \A k \in Jobs : ~Culprit(k)' => \A a \in Sent(k)' : a.nonce \in Nat /\ a.nonce < next_nonce'
          BY <2>2, <2>5, <2>6, <2>7, <3>1
        <4> QED BY <3>1, <4>1, <4>2 DEF AheadInv
      <3>4. OwnInv'
        <4>1. \A k, l \in Jobs : k # l /\ Holds(k)' /\ Holds(l)' => job'[k].nonce # job'[l].nonce
          BY <2>2, <2>5, <2>6, <2>7, <3>1 DEF NonceInv, OwnInv
        <4>2. \A k, l \in Jobs : k # l /\ ~Culprit(k)' /\ Holds(l)' =>
                \A a \in Sent(k)' : a.nonce # job'[l].nonce
          BY <2>2, <2>5, <2>6, <2>7, <3>1 DEF NonceInv, OwnInv
        <4>3. \A k, l \in Jobs : k # l /\ ~Culprit(k)' /\ ~Culprit(l)' =>
                \A a \in Sent(k)', b \in Sent(l)' : a.nonce # b.nonce
          BY <2>5, <2>6, <3>1 DEF NonceInv, OwnInv
        <4>4. ~Culprit(j)
          BY <2>4 DEF Culprit
        <4>5. \A k \in Jobs : job'[k].at = "sign" => \A a \in Sent(k)' : a.nonce # job'[k].nonce
          BY <2>2, <2>5, <2>7, <3>1, <4>4 DEF NonceInv, OwnInv
        <4> QED BY <4>1, <4>2, <4>3, <4>5 DEF OwnInv
      <3> QED BY <3>2, <3>3, <3>4 DEF NonceInv
    <2> QED BY <2>5, <2>7 DEF IInv
  \* `mark_failed` by a job that has sent nothing under its nonce, or by a
  \* transfer whose send reported an error.
  <1>RollbackInv.
    ASSUME IInv, NEW j \in Jobs, Holds(j), MarkFailed(job[j].nonce), NEW out, End(j, out),
           \/ job[j].at = "sign" /\ out = "Error"
           \/ role[j] = "transfer" /\ out = "SendFailed",
           UNCHANGED <<role, restarts>>, UNCHANGED chain
    PROVE  IInv'
    <2> USE <1>RollbackInv
    <2> DEFINE nonce == job[j].nonce
    <2>1. job' = [job EXCEPT ![j] = Made("ended", "none", nonce, 0, 0, out)]
      <3>1. job' = [job EXCEPT ![j] = [job[j] EXCEPT !.at = "ended", !.out = out, !.tx = "none",
                                                     !.tries = 0, !.target = 0]]
        BY Zenon DEF IInv, JobInv, End
      <3>2. IsJob(job[j])
        BY DEF IInv, JobInv
      <3>3. [job[j] EXCEPT !.at = "ended", !.out = out, !.tx = "none", !.tries = 0, !.target = 0]
              = Made("ended", "none", nonce, 0, 0, out)
        BY <3>2, RewriteEnd, Zenon
      <3> QED BY <3>1, <3>3, Zenon
    <2>2. out # "Cancelled"
      OBVIOUS
    <2>3. /\ JobInv' /\ ChainInv' /\ DeadInv'
          /\ job'[j].at = "ended" /\ job'[j].out = out
          /\ \A k \in Jobs : k # j => job'[k] = job[k]
          /\ \A k : Sent(k)' = Sent(k)
      <3>1. JobInv /\ ChainInv /\ DeadInv
        BY DEF IInv
      <3>2. "ended" # "cancel_wait"
        OBVIOUS
      <3>3. /\ JobInv' /\ ChainInv' /\ DeadInv'
            /\ job'[j].at = "ended" /\ job'[j].nonce = nonce /\ job'[j].out = out
            /\ \A k \in Jobs : k # j => job'[k] = job[k]
            /\ \A k : Sent(k)' = Sent(k)
        <4> DEFINE zero == 0
        <4>1. job' = [job EXCEPT ![j] = Made("ended", "none", nonce, zero, zero, out)]
          BY <2>1
        <4> HIDE DEF zero, nonce
        <4> QED BY <2>2, <3>1, <3>2, <4>1, <1>OneJob, Zenon
      <3> QED BY <3>3
    <2>4. ~Culprit(j) /\ ~Holds(j)'
      <3>1. job[j].at # "ended"
        BY DEF Holds, HoldingAwaits
      <3>2. job[j].out = "running"
        BY <3>1 DEF IInv, JobInv
      <3> QED BY <2>3, <3>2 DEF Culprit, Holds, HoldingAwaits
    <2>5. \A k \in Jobs : k # j => (Culprit(k)' <=> Culprit(k)) /\ (Holds(k)' <=> Holds(k))
      BY <2>3 DEF Culprit, Holds
    <2>6. ASSUME restarts = 0 PROVE NonceInv'
      <3>1. NonceInv
        BY <2>6 DEF IInv
      <3>2. nonce \in Nat /\ nonce < next_nonce /\ next_nonce \in Nat
        BY <3>1 DEF NonceInv, AheadInv, FreshInv
      <3>3. ~Culprit(j)' => \A a \in Sent(j) : a.nonce # nonce
        BY <2>3, <3>1 DEF NonceInv, OwnInv, Culprit
      <3>4. next_nonce' \in {nonce, next_nonce} /\ (next_nonce' # next_nonce => next_nonce = nonce + 1)
        BY DEF MarkFailed
      <3>5. next_nonce' \in Nat
        BY <3>2, <3>4
      <3> HIDE DEF nonce
      <3>6. \A x \in Nat : x < next_nonce /\ x # nonce => x < next_nonce'
        BY <3>2, <3>4
      <3>7. FreshInv'
        BY <3>5 DEF FreshInv, NoNonce
      <3>8. \A k \in Jobs : Holds(k)' => job'[k].nonce \in Nat /\ job'[k].nonce < next_nonce'
        <4> SUFFICES ASSUME NEW k \in Jobs, Holds(k)'
                     PROVE  job'[k].nonce \in Nat /\ job'[k].nonce < next_nonce'
          OBVIOUS
        <4>1. k # j /\ Holds(k) /\ job'[k] = job[k]
          BY <2>3, <2>4, <2>5
        <4>2. job[k].nonce \in Nat /\ job[k].nonce < next_nonce /\ job[k].nonce # nonce
          BY <3>1, <4>1 DEF NonceInv, AheadInv, OwnInv, nonce
        <4> QED BY <3>6, <4>1, <4>2
      <3>9. \A k \in Jobs : ~Culprit(k)' => \A a \in Sent(k)' : a.nonce \in Nat /\ a.nonce < next_nonce'
        <4> SUFFICES ASSUME NEW k \in Jobs, ~Culprit(k)', NEW a \in Sent(k)
                     PROVE  a.nonce \in Nat /\ a.nonce < next_nonce'
          BY <2>3
        <4>1. ~Culprit(k)
          BY <2>4, <2>5
        <4>2. a.nonce \in Nat /\ a.nonce < next_nonce
          BY <3>1, <4>1 DEF NonceInv, AheadInv
        <4>3. a.nonce # nonce
          <5>1. CASE k = j
            BY <3>3, <5>1
          <5>2. CASE k # j
            BY <3>1, <4>1, <5>2 DEF NonceInv, OwnInv, nonce
          <5> QED BY <5>1, <5>2
        <4> QED BY <3>6, <4>2, <4>3
      <3>10. OwnInv'
        <4>1. \A k \in Jobs : /\ Culprit(k) => Culprit(k)'
                              /\ Holds(k)' => k # j /\ Holds(k) /\ job'[k] = job[k]
          BY <2>3, <2>4, <2>5
        <4>2. \A k \in Jobs : job'[k].at = "sign" => k # j /\ job'[k] = job[k]
          BY <2>3
        <4> QED BY <2>3, <3>1, <4>1, <4>2 DEF NonceInv, OwnInv
      <3> QED BY <3>5, <3>7, <3>8, <3>9, <3>10 DEF NonceInv, AheadInv
    <2> QED BY <2>3, <2>6 DEF IInv
  <1>BuildInv.
    ASSUME IInv, FirstFree, NEW j \in Jobs, Build(j)
    PROVE  IInv'
    <2> USE <1>BuildInv
    <2>1. CASE End(j, "Error") /\ UNCHANGED next_nonce
      <3>1. Sends(j) /\ job[j].at # "ended"
        BY <2>1, <1>StillSends DEF Build
      <3>2. Quiet(j)
        BY <2>1, <3>1, <1>EndQuiet, Zenon DEF IInv
      <3> QED BY <3>2, QuietInv
    <2>2. CASE ReserveNext(j)
      BY <2>2, <1>ReserveInv DEF Build
    <2> QED BY <2>1, <2>2 DEF Build
  <1>SignInv.
    ASSUME IInv, NEW j \in Jobs, Sign(j)
    PROVE  IInv'
    <2> USE <1>SignInv
    <2>1. Holds(j) /\ job[j].at = "sign"
      BY DEF Sign, Holds, HoldingAwaits
    <2>2. CASE MarkFailed(job[j].nonce) /\ End(j, "Error")
      BY <2>1, <2>2, <1>RollbackInv DEF Sign
    <2>3. ASSUME NEW at \in {"target", "send"}, Goto(j, at), UNCHANGED next_nonce PROVE IInv'
      <3>1. Sends(j)
        BY <2>3, <1>StillSends DEF Sign
      <3>2. Quiet(j)
        BY <2>1, <2>3, <3>1, <1>GotoQuiet DEF IInv
      <3> QED BY <3>2, QuietInv
    <2> QED BY <2>2, <2>3 DEF Sign
  <1>SendFailedInv.
    ASSUME IInv, NEW j \in Jobs, SendFailed(j)
    PROVE  IInv'
    <2> USE <1>SendFailedInv
    <2>1. Holds(j) /\ job[j].at # "ended"
      BY DEF SendFailed, Holds, HoldingAwaits
    <2>2. CASE role[j] = "transfer" /\ MarkFailed(job[j].nonce) /\ End(j, "SendFailed")
      BY <2>1, <2>2, <1>RollbackInv DEF SendFailed
    <2>3. CASE UNCHANGED next_nonce /\ (RefetchOriginal(j) \/ End(j, "SendFailed"))
      <3>1. Sends(j)
        BY <2>3, <1>StillSends DEF SendFailed
      <3>2. Quiet(j)
        BY <2>1, <2>3, <3>1, <1>EndQuiet, <1>RefetchQuiet, Zenon DEF IInv
      <3> QED BY <3>2, QuietInv
    <2> QED BY <2>2, <2>3 DEF SendFailed
  <1> SUFFICES ASSUME IInv, FirstFree, NEW j \in Jobs, JobStep(j) \/ LegTimeout(j) PROVE IInv'
    OBVIOUS
  <1>1. JobInv
    BY DEF IInv
  <1>2. CASE SubmitSwapV2(j) \/ SubmitSwapV3(j) \/ BuildBundleV2(j) \/ BuildBundleV3(j)
    BY <1>1, <1>2, <1>SubmitsQuiet, QuietInv DEF SubmitSwapV2, SubmitSwapV3, BuildBundleV2, BuildBundleV3
  <1>3. CASE BeginTransfer(j) \/ EnsureWethBalance(j) \/ EnsureAllowance(j)
    BY <1>1, <1>3, <1>BeginTransferQuiet, <1>EnsureWethBalanceQuiet, <1>EnsureAllowanceQuiet, QuietInv
  <1>4. CASE Build(j) \/ Sign(j) \/ SendFailed(j)
    BY <1>4, <1>BuildInv, <1>SignInv, <1>SendFailedInv
  <1>5. CASE SendAttempt(j) \/ AwaitReceipt(j) \/ LegTimeout(j)
    BY <1>1, <1>5, <1>SendAttemptQuiet, <1>AwaitReceiptQuiet, <1>LegTimeoutQuiet, QuietInv
  <1>6. CASE CancelCheck(j) \/ CancelWait(j)
    BY <1>1, <1>6, <1>CancelCheckQuiet, <1>CancelWaitQuiet, QuietInv
  <1>7. CASE BundleTarget(j) \/ BundleRelay(j) \/ PollReceipt(j) \/ PollBlock(j)
    BY <1>1, <1>7, <1>BundleTargetQuiet, <1>BundleRelayQuiet, <1>PollReceiptQuiet, <1>PollBlockQuiet, QuietInv
  <1> QED BY <1>2, <1>3, <1>4, <1>5, <1>6, <1>7 DEF JobStep

-----------------------------------------------------------------------------
(* The process and the chain.                                              *)

\* Mining and eviction move or drop what was sent; they send nothing.
LEMMA ShrinkNonce ==
  ASSUME NonceInv, UNCHANGED <<next_nonce, role, job>>, FreshInv',
         \A k \in Jobs : \A a \in Sent(k)' : \E o \in Sent(k) : o.nonce = a.nonce
  PROVE  NonceInv'
  <1>1. \A k \in Jobs : /\ (Culprit(k)' <=> Culprit(k)) /\ (Holds(k)' <=> Holds(k))
                        /\ job'[k] = job[k]
    BY DEF Culprit, Holds
  <1>2. AheadInv'
    BY <1>1 DEF NonceInv, AheadInv
  <1>3. OwnInv'
    <2>1. \A k, l \in Jobs : k # l /\ ~Culprit(k)' /\ ~Culprit(l)' =>
            \A a \in Sent(k)', b \in Sent(l)' : a.nonce # b.nonce
      BY <1>1 DEF NonceInv, OwnInv
    <2> QED BY <1>1, <2>1 DEF NonceInv, OwnInv
  <1> QED BY <1>2, <1>3 DEF NonceInv

LEMMA MineInv ==
  ASSUME IInv, NEW tx, Mine(tx),
         tx \in mempool \/ \E b \in bundles : tx = [by |-> b.by, kind |-> "swap", nonce |-> b.nonce]
  PROVE  IInv'
  <1>1. PICK ok \in {"yes", "no"} : Effect(tx, ok)
    BY DEF Mine
  <1>2. /\ tx.nonce = account_nonce /\ account_nonce' = account_nonce + 1
        /\ receipts' = receipts \cup {[tx |-> tx, ok |-> ok]}
        /\ mempool' \subseteq mempool /\ bundles' \subseteq bundles
        /\ UNCHANGED <<next_nonce, role, job, restarts>>
    BY <1>1 DEF Mine, Effect, NewBlock
  <1>3. \A r \in receipts' : r \in receipts \/ r.tx = tx
    BY <1>2
  <1>4. JobInv'
    BY <1>2 DEF IInv, JobInv
  <1>5. ChainInv'
    <2>1. account_nonce \in Nat /\ account_nonce' \in Nat
      BY <1>2 DEF IInv, ChainInv
    <2>2. \A r \in receipts' : r.tx.nonce \in Nat /\ r.tx.nonce < account_nonce'
      BY <1>2, <1>3, <2>1 DEF IInv, ChainInv
    <2>3. \A r \in receipts : r.tx.nonce # tx.nonce
      BY <1>2, <2>1 DEF IInv, ChainInv
    <2>4. \A r, s \in receipts' : r.tx.nonce = s.tx.nonce => r.tx = s.tx
      BY <1>3, <2>3 DEF IInv, ChainInv
    <2> QED BY <2>1, <2>2, <2>4 DEF ChainInv
  <1>6. DeadInv'
    <2> SUFFICES ASSUME NEW j \in Jobs, job[j].out = "Cancelled"
                 PROVE  /\ ~Mined(SwapTx(j))'
                        /\ job[j].nonce \in Nat /\ job[j].nonce < account_nonce'
      BY <1>2 DEF DeadInv
    <2>1. ~Mined(SwapTx(j)) /\ job[j].nonce \in Nat /\ job[j].nonce < account_nonce
      BY DEF IInv, DeadInv
    <2>2. SwapTx(j)' = SwapTx(j) /\ SwapTx(j).nonce = job[j].nonce
      BY <1>2 DEF SwapTx
    <2>3. account_nonce \in Nat
      BY DEF IInv, ChainInv
    <2>4. SwapTx(j) # tx
      BY <1>2, <2>1, <2>2, <2>3
    <2>5. ~Mined(SwapTx(j))'
      BY <1>3, <2>1, <2>2, <2>4 DEF Mined
    <2> QED BY <1>2, <2>1, <2>3, <2>5
  <1>7. ASSUME restarts = 0 PROVE NonceInv'
    <2>1. NonceInv
      BY <1>7 DEF IInv
    <2>2. FreshInv'
      <3>1. next_nonce # NoNonce
        BY <2>1 DEF NonceInv, FreshInv
      <3> QED BY <1>2, <3>1 DEF FreshInv
    <2>3. ASSUME NEW k \in Jobs, NEW a \in Sent(k)'
          PROVE  \E o \in Sent(k) : o.nonce = a.nonce
      <3>1. \/ a \in mempool' /\ a.by = k
            \/ \E r \in receipts' : r.tx = a /\ a.by = k
            \/ \E b \in bundles' : b.by = k /\ a.nonce = b.nonce
        BY DEF Sent
      <3>2. CASE a \in mempool' /\ a.by = k
        BY <1>2, <3>2, SentFrom
      <3>3. CASE \E r \in receipts' : r.tx = a /\ a.by = k
        <4>1. CASE a = tx /\ a.by = k
          BY <4>1, SentFrom
        <4>2. CASE \E r \in receipts : r.tx = a /\ a.by = k
          BY <4>2, SentFrom
        <4> QED BY <1>3, <3>3, <4>1, <4>2
      <3>4. CASE \E b \in bundles' : b.by = k /\ a.nonce = b.nonce
        BY <1>2, <3>4, SentFrom
      <3> QED BY <3>1, <3>2, <3>3, <3>4
    <2> QED BY <1>2, <2>1, <2>2, <2>3, ShrinkNonce
  <1> QED BY <1>2, <1>4, <1>5, <1>6, <1>7 DEF IInv

\* An empty block and a dropped transaction.
LEMMA DropInv ==
  ASSUME IInv, MineEmpty \/ Evict
  PROVE  IInv'
  <1>1. /\ mempool' \subseteq mempool /\ bundles' \subseteq bundles
        /\ UNCHANGED <<next_nonce, role, job, restarts, account_nonce, receipts>>
    BY DEF MineEmpty, Evict, NewBlock
  <1>2. JobInv' /\ ChainInv'
    BY <1>1 DEF IInv, JobInv, ChainInv
  <1>3. DeadInv'
    BY <1>1 DEF IInv, DeadInv, Mined, SwapTx
  <1>4. ASSUME restarts = 0 PROVE NonceInv'
    <2>1. NonceInv
      BY <1>4 DEF IInv
    <2>2. FreshInv'
      BY <1>1, <2>1 DEF NonceInv, FreshInv, Holds
    <2>3. ASSUME NEW k \in Jobs, NEW a \in Sent(k)'
          PROVE  \E o \in Sent(k) : o.nonce = a.nonce
      BY <1>1 DEF Sent
    <2> QED BY <1>1, <2>1, <2>2, <2>3, ShrinkNonce
  <1> QED BY <1>1, <1>2, <1>3, <1>4 DEF IInv

\* After a restart the reservations are forgotten and NonceInv with them.
LEMMA RestartInv ==
  ASSUME IInv, Restart
  PROVE  IInv'
  <1>1. restarts' \in Nat /\ restarts' # 0
    <2>1. restarts' = restarts + 1
      BY Zenon DEF Restart
    <2>2. restarts \in Nat
      BY DEF IInv
    <2> QED BY <2>1, <2>2
  <1>2. UNCHANGED chain
    BY Zenon DEF Restart
  <1>3. ASSUME NEW j \in Jobs
        PROVE  \/ job'[j] = job[j] /\ job[j].at \in {"idle", "ended"}
               \/ IsJob(job'[j]) /\ job'[j].at = "ended" /\ job'[j].out = "Dropped"
    <2>1. CASE job[j].at \in {"idle", "ended"}
      BY <2>1, Zenon DEF Restart
    <2>2. CASE job[j].at \notin {"idle", "ended"}
      <3>1. job'[j] = [job[j] EXCEPT !.at = "ended", !.out = "Dropped", !.tx = "none", !.tries = 0,
                                     !.target = 0]
        BY <2>2, Zenon DEF Restart
      <3>2. IsJob(job[j])
        BY DEF IInv, JobInv
      <3>3. job'[j] = Made("ended", "none", job[j].nonce, 0, 0, "Dropped")
        BY <3>1, <3>2, RewriteEnd, Zenon
      <3> QED BY <3>3, MadeFields
    <2> QED BY <2>1, <2>2
  <1>4. job' = [j \in Jobs |-> job'[j]]
    BY Zenon DEF Restart
  <1>5. JobInv'
    BY <1>3, <1>4 DEF IInv, JobInv, IsJob
  <1>6. ChainInv'
    BY <1>2 DEF IInv, ChainInv, chain
  <1>7. DeadInv'
    BY <1>2, <1>3 DEF IInv, DeadInv, Mined, SwapTx, chain
  <1> QED BY <1>1, <1>5, <1>6, <1>7 DEF IInv

-----------------------------------------------------------------------------
LEMMA InitInv == Init => IInv
  <1> SUFFICES ASSUME Init PROVE IInv
    OBVIOUS
  <1>1. \A j \in Jobs : job[j] = Idle
    BY DEF Init
  <1>2. JobInv
    <2>1. Idle.at = "idle" /\ Idle.out = "running" /\ IsJob(Idle)
      BY DEF Idle, IsJob
    <2>2. job = [j \in Jobs |-> job[j]]
      BY DEF Init
    <2> QED BY <1>1, <2>1, <2>2 DEF JobInv
  <1>3. ChainInv /\ restarts \in Nat
    BY DEF Init, ChainInv
  <1>4. DeadInv
    BY <1>1 DEF DeadInv, Idle
  <1>5. \A j \in Jobs : ~Holds(j) /\ Sent(j) = {} /\ job[j].at # "sign"
    BY <1>1, Zenon DEF Init, Holds, HoldingAwaits, Idle, Sent
  <1>6. NonceInv
    BY <1>5 DEF Init, NonceInv, FreshInv, AheadInv, OwnInv
  <1> QED BY <1>2, <1>3, <1>4, <1>6 DEF IInv

LEMMA StepInv == IInv /\ FirstFree /\ [Next]_vars => IInv'
  <1> SUFFICES ASSUME IInv, FirstFree, [Next]_vars PROVE IInv'
    OBVIOUS
  <1>1. CASE \E j \in Jobs : JobStep(j) \/ LegTimeout(j)
    BY <1>1, JobStepInv
  <1>2. CASE Restart
    BY <1>2, RestartInv
  <1>3. CASE MinePublic
    BY <1>3, MineInv DEF MinePublic
  <1>4. CASE MineBundle
    <2>1. PICK b \in bundles : Mine([by |-> b.by, kind |-> "swap", nonce |-> b.nonce])
      BY <1>4 DEF MineBundle
    <2> QED BY <2>1, MineInv
  <1>5. CASE MineEmpty \/ Evict
    BY <1>5, DropInv
  <1>6. CASE UNCHANGED vars
    <2>1. UNCHANGED <<next_nonce, role, job, restarts, account_nonce, mempool, bundles, receipts>>
      BY <1>6 DEF vars
    <2>2. JobInv' /\ ChainInv' /\ DeadInv'
      BY <2>1 DEF IInv, JobInv, ChainInv, DeadInv, Mined, SwapTx
    <2>3. ASSUME restarts = 0 PROVE NonceInv'
      <3>1. NonceInv
        BY <2>3 DEF IInv
      <3>2. FreshInv'
        BY <2>1, <3>1 DEF NonceInv, FreshInv, Holds
      <3>3. \A k : Sent(k)' = Sent(k)
        BY <2>1 DEF Sent
      <3> QED BY <2>1, <3>1, <3>2, <3>3, ShrinkNonce
    <2> QED BY <2>1, <2>2, <2>3 DEF IInv
  <1> QED BY <1>1, <1>2, <1>3, <1>4, <1>5, <1>6 DEF Next

-----------------------------------------------------------------------------
(* Who a nonce that is not mined yet belongs to.                            *)

\* What a job's place says about its nonce, with `a` transactions mined.
Fits(r, a) ==
  /\ r \in Job
  /\ r.at \in HoldingAwaits => r.nonce \in Nat
  /\ r.at \in HoldingAwaits \cup {"build"} => r.tx # "none"
  /\ r.at \notin HoldingAwaits \cup {"ended"} => r.nonce < a
  /\ r.out \notin NoReceipt => r.nonce < a
  /\ r.at \in {"build", "sign", "send"} => r.tries <= MaxAttempts

Owned(n) == \E j \in Jobs : job[j].nonce = n /\ job[j].out \in NoReceipt

WorldInv ==
  /\ next_nonce \in {NoNonce} \cup Nat
  /\ role \in [Jobs -> Roles]
  /\ restarts \in 0..MaxRestarts
  /\ account_nonce \in Nat /\ block \in 0..MaxBlock
  /\ mempool \subseteq Txs
  /\ bundles \subseteq [by : Jobs, nonce : Nat, target : Nat]
  /\ receipts \subseteq [tx : Txs, ok : {"yes", "no"}]
  /\ allowed \in {"yes", "no"} /\ weth \in Nat

GapInv ==
  /\ WorldInv
  /\ \A j \in Jobs : Fits(job[j], account_nonce)
  /\ \A tx \in mempool \cup bundles : tx.nonce >= account_nonce => Owned(tx.nonce)
  /\ \A n \in account_nonce..(next_nonce - 1) : Owned(n)

\* A step of job j that keeps its nonce, and sends under that nonce only.
Keeps(j) ==
  /\ \E r : Fits(r, account_nonce) /\ r.nonce = job[j].nonce /\ job' = [job EXCEPT ![j] = r]
  /\ next_nonce' = next_nonce \/ (next_nonce' \in Nat /\ next_nonce' <= next_nonce)
  /\ mempool' \subseteq Txs
  /\ bundles' \subseteq [by : Jobs, nonce : Nat, target : Nat]
  /\ \A tx \in mempool' \cup bundles' : tx \in mempool \cup bundles \/ tx.nonce = job[j].nonce
  /\ UNCHANGED <<role, restarts, account_nonce, block, receipts, allowed, weth>>

LEMMA Narrow ==
  ASSUME NEW a \in Nat, NEW b \in Int, NEW c \in Int, c <= b, NEW n \in a..(c - 1)
  PROVE  n \in a..(b - 1) /\ n \in Nat /\ n >= a
  OBVIOUS

LEMMA KeepsGap ==
  ASSUME JobInv, GapInv, NEW j \in Jobs, Keeps(j)
  PROVE  GapInv'
  <1>1. PICK r : Fits(r, account_nonce) /\ r.nonce = job[j].nonce /\ job' = [job EXCEPT ![j] = r]
    BY Zenon DEF Keeps
  <1>2. job'[j] = r /\ \A k \in Jobs : k # j => job'[k] = job[k]
    BY <1>1 DEF JobInv
  <1>3. account_nonce' = account_nonce /\ account_nonce \in Nat
    BY DEF Keeps, GapInv, WorldInv
  <1>4. \A k \in Jobs : Fits(job[k], account_nonce)
    BY DEF GapInv
  <1>5. \A k \in Jobs : Fits(job'[k], account_nonce')
    BY <1>1, <1>2, <1>3, <1>4, Zenon
  <1>6. \A n \in Nat : n >= account_nonce /\ (Owned(n) \/ n = job[j].nonce) => Owned(n)'
    <2> SUFFICES ASSUME NEW n \in Nat, n >= account_nonce, Owned(n) \/ n = job[j].nonce
                 PROVE  Owned(n)'
      OBVIOUS
    <2>1. CASE n = job[j].nonce
      <3>1. r.out \in NoReceipt
        BY <1>1, <1>3, <2>1 DEF Fits
      <3> QED BY <1>1, <1>2, <2>1, <3>1 DEF Owned
    <2>2. CASE Owned(n) /\ n # job[j].nonce
      BY <1>2, <2>2 DEF Owned
    <2> QED BY <2>1, <2>2
  <1>7. WorldInv'
    <2>1. WorldInv
      BY DEF GapInv
    <2>2. next_nonce' \in {NoNonce} \cup Nat
      BY <2>1 DEF Keeps, WorldInv
    <2> QED BY <2>1, <2>2 DEF Keeps, WorldInv
  <1>8. ASSUME NEW tx \in mempool' \cup bundles', tx.nonce >= account_nonce'
        PROVE  Owned(tx.nonce)'
    <2>1. tx.nonce \in Nat
      BY <1>7 DEF WorldInv, Txs
    <2>2. tx \in mempool \cup bundles \/ tx.nonce = job[j].nonce
      BY DEF Keeps
    <2>3. tx \in mempool \cup bundles => Owned(tx.nonce)
      BY <1>3, <1>8 DEF GapInv
    <2> QED BY <1>3, <1>6, <1>8, <2>1, <2>2, <2>3
  <1>9. ASSUME NEW n, n \in account_nonce'..(next_nonce' - 1)
        PROVE  Owned(n)'
    <2>1. next_nonce \in Int /\ next_nonce' \in Int /\ next_nonce' <= next_nonce
      BY DEF Keeps, GapInv, WorldInv, NoNonce
    <2>2. n \in account_nonce..(next_nonce' - 1)
      BY <1>3, <1>9
    <2>3. n \in account_nonce..(next_nonce - 1) /\ n \in Nat /\ n >= account_nonce
      BY <1>3, <2>1, <2>2, Narrow, Zenon
    <2>4. Owned(n)
      BY <2>3 DEF GapInv
    <2> QED BY <1>6, <2>3, <2>4
  <1> QED BY <1>5, <1>7, <1>8, <1>9 DEF GapInv

LEMMA FitsMade ==
  ASSUME NEW a \in Nat, NEW at \in Awaits, NEW tx \in TxKinds, NEW nonce \in {NoNonce} \cup Nat,
         NEW tries \in Nat, NEW target \in Nat, NEW out \in Outcomes,
         at \in HoldingAwaits => nonce \in Nat,
         at \in HoldingAwaits \cup {"build"} => tx # "none",
         at \notin HoldingAwaits \cup {"ended"} => nonce < a,
         out \notin NoReceipt => nonce < a,
         at \in {"build", "sign", "send"} => tries <= MaxAttempts
  PROVE  Fits(Made(at, tx, nonce, tries, target, out), a)
  <1> DEFINE r == Made(at, tx, nonce, tries, target, out)
  <1>1. r.at = at /\ r.tx = tx /\ r.nonce = nonce /\ r.tries = tries /\ r.target = target /\ r.out = out
    BY MadeFields
  <1>2. r \in Job
    BY DEF Made, Job
  <1> HIDE DEF r
  <1>3. Fits(r, a)
    BY <1>1, <1>2 DEF Fits
  <1> QED BY <1>3 DEF r

\* The fields of a job, and what its place says.
LEMMA FitsFields ==
  ASSUME GapInv, NEW j \in Jobs
  PROVE  /\ job[j].at \in Awaits /\ job[j].tx \in TxKinds /\ job[j].nonce \in {NoNonce} \cup Nat
         /\ job[j].tries \in Nat /\ job[j].target \in Nat /\ job[j].out \in Outcomes
         /\ Holds(j) => job[j].nonce \in Nat
         /\ Holds(j) \/ job[j].at = "build" => job[j].tx # "none"
         /\ ~Holds(j) /\ job[j].at # "ended" => job[j].nonce < account_nonce
         /\ job[j].at \in {"build", "sign", "send"} => job[j].tries <= MaxAttempts
         /\ account_nonce \in Nat
  <1>1. Fits(job[j], account_nonce)
    BY DEF GapInv
  <1>2. job[j] \in Job
    BY <1>1 DEF Fits
  <1>3. account_nonce \in Nat
    BY DEF GapInv, WorldInv
  <1> QED BY <1>1, <1>2, <1>3 DEF Fits, Job, Holds

\* The one step that moves a job to another nonce.
Reserves(j) == Build(j) /\ ReserveNext(j)

\* A step that leaves the counter, the chain and the relay alone.
Still == UNCHANGED <<next_nonce, role, restarts>> /\ UNCHANGED chain

\* How the rest of the world may change in a step of job j.
Around(j) ==
  /\ next_nonce' = next_nonce \/ (next_nonce' \in Nat /\ next_nonce' <= next_nonce)
  /\ mempool' \subseteq Txs
  /\ bundles' \subseteq [by : Jobs, nonce : Nat, target : Nat]
  /\ \A tx \in mempool' \cup bundles' : tx \in mempool \cup bundles \/ tx.nonce = job[j].nonce
  /\ UNCHANGED <<role, restarts, account_nonce, block, receipts, allowed, weth>>

LEMMA JobStepKeeps == \A j \in Jobs : JobInv /\ ChainInv /\ GapInv /\ (JobStep(j) \/ LegTimeout(j)) =>
                        Keeps(j) \/ Reserves(j)
  \* What a job has received from the chain, it received for a used nonce.
  <1>MinedUsed.
    ASSUME ChainInv, NEW tx, Mined(tx) \/ MinedOk(tx)
    PROVE  tx.nonce < account_nonce
    <2> USE <1>MinedUsed
    <2>1. PICK r \in receipts : r.tx = tx
      BY DEF Mined, MinedOk
    <2> QED BY <2>1 DEF ChainInv
  \* The nonce of the job is the one under which it sends and replaces.
  <1>JobTx.
    ASSUME NEW j
    PROVE  Tx(j).nonce = job[j].nonce /\ SwapTx(j).nonce = job[j].nonce
    BY <1>JobTx DEF Tx, SwapTx
  <1>StillWorld.
    ASSUME GapInv, UNCHANGED <<role, restarts>>, UNCHANGED chain
    PROVE  /\ mempool' \subseteq Txs
           /\ bundles' \subseteq [by : Jobs, nonce : Nat, target : Nat]
           /\ \A tx \in mempool' \cup bundles' : tx \in mempool \cup bundles
           /\ UNCHANGED <<role, restarts, account_nonce, block, receipts, allowed, weth>>
    BY <1>StillWorld DEF GapInv, WorldInv, chain
  <1>StillAround.
    ASSUME GapInv, NEW j, Still
    PROVE  Around(j)
    BY <1>StillAround, <1>StillWorld DEF Still, Around
  <1>EndKeeps.
    ASSUME JobInv, GapInv, NEW j \in Jobs, Around(j), NEW out \in Outcomes, End(j, out),
           out \notin NoReceipt => job[j].nonce < account_nonce
    PROVE  Keeps(j)
    <2> USE <1>EndKeeps
    <2> DEFINE r == Made("ended", "none", job[j].nonce, 0, 0, out)
    <2>1. job' = [job EXCEPT ![j] = [job[j] EXCEPT !.at = "ended", !.out = out, !.tx = "none",
                                                   !.tries = 0, !.target = 0]]
      BY Zenon DEF JobInv, End
    <2>2. job' = [job EXCEPT ![j] = r]
      BY <2>1, RewriteEnd, ZenonT(60) DEF JobInv
    <2>3. Fits(r, account_nonce)
      <3>1. "ended" \in Awaits /\ "ended" \notin HoldingAwaits \cup {"build"} /\ "none" \in TxKinds
        BY DEF Awaits, HoldingAwaits, TxKinds
      <3>2. "ended" \in HoldingAwaits \cup {"ended"} /\ "ended" \notin {"build", "sign", "send"} /\ "ended" \notin HoldingAwaits
        BY <3>1
      <3> QED BY <3>1, <3>2, FitsFields, FitsMade
    <2>4. r.nonce = job[j].nonce
      BY MadeFields
    <2> HIDE DEF r
    <2> QED BY <2>2, <2>3, <2>4, Zenon DEF Around, Keeps
  <1>MoveKeeps.
    ASSUME JobInv, GapInv, NEW j \in Jobs, job[j].at # "ended", Around(j),
           NEW at \in Awaits, NEW tx \in TxKinds, NEW tries \in Nat, NEW target \in Nat,
           job' = [job EXCEPT ![j] = Made(at, tx, job[j].nonce, tries, target, job[j].out)],
           at \in HoldingAwaits => Holds(j),
           at \in HoldingAwaits \cup {"build"} => tx # "none",
           at \notin HoldingAwaits \cup {"ended"} => job[j].nonce < account_nonce,
           at \in {"build", "sign", "send"} => tries <= MaxAttempts
    PROVE  Keeps(j)
    <2> USE <1>MoveKeeps
    <2> DEFINE r == Made(at, tx, job[j].nonce, tries, target, job[j].out)
    <2>1. job[j].out = "running"
      BY DEF JobInv
    <2>2. Fits(r, account_nonce)
      <3>1. job[j].out \in NoReceipt
        BY <2>1 DEF NoReceipt
      <3> QED BY <3>1, FitsFields, FitsMade, Zenon
    <2>3. r.nonce = job[j].nonce
      BY MadeFields
    <2>4. job' = [job EXCEPT ![j] = r]
      OBVIOUS
    <2> HIDE DEF r
    <2> QED BY <2>2, <2>3, <2>4, Zenon DEF Around, Keeps
  <1>GotoKeeps.
    ASSUME JobInv, GapInv, NEW j \in Jobs, job[j].at # "ended", Around(j), NEW at \in Awaits, Goto(j, at),
           at \in HoldingAwaits => Holds(j), at # "build",
           at \notin HoldingAwaits \cup {"ended"} => job[j].nonce < account_nonce,
           at \in {"build", "sign", "send"} => job[j].tries <= MaxAttempts
    PROVE  Keeps(j)
    <2> USE <1>GotoKeeps
    <2>1. job' = [job EXCEPT ![j] = [job[j] EXCEPT !.at = at]]
      BY DEF JobInv, Goto
    <2>2. job' = [job EXCEPT ![j] = Made(at, job[j].tx, job[j].nonce, job[j].tries, job[j].target, job[j].out)]
      BY <2>1, RewriteAt, Zenon DEF JobInv
    <2>3. at \in HoldingAwaits \cup {"build"} => job[j].tx # "none"
      BY FitsFields
    <2> QED BY <2>2, <2>3, FitsFields, <1>MoveKeeps, ZenonT(60)
  <1>PrepareKeeps.
    ASSUME JobInv, GapInv, NEW j \in Jobs, job[j].at # "ended", Around(j),
           NEW tx \in TxKinds \ {"none"}, Prepare(j, tx), job[j].nonce < account_nonce
    PROVE  Keeps(j)
    <2> USE <1>PrepareKeeps
    <2>1. job' = [job EXCEPT ![j] = [job[j] EXCEPT !.at = "build", !.tx = tx, !.tries = 0]]
      BY Zenon DEF JobInv, Prepare
    <2>2. job' = [job EXCEPT ![j] = Made("build", tx, job[j].nonce, 0, job[j].target, job[j].out)]
      BY <2>1, RewriteTx, ZenonT(60) DEF JobInv
    <2>3. "build" \notin HoldingAwaits /\ "build" \in Awaits
      BY DEF HoldingAwaits, Awaits
    <2>4. 0 \in Nat /\ 0 <= MaxAttempts
      BY AttemptsAssumption
    <2> QED BY <2>2, <2>3, <2>4, FitsFields, <1>MoveKeeps, Zenon
  <1>SubmitsKeeps.
    ASSUME JobInv, GapInv, NEW j \in Jobs, NEW r, NEW first \in {"allowance", "weth"}, Submits(j, r, first)
    PROVE  Keeps(j)
    <2> USE <1>SubmitsKeeps
    <2>1. Around(j) /\ job[j].at = "idle" /\ ~Holds(j)
      BY <1>StillAround DEF Submits, Still, Holds, HoldingAwaits
    <2>2. first \in Awaits /\ first \notin HoldingAwaits
      BY DEF HoldingAwaits, Awaits
    <2>3. "Error" \in Outcomes /\ "Error" \in NoReceipt
      BY DEF Outcomes, NoReceipt
    <2>4. job[j].nonce < account_nonce
      BY <2>1, FitsFields
    <2>5. CASE End(j, "Error")
      BY <2>1, <2>3, <2>5, <1>EndKeeps
    <2>6. CASE Goto(j, first)
      BY <2>1, <2>2, <2>4, <2>6, <1>GotoKeeps
    <2> QED BY <2>5, <2>6 DEF Submits
  <1>BeginTransferKeeps.
    ASSUME JobInv, GapInv, NEW j \in Jobs, BeginTransfer(j)
    PROVE  Keeps(j)
    <2> USE <1>BeginTransferKeeps
    <2>1. Around(j) /\ job[j].at = "idle" /\ ~Holds(j) /\ "transfer" \in TxKinds \ {"none"}
      BY <1>StillAround DEF BeginTransfer, Still, Holds, HoldingAwaits, TxKinds
    <2>2. job[j].nonce < account_nonce
      BY <2>1, FitsFields
    <2> QED BY <2>1, <2>2, <1>PrepareKeeps DEF BeginTransfer
  <1>EnsureKeeps.
    ASSUME JobInv, GapInv, NEW j \in Jobs, EnsureWethBalance(j) \/ EnsureAllowance(j)
    PROVE  Keeps(j)
    <2> USE <1>EnsureKeeps
    <2>1. Around(j) /\ job[j].at \in {"weth", "allowance"} /\ ~Holds(j)
      BY <1>StillAround DEF EnsureWethBalance, EnsureAllowance, Still, Holds, HoldingAwaits
    <2>2. job[j].nonce < account_nonce
      BY <2>1, FitsFields
    <2>3. "Error" \in Outcomes /\ "Error" \in NoReceipt
      BY DEF Outcomes, NoReceipt
    <2>4. CASE End(j, "Error")
      BY <2>1, <2>3, <2>4, <1>EndKeeps
    <2>5. ASSUME NEW tx \in {"wrap", "approve", "swap"}, Prepare(j, tx) PROVE Keeps(j)
      <3>1. tx \in TxKinds \ {"none"}
        BY DEF TxKinds
      <3> QED BY <2>1, <2>2, <2>5, <3>1, <1>PrepareKeeps
    <2>6. CASE Goto(j, "allowance")
      <3>1. "allowance" \in Awaits /\ "allowance" \notin HoldingAwaits
        BY DEF Awaits, HoldingAwaits
      <3> QED BY <2>1, <2>2, <2>6, <3>1, <1>GotoKeeps
    <2> QED BY <2>4, <2>5, <2>6 DEF EnsureWethBalance, EnsureAllowance
  \* The transactions a job sends are of the wallet's kinds, under its nonce.
  <1>SendAround.
    ASSUME GapInv, NEW j \in Jobs, job[j].at = "send", UNCHANGED mempool \/ Broadcast(Tx(j)),
           UNCHANGED <<next_nonce, role, restarts>>,
           UNCHANGED <<account_nonce, block, bundles, receipts, allowed, weth>>
    PROVE  Around(j)
    <2> USE <1>SendAround
    <2>1. Holds(j)
      BY DEF Holds, HoldingAwaits
    <2>2. Tx(j) \in Txs
      BY <2>1, FitsFields DEF Tx, Txs
    <2>3. mempool \subseteq Txs /\ bundles \subseteq [by : Jobs, nonce : Nat, target : Nat]
      BY DEF GapInv, WorldInv
    <2>4. CASE UNCHANGED mempool
      BY <2>3, <2>4, Zenon DEF Around
    <2>5. CASE Broadcast(Tx(j))
      <3> DEFINE rest == {o \in mempool : o.nonce # Tx(j).nonce}
      <3>1. mempool' = rest \cup {Tx(j)} /\ rest \subseteq mempool
        BY <2>5 DEF Broadcast
      <3> HIDE DEF rest
      <3>2. mempool' \subseteq Txs
        BY <2>2, <2>3, <3>1
      <3>3. \A tx \in mempool' \cup bundles' : tx \in mempool \cup bundles \/ tx.nonce = job[j].nonce
        BY <3>1, <1>JobTx
      <3> QED BY <2>3, <3>2, <3>3 DEF Around
    <2> QED BY <2>4, <2>5
  <1>SendAttemptKeeps.
    ASSUME JobInv, GapInv, NEW j \in Jobs, SendAttempt(j)
    PROVE  Keeps(j)
    <2> USE <1>SendAttemptKeeps
    <2>1. job[j].at = "send" /\ Holds(j) /\ job[j].tries < MaxAttempts
      BY DEF SendAttempt, Holds, HoldingAwaits
    <2>2. Around(j)
      BY <2>1, <1>SendAround DEF SendAttempt
    <2>3. CASE Goto(j, AfterSend(j))
      <3>1. AfterSend(j) \in {"cancel_wait", "await"}
        BY DEF AfterSend
      <3>2. AfterSend(j) \in Awaits /\ AfterSend(j) \in HoldingAwaits /\ AfterSend(j) \notin {"build", "sign", "send"}
        BY <3>1 DEF Awaits, HoldingAwaits
      <3> QED BY <2>1, <2>2, <2>3, <3>2, <1>GotoKeeps
    <2>4. CASE job' = [job EXCEPT ![j].tries = @ + 1]
      <3>1. job' = [job EXCEPT ![j] = [job[j] EXCEPT !.tries = job[j].tries + 1]]
        BY <2>4 DEF JobInv
      <3>2. job' = [job EXCEPT ![j] = Made(job[j].at, job[j].tx, job[j].nonce, job[j].tries + 1,
                                           job[j].target, job[j].out)]
        BY <3>1, RewriteTries, Zenon DEF JobInv
      <3>3. job[j].tries + 1 \in Nat /\ job[j].tries + 1 <= MaxAttempts /\ job[j].tx # "none"
        BY <2>1, FitsFields, AttemptsAssumption
      <3>4. "send" \in HoldingAwaits /\ "send" \in Awaits
        BY DEF HoldingAwaits, Awaits
      <3>5. job[j].tx \in TxKinds /\ job[j].target \in Nat
        BY FitsFields
      <3> DEFINE tries == job[j].tries + 1
      <3>6. job' = [job EXCEPT ![j] = Made("send", job[j].tx, job[j].nonce, tries, job[j].target, job[j].out)]
        BY <2>1, <3>2, Zenon
      <3>7. tries \in Nat /\ tries <= MaxAttempts
        BY <3>3
      <3> HIDE DEF tries
      <3> QED BY <2>1, <2>2, <3>3, <3>4, <3>5, <3>6, <3>7, <1>MoveKeeps, Zenon
    <2> QED BY <2>3, <2>4 DEF SendAttempt
  <1>RefetchKeeps.
    ASSUME JobInv, ChainInv, GapInv, NEW j \in Jobs, Around(j), RefetchOriginal(j)
    PROVE  Keeps(j)
    <2> USE <1>RefetchKeeps
    <2>1. PICK out \in {"Error", "OriginalMined", "OriginalReverted", "Unknown"} :
            End(j, out) /\ (out \notin {"Error", "Unknown"} => Mined(SwapTx(j)))
      BY DEF RefetchOriginal
    <2>2. out \in Outcomes /\ (out \notin NoReceipt => Mined(SwapTx(j)))
      BY <2>1 DEF Outcomes, NoReceipt
    <2>3. out \notin NoReceipt => job[j].nonce < account_nonce
      BY <2>2, <1>MinedUsed, <1>JobTx
    <2> QED BY <2>1, <2>2, <2>3, <1>EndKeeps
  <1>AwaitReceiptKeeps.
    ASSUME JobInv, ChainInv, GapInv, NEW j \in Jobs, AwaitReceipt(j)
    PROVE  Keeps(j)
    <2> USE <1>AwaitReceiptKeeps
    <2>1. Around(j) /\ job[j].at = "await" /\ Holds(j)
      BY <1>StillAround DEF AwaitReceipt, Still, Holds, HoldingAwaits
    <2>2. Mined(Tx(j)) \/ MinedOk(Tx(j)) => job[j].nonce < account_nonce
      BY <1>MinedUsed, <1>JobTx
    <2>3. ASSUME NEW out \in {"Error", "Reverted", "Filled"}, End(j, out),
                 out # "Error" => job[j].nonce < account_nonce
          PROVE  Keeps(j)
      <3>1. out \in Outcomes /\ (out \notin NoReceipt => out # "Error")
        BY DEF Outcomes, NoReceipt
      <3> QED BY <2>1, <2>3, <3>1, <1>EndKeeps
    <2>4. CASE MinedOk(Tx(j)) /\ Goto(j, "allowance")
      <3>1. "allowance" \in Awaits /\ "allowance" \notin HoldingAwaits
        BY DEF Awaits, HoldingAwaits
      <3> QED BY <2>1, <2>2, <2>4, <3>1, <1>GotoKeeps
    <2>5. CASE MinedOk(Tx(j)) /\ Prepare(j, "swap")
      <3>1. "swap" \in TxKinds \ {"none"}
        BY DEF TxKinds
      <3> QED BY <2>1, <2>2, <2>5, <3>1, <1>PrepareKeeps
    <2> QED BY <2>2, <2>3, <2>4, <2>5, ZenonT(60) DEF AwaitReceipt
  <1>LegTimeoutKeeps.
    ASSUME JobInv, GapInv, NEW j \in Jobs, LegTimeout(j)
    PROVE  Keeps(j)
    <2> USE <1>LegTimeoutKeeps
    <2>1. Around(j) /\ job[j].at # "ended"
      BY <1>StillAround DEF LegTimeout, Still
    <2>2. CASE job[j].at = "await" /\ Goto(j, "cancel_check")
      <3>1. "cancel_check" \in Awaits /\ "cancel_check" \in HoldingAwaits /\ Holds(j)
        BY <2>2 DEF Awaits, HoldingAwaits, Holds
      <3> QED BY <2>1, <2>2, <3>1, <1>GotoKeeps
    <2>3. CASE End(j, "Dropped")
      <3>1. "Dropped" \in Outcomes /\ "Dropped" \in NoReceipt
        BY DEF Outcomes, NoReceipt
      <3> QED BY <2>1, <2>3, <3>1, <1>EndKeeps
    <2> QED BY <2>2, <2>3 DEF LegTimeout
  <1>CancelCheckKeeps.
    ASSUME JobInv, ChainInv, GapInv, NEW j \in Jobs, CancelCheck(j)
    PROVE  Keeps(j)
    <2> USE <1>CancelCheckKeeps
    <2>1. Around(j) /\ job[j].at # "ended" /\ Holds(j)
      BY <1>StillAround DEF CancelCheck, Still, Holds, HoldingAwaits
    <2>2. CASE RefetchOriginal(j)
      BY <2>1, <2>2, <1>RefetchKeeps
    <2>3. CASE job' = [job EXCEPT ![j].at = "send", ![j].tx = "cancel", ![j].tries = 0]
      <3>1. job' = [job EXCEPT ![j] = [job[j] EXCEPT !.at = "send", !.tx = "cancel", !.tries = 0]]
        BY <2>3, Zenon DEF JobInv
      <3>2. job' = [job EXCEPT ![j] = Made("send", "cancel", job[j].nonce, 0, job[j].target, job[j].out)]
        BY <3>1, RewriteTx, ZenonT(60) DEF JobInv
      <3>3. "send" \in Awaits /\ "send" \in HoldingAwaits /\ "cancel" \in TxKinds \ {"none"}
        BY DEF Awaits, HoldingAwaits, TxKinds
      <3>4. 0 \in Nat /\ 0 <= MaxAttempts /\ job[j].target \in Nat
        BY FitsFields, AttemptsAssumption
      <3> QED BY <2>1, <3>2, <3>3, <3>4, <1>MoveKeeps, Zenon
    <2> QED BY <2>2, <2>3 DEF CancelCheck
  <1>CancelWaitKeeps.
    ASSUME JobInv, ChainInv, GapInv, NEW j \in Jobs, CancelWait(j)
    PROVE  Keeps(j)
    <2> USE <1>CancelWaitKeeps
    <2>1. Around(j)
      BY <1>StillAround DEF CancelWait, Still
    <2>2. CASE RefetchOriginal(j)
      BY <2>1, <2>2, <1>RefetchKeeps
    <2>3. CASE (Mined(Tx(j)) /\ End(j, "Unknown")) \/ (MinedOk(Tx(j)) /\ End(j, "Cancelled"))
      <3>1. job[j].nonce < account_nonce
        BY <2>3, <1>MinedUsed, <1>JobTx
      <3>2. "Unknown" \in Outcomes /\ "Cancelled" \in Outcomes
        BY DEF Outcomes
      <3> QED BY <2>1, <2>3, <3>1, <3>2, <1>EndKeeps
    <2> QED BY <2>2, <2>3 DEF CancelWait
  \* `bundle_target_blocks` counts up from the block it reads.
  <1>FirstTargetNat.
    ASSUME NEW b \in Nat
    PROVE  FirstTarget(b) \in Nat
    <2> USE <1>FirstTargetNat
    <2>1. PICK m \in {TargetOffset, 1} : \A y \in {TargetOffset, 1} : m >= y
      BY FlashbotsAssumption
    <2>2. Max({TargetOffset, 1}) \in {TargetOffset, 1}
      BY <2>1 DEF Max
    <2> QED BY <2>2, FlashbotsAssumption DEF FirstTarget
  <1>BundleTargetKeeps.
    ASSUME JobInv, GapInv, NEW j \in Jobs, BundleTarget(j)
    PROVE  Keeps(j)
    <2> USE <1>BundleTargetKeeps
    <2>1. Around(j) /\ job[j].at # "ended" /\ Holds(j)
      BY <1>StillAround DEF BundleTarget, Still, Holds, HoldingAwaits
    <2>2. CASE End(j, "Error")
      <3>1. "Error" \in Outcomes /\ "Error" \in NoReceipt
        BY DEF Outcomes, NoReceipt
      <3> QED BY <2>1, <2>2, <3>1, <1>EndKeeps
    <2>3. CASE job' = [job EXCEPT ![j].at = "relay", ![j].target = FirstTarget(block), ![j].tries = 1]
      <3> DEFINE t == FirstTarget(block)
      <3>1. t \in Nat
        BY <1>FirstTargetNat DEF GapInv, WorldInv
      <3> HIDE DEF t
      <3>2. job' = [job EXCEPT ![j] = [job[j] EXCEPT !.at = "relay", !.target = t, !.tries = 1]]
        BY <2>3, Zenon DEF JobInv, t
      <3>3. job' = [job EXCEPT ![j] = Made("relay", job[j].tx, job[j].nonce, 1, t, job[j].out)]
        BY <3>2, RewriteTarget, ZenonT(60) DEF JobInv
      <3>4. "relay" \in Awaits /\ "relay" \in HoldingAwaits /\ 1 \in Nat
        BY DEF Awaits, HoldingAwaits
      <3>5. job[j].tx \in TxKinds /\ job[j].tx # "none"
        BY <2>1, FitsFields
      <3> QED BY <2>1, <3>1, <3>3, <3>4, <3>5, <1>MoveKeeps, Zenon
    <2> QED BY <2>2, <2>3 DEF BundleTarget
  <1>BundleRelayKeeps.
    ASSUME JobInv, GapInv, NEW j \in Jobs, BundleRelay(j)
    PROVE  Keeps(j)
    <2> USE <1>BundleRelayKeeps
    <2>1. job[j].at = "relay" /\ Holds(j)
      BY DEF BundleRelay, Holds, HoldingAwaits
    <2>2. Around(j)
      <3>1. UNCHANGED bundles \/ bundles' = bundles \cup {Bundle(j)}
        BY DEF BundleRelay
      <3>2. Bundle(j) \in [by : Jobs, nonce : Nat, target : Nat] /\ Bundle(j).nonce = job[j].nonce
        BY <2>1, FitsFields, Zenon DEF Bundle
      <3>3. mempool \subseteq Txs /\ bundles \subseteq [by : Jobs, nonce : Nat, target : Nat]
        BY DEF GapInv, WorldInv
      <3>4. UNCHANGED <<next_nonce, role, restarts, account_nonce, block, mempool, receipts, allowed, weth>>
        BY DEF BundleRelay
      <3> QED BY <3>1, <3>2, <3>3, <3>4 DEF Around
    <2>3. CASE job' = [job EXCEPT ![j].target = @ + 1, ![j].tries = @ + 1]
      <3> DEFINE target == job[j].target + 1
                 tries  == job[j].tries + 1
      <3>1. job' = [job EXCEPT ![j] = [job[j] EXCEPT !.target = target, !.tries = tries]]
        BY <2>3, Zenon DEF JobInv
      <3>2. target \in Nat /\ tries \in Nat
        BY FitsFields
      <3> HIDE DEF target, tries
      <3>3. IsJob(job[j])
        BY DEF JobInv
      <3>4. [job[j] EXCEPT !.target = target, !.tries = tries]
              = Made(job[j].at, job[j].tx, job[j].nonce, tries, target, job[j].out)
        BY <3>3, RewriteRound, Zenon
      <3>5. job' = [job EXCEPT ![j] = Made("relay", job[j].tx, job[j].nonce, tries, target, job[j].out)]
        BY <2>1, <3>1, <3>4, Zenon
      <3>6. "relay" \in Awaits /\ "relay" \in HoldingAwaits
        BY DEF Awaits, HoldingAwaits
      <3>7. job[j].tx \in TxKinds /\ job[j].tx # "none"
        BY <2>1, FitsFields
      <3> QED BY <2>1, <2>2, <3>2, <3>5, <3>6, <3>7, <1>MoveKeeps, Zenon
    <2>4. CASE Goto(j, "poll")
      <3>1. "poll" \in Awaits /\ "poll" \in HoldingAwaits
        BY DEF Awaits, HoldingAwaits
      <3> QED BY <2>1, <2>2, <2>4, <3>1, <1>GotoKeeps
    <2>5. CASE End(j, "Error")
      <3>1. "Error" \in Outcomes /\ "Error" \in NoReceipt
        BY DEF Outcomes, NoReceipt
      <3> QED BY <2>2, <2>5, <3>1, <1>EndKeeps
    <2> QED BY <2>3, <2>4, <2>5 DEF BundleRelay
  <1>PollKeeps.
    ASSUME JobInv, ChainInv, GapInv, NEW j \in Jobs, PollReceipt(j) \/ PollBlock(j)
    PROVE  Keeps(j)
    <2> USE <1>PollKeeps
    <2>1. Around(j) /\ job[j].at # "ended" /\ Holds(j)
      BY <1>StillAround DEF PollReceipt, PollBlock, Still, Holds, HoldingAwaits
    <2>2. Mined(Tx(j)) \/ MinedOk(Tx(j)) => job[j].nonce < account_nonce
      BY <1>MinedUsed, <1>JobTx
    <2>3. ASSUME NEW out \in {"Error", "Reverted", "Filled", "BundleNotIncluded"}, End(j, out),
                 out \notin {"Error", "BundleNotIncluded"} => job[j].nonce < account_nonce
          PROVE  Keeps(j)
      <3>1. out \in Outcomes /\ (out \notin NoReceipt => out \notin {"Error", "BundleNotIncluded"})
        BY DEF Outcomes, NoReceipt
      <3> QED BY <2>1, <2>3, <3>1, <1>EndKeeps
    <2>4. ASSUME NEW at \in {"poll", "poll_block"}, Goto(j, at) PROVE Keeps(j)
      <3>1. at \in Awaits /\ at \in HoldingAwaits /\ at \notin {"build", "send"}
        BY DEF Awaits, HoldingAwaits
      <3> QED BY <2>1, <2>4, <3>1, <1>GotoKeeps
    <2> QED BY <2>2, <2>3, <2>4 DEF PollReceipt, PollBlock
  \* `mark_failed` can only lower the counter.
  <1>RollbackAround.
    ASSUME GapInv, NEW j \in Jobs, Holds(j), MarkFailed(job[j].nonce),
           UNCHANGED <<role, restarts>>, UNCHANGED chain
    PROVE  Around(j)
    <2> USE <1>RollbackAround
    <2>1. job[j].nonce \in Nat
      BY FitsFields
    <2>2. next_nonce' = next_nonce \/ (next_nonce' \in Nat /\ next_nonce' <= next_nonce)
      BY <2>1 DEF MarkFailed
    <2> QED BY <2>2, <1>StillWorld DEF Around
  <1>BuildKeeps.
    ASSUME JobInv, GapInv, NEW j \in Jobs, Build(j)
    PROVE  Keeps(j) \/ Reserves(j)
    <2> USE <1>BuildKeeps
    <2>1. CASE End(j, "Error") /\ UNCHANGED next_nonce
      <3>1. Around(j)
        BY <2>1, <1>StillAround DEF Build, Still
      <3>2. "Error" \in Outcomes /\ "Error" \in NoReceipt
        BY DEF Outcomes, NoReceipt
      <3> QED BY <2>1, <3>1, <3>2, <1>EndKeeps
    <2>2. CASE ReserveNext(j)
      BY <2>2 DEF Reserves
    <2> QED BY <2>1, <2>2 DEF Build
  <1>SignKeeps.
    ASSUME JobInv, GapInv, NEW j \in Jobs, Sign(j)
    PROVE  Keeps(j)
    <2> USE <1>SignKeeps
    <2>1. Holds(j) /\ job[j].at = "sign"
      BY Zenon DEF Sign, Holds, HoldingAwaits
    <2>2. CASE MarkFailed(job[j].nonce) /\ End(j, "Error")
      <3>1. Around(j)
        BY <2>1, <2>2, <1>RollbackAround DEF Sign
      <3>2. "Error" \in Outcomes /\ "Error" \in NoReceipt
        BY DEF Outcomes, NoReceipt
      <3> QED BY <2>2, <3>1, <3>2, <1>EndKeeps
    <2>3. ASSUME NEW at \in {"target", "send"}, Goto(j, at), UNCHANGED next_nonce PROVE Keeps(j)
      <3>1. Around(j)
        BY <2>3, <1>StillAround DEF Sign, Still
      <3>2. at \in Awaits /\ at \in HoldingAwaits /\ at # "build"
        BY DEF Awaits, HoldingAwaits
      <3>3. job[j].tries <= MaxAttempts
        BY <2>1, FitsFields
      <3> QED BY <2>1, <2>3, <3>1, <3>2, <3>3, <1>GotoKeeps
    <2> QED BY <2>2, <2>3 DEF Sign
  <1>SendFailedKeeps.
    ASSUME JobInv, ChainInv, GapInv, NEW j \in Jobs, SendFailed(j)
    PROVE  Keeps(j)
    <2> USE <1>SendFailedKeeps
    <2>1. Holds(j)
      BY DEF SendFailed, Holds, HoldingAwaits
    <2>2. "SendFailed" \in Outcomes /\ "SendFailed" \in NoReceipt
      BY DEF Outcomes, NoReceipt
    <2>3. CASE MarkFailed(job[j].nonce) /\ End(j, "SendFailed")
      <3>1. Around(j)
        BY <2>1, <2>3, <1>RollbackAround DEF SendFailed
      <3> QED BY <2>2, <2>3, <3>1, <1>EndKeeps
    <2>4. CASE UNCHANGED next_nonce /\ (RefetchOriginal(j) \/ End(j, "SendFailed"))
      <3>1. Around(j)
        BY <2>4, <1>StillAround DEF SendFailed, Still
      <3> QED BY <2>2, <2>4, <3>1, <1>EndKeeps, <1>RefetchKeeps
    <2> QED BY <2>3, <2>4 DEF SendFailed
  <1> SUFFICES ASSUME JobInv, ChainInv, GapInv, NEW j \in Jobs, JobStep(j) \/ LegTimeout(j)
               PROVE  Keeps(j) \/ Reserves(j)
    OBVIOUS
  <1>1. CASE SubmitSwapV2(j) \/ SubmitSwapV3(j) \/ BuildBundleV2(j) \/ BuildBundleV3(j)
    BY <1>1, <1>SubmitsKeeps DEF SubmitSwapV2, SubmitSwapV3, BuildBundleV2, BuildBundleV3
  <1>2. CASE BeginTransfer(j) \/ EnsureWethBalance(j) \/ EnsureAllowance(j)
    BY <1>2, <1>BeginTransferKeeps, <1>EnsureKeeps
  <1>3. CASE Build(j) \/ Sign(j) \/ SendAttempt(j) \/ SendFailed(j) \/ AwaitReceipt(j)
    BY <1>3, <1>BuildKeeps, <1>SignKeeps, <1>SendAttemptKeeps, <1>SendFailedKeeps, <1>AwaitReceiptKeeps
  <1>4. CASE CancelCheck(j) \/ CancelWait(j) \/ LegTimeout(j)
    BY <1>4, <1>CancelCheckKeeps, <1>CancelWaitKeeps, <1>LegTimeoutKeeps
  <1>5. CASE BundleTarget(j) \/ BundleRelay(j) \/ PollReceipt(j) \/ PollBlock(j)
    BY <1>5, <1>BundleTargetKeeps, <1>BundleRelayKeeps, <1>PollKeeps
  <1> QED BY <1>1, <1>2, <1>3, <1>4, <1>5 DEF JobStep

\* A job takes the counter's nonce, or the first one that is free.
LEMMA ReserveGap ==
  ASSUME JobInv, GapInv, FirstFree, NEW j \in Jobs, job[j].at = "build", ReserveNext(j),
         UNCHANGED <<role, restarts>>, UNCHANGED chain
  PROVE  GapInv'
  <1> DEFINE nonce == IF next_nonce = NoNonce THEN PendingNonce ELSE next_nonce
             r == Made("sign", job[j].tx, nonce, job[j].tries, job[j].target, job[j].out)
  <1>1. WorldInv /\ account_nonce \in Nat /\ next_nonce \in {NoNonce} \cup Nat
    BY DEF GapInv, WorldInv
  <1>2. next_nonce' = nonce + 1 /\ job' = [job EXCEPT ![j] = [job[j] EXCEPT !.at = "sign", !.nonce = nonce]]
    BY Zenon DEF ReserveNext, JobInv
  <1>3. nonce \in Nat
    BY <1>1 DEF FirstFree
  <1>4. \A n \in account_nonce..(nonce - 1) : Owned(n)
    <2>1. CASE next_nonce = NoNonce
      <3>1. nonce = PendingNonce
        BY <2>1
      <3>2. \A n \in account_nonce..(nonce - 1) : \E tx \in mempool : tx.nonce = n
        BY <1>1, <3>1 DEF FirstFree
      <3>3. \A n \in account_nonce..(nonce - 1) : n >= account_nonce
        BY <1>1, <1>3
      <3> HIDE DEF nonce
      <3> QED BY <3>2, <3>3 DEF GapInv
    <2>2. CASE next_nonce # NoNonce
      BY <2>2 DEF GapInv
    <2> QED BY <2>1, <2>2
  <1> HIDE DEF nonce
  <1>5. job' = [job EXCEPT ![j] = r]
    <2>1. IsJob(job[j])
      BY DEF JobInv
    <2>2. [job[j] EXCEPT !.at = "sign", !.nonce = nonce] = r
      BY <2>1, RewriteNonce, Zenon
    <2> QED BY <1>2, <2>2, Zenon
  <1>6. job[j].out = "running" /\ "running" \in NoReceipt
    BY DEF JobInv, NoReceipt
  <1>7. ~Holds(j) /\ job[j].nonce < account_nonce
    <2>1. ~Holds(j)
      BY DEF Holds, HoldingAwaits
    <2> QED BY <2>1, FitsFields
  <1>8. Fits(r, account_nonce)
    <2>1. "sign" \in Awaits /\ "sign" \in HoldingAwaits /\ "sign" # "send"
      BY DEF Awaits, HoldingAwaits
    <2> QED BY <1>3, <1>6, <2>1, FitsFields, FitsMade, Zenon
  <1>9. r.nonce = nonce /\ r.out = "running"
    BY <1>6, MadeFields
  <1> HIDE DEF r
  <1>10. job'[j] = r /\ \A k \in Jobs : k # j => job'[k] = job[k]
    BY <1>5 DEF JobInv
  <1>11. \A n : (Owned(n) /\ n # job[j].nonce) \/ n = nonce => Owned(n)'
    BY <1>6, <1>9, <1>10, Zenon DEF Owned
  <1>12. UNCHANGED <<role, restarts, account_nonce, block, mempool, bundles, receipts, allowed, weth>>
    BY DEF chain
  <1>13. WorldInv'
    BY <1>1, <1>2, <1>3, <1>12 DEF WorldInv
  <1>14. \A k \in Jobs : Fits(job'[k], account_nonce')
    BY <1>8, <1>10, <1>12, ZenonT(60) DEF GapInv
  <1>15. ASSUME NEW tx \in mempool' \cup bundles', tx.nonce >= account_nonce'
         PROVE  Owned(tx.nonce)'
    <2>1. tx.nonce \in Nat /\ tx.nonce >= account_nonce /\ Owned(tx.nonce)
      BY <1>12, <1>13, <1>15 DEF WorldInv, Txs, GapInv
    <2>2. tx.nonce # job[j].nonce
      BY <1>1, <1>7, <2>1
    <2> QED BY <1>11, <2>1, <2>2
  <1>16. ASSUME NEW n, n \in account_nonce'..(next_nonce' - 1)
         PROVE  Owned(n)'
    <2>1. next_nonce' - 1 = nonce
      BY <1>2, <1>3
    <2>2. n \in account_nonce..nonce
      BY <1>12, <1>16, <2>1
    <2>3. n = nonce \/ (n \in account_nonce..(nonce - 1) /\ n # job[j].nonce)
      BY <1>1, <1>3, <1>7, <2>2
    <2> QED BY <1>4, <1>11, <2>3
  <1> QED BY <1>13, <1>14, <1>15, <1>16 DEF GapInv

-----------------------------------------------------------------------------
\* Once its nonce is used a job may hold it or not.
LEMMA FitsLater ==
  ASSUME NEW r, NEW a \in Nat, Fits(r, a)
  PROVE  Fits(r, a + 1)
  <1>1. r.nonce \in Int
    BY DEF Fits, Job, NoNonce
  <1>2. r.nonce < a => r.nonce < a + 1
    BY <1>1
  <1> QED BY <1>2 DEF Fits

LEMMA NewBlockWorld ==
  ASSUME WorldInv, NewBlock
  PROVE  block' \in 0..MaxBlock /\ bundles' \subseteq bundles
  BY BoundsAssumption DEF WorldInv, NewBlock

\* A mined transaction uses up the account's nonce: what is left to own shrinks.
LEMMA MineGap ==
  ASSUME GapInv, NEW tx \in Txs, Mine(tx)
  PROVE  GapInv'
  <1>1. PICK ok \in {"yes", "no"} : Effect(tx, ok) /\ (ok = "yes" => CanSucceed(tx))
    BY DEF Mine
  <1>2. WorldInv /\ account_nonce \in Nat
    BY DEF GapInv, WorldInv
  <1>3. /\ account_nonce' = account_nonce + 1 /\ receipts' = receipts \cup {[tx |-> tx, ok |-> ok]}
        /\ mempool' \subseteq mempool /\ UNCHANGED <<next_nonce, role, job, restarts>>
    BY <1>1 DEF Mine, Effect
  <1>4. block' \in 0..MaxBlock /\ bundles' \subseteq bundles
    BY <1>2, NewBlockWorld DEF Mine
  <1>5. WorldInv'
    <2>2. allowed' \in {"yes", "no"}
      BY <1>1, <1>2 DEF Effect, WorldInv
    <2>3. weth' \in Nat
      <3>1. tx.kind = "swap" /\ ok = "yes" => weth >= 1
        BY <1>1 DEF CanSucceed
      <3>2. weth \in Nat
        BY <1>2 DEF WorldInv
      <3> QED BY <1>1, <3>1, <3>2 DEF Effect
    <2>4. receipts' \subseteq [tx : Txs, ok : {"yes", "no"}]
      BY <1>2, <1>3 DEF WorldInv
    <2>5. account_nonce' \in Nat
      BY <1>2, <1>3
    <2> QED BY <1>2, <1>3, <1>4, <2>2, <2>3, <2>4, <2>5 DEF WorldInv
  <1>6. \A j \in Jobs : Fits(job'[j], account_nonce')
    <2>1. \A j \in Jobs : Fits(job[j], account_nonce)
      BY DEF GapInv
    <2> QED BY <1>2, <1>3, <2>1, FitsLater
  <1>7. \A n : Owned(n)' <=> Owned(n)
    BY <1>3 DEF Owned
  <1>8. ASSUME NEW t \in mempool' \cup bundles', t.nonce >= account_nonce'
        PROVE  Owned(t.nonce)'
    <2>1. t \in mempool \cup bundles /\ t.nonce \in Nat
      BY <1>3, <1>4, <1>5, Zenon DEF WorldInv, Txs
    <2>2. t.nonce >= account_nonce
      BY <1>2, <1>3, <1>8, <2>1
    <2> QED BY <1>7, <2>1, <2>2 DEF GapInv
  <1>9. ASSUME NEW n, n \in account_nonce'..(next_nonce' - 1)
        PROVE  Owned(n)'
    <2>1. n \in (account_nonce + 1)..(next_nonce - 1)
      BY <1>3, <1>9
    <2>2. next_nonce \in Int
      BY <1>2 DEF WorldInv, NoNonce
    <2>3. n \in account_nonce..(next_nonce - 1)
      BY <1>2, <2>1, <2>2
    <2> QED BY <1>7, <2>3 DEF GapInv
  <1> QED BY <1>5, <1>6, <1>8, <1>9 DEF GapInv

\* An empty block and a dropped transaction.
LEMMA DropGap ==
  ASSUME GapInv, MineEmpty \/ Evict
  PROVE  GapInv'
  <1>1. WorldInv
    BY DEF GapInv
  <1>2. /\ mempool' \subseteq mempool
        /\ UNCHANGED <<next_nonce, role, job, restarts, account_nonce, receipts, allowed, weth>>
    BY DEF MineEmpty, Evict
  <1>3. block' \in 0..MaxBlock /\ bundles' \subseteq bundles
    <2>1. CASE MineEmpty
      BY <1>1, <2>1, NewBlockWorld DEF MineEmpty
    <2>2. CASE Evict
      BY <1>1, <2>2 DEF Evict, WorldInv
    <2> QED BY <2>1, <2>2
  <1>5. WorldInv'
    BY <1>1, <1>2, <1>3 DEF WorldInv
  <1>6. \A n : Owned(n)' <=> Owned(n)
    BY <1>2 DEF Owned
  <1>7. \A t \in mempool' \cup bundles' : t \in mempool \cup bundles
    BY <1>2, <1>3
  <1>8. \A j \in Jobs : Fits(job'[j], account_nonce')
    BY <1>2 DEF GapInv
  <1> QED BY <1>2, <1>5, <1>6, <1>7, <1>8 DEF GapInv

\* The jobs a restart drops keep what they own; the counter owns nothing.
LEMMA RestartGap ==
  ASSUME JobInv, GapInv, Restart
  PROVE  GapInv'
  <1>1. /\ next_nonce' = NoNonce /\ restarts < MaxRestarts /\ restarts' = restarts + 1
        /\ UNCHANGED <<role, account_nonce, block, mempool, bundles, receipts, allowed, weth>>
    BY ZenonT(60) DEF Restart, chain
  <1>2. ASSUME NEW j \in Jobs
        PROVE  /\ Fits(job'[j], account_nonce) /\ job'[j].nonce = job[j].nonce
               /\ job[j].out \in NoReceipt => job'[j].out \in NoReceipt
    <2>1. CASE job[j].at \in {"idle", "ended"}
      <3>1. job'[j] = job[j]
        BY <2>1, Zenon DEF Restart
      <3> QED BY <3>1 DEF GapInv
    <2>2. CASE job[j].at \notin {"idle", "ended"}
      <3> DEFINE r == Made("ended", "none", job[j].nonce, 0, 0, "Dropped")
      <3>1. job'[j] = [job[j] EXCEPT !.at = "ended", !.out = "Dropped", !.tx = "none", !.tries = 0,
                                     !.target = 0]
        BY <2>2, Zenon DEF Restart
      <3>2. IsJob(job[j])
        BY DEF JobInv
      <3>3. job'[j] = r
        BY <3>1, <3>2, RewriteEnd, ZenonT(60)
      <3>4. Fits(r, account_nonce)
        <4>1. "ended" \in Awaits /\ "ended" \notin HoldingAwaits \cup {"build"} /\ "none" \in TxKinds
          BY DEF Awaits, HoldingAwaits, TxKinds
        <4>2. "Dropped" \in Outcomes /\ "Dropped" \in NoReceipt
          BY DEF Outcomes, NoReceipt
        <4>3. "ended" \notin HoldingAwaits /\ "ended" \notin {"build", "sign", "send"}
          BY <4>1
        <4> QED BY <4>1, <4>2, <4>3, FitsFields, FitsMade
      <3>5. r.nonce = job[j].nonce /\ r.out = "Dropped"
        BY MadeFields
      <3> HIDE DEF r
      <3> QED BY <3>3, <3>4, <3>5 DEF NoReceipt
    <2> QED BY <2>1, <2>2
  <1>3. \A n : Owned(n) => Owned(n)'
    BY <1>2 DEF Owned
  <1>4. WorldInv'
    <2>1. WorldInv
      BY DEF GapInv
    <2>2. restarts' \in 0..MaxRestarts
      BY <1>1, <2>1, BoundsAssumption DEF WorldInv
    <2> QED BY <1>1, <2>1, <2>2 DEF WorldInv
  <1>5. \A j \in Jobs : Fits(job'[j], account_nonce')
    BY <1>1, <1>2
  <1>6. \A n \in account_nonce'..(next_nonce' - 1) : Owned(n)'
    <2>1. account_nonce' \in Nat /\ next_nonce' - 1 < 0
      BY <1>1, <1>4 DEF WorldInv, NoNonce
    <2>2. next_nonce' - 1 \in Int
      BY <1>1 DEF NoNonce
    <2> QED BY <2>1, <2>2
  <1> QED BY <1>1, <1>3, <1>4, <1>5, <1>6 DEF GapInv

LEMMA InitGap == Init => GapInv
  <1> SUFFICES ASSUME Init PROVE GapInv
    OBVIOUS
  <1>1. mempool = {} /\ bundles = {} /\ account_nonce = 0 /\ next_nonce = -1
    BY DEF Init, NoNonce
  <1>2. WorldInv
    <2>2. role \in [Jobs -> Roles]
      BY MixesAssumption DEF Init, Roles
    <2> QED BY <2>2, BoundsAssumption DEF Init, WorldInv
  <1>3. \A j \in Jobs : Fits(job[j], account_nonce)
    <2>1. Idle \in Job
      BY DEF Idle, Job, Awaits, TxKinds, Outcomes
    <2>2. Idle.at = "idle" /\ Idle.nonce = -1 /\ Idle.out = "running"
      BY DEF Idle, NoNonce
    <2>3. Fits(Idle, 0)
      BY <2>1, <2>2 DEF Fits, HoldingAwaits, NoReceipt
    <2> QED BY <1>1, <2>3 DEF Init
  <1> QED BY <1>1, <1>2, <1>3 DEF GapInv

LEMMA StepGap == IInv /\ GapInv /\ FirstFree /\ [Next]_vars => GapInv'
  <1> SUFFICES ASSUME IInv, GapInv, FirstFree, [Next]_vars PROVE GapInv'
    OBVIOUS
  <1>1. JobInv /\ ChainInv
    BY DEF IInv
  <1>2. ASSUME NEW j \in Jobs, JobStep(j) \/ LegTimeout(j) PROVE GapInv'
    <2>1. CASE Reserves(j)
      BY <1>1, <2>1, ReserveGap DEF Reserves, Build
    <2>2. CASE Keeps(j)
      BY <1>1, <2>2, KeepsGap
    <2> QED BY <1>1, <1>2, <2>1, <2>2, JobStepKeeps
  <1>3. CASE Restart
    BY <1>1, <1>3, RestartGap
  <1>4. CASE MinePublic
    <2>1. PICK tx \in mempool : Mine(tx)
      BY <1>4 DEF MinePublic
    <2>2. tx \in Txs
      BY DEF GapInv, WorldInv
    <2> QED BY <2>1, <2>2, MineGap
  <1>5. CASE MineBundle
    <2>1. PICK b \in bundles : Mine([by |-> b.by, kind |-> "swap", nonce |-> b.nonce])
      BY <1>5 DEF MineBundle
    <2>2. b \in [by : Jobs, nonce : Nat, target : Nat]
      BY DEF GapInv, WorldInv
    <2>3. [by |-> b.by, kind |-> "swap", nonce |-> b.nonce] \in Txs
      BY <2>2 DEF Txs, TxKinds
    <2> QED BY <2>1, <2>3, MineGap
  <1>6. CASE MineEmpty \/ Evict
    BY <1>6, DropGap
  <1>7. CASE UNCHANGED vars
    BY <1>7, Zenon DEF vars, GapInv, WorldInv, Owned
  <1> QED BY <1>2, <1>3, <1>4, <1>5, <1>6, <1>7 DEF Next

-----------------------------------------------------------------------------
(* The mempool gets at most one transaction in a step.                     *)

Grows == \E tx : mempool' \subseteq mempool \cup {tx}

LEMMA StillGrows ==
  ASSUME UNCHANGED mempool
  PROVE  Grows
  BY DEF Grows

LEMMA StepGrows == [Next]_vars => Grows
  <1> SUFFICES ASSUME [Next]_vars PROVE Grows
    OBVIOUS
  <1>1. ASSUME NEW j \in Jobs, JobStep(j) \/ LegTimeout(j) PROVE Grows
    <2>1. CASE SubmitSwapV2(j) \/ SubmitSwapV3(j) \/ BuildBundleV2(j) \/ BuildBundleV3(j)
      BY <2>1, StillGrows, Zenon DEF SubmitSwapV2, SubmitSwapV3, BuildBundleV2, BuildBundleV3, Submits, chain
    <2>2. CASE BeginTransfer(j) \/ EnsureWethBalance(j) \/ EnsureAllowance(j)
      BY <2>2, StillGrows, Zenon DEF BeginTransfer, EnsureWethBalance, EnsureAllowance, chain
    <2>3. CASE Build(j) \/ Sign(j) \/ SendFailed(j) \/ AwaitReceipt(j)
      BY <2>3, StillGrows, Zenon DEF Build, Sign, SendFailed, AwaitReceipt, chain
    <2>4. CASE CancelCheck(j) \/ CancelWait(j) \/ LegTimeout(j)
      BY <2>4, StillGrows, Zenon DEF CancelCheck, CancelWait, LegTimeout, chain
    <2>5. CASE BundleTarget(j) \/ BundleRelay(j) \/ PollReceipt(j) \/ PollBlock(j)
      BY <2>5, StillGrows, Zenon DEF BundleTarget, BundleRelay, PollReceipt, PollBlock, chain
    <2>6. CASE SendAttempt(j)
      <3>1. UNCHANGED mempool \/ Broadcast(Tx(j))
        BY <2>6 DEF SendAttempt
      <3>2. Broadcast(Tx(j)) => mempool' \subseteq mempool \cup {Tx(j)}
        BY DEF Broadcast
      <3> QED BY <3>1, <3>2, StillGrows DEF Grows
    <2> QED BY <1>1, <2>1, <2>2, <2>3, <2>4, <2>5, <2>6 DEF JobStep
  <1>2. CASE Restart \/ UNCHANGED vars
    BY <1>2, StillGrows, Zenon DEF Restart, chain, vars
  <1>3. ASSUME NEW tx, Mine(tx) PROVE Grows
    BY <1>3 DEF Mine, Effect, Grows
  <1>4. CASE MineEmpty \/ Evict
    BY <1>4 DEF MineEmpty, Evict, Grows
  <1> QED BY <1>1, <1>2, <1>3, <1>4, Zenon DEF Next, MinePublic, MineBundle

-----------------------------------------------------------------------------
(* The node has an answer: finitely many transactions wait.                *)
INSTANCE FiniteSetTheorems
INSTANCE WellFoundedInduction

LEMMA InitFinite == Init => IsFiniteSet(mempool)
  BY FS_EmptySet DEF Init

LEMMA StepFinite == IsFiniteSet(mempool) /\ [Next]_vars => IsFiniteSet(mempool)'
  <1> SUFFICES ASSUME IsFiniteSet(mempool), [Next]_vars PROVE IsFiniteSet(mempool')
    OBVIOUS
  <1>1. PICK tx : mempool' \subseteq mempool \cup {tx}
    BY StepGrows DEF Grows
  <1> QED BY <1>1, FS_AddElement, FS_Subset, Zenon

\* The pending nonce is the first one at or above the account's that nothing
\* in the mempool carries: with k transactions waiting there is a free one
\* among k + 1, and the least of those is well defined.
LEMMA PendingIsFirstFree ==
  ASSUME account_nonce \in Nat, IsFiniteSet(mempool)
  PROVE  FirstFree
  <1> DEFINE a == account_nonce
             c == Cardinality(mempool)
             Free == {n \in a..(a + c) : \A tx \in mempool : tx.nonce # n}
  <1>1. c \in Nat
    BY FS_CardinalityType
  <1>2. Free # {}
    <2> SUFFICES ASSUME Free = {} PROVE FALSE
      OBVIOUS
    <2> DEFINE carriers == {tx \in mempool : tx.nonce \in a..(a + c)}
               f == [tx \in carriers |-> tx.nonce]
    <2>1. IsFiniteSet(carriers) /\ Cardinality(carriers) <= c
      BY FS_Subset
    <2>2. f \in Surjection(carriers, a..(a + c))
      BY DEF Surjection
    <2>3. Cardinality(a..(a + c)) = c + 1
      BY <1>1, FS_Interval
    <2>4. Cardinality(a..(a + c)) <= Cardinality(carriers)
      BY <2>1, <2>2, FS_Surjection
    <2>5. Cardinality(carriers) \in Nat
      BY <2>1, FS_CardinalityType
    <2> HIDE DEF c, carriers
    <2> QED BY <1>1, <2>1, <2>3, <2>4, <2>5
  <1>3. Free \subseteq Nat
    BY <1>1
  <1> DEFINE R == OpToRel(<, Nat)
  <1>4. PICK m \in Free : \A y \in Free : ~(<<y, m>> \in R)
    <2>1. IsWellFoundedOn(R, Nat)
      BY NatLessThanWellFounded, Zenon
    <2> HIDE DEF R, Free
    <2> QED BY <1>2, <1>3, <2>1, WFMin, Zenon
  <1>5. \A y \in Free : m <= y
    <2> SUFFICES ASSUME NEW y \in Free PROVE m <= y
      OBVIOUS
    <2>1. m \in Nat /\ y \in Nat
      BY <1>3
    <2>2. ~(y < m)
      BY <1>4, <2>1, ZenonT(60) DEF OpToRel
    <2> QED BY <2>1, <2>2
  <1>6. PendingNonce = m
    <2>1. Min(Free) \in Free /\ \A y \in Free : Min(Free) <= y
      BY <1>5 DEF Min
    <2>2. Min(Free) = m
      BY <1>3, <1>5, <2>1
    <2>3. PendingNonce = Min(Free)
      BY Zenon DEF PendingNonce
    <2> QED BY <2>2, <2>3
  <1>7. m \in Nat /\ m >= a /\ m <= a + c
    BY <1>1
  <1>8. ASSUME NEW n \in a..(m - 1) PROVE \E tx \in mempool : tx.nonce = n
    <2>1. n \in a..(a + c) /\ ~(m <= n)
      BY <1>1, <1>7
    <2> QED BY <1>5, <2>1
  <1> QED BY <1>6, <1>7, <1>8 DEF FirstFree

LEMMA NodeAnswers == IInv /\ IsFiniteSet(mempool) => FirstFree
  BY PendingIsFirstFree DEF IInv, ChainInv

-----------------------------------------------------------------------------
\* When `cancel_pending_public_swap` answers Cancelled, the swap it replaced has
\* not been mined and never will be: its nonce is used.
THEOREM CancelledDead == Spec => []CancelledMeansDead
  <1>1. IInv => CancelledMeansDead
    BY DEF IInv, ChainInv, DeadInv, CancelledMeansDead
  <1> QED BY <1>1, InitInv, StepInv, InitFinite, StepFinite, NodeAnswers, PTL DEF Spec

\* The shared `NonceManager` never gives two jobs the same nonce to send under,
\* unless the process restarted or a transfer rolled back a nonce whose send
\* had reached a node; short of these the counter is ahead of all that was sent.
THEOREM ReuseHasCause == Spec => []NonceReuseHasCause
  <1>1. IInv => NonceReuseHasCause
    <2> SUFFICES ASSUME IInv PROVE NonceReuseHasCause
      OBVIOUS
    <2>1. CounterAheadOfSent
      BY DEF IInv, NonceInv, AheadInv, Culprit, CounterAheadOfSent
    <2>2. ASSUME NEW j \in Jobs, NEW k \in Jobs, j # k, restarts = 0,
                 \E a \in Sent(j), b \in Sent(k) : a.nonce = b.nonce
          PROVE  \E l \in {j, k} : role[l] = "transfer" /\ job[l].out = "SendFailed"
      <3>1. Culprit(j) \/ Culprit(k)
        BY <2>2 DEF IInv, NonceInv, OwnInv
      <3> QED BY <3>1 DEF Culprit
    <2> QED BY <2>1, <2>2 DEF NonceReuseHasCause
  <1> QED BY <1>1, InitInv, StepInv, InitFinite, StepFinite, NodeAnswers, PTL DEF Spec

\* Every nonce between the account's and the `NonceManager`'s counter belongs to
\* a job that still runs or that ended without a receipt, through restarts,
\* evictions, lost replies, rollbacks and replacements.  With it the types,
\* and the retry loop's bound on its attempts.
THEOREM GapOwned == Spec => []NonceGapHasOwner
  <1>1. IInv /\ GapInv => NonceGapHasOwner
    <2> SUFFICES ASSUME IInv, GapInv PROVE NonceGapHasOwner
      OBVIOUS
    <2>1. \A j \in Jobs : job[j] \in Job /\ (job[j].at = "send" => job[j].tries <= MaxAttempts)
      BY DEF GapInv, Fits
    <2>2. job \in [Jobs -> Job]
      BY <2>1 DEF IInv, JobInv
    <2>3. TypeOK
      BY <2>1, <2>2 DEF GapInv, WorldInv, TypeOK
    <2> QED BY <2>3 DEF GapInv, Owned, NonceGapHasOwner
  <1> QED BY <1>1, InitInv, StepInv, InitFinite, StepFinite, NodeAnswers, InitGap, StepGap, PTL DEF Spec
=============================================================================
