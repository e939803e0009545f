---------------------------- MODULE GatewayProofs ----------------------------
(***************************************************************************)
(* Proofs about Gateway, for all sets of calls, weights, limits, windows   *)
(* and retry counts.                                                       *)
(*                                                                         *)
(* ExtraOrderMeansLostAnswer is not inductive: whether one more order may  *)
(* be placed depends on the attempts already made, and whether an answer   *)
(* stands for an order on which answer it is.  Bounded ties the orders and *)
(* the lost answers of a call to its attempts; Paired lets an order go     *)
(* without a lost answer only while its "ok" is on the way or was read.    *)
(*                                                                         *)
(* Nor is OverBudgetHasCause: what the exchange will have counted depends  *)
(* on the requests still travelling.  BudgetInv adds their weight.         *)
(***************************************************************************)
EXTENDS Gateway, FiniteSetTheorems, TLAPS

\* The provers a leaf is tried with unless it names its own.
USE SMTT(60), SMT, ZenonT(60)

Pcs == {"idle", "queued", "check", "nobudget", "wait", "sent", "answered", "backoff", "ok", "err"}
Record == [pc : Pcs, attempt : 0..(MaxRetries + 1), waited : 0..Poll,
           answer : {"none", "ok", "reject", "429"}, told : 0..ServerMax]

Bucket == [used : 0..ServerMax, max : {DefaultMax, ServerMax}, age : 0..Window]
ServerWindow == [used : 0..ServerMax, age : Nat, announces : BOOLEAN]

Shape ==
  /\ call \in [Calls -> Record]
  /\ limiter \in Bucket /\ server \in ServerWindow
  /\ placed \in [Calls -> Nat] /\ lost \in [Calls -> Nat]

\* An attempt places at most one order and loses at most one answer; r is the
\* record of a call, p its orders and l its lost answers.
Bounded(r, p, l) ==
  /\ p <= MaxRetries + 1 /\ l <= MaxRetries + 1
  /\ r.pc \in {"idle", "queued"} => p = 0 /\ l = 0
  /\ r.pc \in {"check", "nobudget", "wait", "sent"} =>
       r.attempt >= 1 /\ p < r.attempt /\ l < r.attempt
  /\ r.pc = "answered" => r.attempt >= 1 /\ p <= r.attempt /\ l < r.attempt
  /\ r.pc = "backoff" => r.attempt >= 1 /\ r.attempt <= MaxRetries /\ p <= r.attempt /\ l <= r.attempt

\* An order without a lost answer is one whose "ok" is on the way or was read.
Paired(c, r, p, l) ==
  /\ p <= l + (IF (r.pc = "answered" /\ r.answer = "ok" /\ c \in Orders) \/ r.pc = "ok" THEN 1 ELSE 0)
  /\ c \in Orders /\ (r.pc = "ok" \/ (r.pc = "answered" /\ r.answer = "ok")) => p >= 1

Accounted(c, r, p, l) == Bounded(r, p, l) /\ Paired(c, r, p, l)
IInv == Shape /\ \A c \in Calls : Accounted(c, call[c], placed[c], lost[c])
-----------------------------------------------------------------------------
\* The budget the limiter works with is within the exchange's limit.
LEMMA ThresholdWithin ==
  ASSUME NEW max \in {DefaultMax, ServerMax}
  PROVE  Threshold(max) \in Int /\ Threshold(max) <= ServerMax
  BY LimitsAssumption DEF Threshold

\* `reset_if_expired` leaves a bucket.
LEMMA RolledBucket ==
  ASSUME NEW b \in Bucket
  PROVE  Rolled(b) \in Bucket
  <1>1. 0 \in 0..ServerMax /\ 0 \in 0..Window
    BY LimitsAssumption
  <1>2. [b EXCEPT !.used = 0, !.age = 0] \in Bucket
    BY <1>1, Zenon DEF Bucket
  <1> QED BY <1>2 DEF Rolled

\* So do the headers of an answer.
LEMMA AnnouncedBucket ==
  ASSUME Shape
  PROVE  Announced \in Bucket /\ (Announced.max = limiter.max \/ Announced.max = ServerMax)
         /\ Announced.used = limiter.used
  BY DEF Announced, Shape, Bucket

LEMMA SyncBucket ==
  ASSUME Shape, NEW c \in Calls, NEW reported \in BOOLEAN
  PROVE  SyncHeaders(c, reported) \in Bucket
  <1>1. Announced \in Bucket
    BY AnnouncedBucket
  <1>2. Rolled(Announced) \in Bucket
    BY <1>1, RolledBucket
  <1>3. call[c].told \in 0..ServerMax
    BY DEF Shape, Record
  <1>4. [Rolled(Announced) EXCEPT !.used = call[c].told] \in Bucket
    BY <1>2, <1>3 DEF Bucket
  <1> QED BY <1>1, <1>4 DEF SyncHeaders

\* The updates of a call's record that the actions make.
LEMMA RecordUpdates ==
  ASSUME NEW r \in Record, NEW pc \in Pcs, NEW n \in 0..(MaxRetries + 1), NEW w \in 0..Poll
  PROVE  /\ [r EXCEPT !.pc = pc, !.attempt = n] \in Record
         /\ [r EXCEPT !.pc = pc, !.waited = w] \in Record
  BY Zenon DEF Record

LEMMA AnswerRecord ==
  ASSUME NEW r \in Record, NEW a \in {"ok", "reject", "429"}, NEW told \in 0..ServerMax
  PROVE  [r EXCEPT !.pc = "answered", !.answer = a, !.told = told] \in Record
  <1>1. "answered" \in Pcs /\ a \in {"none", "ok", "reject", "429"}
    BY DEF Pcs
  <1> QED BY <1>1, Zenon DEF Record

LEMMA EndedRecord ==
  ASSUME NEW r \in Record, NEW out \in Pcs
  PROVE  Ended(r, out) \in Record
  <1> DEFINE n == IF out = "backoff" THEN r.attempt ELSE 0
  <1>1. 0 \in 0..ServerMax /\ n \in 0..(MaxRetries + 1)
    BY LimitsAssumption DEF Record
  <1> HIDE DEF n
  <1>2. [r EXCEPT !.pc = out, !.answer = "none", !.told = 0, !.attempt = n] \in Record
    BY <1>1, Zenon DEF Record
  <1> QED BY <1>2 DEF Ended, n

\* A step that changes the record, the orders and the lost answers of one call
\* keeps the invariant if that call stays accounted for.
LEMMA OneCall ==
  ASSUME IInv, NEW c \in Calls, NEW r \in Record, NEW p \in Nat, NEW l \in Nat,
         Accounted(c, r, p, l),
         call' = [call EXCEPT ![c] = r],
         placed' = [placed EXCEPT ![c] = p], lost' = [lost EXCEPT ![c] = l],
         limiter' \in Bucket, server' \in ServerWindow
  PROVE  IInv'
  <1>1. Shape'
    BY DEF IInv, Shape
  <1>2. ASSUME NEW d \in Calls
        PROVE  Accounted(d, call'[d], placed'[d], lost'[d])
    <2>1. CASE d = c
      BY <2>1 DEF IInv, Shape
    <2>2. CASE d # c
      <3>1. call'[d] = call[d] /\ placed'[d] = placed[d] /\ lost'[d] = lost[d]
        BY <2>2 DEF IInv, Shape
      <3> QED BY <3>1 DEF IInv
    <2> QED BY <2>1, <2>2
  <1> QED BY <1>1, <1>2 DEF IInv

\* The same for a step that leaves the orders and the answers alone.
LEMMA OneRecord ==
  ASSUME IInv, NEW c \in Calls, NEW r \in Record,
         Accounted(c, r, placed[c], lost[c]),
         call' = [call EXCEPT ![c] = r], placed' = placed, lost' = lost,
         limiter' \in Bucket, server' \in ServerWindow
  PROVE  IInv'
  <1>1. placed[c] \in Nat /\ lost[c] \in Nat
    BY DEF IInv, Shape
  <1>2. placed' = [placed EXCEPT ![c] = placed[c]] /\ lost' = [lost EXCEPT ![c] = lost[c]]
    BY DEF IInv, Shape
  <1> QED BY <1>1, <1>2, OneCall, Zenon

\* What the invariant says of one call.
LEMMA Facts ==
  ASSUME IInv, NEW c \in Calls
  PROVE  /\ call[c] \in Record /\ placed[c] \in Nat /\ lost[c] \in Nat
         /\ Accounted(c, call[c], placed[c], lost[c])
         /\ limiter \in Bucket /\ server \in ServerWindow
  BY DEF IInv, Shape

LEMMA InitInv == Init => IInv
  <1> SUFFICES ASSUME Init PROVE IInv
    OBVIOUS
  <1>1. Shape
    BY LimitsAssumption DEF Init, Shape, Record, Pcs, Bucket, ServerWindow
  <1>2. ASSUME NEW c \in Calls PROVE Accounted(c, call[c], placed[c], lost[c])
    BY LimitsAssumption DEF Init, Accounted, Bounded, Paired
  <1> QED BY <1>1, <1>2 DEF IInv
-----------------------------------------------------------------------------
\* One lemma per action.
LEMMA BeginInv ==
  ASSUME IInv, NEW c \in Calls, Begin(c)
  PROVE  IInv'
  <1> DEFINE r == [call[c] EXCEPT !.pc = "queued"]
  <1>1. r \in Record
    BY Facts, LimitsAssumption DEF Begin, Record, Pcs
  <1>2. Accounted(c, r, placed[c], lost[c])
    BY Facts, LimitsAssumption DEF Begin, Record, Accounted, Bounded, Paired
  <1>3. /\ call' = [call EXCEPT ![c] = r] /\ placed' = placed /\ lost' = lost
        /\ limiter' \in Bucket /\ server' \in ServerWindow
    BY Facts DEF Begin, Step
  <1> QED BY <1>1, <1>2, <1>3, OneRecord, Zenon

LEMMA AcquirePermitInv ==
  ASSUME IInv, NEW c \in Calls, AcquirePermit(c)
  PROVE  IInv'
  <1> DEFINE r == [call[c] EXCEPT !.pc = "check", !.attempt = 1]
  <1>1. r \in Record
    <2>1. "check" \in Pcs /\ 1 \in 0..(MaxRetries + 1) /\ 0 \in 0..(MaxRetries + 1) /\ 0 \in 0..Poll
      BY LimitsAssumption DEF Pcs
    <2> QED BY <2>1, Facts, RecordUpdates, Zenon
  <1>2. Accounted(c, r, placed[c], lost[c])
    BY Facts, LimitsAssumption DEF AcquirePermit, Record, Accounted, Bounded, Paired
  <1>3. /\ call' = [call EXCEPT ![c] = r] /\ placed' = placed /\ lost' = lost
        /\ limiter' \in Bucket /\ server' \in ServerWindow
    BY Facts, Zenon DEF AcquirePermit
  <1> QED BY <1>1, <1>2, <1>3, OneRecord, Zenon

LEMMA CheckRateLimitInv ==
  ASSUME IInv, NEW c \in Calls, CheckRateLimit(c)
  PROVE  IInv'
  <1> DEFINE b == Rolled(limiter)
  <1>1. b \in Bucket
    BY Facts, RolledBucket
  <1>2. ASSUME NEW pc \in {"sent", "nobudget"}, Step(c, pc), limiter' \in Bucket
        PROVE  IInv'
    <2> DEFINE r == [call[c] EXCEPT !.pc = pc]
    <2>1. r \in Record
      BY Facts DEF Record, Pcs
    <2>2. Accounted(c, r, placed[c], lost[c])
      BY Facts DEF CheckRateLimit, Record, Accounted, Bounded, Paired
    <2>3. call' = [call EXCEPT ![c] = r] /\ placed' = placed /\ lost' = lost /\ server' \in ServerWindow
      BY <1>2, Facts DEF CheckRateLimit, Step
    <2> QED BY <1>2, <2>1, <2>2, <2>3, OneRecord, Zenon
  <1>3. CASE b.used + Weight[c] <= Threshold(b.max)
    <2>1. Step(c, "sent") /\ limiter' = [b EXCEPT !.used = @ + Weight[c]]
      BY <1>3 DEF CheckRateLimit
    <2>2. Weight[c] \in Nat /\ b.used \in Nat /\ b.max \in {DefaultMax, ServerMax}
      BY <1>1, CallsAssumption, LimitsAssumption DEF Bucket
    <2> HIDE DEF b
    <2>3. b.used + Weight[c] \in 0..ServerMax
      BY <1>3, <2>2, ThresholdWithin, LimitsAssumption
    <2>4. limiter' \in Bucket
      BY <1>1, <2>1, <2>3 DEF Bucket
    <2> QED BY <1>2, <2>1, <2>4
  <1>4. CASE ~(b.used + Weight[c] <= Threshold(b.max))
    <2>1. Step(c, "nobudget") /\ limiter' = b
      BY <1>4 DEF CheckRateLimit
    <2> QED BY <1>1, <1>2, <2>1
  <1> QED BY <1>3, <1>4

LEMMA StartWaitingInv ==
  ASSUME IInv, NEW c \in Calls, StartWaiting(c)
  PROVE  IInv'
  <1> DEFINE r == [call[c] EXCEPT !.pc = "wait", !.waited = 0]
  <1>1. r \in Record
    <2>1. "wait" \in Pcs /\ 0 \in 0..Poll /\ 0 \in 0..(MaxRetries + 1)
      BY LimitsAssumption DEF Pcs
    <2> QED BY <2>1, Facts, RecordUpdates, Zenon
  <1>2. Accounted(c, r, placed[c], lost[c])
    BY Facts, LimitsAssumption DEF StartWaiting, Record, Accounted, Bounded, Paired
  <1>3. /\ call' = [call EXCEPT ![c] = r] /\ placed' = placed /\ lost' = lost
        /\ limiter' \in Bucket /\ server' \in ServerWindow
    BY Facts, Zenon DEF StartWaiting
  <1> QED BY <1>1, <1>2, <1>3, OneRecord, Zenon

LEMMA PollElapsedInv ==
  ASSUME IInv, NEW c \in Calls, PollElapsed(c)
  PROVE  IInv'
  <1> DEFINE r == [call[c] EXCEPT !.pc = "check", !.waited = 0]
  <1>1. r \in Record
    <2>1. "check" \in Pcs /\ 0 \in 0..Poll /\ 0 \in 0..(MaxRetries + 1)
      BY LimitsAssumption DEF Pcs
    <2> QED BY <2>1, Facts, RecordUpdates, Zenon
  <1>2. Accounted(c, r, placed[c], lost[c])
    BY Facts, LimitsAssumption DEF PollElapsed, Record, Accounted, Bounded, Paired
  <1>3. /\ call' = [call EXCEPT ![c] = r] /\ placed' = placed /\ lost' = lost
        /\ limiter' \in Bucket /\ server' \in ServerWindow
    BY Facts, Zenon DEF PollElapsed
  <1> QED BY <1>1, <1>2, <1>3, OneRecord, Zenon

LEMMA BackoffElapsedInv ==
  ASSUME IInv, NEW c \in Calls, BackoffElapsed(c)
  PROVE  IInv'
  <1> DEFINE r == [call[c] EXCEPT !.pc = "check", !.attempt = @ + 1]
  <1>1. r \in Record
    <2>1. call[c].attempt + 1 \in 0..(MaxRetries + 1)
      BY Facts, LimitsAssumption DEF BackoffElapsed, Record, Accounted, Bounded
    <2>2. "check" \in Pcs /\ 0 \in 0..Poll
      BY LimitsAssumption DEF Pcs
    <2> QED BY <2>1, <2>2, Facts, RecordUpdates, Zenon
  <1>2. Accounted(c, r, placed[c], lost[c])
    BY Facts, LimitsAssumption DEF BackoffElapsed, Record, Accounted, Bounded, Paired
  <1>3. /\ call' = [call EXCEPT ![c] = r] /\ placed' = placed /\ lost' = lost
        /\ limiter' \in Bucket /\ server' \in ServerWindow
    BY Facts, Zenon DEF BackoffElapsed
  <1> QED BY <1>1, <1>2, <1>3, OneRecord, Zenon

\* The only step that places an order: the attempt it belongs to had none.
LEMMA ArriveInv ==
  ASSUME IInv, NEW c \in Calls, Arrive(c)
  PROVE  IInv'
  <1> DEFINE r(a, told) == [call[c] EXCEPT !.pc = "answered", !.answer = a, !.told = told]
  <1>1. call[c].pc = "sent" /\ limiter' = limiter /\ lost' = lost
    BY Zenon DEF Arrive
  <1>2. lost' = [lost EXCEPT ![c] = lost[c]]
    BY <1>1 DEF IInv, Shape
  <1>3. Weight[c] \in Nat /\ server.used \in 0..ServerMax
    BY Facts, CallsAssumption DEF ServerWindow
  <1>4. CASE server.used + Weight[c] > ServerMax
    <2>1. call' = [call EXCEPT ![c] = r("429", server.used)] /\ server' = server /\ placed' = placed
      <3>1. ~(server.used + Weight[c] <= ServerMax)
        BY <1>3, <1>4, LimitsAssumption
      <3> QED BY <3>1, Zenon DEF Arrive
    <2>2. r("429", server.used) \in Record
      BY <1>3, Facts, AnswerRecord, Zenon
    <2>3. Accounted(c, r("429", server.used), placed[c], lost[c])
      BY <1>1, Facts DEF Record, Accounted, Bounded, Paired
    <2> QED BY <1>1, <2>1, <2>2, <2>3, Facts, OneRecord, Zenon
  <1>5. CASE server.used + Weight[c] <= ServerMax
    <2> DEFINE told == server.used + Weight[c]
    <2>1. told \in 0..ServerMax
      BY <1>3, <1>5, LimitsAssumption
    <2>2. PICK a \in (IF c \in Orders THEN {"ok", "reject"} ELSE {"ok"}) :
            /\ placed' = [placed EXCEPT ![c] = IF a = "ok" /\ c \in Orders THEN @ + 1 ELSE @]
            /\ call' = [call EXCEPT ![c] = r(a, told)]
            /\ server' = [server EXCEPT !.used = told]
      <3>1. ~(server.used + Weight[c] > ServerMax)
        BY <1>3, <1>5, LimitsAssumption
      <3> QED BY <3>1, ZenonT(60) DEF Arrive
    <2> HIDE DEF told
    <2> DEFINE p == IF a = "ok" /\ c \in Orders THEN placed[c] + 1 ELSE placed[c]
    <2>3. r(a, told) \in Record /\ p \in Nat /\ lost[c] \in Nat
      <3>1. a \in {"ok", "reject", "429"}
        BY <2>2
      <3>2. r(a, told) \in Record
        BY <2>1, <3>1, Facts, AnswerRecord, Zenon
      <3> QED BY <3>2, Facts
    <2>4. Accounted(c, r(a, told), p, lost[c])
      BY <1>1, <2>2, Facts, LimitsAssumption DEF Record, Accounted, Bounded, Paired
    <2>5. placed' = [placed EXCEPT ![c] = p]
      BY <2>2 DEF IInv, Shape
    <2>6. limiter' \in Bucket /\ server' \in ServerWindow
      BY <1>1, <2>1, <2>2, Facts DEF ServerWindow
    <2> HIDE DEF p, r
    <2> QED BY <1>2, <2>2, <2>3, <2>4, <2>5, <2>6, OneCall, Zenon
  <1> QED BY <1>3, <1>4, <1>5, LimitsAssumption

LEMMA ReceiveAnswerInv ==
  ASSUME IInv, NEW c \in Calls, ReceiveAnswer(c)
  PROVE  IInv'
  <1> DEFINE r == Ended(call[c], IF call[c].answer = "ok" THEN "ok" ELSE "err")
  <1>1. r \in Record
    BY Facts, EndedRecord DEF Pcs
  <1>2. Accounted(c, r, placed[c], lost[c])
    BY Facts, LimitsAssumption DEF ReceiveAnswer, Record, Ended, Accounted, Bounded, Paired
  <1>3. call' = [call EXCEPT ![c] = r] /\ placed' = placed /\ lost' = lost /\ server' \in ServerWindow
    BY Facts DEF ReceiveAnswer
  <1>4. limiter' \in Bucket
    BY SyncBucket DEF ReceiveAnswer, IInv
  <1> QED BY <1>1, <1>2, <1>3, <1>4, OneRecord, Zenon

\* An attempt that failed: the call backs off only while it has retries left.
LEMMA FailedAttempt ==
  ASSUME NEW c \in Calls, NEW r \in Record, NEW p \in Nat, NEW l \in Nat,
         NEW out \in {"backoff", "err"}, out = "backoff" => r.attempt <= MaxRetries,
         r.attempt >= 1, p <= r.attempt, l <= r.attempt, p <= l
  PROVE  Ended(r, out) \in Record /\ Accounted(c, Ended(r, out), p, l)
  <1>1. out \in {"backoff", "err"} /\ (out = "backoff" => r.attempt <= MaxRetries)
    OBVIOUS
  <1>2. Ended(r, out) \in Record
    BY <1>1, EndedRecord DEF Pcs
  <1>3. /\ Ended(r, out).pc = out
        /\ out = "backoff" => Ended(r, out).attempt = r.attempt
    BY DEF Record, Ended
  <1>4. r.attempt \in 0..(MaxRetries + 1)
    BY DEF Record
  <1>5. Bounded(Ended(r, out), p, l)
    BY <1>1, <1>3, <1>4, LimitsAssumption DEF Bounded
  <1>6. Paired(c, Ended(r, out), p, l)
    BY <1>1, <1>3 DEF Paired
  <1> QED BY <1>2, <1>5, <1>6 DEF Accounted

\* Waking the waiting calls changes nothing a call is accounted for by.
LEMMA NotifyInv ==
  ASSUME IInv, NEW c \in Calls, NEW r \in Record, Accounted(c, r, placed[c], lost[c]),
         call' = NotifyWaiters([call EXCEPT ![c] = r]), r.pc # "wait",
         placed' = placed, lost' = lost, limiter' \in Bucket, server' \in ServerWindow
  PROVE  IInv'
  <1>1. ASSUME NEW d \in Calls
        PROVE  call'[d] \in Record /\ Accounted(d, call'[d], placed[d], lost[d])
    <2>1. CASE d = c
      <3>1. call'[d] = r
        BY <2>1, Zenon DEF NotifyWaiters, IInv, Shape
      <3> QED BY <2>1, <3>1
    <2>2. CASE d # c
      <3>1. call'[d] = IF call[d].pc = "wait" THEN [call[d] EXCEPT !.pc = "check", !.waited = 0]
                                              ELSE call[d]
        BY <2>2, Zenon DEF NotifyWaiters, IInv, Shape
      <3>2. CASE call[d].pc = "wait"
        <4> DEFINE s == [call[d] EXCEPT !.pc = "check", !.waited = 0]
        <4>1. s \in Record
          <5>1. "check" \in Pcs /\ 0 \in 0..(MaxRetries + 1) /\ 0 \in 0..Poll
            BY LimitsAssumption DEF Pcs
          <5> QED BY <5>1, Facts, RecordUpdates, Zenon
        <4>2. Accounted(d, s, placed[d], lost[d])
          BY <3>2, Facts DEF Record, Accounted, Bounded, Paired
        <4> QED BY <3>1, <3>2, <4>1, <4>2
      <3> QED BY <3>1, <3>2, Facts
    <2> QED BY <2>1, <2>2
  <1>2. call' \in [Calls -> Record]
    BY <1>1, Zenon DEF NotifyWaiters
  <1> QED BY <1>1, <1>2, Zenon DEF IInv, Shape

LEMMA Receive429Inv ==
  ASSUME IInv, NEW c \in Calls, Receive429(c)
  PROVE  IInv'
  <1> DEFINE out == IF call[c].attempt <= MaxRetries THEN "backoff" ELSE "err"
             r == Ended(call[c], out)
  <1>1. /\ call[c].attempt >= 1 /\ placed[c] <= call[c].attempt /\ lost[c] <= call[c].attempt
        /\ placed[c] <= lost[c]
    BY Facts DEF Receive429, Record, Accounted, Bounded, Paired
  <1>2. r \in Record /\ Accounted(c, r, placed[c], lost[c])
    BY <1>1, Facts, FailedAttempt
  <1>3. r.pc # "wait"
    BY Facts DEF Record, Ended
  <1>4. /\ call' = NotifyWaiters([call EXCEPT ![c] = r])
        /\ placed' = placed /\ lost' = lost /\ server' \in ServerWindow
    BY Facts DEF Receive429, Retries
  <1>5. limiter' \in Bucket
    <2>1. Announced \in Bucket
      BY AnnouncedBucket DEF IInv
    <2>2. 0 \in 0..ServerMax /\ 0 \in 0..Window
      BY LimitsAssumption
    <2>3. [Announced EXCEPT !.used = 0, !.age = 0] \in Bucket
      BY <2>1, <2>2, Zenon DEF Bucket
    <2> QED BY <2>3 DEF Receive429
  <1> HIDE DEF r
  <1> QED BY <1>2, <1>3, <1>4, <1>5, NotifyInv

\* A lost answer pays for the order it may have stood for.
LEMMA SendFailsInv ==
  ASSUME IInv, NEW c \in Calls, SendFails(c)
  PROVE  IInv'
  <1>0. PICK retryable \in BOOLEAN :
          call' = [call EXCEPT ![c] = Ended(call[c], IF retryable /\ Retries(c) THEN "backoff" ELSE "err")]
    BY Zenon DEF SendFails
  <1> DEFINE out == IF retryable /\ call[c].attempt <= MaxRetries THEN "backoff" ELSE "err"
             r == Ended(call[c], out)
             l == IF call[c].pc = "answered" /\ c \in Orders THEN lost[c] + 1 ELSE lost[c]
  <1>1. l \in Nat
    BY Facts
  <1>2. call[c].attempt >= 1 /\ placed[c] <= call[c].attempt /\ l <= call[c].attempt /\ placed[c] <= l
    BY Facts DEF SendFails, InFlight, Record, Accounted, Bounded, Paired
  <1>3. lost' = [lost EXCEPT ![c] = l] /\ placed' = [placed EXCEPT ![c] = placed[c]]
    BY DEF SendFails, IInv, Shape
  <1>4. call' = [call EXCEPT ![c] = r] /\ limiter' \in Bucket /\ server' \in ServerWindow
    BY <1>0, Facts, Zenon DEF SendFails, Retries
  <1> HIDE DEF l
  <1>5. r \in Record /\ Accounted(c, r, placed[c], l)
    BY <1>1, <1>2, Facts, FailedAttempt
  <1> HIDE DEF r
  <1> QED BY <1>1, <1>3, <1>4, <1>5, Facts, OneCall, Zenon

LEMMA TickInv ==
  ASSUME IInv, Tick
  PROVE  IInv'
  <1>1. ASSUME NEW c \in Calls
        PROVE  call'[c] \in Record /\ Accounted(c, call'[c], placed[c], lost[c])
    <2>1. CASE call[c].pc = "wait" /\ call[c].waited < Poll
      <3> DEFINE r == [call[c] EXCEPT !.waited = @ + 1]
      <3>1. r \in Record
        BY <2>1, Facts, LimitsAssumption DEF Record
      <3>2. Accounted(c, r, placed[c], lost[c])
        BY Facts DEF Record, Accounted, Bounded, Paired
      <3>3. call'[c] = r
        BY <2>1 DEF Tick
      <3> QED BY <3>1, <3>2, <3>3
    <2>2. CASE ~(call[c].pc = "wait" /\ call[c].waited < Poll)
      <3>1. call'[c] = call[c]
        BY <2>2 DEF Tick
      <3> QED BY <3>1, Facts
    <2> QED BY <2>1, <2>2
  <1>2. call' \in [Calls -> Record]
    BY <1>1 DEF Tick
  <1>3. limiter' \in Bucket
    BY LimitsAssumption DEF IInv, Shape, Bucket, Tick
  <1>4. server' \in ServerWindow
    <2>1. server \in ServerWindow /\ 0 \in 0..ServerMax
      BY LimitsAssumption DEF IInv, Shape
    <2>2. [server EXCEPT !.age = @ + 1] \in ServerWindow
      BY <2>1 DEF ServerWindow
    <2>3. [server EXCEPT !.age = 0, !.used = 0] \in ServerWindow
      BY <2>1, Zenon DEF ServerWindow
    <2> QED BY <2>2, <2>3, Zenon DEF Tick
  <1>5. placed' = placed /\ lost' = lost
    BY DEF Tick
  <1> QED BY <1>1, <1>2, <1>3, <1>4, <1>5 DEF IInv, Shape

LEMMA StepInv == IInv /\ [Next]_vars => IInv'
  <1> SUFFICES ASSUME IInv, [Next]_vars PROVE IInv'
    OBVIOUS
  <1>1. ASSUME NEW c \in Calls,
               \/ Begin(c) \/ AcquirePermit(c) \/ CheckRateLimit(c) \/ StartWaiting(c)
               \/ PollElapsed(c) \/ Arrive(c) \/ ReceiveAnswer(c) \/ Receive429(c)
               \/ SendFails(c) \/ BackoffElapsed(c)
        PROVE  IInv'
    BY <1>1, BeginInv, AcquirePermitInv, CheckRateLimitInv, StartWaitingInv, PollElapsedInv,
       ArriveInv, ReceiveAnswerInv, Receive429Inv, SendFailsInv, BackoffElapsedInv
  <1>2. CASE Tick
    BY <1>2, TickInv
  <1>3. CASE UNCHANGED vars
    BY <1>3 DEF vars, IInv, Shape
  <1> QED BY <1>1, <1>2, <1>3 DEF Next

-----------------------------------------------------------------------------
(* The weight budget.                                                      *)

\* The requests that have been sent and have not arrived, and what they weigh:
\* Total counts their units of weight.
OnTheWay == {c \in Calls : call[c].pc = "sent"}
Units(S) == UNION {{c} \X (1..Weight[c]) : c \in S}
Total(S) == Cardinality(Units(S))

\* Until it forgets weight, the limiter's counter covers what the exchange has
\* counted in its window and what is still on the way to it, and those two are
\* within the threshold.
Budgeted(way, used, lim) ==
  /\ used + Total(way) <= lim.used
  /\ used + Total(way) <= Threshold(lim.max)
BudgetInv ==
  /\ IsFiniteSet(OnTheWay)
  /\ ~erased => Budgeted(OnTheWay, server.used, limiter)

\* Finitely many requests have finitely many units of weight.
LEMMA UnitsFinite ==
  ASSUME NEW S \in SUBSET Calls, IsFiniteSet(S)
  PROVE  IsFiniteSet(Units(S))
  <1> DEFINE T == {{c} \X (1..Weight[c]) : c \in S}
             f == [c \in S |-> {c} \X (1..Weight[c])]
  <1>1. f \in Surjection(S, T)
    BY Zenon DEF Surjection
  <1>2. IsFiniteSet(T)
    BY <1>1, FS_Surjection
  <1>3. ASSUME NEW c \in S PROVE IsFiniteSet({c} \X (1..Weight[c]))
    <2>1. Weight[c] \in Int /\ 1 \in Int
      BY CallsAssumption
    <2>2. IsFiniteSet(1..Weight[c])
      BY <2>1, FS_Interval
    <2>3. IsFiniteSet({c})
      BY FS_Singleton
    <2> QED BY <2>2, <2>3, FS_Product, Zenon
  <1>4. \A t \in T : IsFiniteSet(t)
    BY <1>3
  <1>5. IsFiniteSet(UNION T)
    BY <1>2, <1>4, FS_UNION, Zenon
  <1> QED BY <1>5 DEF Units

\* One request more adds its weight.
LEMMA TotalAdd ==
  ASSUME NEW S \in SUBSET Calls, IsFiniteSet(S), NEW c \in Calls
  PROVE  /\ Total(S) \in Nat
         /\ c \notin S => Total(S \cup {c}) = Total(S) + Weight[c]
  <1>1. IsFiniteSet(Units(S)) /\ Cardinality(Units(S)) \in Nat
    BY UnitsFinite, FS_CardinalityType
  <1>2. ASSUME c \notin S PROVE Total(S \cup {c}) = Total(S) + Weight[c]
    <2> DEFINE X == {c} \X (1..Weight[c])
    <2>1. IsFiniteSet(1..Weight[c]) /\ Cardinality(1..Weight[c]) = Weight[c]
      <3>1. Weight[c] \in Nat /\ Weight[c] \in Int /\ 1 \in Int
        BY CallsAssumption
      <3> QED BY <3>1, FS_Interval
    <2>2. IsFiniteSet({c}) /\ Cardinality({c}) = 1
      BY FS_Singleton, Zenon
    <2>3. IsFiniteSet(X) /\ Cardinality(X) = 1 * Weight[c]
      BY <2>1, <2>2, FS_Product, ZenonT(60)
    <2>4. Units(S) \cap X = {}
      BY <1>2 DEF Units
    <2>5. Units(S \cup {c}) = Units(S) \cup X
      BY DEF Units
    <2>6. Cardinality(Units(S) \cup X)
            = Cardinality(Units(S)) + Cardinality(X) - Cardinality(Units(S) \cap X)
      BY <1>1, <2>3, FS_Union
    <2>7. Cardinality(X) = Weight[c] /\ Weight[c] \in Nat
      BY <2>3, CallsAssumption
    <2>8. Cardinality(Units(S) \cap X) = 0
      BY <2>4, FS_EmptySet
    <2> HIDE DEF X
    <2>9. Cardinality(Units(S) \cup X) = Cardinality(Units(S)) + Weight[c]
      BY <1>1, <2>6, <2>7, <2>8
    <2> QED BY <2>5, <2>9 DEF Total
  <1> QED BY <1>1, <1>2 DEF Total

\* One request less takes its weight away.
LEMMA TotalRemove ==
  ASSUME NEW S \in SUBSET Calls, IsFiniteSet(S), NEW c \in S
  PROVE  /\ IsFiniteSet(S \ {c}) /\ Total(S \ {c}) \in Nat
         /\ Total(S) = Total(S \ {c}) + Weight[c] /\ Weight[c] \in Nat
  <1>1. S \ {c} \in SUBSET Calls /\ c \in Calls /\ c \notin S \ {c} /\ (S \ {c}) \cup {c} = S
    OBVIOUS
  <1>2. IsFiniteSet(S \ {c})
    BY FS_Subset
  <1>3. /\ Total(S \ {c}) \in Nat
        /\ c \notin S \ {c} => Total((S \ {c}) \cup {c}) = Total(S \ {c}) + Weight[c]
    BY <1>1, <1>2, TotalAdd
  <1> QED BY <1>1, <1>2, <1>3, CallsAssumption

\* No request weighs nothing.
LEMMA TotalEmpty == IsFiniteSet({}) /\ Total({}) = 0
  <1>1. Units({}) = {}
    BY DEF Units
  <1> QED BY <1>1, FS_EmptySet DEF Total

\* The numbers of the budget.
LEMMA Numbers ==
  ASSUME IInv
  PROVE  /\ limiter.used \in Nat /\ server.used \in Nat
         /\ limiter.max \in {DefaultMax, ServerMax} /\ Threshold(limiter.max) \in Int
         /\ OnTheWay \in SUBSET Calls
  BY LimitsAssumption, ThresholdWithin DEF IInv, Shape, Bucket, ServerWindow, OnTheWay

\* A higher limit is a higher threshold.
LEMMA ThresholdGrows ==
  ASSUME NEW m \in {DefaultMax, ServerMax}
  PROVE  /\ Threshold(m) \in Nat
         /\ Threshold(m) <= Threshold(ServerMax)
  BY LimitsAssumption DEF Threshold

\* Where a step leaves the requests on the way: one is sent, one arrives or is
\* lost, or none moves.
LEMMA SentMoves ==
  ASSUME IInv, NEW c \in Calls, CheckRateLimit(c)
  PROVE  \/ /\ Rolled(limiter).used + Weight[c] <= Threshold(Rolled(limiter).max)
            /\ limiter' = [Rolled(limiter) EXCEPT !.used = @ + Weight[c]]
            /\ OnTheWay' = OnTheWay \cup {c} /\ c \notin OnTheWay
         \/ limiter' = Rolled(limiter) /\ OnTheWay' = OnTheWay
  <1>1. call \in [Calls -> Record]
    BY DEF IInv, Shape
  <1>2. call[c].pc = "check"
    BY DEF CheckRateLimit
  <1>3. ASSUME Step(c, "sent") PROVE OnTheWay' = OnTheWay \cup {c} /\ c \notin OnTheWay
    BY <1>1, <1>2, <1>3 DEF Step, OnTheWay, Record
  <1>4. ASSUME Step(c, "nobudget") PROVE OnTheWay' = OnTheWay
    BY <1>1, <1>2, <1>4 DEF Step, OnTheWay, Record
  <1> QED BY <1>3, <1>4 DEF CheckRateLimit

LEMMA ArriveMoves ==
  ASSUME IInv, NEW c \in Calls, Arrive(c)
  PROVE  OnTheWay' = OnTheWay \ {c} /\ c \in OnTheWay
  <1>1. call \in [Calls -> Record]
    BY DEF IInv, Shape
  <1> DEFINE r(a, told) == [call[c] EXCEPT !.pc = "answered", !.answer = a, !.told = told]
  <1>2. \/ call' = [call EXCEPT ![c] = r("429", server.used)]
        \/ \E a \in {"ok", "reject"} : call' = [call EXCEPT ![c] = r(a, server.used + Weight[c])]
    BY ZenonT(60) DEF Arrive
  <1>3. \A a, told : r(a, told).pc = "answered"
    BY <1>1 DEF Record
  <1> HIDE DEF r
  <1>4. PICK a, told : call' = [call EXCEPT ![c] = r(a, told)]
    BY <1>2
  <1>5. call'[c].pc = "answered" /\ \A d \in Calls \ {c} : call'[d] = call[d]
    BY <1>1, <1>3, <1>4
  <1>6. call[c].pc = "sent"
    BY Zenon DEF Arrive
  <1> QED BY <1>5, <1>6 DEF OnTheWay

LEMMA EndMoves ==
  ASSUME IInv, NEW c \in Calls, ReceiveAnswer(c) \/ SendFails(c)
  PROVE  OnTheWay' = OnTheWay \ {c}
  <1>1. call \in [Calls -> Record]
    BY DEF IInv, Shape
  <1>2. PICK out \in {"ok", "err", "backoff"} : call' = [call EXCEPT ![c] = Ended(call[c], out)]
    BY DEF ReceiveAnswer, SendFails
  <1>3. Ended(call[c], out).pc = out
    BY <1>1 DEF Ended, Record
  <1> QED BY <1>1, <1>2, <1>3 DEF OnTheWay

LEMMA NotifyMoves ==
  ASSUME IInv, NEW c \in Calls, Receive429(c)
  PROVE  OnTheWay' \subseteq OnTheWay
  <1>1. call \in [Calls -> Record]
    BY DEF IInv, Shape
  <1>2. PICK out \in {"err", "backoff"} :
          call' = NotifyWaiters([call EXCEPT ![c] = Ended(call[c], out)])
    BY Zenon DEF Receive429
  <1>3. Ended(call[c], out).pc = out
    BY <1>1 DEF Ended, Record
  <1> DEFINE cs == [call EXCEPT ![c] = Ended(call[c], out)]
  <1>4. \A d \in Calls : cs[d].pc = "sent" => call[d].pc = "sent"
    BY <1>1, <1>3
  <1>5. \A d \in Calls : cs[d] \in Record
    BY <1>1, EndedRecord DEF Pcs
  <1> HIDE DEF cs
  <1>6. ASSUME NEW d \in Calls, call'[d].pc = "sent" PROVE call[d].pc = "sent"
    <2>1. call'[d] = IF cs[d].pc = "wait" THEN [cs[d] EXCEPT !.pc = "check", !.waited = 0] ELSE cs[d]
      BY <1>2, Zenon DEF NotifyWaiters, cs
    <2>2. [cs[d] EXCEPT !.pc = "check", !.waited = 0].pc = "check"
      BY <1>5 DEF Record
    <2>3. call'[d] = cs[d]
      BY <1>6, <2>1, <2>2
    <2> QED BY <1>4, <1>6, <2>3
  <1> QED BY <1>6 DEF OnTheWay

LEMMA OtherMoves ==
  ASSUME IInv, NEW c \in Calls,
         Begin(c) \/ AcquirePermit(c) \/ StartWaiting(c) \/ PollElapsed(c) \/ BackoffElapsed(c)
  PROVE  OnTheWay' = OnTheWay /\ UNCHANGED <<limiter, server, erased>>
  <1>1. call \in [Calls -> Record]
    BY DEF IInv, Shape
  <1>2. \A d \in Calls : call'[d].pc = "sent" <=> call[d].pc = "sent"
    BY <1>1 DEF Begin, AcquirePermit, StartWaiting, PollElapsed, BackoffElapsed, Step, Record
  <1>3. UNCHANGED <<limiter, server, erased>>
    BY DEF Begin, AcquirePermit, StartWaiting, PollElapsed, BackoffElapsed
  <1> QED BY <1>2, <1>3 DEF OnTheWay

LEMMA TickMoves ==
  ASSUME IInv, Tick
  PROVE  OnTheWay' = OnTheWay
  <1>1. call \in [Calls -> Record]
    BY DEF IInv, Shape
  <1>2. \A d \in Calls : call'[d].pc = call[d].pc
    BY <1>1 DEF Tick, Record
  <1> QED BY <1>2 DEF OnTheWay

\* Rolling a bucket over keeps its limit and keeps or clears its count.
LEMMA RolledFields ==
  ASSUME NEW b \in Bucket
  PROVE  Rolled(b).max = b.max /\ (Rolled(b).used = b.used \/ Rolled(b).used = 0)
  <1>1. b.max \in {DefaultMax, ServerMax} /\ b.used \in 0..ServerMax
    BY DEF Bucket
  <1>2. [b EXCEPT !.used = 0, !.age = 0].max = b.max /\ [b EXCEPT !.used = 0, !.age = 0].used = 0
    BY DEF Bucket
  <1> QED BY <1>2 DEF Rolled

\* With budget a request's weight is counted as it is sent; a window of the
\* limiter's own that ends clears the count, and that is forgetting.
LEMMA CheckBudget ==
  ASSUME IInv, BudgetInv, NEW c \in Calls, CheckRateLimit(c)
  PROVE  BudgetInv'
  <1> DEFINE b == Rolled(limiter)
  <1>1. limiter \in Bucket
    BY DEF IInv, Shape
  <1>2. b \in Bucket /\ b.max = limiter.max /\ (b.used = limiter.used \/ b.used = 0)
    BY <1>1, RolledBucket, RolledFields
  <1>3. erased' <=> (erased \/ b.used < limiter.used)
    BY Zenon DEF CheckRateLimit, Forget
  <1>4. server' = server
    BY DEF CheckRateLimit
  <1>5. /\ limiter.used \in Nat /\ server.used \in Nat /\ Threshold(limiter.max) \in Int
        /\ OnTheWay \in SUBSET Calls /\ Weight[c] \in Nat
    BY Numbers, CallsAssumption
  <1>6. b.used \in Nat /\ Threshold(b.max) = Threshold(limiter.max)
    BY <1>2, <1>5
  <1>7. ASSUME ~erased' PROVE ~erased /\ b.used = limiter.used
    BY <1>2, <1>3, <1>5, <1>6, <1>7
  <1>8. Total(OnTheWay) \in Nat
    BY <1>5, TotalAdd, Zenon DEF BudgetInv
  <1>9. CASE /\ b.used + Weight[c] <= Threshold(b.max)
             /\ limiter' = [b EXCEPT !.used = @ + Weight[c]]
             /\ OnTheWay' = OnTheWay \cup {c} /\ c \notin OnTheWay
    <2>1. limiter'.used = b.used + Weight[c] /\ limiter'.max = b.max
      BY <1>2, <1>9 DEF Bucket
    <2>2. IsFiniteSet(OnTheWay')
      BY <1>9, FS_AddElement DEF BudgetInv
    <2>3. Total(OnTheWay') = Total(OnTheWay) + Weight[c]
      BY <1>5, <1>9, TotalAdd DEF BudgetInv
    <2>4. ASSUME ~erased' PROVE Budgeted(OnTheWay', server'.used, limiter')
      <3>1. server.used + Total(OnTheWay) <= limiter.used /\ b.used = limiter.used
        BY <2>4, <1>7 DEF BudgetInv, Budgeted
      <3>2. server.used + (Total(OnTheWay) + Weight[c]) <= b.used + Weight[c]
        BY <3>1, <1>5, <1>8
      <3>3. server.used + (Total(OnTheWay) + Weight[c]) <= Threshold(limiter.max)
        BY <3>2, <1>5, <1>6, <1>8, <1>9
      <3> QED BY <3>2, <3>3, <2>1, <2>3, <1>2, <1>4 DEF Budgeted
    <2> QED BY <2>2, <2>4 DEF BudgetInv
  <1>10. CASE limiter' = b /\ OnTheWay' = OnTheWay
    <2>1. ASSUME ~erased' PROVE Budgeted(OnTheWay', server'.used, limiter')
      BY <2>1, <1>2, <1>4, <1>7, <1>10 DEF BudgetInv, Budgeted
    <2> QED BY <2>1, <1>10 DEF BudgetInv
  <1> QED BY <1>9, <1>10, SentMoves

\* What was on the way arrives: it is counted by the exchange, or turned away.
LEMMA ArriveBudget ==
  ASSUME IInv, BudgetInv, NEW c \in Calls, Arrive(c)
  PROVE  BudgetInv'
  <1>1. OnTheWay' = OnTheWay \ {c} /\ c \in OnTheWay
    BY ArriveMoves
  <1>2. limiter' = limiter /\ erased' = erased
    BY Zenon DEF Arrive
  <1>3. /\ limiter.used \in Nat /\ server.used \in Nat /\ Threshold(limiter.max) \in Int
        /\ OnTheWay \in SUBSET Calls
    BY Numbers
  <1>4. /\ IsFiniteSet(OnTheWay \ {c}) /\ Total(OnTheWay \ {c}) \in Nat
        /\ Total(OnTheWay) = Total(OnTheWay \ {c}) + Weight[c] /\ Weight[c] \in Nat
    BY <1>1, <1>3, TotalRemove, Zenon DEF BudgetInv
  <1>5. server' = server \/ server' = [server EXCEPT !.used = @ + Weight[c]]
    BY Zenon DEF Arrive
  <1>6. server'.used = server.used \/ server'.used = server.used + Weight[c]
    BY <1>5 DEF IInv, Shape, ServerWindow
  <1>7. server'.used + Total(OnTheWay') <= server.used + Total(OnTheWay)
    BY <1>1, <1>3, <1>4, <1>6
  <1>8. server'.used + Total(OnTheWay') \in Nat /\ server.used + Total(OnTheWay) \in Nat
    BY <1>1, <1>3, <1>4, <1>6
  <1>9. ASSUME ~erased' PROVE Budgeted(OnTheWay', server'.used, limiter')
    <2>1. Budgeted(OnTheWay, server.used, limiter)
      BY <1>2, <1>9 DEF BudgetInv
    <2> QED BY <2>1, <1>2, <1>3, <1>7, <1>8 DEF Budgeted
  <1> QED BY <1>1, <1>4, <1>9 DEF BudgetInv

\* An answer's headers either confirm the count or lower it, which is forgetting;
\* a call that ends takes nothing away from the exchange.
LEMMA AnswerBudget ==
  ASSUME IInv, BudgetInv, NEW c \in Calls, ReceiveAnswer(c)
  PROVE  BudgetInv'
  <1> DEFINE q == Announced
  <1>0. PICK reported \in BOOLEAN : /\ limiter' = SyncHeaders(c, reported)
                                   /\ erased' = Forget(SyncHeaders(c, reported))
    BY Zenon DEF ReceiveAnswer
  <1> DEFINE told == IF reported THEN call[c].told ELSE limiter.used
  <1>1. /\ limiter.used \in Nat /\ server.used \in Nat /\ Threshold(limiter.max) \in Int
        /\ limiter.max \in {DefaultMax, ServerMax} /\ OnTheWay \in SUBSET Calls
    BY Numbers
  <1>2. q \in Bucket /\ (q.max = limiter.max \/ q.max = ServerMax) /\ q.used = limiter.used
    BY AnnouncedBucket DEF IInv
  <1> HIDE DEF q
  <1>3. Rolled(q) \in Bucket /\ Rolled(q).max = q.max
    BY <1>2, RolledBucket, RolledFields
  <1>4. SyncHeaders(c, reported) = IF reported THEN [Rolled(q) EXCEPT !.used = call[c].told] ELSE q
    BY DEF SyncHeaders, q
  <1>5. SyncHeaders(c, reported).used = told /\ SyncHeaders(c, reported).max = q.max
    BY <1>2, <1>3, <1>4 DEF Bucket
  <1>6. told \in Nat
    BY <1>1, LimitsAssumption DEF IInv, Shape, Record
  <1> HIDE DEF told
  <1>7. limiter' = SyncHeaders(c, reported) /\ server' = server
    BY <1>0 DEF ReceiveAnswer
  <1>8. erased' <=> (erased \/ told < limiter.used)
    BY <1>0, <1>5, Zenon DEF Forget
  <1>9. OnTheWay' = OnTheWay \ {c} /\ c \notin OnTheWay
    BY EndMoves, Zenon DEF ReceiveAnswer, OnTheWay
  <1>10. OnTheWay' = OnTheWay
    BY <1>9
  <1>11. Threshold(limiter.max) <= Threshold(q.max) /\ Threshold(q.max) \in Int
    BY <1>1, <1>2, ThresholdGrows
  <1>12. Total(OnTheWay) \in Nat
    BY <1>1, TotalAdd, Zenon DEF BudgetInv
  <1>13. ASSUME ~erased' PROVE Budgeted(OnTheWay', server'.used, limiter')
    <2>1. ~erased /\ limiter.used <= told
      BY <1>1, <1>6, <1>8, <1>13
    <2>2. /\ server.used + Total(OnTheWay) <= limiter.used
          /\ server.used + Total(OnTheWay) <= Threshold(limiter.max)
      BY <2>1 DEF BudgetInv, Budgeted
    <2>3. /\ server.used + Total(OnTheWay) <= told
          /\ server.used + Total(OnTheWay) <= Threshold(q.max)
      BY <2>1, <2>2, <1>1, <1>6, <1>11, <1>12
    <2> QED BY <2>3, <1>5, <1>7, <1>10 DEF Budgeted
  <1> QED BY <1>10, <1>13 DEF BudgetInv

\* A 429 forgets everything.
LEMMA Budget429 ==
  ASSUME IInv, BudgetInv, NEW c \in Calls, Receive429(c)
  PROVE  BudgetInv'
  <1>1. erased' = TRUE
    BY DEF Receive429
  <1>2. IsFiniteSet(OnTheWay')
    BY NotifyMoves, FS_Subset DEF BudgetInv
  <1> QED BY <1>1, <1>2 DEF BudgetInv

\* A request that is lost no longer weighs on the exchange.
LEMMA FailBudget ==
  ASSUME IInv, BudgetInv, NEW c \in Calls, SendFails(c)
  PROVE  BudgetInv'
  <1>1. OnTheWay' = OnTheWay \ {c}
    BY EndMoves
  <1>2. limiter' = limiter /\ erased' = erased /\ server' = server
    BY DEF SendFails
  <1>3. /\ limiter.used \in Nat /\ server.used \in Nat /\ Threshold(limiter.max) \in Int
        /\ OnTheWay \in SUBSET Calls
    BY Numbers
  <1>4. CASE c \notin OnTheWay
    <2>1. OnTheWay' = OnTheWay
      BY <1>1, <1>4
    <2> QED BY <2>1, <1>2 DEF BudgetInv
  <1>5. CASE c \in OnTheWay
    <2>1. /\ IsFiniteSet(OnTheWay \ {c}) /\ Total(OnTheWay \ {c}) \in Nat
          /\ Total(OnTheWay) = Total(OnTheWay \ {c}) + Weight[c] /\ Weight[c] \in Nat
      BY <1>3, <1>5, TotalRemove DEF BudgetInv
    <2>2. ASSUME ~erased' PROVE Budgeted(OnTheWay', server'.used, limiter')
      <3>1. Budgeted(OnTheWay, server.used, limiter)
        BY <1>2, <2>2 DEF BudgetInv
      <3> QED BY <3>1, <2>1, <1>1, <1>2, <1>3 DEF Budgeted
    <2> QED BY <2>1, <2>2, <1>1 DEF BudgetInv
  <1> QED BY <1>4, <1>5

\* A new window of the exchange starts from nothing; what is on the way then
\* counts in it without having been counted by the limiter for it, unless
\* nothing is.
LEMMA TickBudget ==
  ASSUME IInv, BudgetInv, Tick
  PROVE  BudgetInv'
  <1>1. OnTheWay' = OnTheWay
    BY TickMoves
  <1>2. limiter'.used = limiter.used /\ limiter'.max = limiter.max
    BY DEF Tick, IInv, Shape, Bucket
  <1>3. CASE server.age + 1 < Window
    <2>1. server'.used = server.used /\ erased' = erased
      BY <1>3 DEF Tick, IInv, Shape, ServerWindow
    <2> QED BY <2>1, <1>1, <1>2 DEF BudgetInv, Budgeted
  <1>4. CASE ~(server.age + 1 < Window)
    <2>1. /\ server' = [server EXCEPT !.age = 0, !.used = 0]
          /\ erased' <=> \E c \in Calls : call[c].pc \in {"sent", "answered"}
      BY <1>4 DEF Tick
    <2>2. server'.used = 0
      BY <2>1 DEF IInv, Shape, ServerWindow
    <2>3. ASSUME ~erased' PROVE OnTheWay = {}
      BY <2>1, <2>3 DEF OnTheWay
    <2>4. limiter.used \in Nat /\ limiter.max \in {DefaultMax, ServerMax}
      BY Numbers
    <2>5. Threshold(limiter.max) \in Nat
      BY <2>4, ThresholdGrows
    <2>6. ASSUME ~erased' PROVE Budgeted(OnTheWay', server'.used, limiter')
      <3>1. Total(OnTheWay') = 0
        BY <2>3, <2>6, <1>1, TotalEmpty
      <3> QED BY <3>1, <2>2, <2>4, <2>5, <1>2 DEF Budgeted
    <2> QED BY <2>6, <1>1 DEF BudgetInv
  <1> QED BY <1>3, <1>4

LEMMA InitBudget == Init => BudgetInv
  <1> SUFFICES ASSUME Init PROVE BudgetInv
    OBVIOUS
  <1>1. OnTheWay = {}
    BY DEF Init, OnTheWay
  <1>2. IsFiniteSet(OnTheWay) /\ Total(OnTheWay) = 0
    BY <1>1, TotalEmpty
  <1>3. server.used = 0 /\ limiter.used = 0 /\ limiter.max = DefaultMax
    BY DEF Init
  <1>4. Threshold(DefaultMax) \in Nat
    BY ThresholdGrows
  <1> QED BY <1>2, <1>3, <1>4 DEF BudgetInv, Budgeted

LEMMA StepBudget == IInv /\ BudgetInv /\ [Next]_vars => BudgetInv'
  <1> SUFFICES ASSUME IInv, BudgetInv, [Next]_vars PROVE BudgetInv'
    OBVIOUS
  <1>1. ASSUME NEW c \in Calls,
               Begin(c) \/ AcquirePermit(c) \/ StartWaiting(c) \/ PollElapsed(c) \/ BackoffElapsed(c)
        PROVE  BudgetInv'
    <2>1. OnTheWay' = OnTheWay /\ UNCHANGED <<limiter, server, erased>>
      BY <1>1, OtherMoves
    <2> QED BY <2>1 DEF BudgetInv
  <1>2. ASSUME NEW c \in Calls,
               CheckRateLimit(c) \/ Arrive(c) \/ ReceiveAnswer(c) \/ Receive429(c) \/ SendFails(c)
        PROVE  BudgetInv'
    BY <1>2, CheckBudget, ArriveBudget, AnswerBudget, Budget429, FailBudget
  <1>3. CASE Tick
    BY <1>3, TickBudget
  <1>4. CASE UNCHANGED vars
    BY <1>4 DEF vars, BudgetInv, OnTheWay
  <1> QED BY <1>1, <1>2, <1>3, <1>4 DEF Next

-----------------------------------------------------------------------------
\* The exchange takes a second order for one call only if the answer to an
\* earlier one was lost, whatever 429s, rejections, waits and retries
\* HttpClient::send_tracked_fresh goes through, and an order the caller is told
\* of exists.
THEOREM ExtraOrderNeedsLoss == Spec => []ExtraOrderMeansLostAnswer
  <1>1. IInv => ExtraOrderMeansLostAnswer
    <2> SUFFICES ASSUME IInv PROVE ExtraOrderMeansLostAnswer
      OBVIOUS
    <2>1. ASSUME NEW c \in Calls
          PROVE  /\ call[c].pc \in Pcs
                 /\ call[c].attempt \in 0..(MaxRetries + 1) /\ call[c].waited \in 0..Poll
                 /\ placed[c] \in 0..(MaxRetries + 1) /\ lost[c] \in 0..(MaxRetries + 1)
      BY Facts, LimitsAssumption DEF Record, Accounted, Bounded
    <2>2. TypeOK
      BY <2>1 DEF IInv, Shape, Bucket, ServerWindow, TypeOK, Pcs
    <2>3. ASSUME NEW c \in Calls
          PROVE  placed[c] <= lost[c] + (IF call[c].pc \in {"answered", "ok"} THEN 1 ELSE 0)
      BY Facts DEF Accounted, Paired
    <2>4. ASSUME NEW c \in Orders, call[c].pc = "ok" PROVE placed[c] >= 1
      BY <2>4, Facts, CallsAssumption DEF Accounted, Paired
    <2> QED BY <2>2, <2>3, <2>4 DEF ExtraOrderMeansLostAnswer
  <1> QED BY <1>1, InitInv, StepInv, PTL DEF Spec

\* In one window of the exchange HttpClient sends more than its own threshold
\* only after its counter forgot weight: to a header that did not count requests
\* still travelling, to a 429, or to a limiter window that ended earlier, for any
\* weights, limits and number of calls in flight.
THEOREM OverBudgetOnlyIfForgotten == Spec => []OverBudgetHasCause
  <1>1. IInv /\ BudgetInv => OverBudgetHasCause
    <2> SUFFICES ASSUME IInv, BudgetInv, ~erased PROVE ~(server.used > Threshold(limiter.max))
      BY DEF OverBudgetHasCause
    <2>1. /\ server.used \in Nat /\ Threshold(limiter.max) \in Int /\ OnTheWay \in SUBSET Calls
      BY Numbers
    <2>2. Total(OnTheWay) \in Nat
      <3>1. CASE Calls = {}
        <4>1. OnTheWay = {}
          BY <3>1, <2>1
        <4> QED BY <4>1, TotalEmpty
      <3>2. CASE Calls # {}
        BY <3>2, <2>1, TotalAdd, Zenon DEF BudgetInv
      <3> QED BY <3>1, <3>2
    <2>3. server.used + Total(OnTheWay) <= Threshold(limiter.max)
      BY DEF BudgetInv, Budgeted
    <2> QED BY <2>1, <2>2, <2>3
  <1>2. IInv /\ BudgetInv /\ [Next]_vars => (IInv /\ BudgetInv)'
    BY StepInv, StepBudget
  <1> QED BY <1>1, <1>2, InitInv, InitBudget, PTL DEF Spec
==============================================================================
