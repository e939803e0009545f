------------------------------- MODULE Gateway -------------------------------
(* The shared REST client of one exchange: HttpClient::send_tracked_fresh    *)
(* (src/exchange/http_client.rs) with its RateLimiter                        *)
(* (src/exchange/rate_limiter.rs), used by BinanceClient's signed requests   *)
(* (src/exchange/client.rs).  A call takes a concurrency permit, waits for   *)
(* weight budget, signs and sends, reads the quota headers of the answer,    *)
(* and tries again on a 429, a timeout or a refused connection.              *)
(*                                                                           *)
(* Only the REQUEST_WEIGHT / MINUTE bucket is ever asked for budget; the     *)
(* other buckets are written and never read, and are left out.  Time is a    *)
(* tick counter per clock: how old the limiter's window is, how old the      *)
(* exchange's own window is, how long a call has waited.                     *)
EXTENDS Integers, FiniteSets

CONSTANTS Calls,        \* API calls made through the client
          Orders,       \* those that are signed POSTs placing an order
          Weight,       \* the weight of a call
          Permits,      \* DEFAULT_MAX_CONCURRENT
          MaxRetries,   \* RetryConfig::max_retries
          DefaultMax,   \* DEFAULT_MAX_WEIGHT
          ServerMax,    \* the exchange's real limit
          Window,       \* window_secs, in ticks
          Poll,         \* WINDOW_RESET_POLL_SECS, in ticks
          MaxFaults     \* bound: answers and requests the network loses

ASSUME CallsAssumption == Orders \subseteq Calls /\ Weight \in [Calls -> Nat \ {0}]
ASSUME LimitsAssumption ==
  /\ Permits \in Nat \ {0} /\ MaxRetries \in Nat
  /\ DefaultMax \in Nat /\ ServerMax \in Nat /\ DefaultMax <= ServerMax
  /\ Window \in Nat \ {0} /\ Poll \in Nat /\ Poll > Window

VARIABLES call,         \* [Calls -> [pc, attempt, waited, answer, told]]
          limiter,      \* [used, max, age]: the token bucket
          server,       \* [used, age, announces]: the exchange's own window
          placed,       \* [Calls -> Nat]: orders the exchange took per call
          lost,         \* history: answers an order call never read
          erased,       \* history: did the local counter forget weight that
                        \* can still arrive in the exchange's present window
          faults

vars == <<call, limiter, server, placed, lost, erased, faults>>

(* SAFETY_MARGIN_RATIO = 0.9, truncated to an integer. *)
Threshold(max) == (max * 9) \div 10

InFlight(c) == call[c].pc \in {"sent", "answered"}
Holding(c) == call[c].pc \notin {"idle", "queued", "ok", "err"}

(* TokenBucket::reset_if_expired. *)
Rolled(b) == IF b.age >= Window THEN [b EXCEPT !.used = 0, !.age = 0] ELSE b

(* The counter went down while weight it had counted may still reach the     *)
(* exchange's present window.                                                *)
Forget(b) == erased \/ b.used < limiter.used

Step(c, pc) == call' = [call EXCEPT ![c].pc = pc]

------------------------------------------------------------------------------
(* A caller enters the client. *)
Begin(c) ==
  /\ call[c].pc = "idle"
  /\ Step(c, "queued")
  /\ UNCHANGED <<limiter, server, placed, lost, erased, faults>>

AcquirePermit(c) ==
  /\ call[c].pc = "queued"
  /\ Cardinality({d \in Calls : Holding(d)}) < Permits
  /\ call' = [call EXCEPT ![c].pc = "check", ![c].attempt = 1]
  /\ UNCHANGED <<limiter, server, placed, lost, erased, faults>>

(* Mutant: the budget is compared before the weight is added.               *)
CheckRateLimitLate(c) ==
  /\ call[c].pc = "check"
  /\ LET b == Rolled(limiter) IN
       /\ IF b.used <= Threshold(b.max)
          THEN limiter' = [b EXCEPT !.used = @ + Weight[c]] /\ Step(c, "sent")
          ELSE limiter' = b /\ Step(c, "nobudget")
       /\ erased' = Forget(b)
  /\ UNCHANGED <<server, placed, lost, faults>>

(* check_rate_limit under the limiter's lock: with budget the request is     *)
(* built, signed and sent at once; without, the call goes on to wait.        *)
CheckRateLimit(c) ==
  /\ call[c].pc = "check"
  /\ LET b == Rolled(limiter) IN
       /\ IF b.used + Weight[c] <= Threshold(b.max)
          THEN limiter' = [b EXCEPT !.used = @ + Weight[c]] /\ Step(c, "sent")
          ELSE limiter' = b /\ Step(c, "nobudget")
       /\ erased' = Forget(b)
  /\ UNCHANGED <<server, placed, lost, faults>>

(* The call starts listening on the Notify; what was notified before this    *)
(* step is lost to it.                                                       *)
StartWaiting(c) ==
  /\ call[c].pc = "nobudget"
  /\ call' = [call EXCEPT ![c].pc = "wait", ![c].waited = 0]
  /\ UNCHANGED <<limiter, server, placed, lost, erased, faults>>

(* Mutant: a waiting call relies on being notified.                         *)
PollElapsedNever(c) ==
  /\ call[c].pc = "wait" /\ call[c].waited > Poll
  /\ call' = [call EXCEPT ![c].pc = "check", ![c].waited = 0]
  /\ UNCHANGED <<limiter, server, placed, lost, erased, faults>>

(* The sleep arm of the select: WINDOW_RESET_POLL_SECS are over. *)
PollElapsed(c) ==
  /\ call[c].pc = "wait" /\ call[c].waited >= Poll
  /\ call' = [call EXCEPT ![c].pc = "check", ![c].waited = 0]
  /\ UNCHANGED <<limiter, server, placed, lost, erased, faults>>

------------------------------------------------------------------------------
(* The exchange (external): a request over the limit gets a 429; otherwise   *)
(* it is counted, and an order is placed or turned down.                     *)
Arrive(c) ==
  /\ call[c].pc = "sent"
  /\ \/ /\ server.used + Weight[c] > ServerMax
        /\ call' = [call EXCEPT ![c].pc = "answered", ![c].answer = "429", ![c].told = server.used]
        /\ UNCHANGED <<server, placed>>
     \/ /\ server.used + Weight[c] <= ServerMax
        /\ server' = [server EXCEPT !.used = @ + Weight[c]]
        /\ \E a \in IF c \in Orders THEN {"ok", "reject"} ELSE {"ok"} :
             /\ placed' = [placed EXCEPT ![c] = IF a = "ok" /\ c \in Orders THEN @ + 1 ELSE @]
             /\ call' = [call EXCEPT ![c].pc = "answered", ![c].answer = a,
                                     ![c].told = server.used + Weight[c]]
  /\ UNCHANGED <<limiter, lost, erased, faults>>

------------------------------------------------------------------------------
(* What the client does with the outcome of an attempt. *)

(* Mutant: one retry too many.                                              *)
RetriesOnceMore(c) == call[c].attempt <= MaxRetries + 1

Retries(c) == call[c].attempt <= MaxRetries

(* sync_rate_limit_headers: the announced limit becomes the quota, and the   *)
(* exchange's count, when the answer reports one, replaces the local one,    *)
(* the requests still travelling included.                                   *)
Announced == IF server.announces THEN [limiter EXCEPT !.max = ServerMax] ELSE limiter

SyncHeaders(c, reported) ==
  IF reported THEN [Rolled(Announced) EXCEPT !.used = call[c].told] ELSE Announced

(* Every call waiting on the Notify goes back to check the budget. *)
NotifyWaiters(cs) ==
  [d \in Calls |-> IF cs[d].pc = "wait" THEN [cs[d] EXCEPT !.pc = "check", !.waited = 0] ELSE cs[d]]

(* An attempt is over; so is the call, unless it backs off. *)
Ended(r, outcome) == [r EXCEPT !.pc = outcome, !.answer = "none", !.told = 0,
                               !.attempt = IF outcome = "backoff" THEN @ ELSE 0]

(* Mutant: a refused order is sent again.                                   *)
ReceiveAnswerRetriesReject(c) ==
  /\ call[c].pc = "answered" /\ call[c].answer # "429"
  /\ \E reported \in BOOLEAN : /\ limiter' = SyncHeaders(c, reported)
                              /\ erased' = Forget(SyncHeaders(c, reported))
  /\ call' = [call EXCEPT ![c] = IF Retries(c) THEN Ended(@, "backoff")
                                 ELSE Ended(@, IF @.answer = "ok" THEN "ok" ELSE "err")]
  /\ UNCHANGED <<server, placed, lost, faults>>

(* Mutant: any answer counts as success.                                    *)
ReceiveAnswerUnchecked(c) ==
  /\ call[c].pc = "answered" /\ call[c].answer # "429"
  /\ \E reported \in BOOLEAN : /\ limiter' = SyncHeaders(c, reported)
                              /\ erased' = Forget(SyncHeaders(c, reported))
  /\ call' = [call EXCEPT ![c] = Ended(@, "ok")]
  /\ UNCHANGED <<server, placed, lost, faults>>

(* An answer that is not a 429 is returned; BinanceClient::check_api_error   *)
(* turns a rejection into the caller's error.                                *)
ReceiveAnswer(c) ==
  /\ call[c].pc = "answered" /\ call[c].answer # "429"
  /\ \E reported \in BOOLEAN : /\ limiter' = SyncHeaders(c, reported)
                              /\ erased' = Forget(SyncHeaders(c, reported))
  /\ call' = [call EXCEPT ![c] = Ended(@, IF @.answer = "ok" THEN "ok" ELSE "err")]
  /\ UNCHANGED <<server, placed, lost, faults>>

(* A 429: the counter, whatever was reported, and the window start again     *)
(* from nothing, the waiting calls are woken, and this call backs off or     *)
(* gives up.                                                                 *)
Receive429(c) ==
  /\ call[c].pc = "answered" /\ call[c].answer = "429"
  /\ limiter' = [Announced EXCEPT !.used = 0, !.age = 0]
  /\ erased' = TRUE
  /\ call' = NotifyWaiters([call EXCEPT ![c] = Ended(@, IF Retries(c) THEN "backoff" ELSE "err")])
  /\ UNCHANGED <<server, placed, lost, faults>>

(* The send fails: refused (nothing arrived) or timed out, with the request  *)
(* lost on the way there or the answer on the way back; any other error is   *)
(* returned at once.                                                         *)
SendFails(c) ==
  /\ InFlight(c) /\ faults < MaxFaults
  /\ lost' = [lost EXCEPT ![c] = IF call[c].pc = "answered" /\ c \in Orders THEN @ + 1 ELSE @]
  /\ \E retryable \in BOOLEAN :
       call' = [call EXCEPT ![c] = Ended(@, IF retryable /\ Retries(c) THEN "backoff" ELSE "err")]
  /\ faults' = faults + 1
  /\ UNCHANGED <<limiter, server, placed, erased>>

(* exponential_backoff is over: the loop takes its next turn. *)
BackoffElapsed(c) ==
  /\ call[c].pc = "backoff"
  /\ call' = [call EXCEPT ![c].pc = "check", ![c].attempt = @ + 1]
  /\ UNCHANGED <<limiter, server, placed, lost, erased, faults>>

(* A tick of every clock.  The exchange starts a new window when its own is  *)
(* over; requests on the way count in the new one.                           *)
Tick ==
  /\ limiter' = [limiter EXCEPT !.age = IF @ < Window THEN @ + 1 ELSE @]
  /\ call' = [c \in Calls |-> IF call[c].pc = "wait" /\ call[c].waited < Poll
                              THEN [call[c] EXCEPT !.waited = @ + 1] ELSE call[c]]
  /\ IF server.age + 1 < Window
     THEN server' = [server EXCEPT !.age = @ + 1] /\ UNCHANGED erased
     ELSE /\ server' = [server EXCEPT !.age = 0, !.used = 0]
          /\ erased' = (\E c \in Calls : call[c].pc \in {"sent", "answered"})
  /\ UNCHANGED <<placed, lost, faults>>

------------------------------------------------------------------------------
Init ==
  /\ call = [c \in Calls |-> [pc |-> "idle", attempt |-> 0, waited |-> 0,
                              answer |-> "none", told |-> 0]]
  /\ limiter = [used |-> 0, max |-> DefaultMax, age |-> 0]
  /\ server \in [used : {0}, age : 0..(Window - 1), announces : BOOLEAN]
  /\ placed = [c \in Calls |-> 0] /\ lost = [c \in Calls |-> 0]
  /\ erased = FALSE /\ faults = 0

CallStep(c) == \/ AcquirePermit(c) \/ CheckRateLimit(c) \/ StartWaiting(c) \/ PollElapsed(c)
               \/ Arrive(c) \/ ReceiveAnswer(c) \/ Receive429(c) \/ BackoffElapsed(c)

Next == \/ \E c \in Calls : \/ Begin(c) \/ AcquirePermit(c) \/ CheckRateLimit(c)
                            \/ StartWaiting(c) \/ PollElapsed(c) \/ Arrive(c)
                            \/ ReceiveAnswer(c) \/ Receive429(c) \/ SendFails(c)
                            \/ BackoffElapsed(c)
        \/ Tick

(* A call is a task of the runtime and its semaphore is first come, first    *)
(* served; time passes; the exchange answers what the network delivers.      *)
Spec == /\ Init /\ [][Next]_vars /\ WF_vars(Tick)
        /\ \A c \in Calls : WF_vars(CallStep(c)) /\ SF_vars(AcquirePermit(c))

------------------------------------------------------------------------------
(* Types of the limiter, the calls and the exchange's books.               *)
TypeOK ==
  /\ \A c \in Calls :
       /\ call[c].pc \in {"idle", "queued", "check", "nobudget", "wait", "sent", "answered",
                          "backoff", "ok", "err"}
       /\ call[c].attempt \in 0..(MaxRetries + 1) /\ call[c].waited \in 0..Poll
       /\ placed[c] \in 0..(MaxRetries + 1) /\ lost[c] \in 0..(MaxRetries + 1)
  /\ limiter.max \in {DefaultMax, ServerMax} /\ limiter.age \in 0..Window
  /\ limiter.used \in 0..ServerMax /\ server.used \in 0..ServerMax

(* The exchange takes a second order for one create_*_order call only when   *)
(* the answer to an earlier one was lost: a retry after a 429 or a rejection *)
(* never duplicates an order.  (After a lost answer it does, silently: the   *)
(* request carries no client order id and the caller sees one order.)  An    *)
(* order the caller was told of exists, and a failed call left one behind    *)
(* only if an answer was lost.                                               *)
ExtraOrderMeansLostAnswer ==
  /\ TypeOK
  /\ \A c \in Calls : placed[c] <= lost[c] + (IF call[c].pc \in {"answered", "ok"} THEN 1 ELSE 0)
  /\ \A c \in Orders : call[c].pc = "ok" => placed[c] >= 1

(* In one window of the exchange the client sends more than its own          *)
(* threshold only after its counter forgot weight: to a header that did not  *)
(* count requests still travelling, to a 429, or to a window of its own that *)
(* ended earlier.                                                            *)
OverBudgetHasCause == server.used > Threshold(limiter.max) => erased

(* Every call ends although notifications get lost, budgets run out and      *)
(* permits are held over waits and backoffs: a waiting call polls, and a     *)
(* window always ends before the poll does.                                  *)
CallsEnd == \A c \in Calls : call[c].pc = "queued" ~> call[c].pc \in {"ok", "err"}
==============================================================================
