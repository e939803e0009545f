------------------------------ MODULE DepthFeed ------------------------------
(* The order-book feed of one pair in the live bot:                          *)
(*   - the exchange's book and its numbered depth updates (external);        *)
(*   - the websocket stream and its bounded channel, src/exchange/ws.rs;     *)
(*   - the task that keeps a LocalOrderBook and publishes it in the depth    *)
(*     cache, reconnecting for ever, and the bookTicker task, both in        *)
(*     src/bin/arb_bot.rs;                                                   *)
(*   - the reader, WsCexOrderBookSource::fetch_order_book.                   *)
(*                                                                           *)
(* A book is a total function from price levels to quantities, 0 standing    *)
(* for a level that is absent.  hist[i] is the exchange's book after update  *)
(* i, so an update message is only its range of ids: what it carries is the  *)
(* new quantity of every level that range changed.                           *)
EXTENDS Integers, Sequences, FiniteSets

CONSTANTS Prices,       \* the prices at which levels exist
          MaxId,        \* bound: updates the exchange makes
          MaxQueue,     \* bound: messages in the stream and its channel
          SeedDepth,    \* DEFAULT_ORDERBOOK_DEPTH: levels per side in a snapshot
          MaxAge,       \* WsCexOrderBookSource::max_age, in ticks
          MaxCall,      \* ticks until a REST call has ended: its attempts, their
                        \* timeouts and the waits between them
          MaxNow,       \* bound: clock ticks
          MaxDrops      \* bound: stream breaks, and messages and levels that do
                        \* not parse

ASSUME FeedAssumption == /\ Prices \subseteq Nat
                         /\ MaxId \in Nat \ {0} /\ SeedDepth \in Nat
                         /\ MaxAge \in Nat /\ MaxCall \in Nat

VARIABLES hist,         \* the exchange's successive books
          greets,       \* does the stream open with a snapshot message
          stream,       \* [up, sent, queue]: the connection and its channel
          task,         \* [pc, levels, last]: the depth task, its LocalOrderBook
          depth,        \* the depth cache: None or [levels, basis, at]
          top,          \* the bookTicker cache: None or [at]
          now,          \* the wall clock
          reader,       \* [pc, begun]: one fetch_order_book at a time; the pc of a
                        \* REST call says how the network will end it
          served,       \* the last quote handed to a caller, and the age its cache
                        \* entry had at that moment
          missed,       \* history: levels whose quantity the task was never shown
          drops

vars == <<hist, greets, stream, task, depth, top, now, reader, served, missed, drops>>

Levels == {"bid", "ask"} \X Prices
None == [none |-> TRUE]
Books == [Levels -> 0..1]

(* A book of the exchange never quotes a bid at or above an ask. *)
Uncrossed(b) == \A p, q \in Prices : b[<<"bid", p>>] > 0 /\ b[<<"ask", q>>] > 0 => p < q

(* The levels that updates first..last changed. *)
Changed(first, last) == {l \in Levels : \E i \in first..last : hist[i][l] # hist[i - 1][l]}

(* A snapshot shows the best SeedDepth levels of each side; what lies beyond *)
(* them is not in it.                                                        *)
Better(b, l) == {m \in Levels : /\ m[1] = l[1] /\ b[m] > 0
                                /\ IF l[1] = "bid" THEN m[2] > l[2] ELSE m[2] < l[2]}
Reached(b, l) == Cardinality(Better(b, l)) < SeedDepth
Shown(b) == [l \in Levels |-> IF Reached(b, l) THEN b[l] ELSE 0]
Beyond(b) == {l \in Levels : b[l] > 0 /\ ~Reached(b, l)}

(* The levels an update message overwrites, as LocalOrderBook::apply_update  *)
(* applies them: zero removes the level, a positive quantity replaces it,    *)
(* and one whose price or quantity does not parse is passed over.            *)
Overwrite(levels, u, bad) ==
  [l \in Levels |-> IF l \in Changed(u.first, u.last) \ bad THEN hist[u.last][l] ELSE levels[l]]

Empty == [l \in Levels |-> 0]

------------------------------------------------------------------------------
(* The exchange and the network. *)

(* The exchange changes one level and numbers the change. *)
ExchangeStep ==
  /\ Len(hist) < MaxId
  /\ \E l \in Levels :
       LET b == [hist[Len(hist)] EXCEPT ![l] = 1 - @]
       IN  Uncrossed(b) /\ hist' = Append(hist, b)
  /\ UNCHANGED <<greets, stream, task, depth, top, now, reader, served, missed, drops>>

(* The stream sends the next update message: everything up to some id. *)
Send ==
  /\ stream.up /\ Len(stream.queue) < MaxQueue
  /\ \E u \in (stream.sent + 1)..Len(hist) :
       stream' = [stream EXCEPT !.sent = u,
                    !.queue = Append(@, [kind |-> "update", first |-> stream.sent + 1, last |-> u])]
  /\ UNCHANGED <<hist, greets, task, depth, top, now, reader, served, missed, drops>>

(* A message that parse_depth_message rejects is logged and skipped. *)
SkipUnparsed ==
  /\ drops < MaxDrops /\ stream.queue # <<>>
  /\ stream' = [stream EXCEPT !.queue = Tail(@)]
  /\ drops' = drops + 1
  /\ UNCHANGED <<hist, greets, task, depth, top, now, reader, served, missed>>

(* The reading task sees a close frame or a read error and returns; what is  *)
(* already in the channel is still delivered.                                *)
Disconnect ==
  /\ drops < MaxDrops /\ stream.up
  /\ stream' = [stream EXCEPT !.up = FALSE]
  /\ drops' = drops + 1
  /\ UNCHANGED <<hist, greets, task, depth, top, now, reader, served, missed>>

(* Time passes; a REST call does not outlast what its client allows. *)
Tick ==
  /\ now < MaxNow
  /\ reader.pc # "idle" => now - reader.begun < MaxCall
  /\ now' = now + 1
  /\ UNCHANGED <<hist, greets, stream, task, depth, top, reader, served, missed, drops>>

------------------------------------------------------------------------------
(* The depth task, spawn_depth_cache. *)

(* The book a fresh round of the loop starts from: the cached snapshot, its  *)
(* update id forgotten, or an empty book.                                    *)
LocalBookFromSnapshot ==
  [levels |-> IF depth = None THEN Empty ELSE depth.levels, last |-> 0]

(* Mutant: the task only reconnects once it has a book.                     *)
WakeDepthIfSeeded ==
  /\ task.pc = "sleep" /\ depth # None
  /\ task' = [pc |-> "connect", levels |-> LocalBookFromSnapshot.levels,
              last |-> LocalBookFromSnapshot.last]
  /\ UNCHANGED <<hist, greets, stream, depth, top, now, reader, served, missed, drops>>

(* The pause before a reconnect is over; the loop reads the cache again. *)
WakeDepth ==
  /\ task.pc = "sleep"
  /\ task' = [pc |-> "connect", levels |-> LocalBookFromSnapshot.levels,
              last |-> LocalBookFromSnapshot.last]
  /\ UNCHANGED <<hist, greets, stream, depth, top, now, reader, served, missed, drops>>

(* subscribe_depth_stream connects.  A stream that opens with a snapshot may *)
(* repeat the newest update after it; one that does not starts with the      *)
(* first change after the connection.                                        *)
ConnectDepth ==
  /\ task.pc = "connect"
  /\ \E s \in (IF greets THEN {Len(hist), Len(hist) - 1} \ {0} ELSE {Len(hist)}) :
       stream' = [up |-> TRUE, sent |-> s,
                  queue |-> IF greets
                            THEN <<[kind |-> "snapshot", first |-> Len(hist), last |-> Len(hist)]>>
                            ELSE <<>>]
  /\ task' = [task EXCEPT !.pc = "recv"]
  /\ UNCHANGED <<hist, greets, depth, top, now, reader, served, missed, drops>>

ConnectDepthFails ==
  /\ task.pc = "connect" /\ drops < MaxDrops
  /\ task' = [task EXCEPT !.pc = "sleep"]
  /\ drops' = drops + 1
  /\ UNCHANGED <<hist, greets, stream, depth, top, now, reader, served, missed>>

(* Mutant: the book is published under the next update.                     *)
PublishNextId(levels, last) == depth' = [levels |-> levels, basis |-> last + 1, at |-> now]

Publish(levels, last) == depth' = [levels |-> levels, basis |-> last, at |-> now]

(* The levels a message carries, and those of them that may fail to parse.   *)
Carried(e) == IF e.kind = "snapshot" THEN {l \in Levels : Shown(hist[e.last])[l] > 0}
                                     ELSE Changed(e.first, e.last)
Unparsed(e) == {{}} \cup {{l} : l \in IF drops < MaxDrops THEN Carried(e) ELSE {}}

(* Mutant: a snapshot is laid over the old book instead of replacing it.    *)
SnapshotOver(e, bad) ==
  [l \in Levels |-> IF Shown(hist[e.last])[l] > 0 THEN hist[e.last][l] ELSE task.levels[l]]

(* The book apply_snapshot builds: only what the message shows and parses.   *)
SnapshotBook(e, bad) == [l \in Levels |-> IF l \in bad THEN 0 ELSE Shown(hist[e.last])[l]]

ApplySnapshot(e, bad) ==
  /\ task' = [task EXCEPT !.levels = SnapshotBook(e, bad), !.last = e.last]
  /\ Publish(SnapshotBook(e, bad), e.last)
  /\ missed' = Beyond(hist[e.last]) \cup bad

(* Mutant: a gap of one update is taken for none.                           *)
SequenceGapByOne(last, u) ==
  IF u.last <= last THEN "stale"
  ELSE IF last # 0 /\ u.first > last + 2 THEN "gap" ELSE "applied"

(* Where an update stands against the last id applied: an unsequenced book   *)
(* (last = 0) accepts any first update.                                      *)
Sequence(last, u) ==
  IF u.last <= last THEN "stale"
  ELSE IF last # 0 /\ u.first > last + 1 THEN "gap" ELSE "applied"

(* The levels an accepted update leaves behind the exchange: an unsequenced  *)
(* book lacks every change between the snapshot it was built from and the    *)
(* update it joined at, and any book those that did not parse.               *)
StillMissed(u, bad) ==
  ((missed \cup (IF task.last = 0
                 THEN IF depth = None THEN {l \in Levels : hist[u.last][l] # 0}
                                      ELSE Changed(depth.basis + 1, u.first - 1)
                 ELSE {})) \ Changed(u.first, u.last)) \cup bad

ApplyUpdate(u, bad) ==
  CASE Sequence(task.last, u) = "applied" ->
         /\ task' = [task EXCEPT !.levels = Overwrite(@, u, bad), !.last = u.last]
         /\ Publish(Overwrite(task.levels, u, bad), u.last)
         /\ missed' = StillMissed(u, bad)
         /\ stream' = [stream EXCEPT !.queue = Tail(@)]
    [] Sequence(task.last, u) = "stale" ->
         /\ stream' = [stream EXCEPT !.queue = Tail(@)]
         /\ UNCHANGED <<task, depth, missed>>
    [] OTHER ->
         /\ task' = [task EXCEPT !.pc = "sleep"]
         /\ stream' = [stream EXCEPT !.up = FALSE, !.queue = <<>>]
         /\ UNCHANGED <<depth, missed>>

(* The task takes the next event from the channel. *)
ReceiveDepth ==
  /\ task.pc = "recv" /\ stream.queue # <<>>
  /\ LET e == Head(stream.queue) IN
     \E bad \in Unparsed(e) :
       /\ drops' = IF bad = {} THEN drops ELSE drops + 1
       /\ \/ e.kind = "snapshot" /\ ApplySnapshot(e, bad)
                                 /\ stream' = [stream EXCEPT !.queue = Tail(@)]
          \/ e.kind = "update" /\ ApplyUpdate(e, bad)
  /\ UNCHANGED <<hist, greets, top, now, reader, served>>

(* The channel is closed and drained: the loop pauses before reconnecting. *)
StreamEnded ==
  /\ task.pc = "recv" /\ ~stream.up /\ stream.queue = <<>>
  /\ task' = [task EXCEPT !.pc = "sleep"]
  /\ UNCHANGED <<hist, greets, stream, depth, top, now, reader, served, missed, drops>>

(* A bookTicker event: its loop keeps nothing but the cache it writes. *)
ReceiveTop ==
  /\ top' = [at |-> now]
  /\ top' # top
  /\ UNCHANGED <<hist, greets, stream, task, depth, now, reader, served, missed, drops>>

------------------------------------------------------------------------------
(* The reader, WsCexOrderBookSource::fetch_order_book. *)

Fresh(entry, asOf) == entry # None /\ asOf - entry.at <= MaxAge

Quote(src, age) == [src |-> src, age |-> age]

(* The depth cache answers while it is fresh; otherwise REST is asked.       *)
FetchBook ==
  /\ reader.pc = "idle"
  /\ IF Fresh(depth, now)
     THEN served' = Quote("depth", now - depth.at) /\ UNCHANGED reader
     ELSE /\ \E end \in {"rest_ok", "rest_err"} : reader' = [pc |-> end, begun |-> now]
          /\ UNCHANGED served
  /\ UNCHANGED <<hist, greets, stream, task, depth, top, now, missed, drops>>

RestAnswers ==
  /\ reader.pc = "rest_ok"
  /\ served' = Quote("rest", 0)
  /\ reader' = [pc |-> "idle", begun |-> 0]
  /\ UNCHANGED <<hist, greets, stream, task, depth, top, now, missed, drops>>

(* Mutant: after a failed REST call any bookTicker quote will do.            *)
RestFailsAnyQuote ==
  /\ reader.pc = "rest_err"
  /\ served' = IF top # None THEN Quote("top", now - top.at) ELSE Quote("error", 0)
  /\ reader' = [pc |-> "idle", begun |-> 0]
  /\ UNCHANGED <<hist, greets, stream, task, depth, top, now, missed, drops>>

(* REST has failed: the bookTicker cache answers if it was fresh by the time *)
(* that was read before the call.                                            *)
RestFails ==
  /\ reader.pc = "rest_err"
  /\ served' = IF Fresh(top, reader.begun) THEN Quote("top", now - top.at)
                                           ELSE Quote("error", 0)
  /\ reader' = [pc |-> "idle", begun |-> 0]
  /\ UNCHANGED <<hist, greets, stream, task, depth, top, now, missed, drops>>

------------------------------------------------------------------------------
(* Bids at every price and no ask yet: deeper than a snapshot of the bids.    *)
OpeningBook == [l \in Levels |-> IF l[1] = "bid" THEN 1 ELSE 0]

(* WsCexOrderBookSource::new seeds the depth cache from REST, if REST        *)
(* answers, before the two tasks start: with the SeedDepth best levels.      *)
Init ==
  /\ hist = <<OpeningBook>>
  /\ greets \in BOOLEAN
  /\ stream = [up |-> FALSE, sent |-> 0, queue |-> <<>>]
  /\ depth \in {None, [levels |-> Shown(OpeningBook), basis |-> 1, at |-> 0]}
  /\ missed = IF depth = None THEN {} ELSE Beyond(OpeningBook)
  /\ top = None /\ now = 0 /\ drops = 0
  /\ reader = [pc |-> "idle", begun |-> 0]
  /\ served = Quote("none", 0)
  /\ task = [pc |-> "connect", levels |-> LocalBookFromSnapshot.levels,
             last |-> LocalBookFromSnapshot.last]

DepthTask == WakeDepth \/ ConnectDepth \/ ConnectDepthFails \/ ReceiveDepth \/ StreamEnded
Rest == RestAnswers \/ RestFails

Next == \/ ExchangeStep \/ Send \/ SkipUnparsed \/ Disconnect \/ Tick
        \/ WakeDepth \/ ConnectDepth \/ ConnectDepthFails \/ ReceiveDepth \/ StreamEnded
        \/ ReceiveTop \/ FetchBook \/ RestAnswers \/ RestFails

(* The depth task is a loop on its own runtime task and every REST call ends *)
(* by the client's timeout; nothing obliges the exchange to trade.           *)
Spec == Init /\ [][Next]_vars /\ WF_vars(DepthTask) /\ WF_vars(Rest)

------------------------------------------------------------------------------
(* Types: what the task holds and what it has published stand for updates    *)
(* that the exchange has made.                                               *)
TypeOK ==
  /\ hist \in Seq(Books) /\ greets \in BOOLEAN
  /\ stream.up \in BOOLEAN /\ stream.sent \in 0..Len(hist)
  /\ \A i \in 1..Len(stream.queue) : stream.queue[i].last \in 1..Len(hist)
  /\ task.pc \in {"sleep", "connect", "recv"} /\ task.levels \in Books
  /\ task.last \in 0..Len(hist)
  /\ depth = None \/ (depth.levels \in Books /\ depth.basis \in 1..Len(hist))
  /\ missed \subseteq Levels /\ reader.pc \in {"idle", "rest_ok", "rest_err"}

(* Whatever the published book gets wrong is something the task was never    *)
(* shown: a level beyond the snapshot's depth, one that changed before it    *)
(* joined a stream, or one that did not parse.  On every other level the     *)
(* cached depth agrees with the exchange's book at the update it is          *)
(* published under.  Stale messages, batches that overlap the snapshot,      *)
(* skipped messages and reconnects never corrupt another level.              *)
DivergenceIsMissed ==
  /\ TypeOK
  /\ depth # None => \A l \in Levels \ missed : depth.levels[l] = hist[depth.basis][l]

(* How old a quote can be when it is handed over.  One of the depth cache is *)
(* within max_age.  One of the bookTicker cache may be older than that: its  *)
(* age is judged by the time read before the REST call that failed in        *)
(* between, so what the caller gets is max_age plus that call old at worst.  *)
QuoteAgeBounded ==
  /\ served.src = "depth" => served.age <= MaxAge
  /\ served.src = "top" => served.age <= MaxAge + MaxCall

(* The feed heals: after a gap, a close, a read error or a failed connect    *)
(* the task is reading a stream again, so the depth cache can be fresh       *)
(* again.  (The network refuses only finitely many connects and answers      *)
(* every other one: connect_async itself has no timeout.)                    *)
StreamRecovers == ~stream.up ~> stream.up

==============================================================================
