---------------------------- MODULE MarketProofs ----------------------------
(***************************************************************************)
(* Proofs about DepthFeed, for any set of prices, any number of updates,   *)
(* breaks and queued messages, and any maximal age.                        *)
(*                                                                         *)
(* DivergenceIsMissed compares the cached book with the exchange's at the  *)
(* update it is published under.  It is kept by an update whose range      *)
(* joins the book's own: a level that no update of the union changed is    *)
(* the same at both ends (Steady, the one argument by induction).  That    *)
(* the ranges join is Sequence's test for a sequenced book.  A book that   *)
(* was taken over from the cache has no number to test, and JoinInv says   *)
(* that no message of the new stream starts before what the cache holds.   *)
(*                                                                         *)
(* The second part proves what the pools of Amm promise, for any reserves, *)
(* any fee below 100% and any amount, whenever the code answers: where a   *)
(* product exceeds 256 bits it fails, where a result exceeds 128 or 96     *)
(* bits it panics.  The last part is what ExchangeApi makes of an order    *)
(* under the exchange's filters.  Each follows from the two                *)
(* bounds of a floor division (FloorDivision).  Between them stands the    *)
(* search for the largest size within an impact: its window keeps a        *)
(* feasible size below and an infeasible one above (Windows), which says   *)
(* where it ends although the impact of floored amounts is not monotone.   *)
(* The walk of a book is shown to be the best of all ways of taking its    *)
(* amount by an exchange argument around the price it stops at (Stops).    *)
(***************************************************************************)
EXTENDS DepthFeed, Amm, OrderBook, ExchangeApi, WellFoundedInduction, TLAPS

\* The provers a leaf is tried with unless it names its own.
USE SMTT(60), SMT, ZenonT(60)

Msgs == [kind : {"snapshot", "update"}, first : Nat, last : Nat]

StreamInv ==
  /\ stream = [up |-> stream.up, sent |-> stream.sent, queue |-> stream.queue]
  /\ stream.up \in BOOLEAN /\ stream.sent \in 0..Len(hist)
  /\ stream.queue \in Seq(Msgs)
  /\ \A i \in 1..Len(stream.queue) :
       stream.queue[i].last \in 1..Len(hist) /\ stream.queue[i].first <= stream.queue[i].last

\* The task and the cache hold the same book; once it is sequenced, under the
\* same number.
Cached == IF depth = None THEN Empty ELSE depth.levels
TaskInv ==
  /\ task = [pc |-> task.pc, levels |-> task.levels, last |-> task.last]
  /\ task.pc \in {"sleep", "connect", "recv"}
  /\ task.levels = Cached
  /\ task.last \in 0..Len(hist)
  /\ task.last # 0 => depth # None /\ depth.basis = task.last

\* What a book taken over from the cache may still receive starts no earlier
\* than the update it was published under.
JoinInv ==
  (task.pc = "recv" /\ depth # None /\ task.last = 0) =>
    /\ stream.sent + 1 >= depth.basis
    /\ \A i \in 1..Len(stream.queue) : stream.queue[i].first >= depth.basis

HistInv == hist \in Seq(Books) /\ Len(hist) >= 1

BookInv ==
  /\ missed \subseteq Levels
  /\ depth # None =>
       /\ depth.levels \in Books /\ depth.basis \in 1..Len(hist)
       /\ \A l \in Levels \ missed : depth.levels[l] = hist[depth.basis][l]

\* What the reader knows of time: entries are not from the future, and a call
\* under way is no older than a call can be.
AgeInv ==
  /\ now \in Nat
  /\ depth # None => depth.at \in Nat /\ depth.at <= now
  /\ top # None => top.at \in Nat /\ top.at <= now
  /\ reader.pc # "idle" => reader.begun \in Nat /\ reader.begun <= now /\ now - reader.begun <= MaxCall
  /\ QuoteAgeBounded

RestInv == greets \in BOOLEAN /\ reader.pc \in {"idle", "rest_ok", "rest_err"}

IInv == HistInv /\ StreamInv /\ TaskInv /\ JoinInv /\ BookInv /\ RestInv

-----------------------------------------------------------------------------
(* Books.                                                                  *)

\* A level that no update of a range changed is the same at both ends.
LEMMA Steady ==
  ASSUME NEW h, NEW l, NEW a \in Nat, NEW b \in Nat, a <= b,
         \A i \in (a + 1)..b : h[i][l] = h[i - 1][l]
  PROVE  h[b][l] = h[a][l]
  <1> DEFINE T == {i \in a..b : h[i][l] # h[a][l]}
             R == OpToRel(<, Nat)
  <1> SUFFICES ASSUME T # {} PROVE FALSE
    <2>1. b \in a..b
      OBVIOUS
    <2> QED BY <2>1
  <1>1. T \subseteq Nat
    OBVIOUS
  <1>2. PICK m \in T : \A y \in T : ~(<<y, m>> \in R)
    <2>1. IsWellFoundedOn(R, Nat)
      BY NatLessThanWellFounded, Zenon
    <2> HIDE DEF R, T
    <2> QED BY <1>1, <2>1, WFMin, Zenon
  <1>3. m \in Nat /\ m \in a..b /\ h[m][l] # h[a][l]
    BY <1>1
  <1>4. m # a
    BY <1>3
  <1>5. m \in (a + 1)..b /\ m - 1 \in a..b /\ m - 1 \in Nat /\ m - 1 < m
    BY <1>3, <1>4
  <1>6. h[m][l] = h[m - 1][l]
    BY <1>5
  <1>7. m - 1 \in T
    BY <1>3, <1>5, <1>6
  <1>8. <<m - 1, m>> \in R
    BY <1>3, <1>5 DEF OpToRel
  <1> QED BY <1>2, <1>7, <1>8, Zenon

LEMMA EmptyBook == Empty \in Books
  BY DEF Empty, Books

LEMMA OpeningIsBook == OpeningBook \in Books
  BY DEF OpeningBook, Books

\* What a snapshot shows of a book is a book, right but for what lies beyond.
LEMMA ShownBook ==
  ASSUME NEW b \in Books
  PROVE  /\ Shown(b) \in Books /\ Beyond(b) \subseteq Levels
         /\ \A l \in Levels \ Beyond(b) : Shown(b)[l] = b[l]
  BY DEF Shown, Beyond, Books

\* A book in the cache is not None.
LEMMA EntryIsSome ==
  ASSUME NEW levels, NEW basis, NEW at
  PROVE  [levels |-> levels, basis |-> basis, at |-> at] # None
  BY DEF None

\* An update over a book of the exchange is a book.
LEMMA OverwriteBook ==
  ASSUME HistInv, NEW levels \in Books, NEW u, u.last \in 1..Len(hist), NEW bad
  PROVE  Overwrite(levels, u, bad) \in Books
  BY DEF HistInv, Overwrite, Books

LEMMA CachedBook ==
  ASSUME BookInv
  PROVE  Cached \in Books
  BY EmptyBook DEF BookInv, Cached

-----------------------------------------------------------------------------
(* The exchange, the network and the reader.                               *)

\* The exchange appends a book; what is behind stays as it was.
LEMMA ExchangeInv ==
  ASSUME IInv, ExchangeStep
  PROVE  IInv'
  <1>1. PICK l \in Levels : hist' = Append(hist, [hist[Len(hist)] EXCEPT ![l] = 1 - @])
    BY Zenon DEF ExchangeStep
  <1> DEFINE b == [hist[Len(hist)] EXCEPT ![l] = 1 - @]
  <1>2. hist \in Seq(Books) /\ Len(hist) \in Nat /\ Len(hist) >= 1
    BY DEF IInv, HistInv
  <1>3. b \in Books
    <2>1. hist[Len(hist)] \in Books
      BY <1>2
    <2> QED BY <2>1 DEF Books
  <1>4. hist' = Append(hist, b)
    BY <1>1
  <1> HIDE DEF b
  <1>5. hist' \in Seq(Books) /\ Len(hist') = Len(hist) + 1 /\ \A i \in 1..Len(hist) : hist'[i] = hist[i]
    BY <1>2, <1>3, <1>4
  <1>6. UNCHANGED <<greets, stream, task, depth, reader, missed>>
    BY DEF ExchangeStep
  <1>7. HistInv'
    BY <1>2, <1>5 DEF HistInv
  <1>8. \A n : (n \in 0..Len(hist) => n \in 0..Len(hist')) /\ (n \in 1..Len(hist) => n \in 1..Len(hist'))
    BY <1>2, <1>5
  <1>9. StreamInv'
    BY <1>6, <1>8 DEF IInv, StreamInv
  <1>10. TaskInv'
    BY <1>6, <1>8 DEF IInv, TaskInv, Cached
  <1>11. JoinInv'
    BY <1>6 DEF IInv, JoinInv
  <1>12. BookInv'
    BY <1>5, <1>6, <1>8 DEF IInv, BookInv
  <1> QED BY <1>6, <1>7, <1>9, <1>10, <1>11, <1>12 DEF IInv, RestInv

\* Steps that only touch the clock, the bookTicker cache and the reader.
LEMMA AsideInv ==
  ASSUME IInv, UNCHANGED <<hist, greets, stream, task, depth, missed>>,
         reader'.pc \in {"idle", "rest_ok", "rest_err"}
  PROVE  IInv'
  BY DEF IInv, HistInv, StreamInv, TaskInv, Cached, JoinInv, BookInv, RestInv

LEMMA ReaderInv ==
  ASSUME IInv, Tick \/ ReceiveTop \/ FetchBook \/ RestAnswers \/ RestFails
  PROVE  IInv'
  <1>1. UNCHANGED <<hist, greets, stream, task, depth, missed>>
    BY DEF Tick, ReceiveTop, FetchBook, RestAnswers, RestFails
  <1>2. reader' = reader \/ \E pc \in {"idle", "rest_ok", "rest_err"} : \E t : reader' = [pc |-> pc, begun |-> t]
    BY DEF Tick, ReceiveTop, FetchBook, RestAnswers, RestFails
  <1>3. reader'.pc \in {"idle", "rest_ok", "rest_err"}
    BY <1>2 DEF IInv, RestInv
  <1> QED BY <1>1, <1>3, AsideInv

\* A step of the stream alone: what it holds is bounded by what was sent, and
\* what is new in it was sent later.
LEMMA StreamStep ==
  ASSUME IInv, UNCHANGED <<hist, greets, task, depth, reader, missed>>,
         StreamInv', stream'.sent >= stream.sent,
         \A i \in 1..Len(stream'.queue) :
           \/ \E k \in 1..Len(stream.queue) : stream'.queue[i] = stream.queue[k]
           \/ stream'.queue[i].first = stream.sent + 1
  PROVE  IInv'
  <1>1. HistInv' /\ TaskInv' /\ BookInv' /\ RestInv'
    BY DEF IInv, HistInv, TaskInv, Cached, BookInv, RestInv
  <1>2. JoinInv'
    <2> SUFFICES ASSUME task.pc = "recv", depth # None, task.last = 0
                 PROVE  /\ stream'.sent + 1 >= depth.basis
                        /\ \A i \in 1..Len(stream'.queue) : stream'.queue[i].first >= depth.basis
      BY DEF JoinInv
    <2>1. stream.sent \in Nat /\ stream'.sent \in Nat /\ depth.basis \in Nat
      BY DEF IInv, StreamInv, HistInv, BookInv
    <2>2. /\ stream.sent + 1 >= depth.basis
          /\ \A i \in 1..Len(stream.queue) : stream.queue[i].first >= depth.basis
      BY DEF IInv, JoinInv
    <2>3. stream'.sent + 1 >= depth.basis
      BY <2>1, <2>2
    <2>4. ASSUME NEW i \in 1..Len(stream'.queue) PROVE stream'.queue[i].first >= depth.basis
      <3>1. CASE \E k \in 1..Len(stream.queue) : stream'.queue[i] = stream.queue[k]
        BY <2>2, <3>1
      <3>2. CASE stream'.queue[i].first = stream.sent + 1
        BY <2>2, <3>2
      <3> QED BY <3>1, <3>2
    <2> QED BY <2>3, <2>4
  <1> QED BY <1>1, <1>2 DEF IInv

LEMMA SendInv ==
  ASSUME IInv, Send
  PROVE  IInv'
  <1>1. PICK u \in (stream.sent + 1)..Len(hist) :
          stream' = [stream EXCEPT !.sent = u,
                       !.queue = Append(@, [kind |-> "update", first |-> stream.sent + 1, last |-> u])]
    BY Zenon DEF Send
  <1> DEFINE m == [kind |-> "update", first |-> stream.sent + 1, last |-> u]
  <1>2. stream.sent \in Nat /\ stream.sent <= Len(hist) /\ Len(hist) \in Nat /\ stream.queue \in Seq(Msgs)
    BY DEF IInv, StreamInv, HistInv
  <1>3. u \in 1..Len(hist) /\ u \in Nat /\ u >= stream.sent + 1 /\ u >= stream.sent
    BY <1>2
  <1>4. m \in Msgs /\ m.first = stream.sent + 1 /\ m.last = u
    BY <1>2, <1>3 DEF Msgs
  <1>5. stream' = [up |-> stream.up, sent |-> u, queue |-> Append(stream.queue, m)]
    <2>1. stream = [up |-> stream.up, sent |-> stream.sent, queue |-> stream.queue]
      BY DEF IInv, StreamInv
    <2> QED BY <1>1, <2>1, Zenon
  <1> HIDE DEF m
  <1>6. /\ stream'.up = stream.up /\ stream'.sent = u /\ stream'.queue = Append(stream.queue, m)
        /\ stream' = [up |-> stream'.up, sent |-> stream'.sent, queue |-> stream'.queue]
    BY <1>5
  <1>7. /\ stream'.queue \in Seq(Msgs)
        /\ \A i \in 1..Len(stream'.queue) :
             stream'.queue[i] = m \/ \E k \in 1..Len(stream.queue) : stream'.queue[i] = stream.queue[k]
    BY <1>2, <1>4, <1>6
  <1>8. UNCHANGED <<hist, greets, task, depth, reader, missed>>
    BY DEF Send
  <1>9. \A i \in 1..Len(stream'.queue) :
          stream'.queue[i].last \in 1..Len(hist) /\ stream'.queue[i].first <= stream'.queue[i].last
    BY <1>3, <1>4, <1>7 DEF IInv, StreamInv
  <1>10. StreamInv'
    <2>1. stream.up \in BOOLEAN /\ u \in 0..Len(hist)
      BY <1>2, <1>3 DEF IInv, StreamInv
    <2> QED BY <1>6, <1>7, <1>8, <1>9, <2>1 DEF StreamInv
  <1> QED BY <1>3, <1>4, <1>6, <1>7, <1>8, <1>10, StreamStep

\* What is left of a channel after its first message.
LEMMA TailOf ==
  ASSUME NEW q \in Seq(Msgs), q # <<>>
  PROVE  /\ Tail(q) \in Seq(Msgs) /\ 1 \in 1..Len(q) /\ Head(q) = q[1]
         /\ \A i \in 1..Len(Tail(q)) : i + 1 \in 1..Len(q) /\ Tail(q)[i] = q[i + 1]
  OBVIOUS

\* Messages are taken from the front, or all dropped, and the connection may go.
LEMMA ShorterStream ==
  ASSUME StreamInv, UNCHANGED hist, NEW up \in BOOLEAN, NEW q,
         q = stream.queue \/ (stream.queue # <<>> /\ q = Tail(stream.queue)) \/ q = <<>>,
         stream' = [up |-> up, sent |-> stream.sent, queue |-> q]
  PROVE  /\ StreamInv' /\ stream'.sent = stream.sent
         /\ \A i \in 1..Len(stream'.queue) :
              \E k \in 1..Len(stream.queue) : stream'.queue[i] = stream.queue[k]
  <1>1. /\ stream'.up = up /\ stream'.sent = stream.sent /\ stream'.queue = q
        /\ stream' = [up |-> stream'.up, sent |-> stream'.sent, queue |-> stream'.queue]
    OBVIOUS
  <1>2. q \in Seq(Msgs) /\ \A i \in 1..Len(q) : \E k \in 1..Len(stream.queue) : q[i] = stream.queue[k]
    <2>1. stream.queue \in Seq(Msgs)
      BY DEF StreamInv
    <2>2. CASE q = stream.queue
      BY <2>1, <2>2
    <2>3. CASE stream.queue # <<>> /\ q = Tail(stream.queue)
      BY <2>1, <2>3, TailOf
    <2>4. CASE q = <<>>
      BY <2>4
    <2> QED BY <2>2, <2>3, <2>4
  <1>3. \A i \in 1..Len(q) : q[i].last \in 1..Len(hist) /\ q[i].first <= q[i].last
    BY <1>2 DEF StreamInv
  <1> QED BY <1>1, <1>2, <1>3 DEF StreamInv

LEMMA BreakInv ==
  ASSUME IInv, SkipUnparsed \/ Disconnect
  PROVE  IInv'
  <1>1. UNCHANGED <<hist, greets, task, depth, reader, missed>>
    BY DEF SkipUnparsed, Disconnect
  <1>2. stream = [up |-> stream.up, sent |-> stream.sent, queue |-> stream.queue] /\ stream.up \in BOOLEAN
    BY DEF IInv, StreamInv
  <1>3. CASE SkipUnparsed
    <2>1. stream.queue # <<>> /\ stream' = [up |-> stream.up, sent |-> stream.sent, queue |-> Tail(stream.queue)]
      BY <1>2, <1>3, Zenon DEF SkipUnparsed
    <2>2. /\ StreamInv' /\ stream'.sent = stream.sent
          /\ \A i \in 1..Len(stream'.queue) :
               \E k \in 1..Len(stream.queue) : stream'.queue[i] = stream.queue[k]
      BY <1>1, <1>2, <2>1, ShorterStream DEF IInv
    <2>3. stream'.sent >= stream.sent
      BY <2>2 DEF IInv, StreamInv, HistInv
    <2> QED BY <1>1, <2>2, <2>3, StreamStep
  <1>4. CASE Disconnect
    <2>1. stream' = [up |-> FALSE, sent |-> stream.sent, queue |-> stream.queue]
      BY <1>2, <1>4, Zenon DEF Disconnect
    <2>2. /\ StreamInv' /\ stream'.sent = stream.sent
          /\ \A i \in 1..Len(stream'.queue) :
               \E k \in 1..Len(stream.queue) : stream'.queue[i] = stream.queue[k]
      BY <1>1, <2>1, ShorterStream, Zenon DEF IInv
    <2>3. stream'.sent >= stream.sent
      BY <2>2 DEF IInv, StreamInv, HistInv
    <2> QED BY <1>1, <2>2, <2>3, StreamStep
  <1> QED BY <1>3, <1>4

-----------------------------------------------------------------------------
(* The depth task.                                                         *)

\* The task sleeps, wakes and fails to connect without a word to the cache.
LEMMA WakeInv ==
  ASSUME IInv, WakeDepth
  PROVE  IInv'
  <1>1. UNCHANGED <<hist, greets, stream, depth, reader, missed>>
    BY DEF WakeDepth
  <1>2. task' = [pc |-> "connect", levels |-> Cached, last |-> 0]
    BY DEF WakeDepth, LocalBookFromSnapshot, Cached
  <1>3. TaskInv'
    <2>1. Cached' = Cached
      BY <1>1 DEF Cached
    <2>2. 0 \in 0..Len(hist)
      BY DEF IInv, HistInv
    <2> QED BY <1>1, <1>2, <2>1, <2>2 DEF TaskInv
  <1>4. JoinInv'
    BY <1>2 DEF JoinInv
  <1> QED BY <1>1, <1>3, <1>4 DEF IInv, HistInv, StreamInv, BookInv, RestInv

LEMMA PauseInv ==
  ASSUME IInv, ConnectDepthFails \/ StreamEnded
  PROVE  IInv'
  <1>1. UNCHANGED <<hist, greets, stream, depth, reader, missed>>
    BY DEF ConnectDepthFails, StreamEnded
  <1>2. task = [pc |-> task.pc, levels |-> task.levels, last |-> task.last]
    BY DEF IInv, TaskInv
  <1>3. task' = [pc |-> "sleep", levels |-> task.levels, last |-> task.last]
    BY <1>2 DEF ConnectDepthFails, StreamEnded
  <1>4. TaskInv'
    BY <1>1, <1>3 DEF IInv, TaskInv, Cached
  <1>5. JoinInv'
    BY <1>3 DEF JoinInv
  <1> QED BY <1>1, <1>4, <1>5 DEF IInv, HistInv, StreamInv, BookInv, RestInv

\* A new stream starts at the exchange's newest update, or repeats it.
LEMMA ConnectInv ==
  ASSUME IInv, ConnectDepth
  PROVE  IInv'
  <1> DEFINE n == Len(hist)
             m == [kind |-> "snapshot", first |-> n, last |-> n]
  <1>1. n \in Nat /\ n >= 1
    BY DEF IInv, HistInv
  <1>2. PICK s \in {n, n - 1} \ {0}, q \in {<<m>>, <<>>} : stream' = [up |-> TRUE, sent |-> s, queue |-> q]
    <2>1. CASE greets
      <3>1. PICK s \in {n, n - 1} \ {0} : stream' = [up |-> TRUE, sent |-> s, queue |-> <<m>>]
        BY <2>1, Zenon DEF ConnectDepth
      <3> QED BY <3>1, Zenon
    <2>2. CASE ~greets
      <3>1. stream' = [up |-> TRUE, sent |-> n, queue |-> <<>>]
        BY <2>2, Zenon DEF ConnectDepth
      <3>2. n \in {n, n - 1} \ {0}
        BY <1>1
      <3> QED BY <3>1, <3>2, Zenon
    <2> QED BY <2>1, <2>2
  <1>3. s \in 0..n /\ s \in Nat /\ s + 1 >= n
    BY <1>1
  <1>4. m \in Msgs /\ m.first = n /\ m.last = n
    BY <1>1 DEF Msgs
  <1> HIDE DEF m
  <1>5. q \in Seq(Msgs) /\ \A i \in 1..Len(q) : q[i] = m
    <2>1. CASE q = <<m>>
      BY <1>4, <2>1
    <2>2. CASE q = <<>>
      BY <2>2
    <2> QED BY <2>1, <2>2
  <1>6. /\ stream'.up = TRUE /\ stream'.sent = s /\ stream'.queue = q
        /\ stream' = [up |-> stream'.up, sent |-> stream'.sent, queue |-> stream'.queue]
    BY <1>2
  <1>7. UNCHANGED <<hist, greets, depth, reader, missed>>
    BY DEF ConnectDepth
  <1>8. StreamInv'
    <2>1. \A i \in 1..Len(q) : q[i].last \in 1..n /\ q[i].first <= q[i].last
      BY <1>1, <1>4, <1>5
    <2> QED BY <1>3, <1>5, <1>6, <1>7, <2>1, Zenon DEF StreamInv
  <1>9. task' = [pc |-> "recv", levels |-> task.levels, last |-> task.last]
    <2>1. task = [pc |-> task.pc, levels |-> task.levels, last |-> task.last]
      BY DEF IInv, TaskInv
    <2> QED BY <2>1 DEF ConnectDepth
  <1>10. TaskInv'
    BY <1>7, <1>9 DEF IInv, TaskInv, Cached
  <1>11. JoinInv'
    <2> SUFFICES ASSUME depth # None
                 PROVE  s + 1 >= depth.basis /\ \A i \in 1..Len(q) : q[i].first >= depth.basis
      BY <1>6, <1>7 DEF JoinInv
    <2>1. depth.basis \in 1..n
      BY DEF IInv, BookInv
    <2>2. \A i \in 1..Len(q) : q[i].first = n
      BY <1>4, <1>5
    <2> QED BY <1>1, <1>3, <2>1, <2>2
  <1> QED BY <1>7, <1>8, <1>10, <1>11 DEF IInv, HistInv, BookInv, RestInv

\* A book is published: task and cache hold it under its number.
LEMMA PublishInv ==
  ASSUME IInv, UNCHANGED <<hist, greets, reader>>, NEW levels \in Books, NEW n \in 1..Len(hist),
         NEW pc \in {"sleep", "connect", "recv"},
         task' = [pc |-> pc, levels |-> levels, last |-> n],
         Publish(levels, n), StreamInv', missed' \subseteq Levels,
         \A l \in Levels \ missed' : levels[l] = hist[n][l]
  PROVE  IInv'
  <1>1. depth' = [levels |-> levels, basis |-> n, at |-> now] /\ depth' # None
    BY EntryIsSome DEF Publish
  <1>2. depth'.levels = levels /\ depth'.basis = n
    BY <1>1
  <1>3. n # 0 /\ n \in 0..Len(hist)
    BY DEF IInv, HistInv
  <1>4. TaskInv'
    BY <1>1, <1>2, <1>3 DEF TaskInv, Cached
  <1>5. JoinInv'
    BY <1>3 DEF JoinInv
  <1>6. BookInv'
    BY <1>1, <1>2 DEF BookInv
  <1> QED BY <1>4, <1>5, <1>6 DEF IInv, HistInv, RestInv

\* Where the levels an accepted update leaves out agree with the exchange.
LEMMA AppliedAgrees ==
  ASSUME IInv, task.pc = "recv", NEW k \in 1..Len(stream.queue), NEW u, u = stream.queue[k],
         Sequence(task.last, u) = "applied", NEW bad, NEW l \in Levels \ StillMissed(u, bad)
  PROVE  Overwrite(task.levels, u, bad)[l] = hist[u.last][l]
  <1>1. u.first \in Nat /\ u.last \in 1..Len(hist) /\ u.last \in Nat /\ u.first <= u.last
    <2>1. stream.queue \in Seq(Msgs) /\ u.last \in 1..Len(hist) /\ u.first <= u.last
      BY DEF IInv, StreamInv
    <2>2. u \in Msgs
      BY <2>1
    <2> QED BY <2>1, <2>2 DEF Msgs
  <1>2. CASE l \in Changed(u.first, u.last)
    BY <1>2 DEF Overwrite, StillMissed
  <1>3. CASE l \notin Changed(u.first, u.last)
    <2>1. Overwrite(task.levels, u, bad)[l] = task.levels[l] /\ task.levels = Cached
      BY <1>3 DEF Overwrite, IInv, TaskInv
    <2>2. \A i \in u.first..u.last : hist[i][l] = hist[i - 1][l]
      BY <1>3 DEF Changed
    <2>3. ASSUME NEW a \in 1..Len(hist), depth # None, a = depth.basis, a <= u.last,
                 \A i \in (a + 1)..u.last : hist[i][l] = hist[i - 1][l], l \notin missed
          PROVE  task.levels[l] = hist[u.last][l]
      <3>1. a \in Nat
        BY <2>3 DEF IInv, HistInv
      <3>2. hist[u.last][l] = hist[a][l]
        <4> DEFINE z == u.last
        <4>1. z \in Nat /\ a <= z /\ \A i \in (a + 1)..z : hist[i][l] = hist[i - 1][l]
          BY <1>1, <2>3
        <4> HIDE DEF z
        <4>2. hist[z][l] = hist[a][l]
          BY <3>1, <4>1, Steady
        <4> QED BY <4>2 DEF z
      <3>3. depth.levels[l] = hist[a][l]
        BY <2>3 DEF IInv, BookInv
      <3> QED BY <2>1, <2>3, <3>2, <3>3 DEF Cached
    <2>4. CASE task.last # 0
      <3>1. depth # None /\ depth.basis = task.last /\ task.last \in 1..Len(hist) /\ l \notin missed
        BY <1>3, <2>4 DEF IInv, TaskInv, BookInv, StillMissed
      <3>2. task.last \in Nat /\ task.last < u.last /\ u.first <= task.last + 1
        BY <1>1, <2>4, <3>1 DEF Sequence, IInv, HistInv
      <3>3. \A i \in (task.last + 1)..u.last : i \in u.first..u.last
        BY <1>1, <3>2
      <3>4. task.last <= u.last /\ \A i \in (task.last + 1)..u.last : hist[i][l] = hist[i - 1][l]
        BY <1>1, <2>2, <3>2, <3>3
      <3>5. task.levels[l] = hist[u.last][l]
        BY <2>3, <3>1, <3>4
      <3> QED BY <2>1, <3>5
    <2>5. CASE task.last = 0 /\ depth # None
      <3>1. l \notin missed /\ l \notin Changed(depth.basis + 1, u.first - 1)
        BY <1>3, <2>5 DEF StillMissed
      <3>2. depth.basis \in 1..Len(hist) /\ depth.basis \in Nat /\ u.first >= depth.basis
        BY <2>5 DEF IInv, BookInv, JoinInv
      <3>3. \A i \in (depth.basis + 1)..(u.first - 1) : hist[i][l] = hist[i - 1][l]
        BY <3>1 DEF Changed
      <3>4. \A i \in (depth.basis + 1)..u.last : i \in (depth.basis + 1)..(u.first - 1) \/ i \in u.first..u.last
        BY <1>1, <3>2
      <3>5. \A i \in (depth.basis + 1)..u.last : hist[i][l] = hist[i - 1][l]
        BY <2>2, <3>3, <3>4
      <3>6. depth.basis <= u.last
        BY <1>1, <3>2
      <3> QED BY <2>1, <2>3, <2>5, <3>1, <3>2, <3>5, <3>6
    <2>6. CASE task.last = 0 /\ depth = None
      <3>1. hist[u.last][l] = 0
        BY <1>3, <2>6 DEF StillMissed
      <3>2. task.levels[l] = 0
        BY <2>1, <2>6 DEF Cached, Empty
      <3> QED BY <2>1, <3>1, <3>2
    <2> QED BY <2>4, <2>5, <2>6
  <1> QED BY <1>2, <1>3

LEMMA ReceiveInv ==
  ASSUME IInv, ReceiveDepth
  PROVE  IInv'
  <1> DEFINE e == Head(stream.queue)
  <1>1. task.pc = "recv" /\ stream.queue # <<>> /\ UNCHANGED <<hist, greets, reader>>
    BY DEF ReceiveDepth
  <1>2. /\ stream = [up |-> stream.up, sent |-> stream.sent, queue |-> stream.queue]
        /\ stream.up \in BOOLEAN /\ stream.queue \in Seq(Msgs)
        /\ task = [pc |-> task.pc, levels |-> task.levels, last |-> task.last]
    BY DEF IInv, StreamInv, TaskInv
  <1>3. 1 \in 1..Len(stream.queue) /\ e = stream.queue[1] /\ e.last \in 1..Len(hist)
    <2>1. 1 \in 1..Len(stream.queue) /\ e = stream.queue[1]
      BY <1>1, <1>2, TailOf
    <2> QED BY <2>1 DEF IInv, StreamInv
  <1> HIDE DEF e
  <1>4. stream' = [stream EXCEPT !.queue = Tail(@)] =>
          /\ StreamInv' /\ stream'.sent = stream.sent
          /\ \A i \in 1..Len(stream'.queue) :
               \E k \in 1..Len(stream.queue) : stream'.queue[i] = stream.queue[k]
    <2> SUFFICES ASSUME stream' = [stream EXCEPT !.queue = Tail(@)]
                 PROVE  /\ StreamInv' /\ stream'.sent = stream.sent
                        /\ \A i \in 1..Len(stream'.queue) :
                             \E k \in 1..Len(stream.queue) : stream'.queue[i] = stream.queue[k]
      OBVIOUS
    <2>1. stream' = [up |-> stream.up, sent |-> stream.sent, queue |-> Tail(stream.queue)]
      BY <1>2, Zenon
    <2> QED BY <1>1, <1>2, <2>1, ShorterStream, Zenon DEF IInv
  <1>5. PICK bad \in Unparsed(e) :
          \/ ApplySnapshot(e, bad) /\ stream' = [stream EXCEPT !.queue = Tail(@)]
          \/ ApplyUpdate(e, bad)
    BY DEF ReceiveDepth, e
  <1>6. bad \subseteq Levels
    BY DEF Unparsed, Carried, Changed
  <1>7. CASE ApplySnapshot(e, bad) /\ stream' = [stream EXCEPT !.queue = Tail(@)]
    <2> DEFINE h == hist[e.last]
               b == SnapshotBook(e, bad)
    <2>1. h \in Books
      BY <1>3 DEF IInv, HistInv
    <2>2. /\ Shown(h) \in Books /\ Beyond(h) \subseteq Levels
          /\ \A l \in Levels \ Beyond(h) : Shown(h)[l] = h[l]
      BY <2>1, ShownBook
    <2>3. b \in Books /\ \A l \in Levels \ (Beyond(h) \cup bad) : b[l] = h[l]
      BY <2>2 DEF SnapshotBook, Books
    <2>4. task' = [pc |-> "recv", levels |-> b, last |-> e.last]
      BY <1>1, <1>2, <1>7, Zenon DEF ApplySnapshot
    <2>5. Publish(b, e.last) /\ missed' = Beyond(h) \cup bad
      BY <1>7 DEF ApplySnapshot
    <2> HIDE DEF b
    <2> QED BY <1>1, <1>3, <1>4, <1>6, <1>7, <2>2, <2>3, <2>4, <2>5, PublishInv, Zenon
  <1>8. CASE ApplyUpdate(e, bad)
    <2>1. CASE Sequence(task.last, e) = "applied"
      <3>1. /\ task' = [task EXCEPT !.levels = Overwrite(@, e, bad), !.last = e.last]
            /\ Publish(Overwrite(task.levels, e, bad), e.last)
            /\ missed' = StillMissed(e, bad)
            /\ stream' = [stream EXCEPT !.queue = Tail(@)]
        BY <1>8, <2>1 DEF ApplyUpdate
      <3> DEFINE b == Overwrite(task.levels, e, bad)
      <3>2. b \in Books
        <4>1. task.levels \in Books
          BY CachedBook DEF IInv, TaskInv
        <4> QED BY <1>3, <4>1, OverwriteBook DEF IInv
      <3>3. \A l \in Levels \ StillMissed(e, bad) : b[l] = hist[e.last][l]
        BY <1>1, <1>3, <2>1, AppliedAgrees
      <3> HIDE DEF b
      <3>4. task' = [pc |-> "recv", levels |-> b, last |-> e.last]
        BY <1>1, <1>2, <3>1, Zenon DEF b
      <3>5. Publish(b, e.last)
        BY <3>1 DEF b
      <3>6. StillMissed(e, bad) \subseteq Levels
        BY <1>6 DEF StillMissed, IInv, BookInv, Changed
      <3> QED BY <1>1, <1>3, <1>4, <3>1, <3>2, <3>3, <3>4, <3>5, <3>6, PublishInv, Zenon
    <2>2. CASE Sequence(task.last, e) = "stale"
      <3>1. stream' = [stream EXCEPT !.queue = Tail(@)] /\ UNCHANGED <<task, depth, missed>>
        BY <1>8, <2>2 DEF ApplyUpdate
      <3>2. stream'.sent >= stream.sent
        BY <1>4, <3>1 DEF IInv, StreamInv, HistInv
      <3> QED BY <1>1, <1>4, <3>1, <3>2, StreamStep
    <2>3. CASE Sequence(task.last, e) \notin {"applied", "stale"}
      <3>1. /\ task' = [task EXCEPT !.pc = "sleep"]
            /\ stream' = [stream EXCEPT !.up = FALSE, !.queue = <<>>]
            /\ UNCHANGED <<depth, missed>>
        BY <1>8, <2>3 DEF ApplyUpdate
      <3>2. stream' = [up |-> FALSE, sent |-> stream.sent, queue |-> <<>>]
        BY <1>2, <3>1, Zenon
      <3>3. StreamInv'
        BY <1>1, <3>2, ShorterStream, Zenon DEF IInv
      <3>4. task' = [pc |-> "sleep", levels |-> task.levels, last |-> task.last]
        BY <1>2, <3>1
      <3>5. TaskInv'
        BY <1>1, <3>1, <3>4 DEF IInv, TaskInv, Cached
      <3>6. JoinInv'
        BY <3>4 DEF JoinInv
      <3> QED BY <1>1, <3>1, <3>3, <3>5, <3>6 DEF IInv, HistInv, BookInv, RestInv
    <2> QED BY <2>1, <2>2, <2>3
  <1> QED BY <1>5, <1>7, <1>8

-----------------------------------------------------------------------------
LEMMA InitInv == Init => IInv
  <1> SUFFICES ASSUME Init PROVE IInv
    OBVIOUS
  <1>1. HistInv /\ Len(hist) = 1 /\ hist[1] = OpeningBook
    BY OpeningIsBook DEF Init, HistInv
  <1>2. StreamInv
    BY <1>1 DEF Init, StreamInv
  <1>3. \/ depth = None /\ missed = {}
        \/ /\ depth # None /\ depth.levels = Shown(OpeningBook) /\ depth.basis = 1
           /\ missed = Beyond(OpeningBook)
    BY EntryIsSome DEF Init
  <1>4. TaskInv
    BY <1>1 DEF Init, TaskInv, LocalBookFromSnapshot, Cached
  <1>5. JoinInv
    BY DEF Init, JoinInv
  <1>6. BookInv
    BY <1>1, <1>3, OpeningIsBook, ShownBook DEF BookInv
  <1>7. RestInv
    BY DEF Init, RestInv
  <1> QED BY <1>1, <1>2, <1>4, <1>5, <1>6, <1>7 DEF IInv

LEMMA StepInv == IInv /\ [Next]_vars => IInv'
  <1> SUFFICES ASSUME IInv, [Next]_vars PROVE IInv'
    OBVIOUS
  <1>1. CASE UNCHANGED vars
    BY <1>1, AsideInv DEF vars, IInv, RestInv
  <1>2. CASE Next
    BY <1>2, ExchangeInv, SendInv, BreakInv, ReaderInv, WakeInv, PauseInv, ConnectInv, ReceiveInv DEF Next
  <1> QED BY <1>1, <1>2

\* Whatever the cached book gets wrong is something the depth task was never
\* shown, for a seed of any depth: stale messages, batches that overlap a
\* snapshot, skipped messages and levels, gaps and reconnects never corrupt
\* another level.
THEOREM DivergenceExplained == Spec => []DivergenceIsMissed
  <1>1. IInv => DivergenceIsMissed
    <2> SUFFICES ASSUME IInv PROVE DivergenceIsMissed
      OBVIOUS
    <2>1. task.levels \in Books
      BY CachedBook DEF IInv, TaskInv
    <2>2. TypeOK
      BY <2>1 DEF IInv, HistInv, StreamInv, TaskInv, BookInv, RestInv, TypeOK
    <2> QED BY <2>2 DEF IInv, BookInv, DivergenceIsMissed
  <1> QED BY <1>1, InitInv, StepInv, PTL DEF Spec

\* The clock never runs ahead of an entry or of a call by more than it may.
LEMMA AgeStep == AgeInv /\ [Next]_vars => AgeInv'
  <1> SUFFICES ASSUME AgeInv, [Next]_vars PROVE AgeInv'
    OBVIOUS
  <1> USE FeedAssumption
  <1>1. CASE Tick
    <2>1. now' = now + 1 /\ (reader.pc # "idle" => now - reader.begun < MaxCall)
          /\ UNCHANGED <<depth, top, reader, served>>
      BY <1>1 DEF Tick
    <2> QED BY <2>1 DEF AgeInv, QuoteAgeBounded
  <1>2. CASE ReceiveTop
    <2>1. top' = [at |-> now] /\ UNCHANGED <<depth, now, reader, served>>
      BY <1>2 DEF ReceiveTop
    <2> QED BY <2>1 DEF AgeInv, QuoteAgeBounded
  <1>3. CASE ReceiveDepth
    <2>1. UNCHANGED <<top, now, reader, served>>
      BY <1>3 DEF ReceiveDepth
    <2>2. depth' = depth \/ depth'.at = now
      <3>1. \A levels, n : Publish(levels, n) => depth'.at = now
        BY DEF Publish
      <3>2. \A e, bad : ApplySnapshot(e, bad) \/ ApplyUpdate(e, bad) => depth' = depth \/ depth'.at = now
        BY <3>1, Zenon DEF ApplySnapshot, ApplyUpdate
      <3> QED BY <1>3, <3>2, Zenon DEF ReceiveDepth
    <2> QED BY <2>1, <2>2 DEF AgeInv, QuoteAgeBounded
  <1>4. CASE FetchBook
    <2>1. UNCHANGED <<depth, top, now>>
      BY <1>4 DEF FetchBook
    <2>2. CASE Fresh(depth, now)
      <3>1. served' = [src |-> "depth", age |-> now - depth.at] /\ UNCHANGED reader
        BY <1>4, <2>2 DEF FetchBook, Quote
      <3> QED BY <2>1, <2>2, <3>1 DEF AgeInv, QuoteAgeBounded, Fresh
    <2>3. CASE ~Fresh(depth, now)
      <3>1. UNCHANGED served /\ reader'.begun = now
        BY <1>4, <2>3 DEF FetchBook
      <3> QED BY <2>1, <3>1 DEF AgeInv, QuoteAgeBounded
    <2> QED BY <2>2, <2>3
  <1>5. CASE RestAnswers
    BY <1>5 DEF RestAnswers, Quote, AgeInv, QuoteAgeBounded
  <1>6. CASE RestFails
    <2>1. UNCHANGED <<depth, top, now>> /\ reader'.pc = "idle" /\ reader.pc # "idle"
      BY <1>6 DEF RestFails
    <2>2. CASE Fresh(top, reader.begun)
      <3>1. served' = [src |-> "top", age |-> now - top.at]
        BY <1>6, <2>2 DEF RestFails, Quote
      <3>2. now - top.at <= MaxAge + MaxCall
        BY <2>1, <2>2 DEF Fresh, AgeInv
      <3> QED BY <2>1, <3>1, <3>2 DEF AgeInv, QuoteAgeBounded
    <2>3. CASE ~Fresh(top, reader.begun)
      <3>1. served' = [src |-> "error", age |-> 0]
        BY <1>6, <2>3 DEF RestFails, Quote
      <3> QED BY <2>1, <3>1 DEF AgeInv, QuoteAgeBounded
    <2> QED BY <2>2, <2>3
  <1>7. CASE UNCHANGED <<depth, top, now, reader, served>>
    BY <1>7 DEF AgeInv, QuoteAgeBounded
  <1> QED BY <1>1, <1>2, <1>3, <1>4, <1>5, <1>6, <1>7, Zenon
       DEF vars, Next, ExchangeStep, Send, SkipUnparsed, Disconnect, WakeDepth, ConnectDepth,
           ConnectDepthFails, StreamEnded

\* What `fetch_order_book` hands out of the depth cache is within max_age, and
\* what it hands out of the bookTicker cache is older than that by at most the
\* REST call that failed before it, for any age and any length of a call.
THEOREM QuotesAreFresh == Spec => []QuoteAgeBounded
  <1>1. Init => AgeInv
    BY DEF Init, None, Quote, AgeInv, QuoteAgeBounded
  <1>2. AgeInv => QuoteAgeBounded
    BY DEF AgeInv
  <1> QED BY <1>1, <1>2, AgeStep, PTL DEF Spec

-----------------------------------------------------------------------------
(* The constant-product pool. *)

\* The pairs that new accepts, with something in both reserves.
Pools(T) ==
  {p \in [id : STRING, kind : {"V2"}, token0 : T, token1 : T, reserve0 : Nat, reserve1 : Nat, fee : Nat] :
     p.token0 # p.token1 /\ p.reserve0 > 0 /\ p.reserve1 > 0 /\ p.fee < BPS_SCALE}

\* What a floor division leaves.
LEMMA FloorDivision ==
  ASSUME NEW a \in Nat, NEW d \in Nat, d > 0
  PROVE  a \div d \in Nat /\ d * (a \div d) <= a /\ a < d * (a \div d) + d
<1>1. a = d * (a \div d) + (a % d) /\ a % d \in 0..(d - 1) /\ a \div d \in Nat
  OBVIOUS
<1> DEFINE q == a \div d
           r == a % d
<1> HIDE DEF q, r
<1>2. a = d * q + r /\ r \in 0..(d - 1) /\ q \in Nat /\ d * q \in Nat
  BY <1>1 DEF q, r
<1> QED
  BY <1>2 DEF q

\* What is at most a floor division.
LEMMA FloorAtLeast ==
  ASSUME NEW a \in Nat, NEW d \in Nat, d > 0, NEW q \in Nat, d * q <= a
  PROVE  q <= a \div d
<1> DEFINE x == a \div d
<1>1. x \in Nat /\ a < d * x + d
  BY FloorDivision
<1> HIDE DEF x
<1>2. SUFFICES ASSUME x + 1 <= q PROVE FALSE
  BY <1>1 DEF x
<1>3. d * (x + 1) <= d * q
  BY <1>1, <1>2
<1>4. d * (x + 1) = d * x + d
  BY <1>1
<1> QED
  BY <1>1, <1>3, <1>4

\* Products of numbers and their order.
LEMMA Multiply ==
  ASSUME NEW a \in Nat, NEW b \in Nat, NEW c \in Nat, a <= b
  PROVE  a * c <= b * c /\ c * a <= c * b /\ a * c \in Nat /\ b * c \in Nat
OBVIOUS

\* A common positive factor does not matter to an order.
LEMMA Cancel ==
  ASSUME NEW a \in Int, NEW b \in Int, NEW c \in Nat, c > 0, a * c <= b * c
  PROVE  a <= b
<1>1. SUFFICES ASSUME b + 1 <= a PROVE FALSE
  OBVIOUS
<1>2. (b + 1) * c <= a * c
  BY <1>1
<1>3. (b + 1) * c = b * c + c
  OBVIOUS
<1> QED
  BY <1>2, <1>3

\* The output of a swap, as numbers: less than the reserve, and no more than
\* what keeps the product of the reserves.
LEMMA SwapArithmetic ==
  ASSUME NEW rin \in Nat, NEW rout \in Nat, rin > 0, rout > 0, NEW ain \in Nat, ain > 0,
         NEW gain \in Nat, gain > 0, gain <= BPS_SCALE, NEW out,
         out = (ain * gain * rout) \div (rin * BPS_SCALE + ain * gain)
  PROVE  out \in Nat /\ out < rout /\ out * (rin + ain) <= ain * rout
<1> DEFINE B == BPS_SCALE
           w == ain * gain
           d == rin * B + w
<1>1. B \in Nat /\ B > 0
  BY DEF BPS_SCALE
<1> HIDE DEF B
<1>2. w \in Nat /\ w > 0
  OBVIOUS
<1>3. w <= ain * B
  BY <1>1, Multiply DEF B
<1> HIDE DEF w
<1>4. rin * B \in Nat /\ rin * B > 0 /\ w * rout \in Nat /\ ain * B \in Nat
  BY <1>1, <1>2
<1>5. d \in Nat /\ d > 0 /\ w < d
  BY <1>2, <1>4
<1>6. out = (w * rout) \div d
  BY DEF w, B
<1>7. out \in Nat /\ d * out <= w * rout
  BY <1>4, <1>5, <1>6, FloorDivision
<1>8. out < rout
  <2>1. SUFFICES ASSUME rout <= out PROVE FALSE
    BY <1>7
  <2>2. d * rout <= d * out
    BY <1>5, <1>7, <2>1, Multiply
  <2>3. d * rout = (rin * B) * rout + w * rout
    BY <1>2, <1>4
  <2>4. (rin * B) * rout > 0
    BY <1>4
  <2> HIDE DEF d
  <2> QED
    BY <1>4, <1>5, <1>7, <2>2, <2>3, <2>4
<1>9. out * (rin + ain) <= ain * rout
  <2> DEFINE rest == rout - out
  <2>1. rest \in Nat /\ rout = out + rest
    BY <1>7, <1>8
  <2>2. d * out = (out * rin) * B + w * out
    BY <1>1, <1>2, <1>7
  <2> HIDE DEF rest, d
  <2>3. w * rout = w * out + w * rest
    BY <1>2, <1>7, <2>1
  <2>4. (out * rin) * B <= w * rest
    BY <1>1, <1>2, <1>7, <2>1, <2>2, <2>3
  <2>5. w * rest <= (ain * B) * rest
    BY <1>2, <1>3, <1>4, <2>1, Multiply
  <2>6. (ain * B) * rest = (ain * rest) * B
    BY <1>1, <2>1
  <2>7. out * rin \in Int /\ ain * rest \in Int
    BY <1>7, <2>1
  <2>8. (out * rin) * B <= (ain * rest) * B
    BY <1>1, <1>2, <1>4, <2>1, <2>4, <2>5, <2>6, <2>7
  <2>9. out * rin <= ain * rest
    BY <1>1, <2>7, <2>8, Cancel
  <2>10. ain * rout = ain * out + ain * rest
    BY <1>7, <2>1
  <2>11. out * (rin + ain) = out * rin + ain * out
    BY <1>7
  <2> QED
    BY <1>7, <2>1, <2>7, <2>9, <2>10, <2>11
<1> QED
  BY <1>7, <1>8, <1>9

\* The output a swap of ain has.
OutputOf(p, ain, t) ==
  (ain * (BPS_SCALE - p.fee) * ReserveOut(p, t)) \div (ReserveIn(p, t) * BPS_SCALE + ain * (BPS_SCALE - p.fee))

\* What a pool is made of.
LEMMA PoolParts ==
  ASSUME NEW T, NEW p \in Pools(T), NEW t \in {p.token0, p.token1}
  PROVE  /\ ReserveIn(p, t) \in Nat /\ ReserveIn(p, t) > 0
         /\ ReserveOut(p, t) \in Nat /\ ReserveOut(p, t) > 0
         /\ BPS_SCALE - p.fee \in Nat /\ BPS_SCALE - p.fee > 0 /\ BPS_SCALE - p.fee <= BPS_SCALE
         /\ Holds(p, t) /\ p.token0 # p.token1
<1>1. /\ p.reserve0 \in Nat /\ p.reserve1 \in Nat /\ p.fee \in Nat
      /\ p.reserve0 > 0 /\ p.reserve1 > 0 /\ p.fee < BPS_SCALE /\ p.token0 # p.token1
  BY DEF Pools
<1> QED
  BY <1>1 DEF ReserveIn, ReserveOut, Holds, BPS_SCALE

\* An answer is not an error, and both are told apart by what they hold.
LEMMA OkIsNotErr ==
  /\ \A v, e : Ok(v) # Err(e)
  /\ \A v : Ok(v).ok = TRUE /\ Ok(v).val = v
  /\ \A e : Err(e).ok = FALSE /\ Err(e).err = e
<1>1. \A v : Ok(v).ok = TRUE /\ Ok(v).val = v
  BY DEF Ok
<1>2. \A e : Err(e).ok = FALSE /\ Err(e).err = e
  BY DEF Err
<1> QED
  BY <1>1, <1>2, Zenon

\* A swap of something into a pool is answered unless a product overflows.
LEMMA SwapAnswer ==
  ASSUME NEW T, NEW p \in Pools(T), NEW t \in {p.token0, p.token1}, NEW ain \in Nat, ain > 0
  PROVE  /\ GetAmountOut(p, ain, t).ok => GetAmountOut(p, ain, t) = Ok(OutputOf(p, ain, t))
         /\ \A out : GetAmountOut(p, ain, t) = Ok(out) => out = OutputOf(p, ain, t)
<1>1. \/ GetAmountOut(p, ain, t) = Err("ArithmeticOverflow")
      \/ GetAmountOut(p, ain, t) = Ok(OutputOf(p, ain, t))
  <2>1. ain # 0 /\ Holds(p, t)
    BY PoolParts
  <2> QED
    BY <2>1, Zenon DEF GetAmountOut, OutputOf
<1> QED
  BY <1>1, OkIsNotErr, Zenon

\* Its output is less than the reserve it comes from, and no more than what
\* keeps the product of the reserves.
LEMMA SwapOutput ==
  ASSUME NEW T, NEW p \in Pools(T), NEW t \in {p.token0, p.token1}, NEW ain \in Nat, ain > 0
  PROVE  /\ OutputOf(p, ain, t) \in Nat /\ OutputOf(p, ain, t) < ReserveOut(p, t)
         /\ OutputOf(p, ain, t) * (ReserveIn(p, t) + ain) <= ain * ReserveOut(p, t)
<1> DEFINE rin == ReserveIn(p, t)
           rout == ReserveOut(p, t)
           gain == BPS_SCALE - p.fee
           out == OutputOf(p, ain, t)
<1>1. /\ rin \in Nat /\ rin > 0 /\ rout \in Nat /\ rout > 0
      /\ gain \in Nat /\ gain > 0 /\ gain <= BPS_SCALE
  BY PoolParts
<1>2. out = (ain * gain * rout) \div (rin * BPS_SCALE + ain * gain)
  BY Zenon DEF OutputOf
<1> HIDE DEF rin, rout, gain, out
<1>3. out \in Nat /\ out < rout /\ out * (rin + ain) <= ain * rout
  BY <1>1, <1>2, SwapArithmetic, Zenon
<1> QED
  BY <1>3 DEF rin, rout, out

\* The pool a swap leaves.
AfterSwap(p, ain, t) ==
  IF t = p.token0
  THEN [p EXCEPT !.reserve0 = @ + ain, !.reserve1 = @ - OutputOf(p, ain, t)]
  ELSE [p EXCEPT !.reserve0 = @ - OutputOf(p, ain, t), !.reserve1 = @ + ain]

\* It is a pool again, if the swap has an output and the reserve holds the input.
LEMMA SwapLeaves ==
  ASSUME NEW T, NEW p \in Pools(T), NEW t \in {p.token0, p.token1}, NEW ain \in Nat, ain > 0,
         GetAmountOut(p, ain, t).ok, ~(ReserveIn(p, t) + ain >= U128)
  PROVE  /\ SimulateSwap(p, ain, t) = Ok(AfterSwap(p, ain, t)) /\ AfterSwap(p, ain, t) \in Pools(T)
         /\ AfterSwap(p, ain, t).token0 = p.token0 /\ AfterSwap(p, ain, t).token1 = p.token1
         /\ AfterSwap(p, ain, t).fee = p.fee
         /\ ReserveIn(AfterSwap(p, ain, t), t) = ReserveIn(p, t) + ain
         /\ ReserveOut(AfterSwap(p, ain, t), t) = ReserveOut(p, t) - OutputOf(p, ain, t)
<1> DEFINE out == OutputOf(p, ain, t)
           after == AfterSwap(p, ain, t)
<1>1. GetAmountOut(p, ain, t) = Ok(out) /\ out \in Nat /\ out < ReserveOut(p, t)
  BY SwapAnswer, SwapOutput, Zenon
<1>2. /\ p = [id |-> p.id, kind |-> p.kind, token0 |-> p.token0, token1 |-> p.token1,
              reserve0 |-> p.reserve0, reserve1 |-> p.reserve1, fee |-> p.fee]
      /\ p.id \in STRING /\ p.kind = "V2" /\ p.token0 \in T /\ p.token1 \in T /\ p.token0 # p.token1
      /\ p.reserve0 \in Nat /\ p.reserve1 \in Nat /\ p.fee \in Nat
      /\ p.reserve0 > 0 /\ p.reserve1 > 0 /\ p.fee < BPS_SCALE
  BY DEF Pools
<1>3. Ok(out).ok /\ Ok(out).val = out
  BY DEF Ok
<1> HIDE DEF out
<1>4. CASE t = p.token0
  <2>1. out < p.reserve1
    BY <1>1, <1>4 DEF ReserveOut
  <2>2. SatSub(p.reserve1, out) = p.reserve1 - out
    BY <1>1, <1>2, <2>1 DEF SatSub
  <2>3. SimulateSwap(p, ain, t) = Ok([p EXCEPT !.reserve0 = @ + ain, !.reserve1 = SatSub(@, out)])
    BY <1>1, <1>3, <1>4, Zenon DEF SimulateSwap
  <2>4. after = [p EXCEPT !.reserve0 = @ + ain, !.reserve1 = @ - out]
    BY <1>4, Zenon DEF AfterSwap, out
  <2>5. after = [id |-> p.id, kind |-> p.kind, token0 |-> p.token0, token1 |-> p.token1,
                 reserve0 |-> p.reserve0 + ain, reserve1 |-> p.reserve1 - out, fee |-> p.fee]
    BY <1>2, <2>4, Zenon
  <2>6. SimulateSwap(p, ain, t) = Ok(after)
    <3>1. [p EXCEPT !.reserve0 = @ + ain, !.reserve1 = SatSub(@, out)] = [p EXCEPT !.reserve0 = @ + ain, !.reserve1 = @ - out]
      BY <1>2, <2>2
    <3> QED
      BY <2>3, <2>4, <3>1, Zenon
  <2> HIDE DEF after
  <2>7. /\ after.token0 = p.token0 /\ after.token1 = p.token1 /\ after.fee = p.fee
        /\ after.reserve0 = p.reserve0 + ain /\ after.reserve1 = p.reserve1 - out
        /\ after.reserve0 \in Nat /\ after.reserve1 \in Nat /\ after.reserve0 > 0 /\ after.reserve1 > 0
    BY <1>1, <1>2, <2>1, <2>5
  <2>8. after \in Pools(T)
    BY <1>2, <2>5, <2>7 DEF Pools
  <2>9. ReserveIn(after, t) = ReserveIn(p, t) + ain /\ ReserveOut(after, t) = ReserveOut(p, t) - out
    BY <1>4, <2>7 DEF ReserveIn, ReserveOut
  <2> QED
    BY <2>6, <2>7, <2>8, <2>9 DEF out, after
<1>5. CASE t # p.token0
  <2>1. out < p.reserve0 /\ t = p.token1
    BY <1>1, <1>5 DEF ReserveOut
  <2>2. SatSub(p.reserve0, out) = p.reserve0 - out
    BY <1>1, <1>2, <2>1 DEF SatSub
  <2>3. SimulateSwap(p, ain, t) = Ok([p EXCEPT !.reserve0 = SatSub(@, out), !.reserve1 = @ + ain])
    BY <1>1, <1>3, <1>5, Zenon DEF SimulateSwap
  <2>4. after = [p EXCEPT !.reserve0 = @ - out, !.reserve1 = @ + ain]
    BY <1>5, Zenon DEF AfterSwap, out
  <2>5. after = [id |-> p.id, kind |-> p.kind, token0 |-> p.token0, token1 |-> p.token1,
                 reserve0 |-> p.reserve0 - out, reserve1 |-> p.reserve1 + ain, fee |-> p.fee]
    BY <1>2, <2>4, Zenon
  <2>6. SimulateSwap(p, ain, t) = Ok(after)
    <3>1. [p EXCEPT !.reserve0 = SatSub(@, out), !.reserve1 = @ + ain] = [p EXCEPT !.reserve0 = @ - out, !.reserve1 = @ + ain]
      BY <1>2, <2>2
    <3> QED
      BY <2>3, <2>4, <3>1, Zenon
  <2> HIDE DEF after
  <2>7. /\ after.token0 = p.token0 /\ after.token1 = p.token1 /\ after.fee = p.fee
        /\ after.reserve0 = p.reserve0 - out /\ after.reserve1 = p.reserve1 + ain
        /\ after.reserve0 \in Nat /\ after.reserve1 \in Nat /\ after.reserve0 > 0 /\ after.reserve1 > 0
    BY <1>1, <1>2, <2>1, <2>5
  <2>8. after \in Pools(T)
    BY <1>2, <2>5, <2>7 DEF Pools
  <2>9. ReserveIn(after, t) = ReserveIn(p, t) + ain /\ ReserveOut(after, t) = ReserveOut(p, t) - out
    BY <1>5, <2>7 DEF ReserveIn, ReserveOut
  <2> QED
    BY <2>6, <2>7, <2>8, <2>9 DEF out, after
<1> QED
  BY <1>4, <1>5

\* Whatever a pool holds (both reserves above zero, a fee below 100%) and
\* whatever is swapped into it, a swap that simulate_swap answers moves the
\* amount that get_amount_out quotes: less than the whole reserve, at a price no
\* better than the spot price, and never at the pool's expense: the product of
\* the reserves does not fall, and selling the proceeds back returns no more
\* than was paid.  compare_simulation_vs_calculation reports a match.
THEOREM SwapsFavourPool ==
  ASSUME NEW T, NEW p \in Pools(T), NEW t \in {p.token0, p.token1}, NEW ain \in Nat, ain > 0,
         NEW after, SimulateSwap(p, ain, t) = Ok(after)
  PROVE  \E out \in Nat :
           /\ GetAmountOut(p, ain, t) = Ok(out) /\ after \in Pools(T)
           /\ out < ReserveOut(p, t)
           /\ GetExecutionPrice(p, ain, t).ok /\ GetSpotPrice(p, t).ok =>
                AtMost(GetExecutionPrice(p, ain, t).val, GetSpotPrice(p, t).val)
           /\ p.reserve0 * p.reserve1 <= after.reserve0 * after.reserve1
           /\ \A back \in Nat : GetAmountOut(after, out, TokenOutFor(p, t)) = Ok(back) => back <= ain
           /\ CompareSimulation(p, ain, t) = Ok([calculated |-> out, simulated |-> out, isMatch |-> TRUE])
<1> DEFINE out == OutputOf(p, ain, t)
           other == TokenOutFor(p, t)
           rin == ReserveIn(p, t)
           rout == ReserveOut(p, t)
<1>0. GetAmountOut(p, ain, t).ok /\ ~(rin + ain >= U128)
  BY OkIsNotErr, Zenon DEF SimulateSwap, Panic
<1>1. GetAmountOut(p, ain, t) = Ok(out) /\ out \in Nat /\ out < rout /\ out * (rin + ain) <= ain * rout
  BY <1>0, SwapAnswer, SwapOutput, Zenon
<1>2. /\ after \in Pools(T)
      /\ after.token0 = p.token0 /\ after.token1 = p.token1
      /\ ReserveIn(after, t) = rin + ain /\ ReserveOut(after, t) = rout - out
  <2>1. SimulateSwap(p, ain, t) = Ok(AfterSwap(p, ain, t))
    BY <1>0, SwapLeaves
  <2>2. after = AfterSwap(p, ain, t)
    BY <2>1, OkIsNotErr, Zenon
  <2> QED
    BY <1>0, <2>2, SwapLeaves
<1>3. rin \in Nat /\ rin > 0 /\ rout \in Nat /\ rout > 0 /\ p.token0 # p.token1
  BY PoolParts
<1>4. /\ other \in {after.token0, after.token1}
      /\ ReserveIn(after, other) = rout - out /\ ReserveOut(after, other) = rin + ain
  BY <1>2, <1>3 DEF TokenOutFor, ReserveIn, ReserveOut
<1>5. /\ p.reserve0 * p.reserve1 = rin * rout
      /\ after.reserve0 * after.reserve1 = (rin + ain) * (rout - out)
  <2>1. CASE t = p.token0
    BY <1>2, <2>1 DEF ReserveIn, ReserveOut
  <2>2. CASE t # p.token0
    <3>1. /\ rin = p.reserve1 /\ rout = p.reserve0
          /\ after.reserve1 = rin + ain /\ after.reserve0 = rout - out
      BY <1>2, <2>2 DEF ReserveIn, ReserveOut
    <3> HIDE DEF rin, rout, out
    <3> QED
      BY <1>1, <1>3, <3>1
  <2> QED
    BY <2>1, <2>2
<1> HIDE DEF out, other, rin, rout
<1>6. ASSUME GetExecutionPrice(p, ain, t).ok, GetSpotPrice(p, t).ok
      PROVE  AtMost(GetExecutionPrice(p, ain, t).val, GetSpotPrice(p, t).val)
  <2>1. out * rin <= out * (rin + ain)
    BY <1>1, <1>3, Multiply
  <2>2. out * rin \in Nat /\ out * (rin + ain) \in Nat /\ ain * rout \in Nat /\ ain * rout = rout * ain
    BY <1>1, <1>3
  <2>3. out * rin <= rout * ain
    BY <1>1, <2>1, <2>2
  <2>4. AtMost([num |-> out, den |-> ain], [num |-> rout, den |-> rin])
    BY <2>3 DEF AtMost
  <2>5. GetExecutionPrice(p, ain, t) = Ok([num |-> out, den |-> ain])
    BY <1>1, <1>6, OkIsNotErr, Zenon DEF GetExecutionPrice, Panic
  <2>6. GetSpotPrice(p, t) = Ok([num |-> rout, den |-> rin])
    <3>1. Holds(p, t)
      BY PoolParts
    <3> QED
      BY <3>1, <1>6, OkIsNotErr, Zenon DEF GetSpotPrice, Panic, rout, rin
  <2>7. GetExecutionPrice(p, ain, t).val = [num |-> out, den |-> ain] /\ GetSpotPrice(p, t).val = [num |-> rout, den |-> rin]
    BY <2>5, <2>6 DEF Ok
  <2> QED
    BY <2>4, <2>7, Zenon
<1>7. rin * rout <= (rin + ain) * (rout - out)
  <2>1. (rin + ain) * (rout - out) = rin * rout + (ain * rout - out * (rin + ain))
    BY <1>1, <1>3
  <2> QED
    BY <1>1, <1>3, <2>1
<1>8. ASSUME NEW back \in Nat, GetAmountOut(after, out, other) = Ok(back)
      PROVE  back <= ain
  <2>1. CASE out = 0
    <3>1. Err("ZeroAmountIn") = Ok(back)
      BY <1>8, <2>1, Zenon DEF GetAmountOut
    <3> QED
      BY <3>1 DEF Ok, Err
  <2>2. CASE out > 0
    <3> DEFINE b == OutputOf(after, out, other)
    <3>1. back = b /\ b \in Nat /\ b * ((rout - out) + out) <= out * (rin + ain)
      BY <1>1, <1>2, <1>4, <1>8, <2>2, SwapAnswer, SwapOutput
    <3> HIDE DEF b
    <3>2. back = b
      BY <3>1
    <3>3. (rout - out) + out = rout
      BY <1>1, <1>3
    <3>4. back * rout <= ain * rout
      <4> DEFINE m == out * (rin + ain)
                 u == ain * rout
                 v == back * rout
      <4>1. m \in Nat /\ u \in Nat /\ v \in Nat
        BY <1>1, <1>3
      <4>2. v <= m
        BY <3>1, <3>2, <3>3
      <4>3. m <= u
        BY <1>1
      <4> HIDE DEF m, u, v
      <4>4. v <= u
        BY <4>1, <4>2, <4>3
      <4> QED
        BY <4>4 DEF u, v
    <3> QED
      BY <1>3, <3>4, Cancel
  <2> QED
    BY <1>1, <2>1, <2>2
<1>9. CompareSimulation(p, ain, t) = Ok([calculated |-> out, simulated |-> out, isMatch |-> TRUE])
  <2>1. SatSub(rout, ReserveOut(after, t)) = out
    BY <1>1, <1>2, <1>3 DEF SatSub
  <2>2. Ok(out).ok /\ Ok(out).val = out /\ Ok(after).ok /\ Ok(after).val = after
    BY DEF Ok
  <2>3. CompareSimulation(p, ain, t) = Ok([calculated |-> out, simulated |-> out, isMatch |-> out = out])
    BY <1>1, <1>2, <2>1, <2>2, Zenon DEF CompareSimulation, rout
  <2> QED
    BY <2>3, Zenon
<1>10. p.reserve0 * p.reserve1 <= after.reserve0 * after.reserve1
  BY <1>5, <1>7
<1>11. \A back \in Nat : GetAmountOut(after, out, other) = Ok(back) => back <= ain
  BY <1>8
<1> QED
  BY <1>1, <1>2, <1>6, <1>9, <1>10, <1>11, Zenon DEF rin, rout, other

\* How the cost of an output compares with what an input (w after the fee) pays
\* for it.
Compares(rin, rout, w, aout) ==
  w * rout - (rin * BPS_SCALE + w) * aout = w * (rout - aout) - rin * aout * BPS_SCALE
LEMMA CostIdentity ==
  ASSUME NEW rin \in Nat, NEW rout \in Nat, NEW w \in Nat, NEW aout \in Nat, aout < rout
  PROVE  /\ w * rout \in Nat /\ rin * BPS_SCALE + w \in Nat
         /\ Compares(rin, rout, w, aout)
<1>1. BPS_SCALE = 10000
  BY DEF BPS_SCALE
<1>2. w * (rout - aout) = w * rout - w * aout
  OBVIOUS
<1>3. (rin * BPS_SCALE + w) * aout = rin * aout * BPS_SCALE + w * aout
  BY <1>1
<1>4. w * rout \in Nat /\ w * aout \in Nat /\ rin * BPS_SCALE + w \in Nat /\ rin * aout * BPS_SCALE \in Nat
  BY <1>1
<1> QED
  BY <1>2, <1>3, <1>4 DEF Compares

\* What an input of x yields, as numbers.
Yield(rin, rout, gain, x) == (x * gain * rout) \div (rin * BPS_SCALE + x * gain)

\* The input get_amount_in asks for, as numbers: its output is no less than
\* what was asked, and that of every input two or more below it is.
LEMMA AmountInArithmetic ==
  ASSUME NEW rin \in Nat, rin > 0, NEW rout \in Nat, NEW gain \in Nat, gain > 0,
         NEW aout \in Nat, aout > 0, aout < rout,
         NEW q \in Nat, q = (rin * aout * BPS_SCALE) \div ((rout - aout) * gain)
  PROVE  /\ aout <= Yield(rin, rout, gain, q + 1)
         /\ \A x \in Nat : x < q => Yield(rin, rout, gain, x) < aout
<1> DEFINE cost == rin * aout * BPS_SCALE
           d == (rout - aout) * gain
<1>1. BPS_SCALE = 10000
  BY DEF BPS_SCALE
<1>2. cost \in Nat /\ d \in Nat /\ d > 0 /\ rin * BPS_SCALE \in Nat /\ rin * BPS_SCALE > 0
  BY <1>1
<1>3. q = cost \div d
  OBVIOUS
<1>4. d * q <= cost /\ cost < d * q + d
  <2> HIDE DEF cost, d
  <2> QED
    BY <1>2, <1>3, FloorDivision
<1>5. aout <= Yield(rin, rout, gain, q + 1)
  <2> DEFINE w == (q + 1) * gain
             base == rin * BPS_SCALE + w
  <2>1. w \in Nat
    OBVIOUS
  <2>2. w * (rout - aout) = d * q + d
    OBVIOUS
  <2> HIDE DEF w
  <2>3. w * rout \in Nat /\ base \in Nat /\ w * rout - base * aout = w * (rout - aout) - cost
    <3>1. w * rout \in Nat /\ base \in Nat /\ Compares(rin, rout, w, aout)
      BY <2>1, CostIdentity, Zenon
    <3> QED
      BY <3>1, Zenon DEF Compares
  <2>4. base > 0
    BY <1>2, <2>1
  <2> HIDE DEF base, d, cost
  <2>5. d * q \in Nat /\ base * aout \in Nat
    BY <1>2, <2>3
  <2>6. base * aout <= w * rout
    BY <1>2, <1>4, <2>2, <2>3, <2>5
  <2>7. aout <= (w * rout) \div base
    BY <2>3, <2>4, <2>6, FloorAtLeast
  <2> QED
    BY <2>7 DEF w, base, Yield
<1>6. ASSUME NEW x \in Nat, x < q
      PROVE  Yield(rin, rout, gain, x) < aout
  <2> DEFINE w == x * gain
             base == rin * BPS_SCALE + w
             less == (w * rout) \div base
  <2>1. w \in Nat
    OBVIOUS
  <2>2. w * (rout - aout) = d * x
    OBVIOUS
  <2> HIDE DEF w
  <2>3. w * rout \in Nat /\ base \in Nat /\ w * rout - base * aout = w * (rout - aout) - cost
    <3>1. w * rout \in Nat /\ base \in Nat /\ Compares(rin, rout, w, aout)
      BY <2>1, CostIdentity, Zenon
    <3> QED
      BY <3>1, Zenon DEF Compares
  <2>4. base > 0
    BY <1>2, <2>1
  <2> HIDE DEF base, d, cost
  <2>5. d * x \in Nat /\ d * x < d * q /\ d * q \in Nat /\ base * aout \in Nat
    <3>1. d * x \in Nat /\ d * q \in Nat /\ d * (x + 1) \in Nat /\ d * (x + 1) = d * x + d
      BY <1>2
    <3>2. x + 1 <= q /\ x + 1 \in Nat
      BY <1>6
    <3>3. d * (x + 1) <= d * q
      BY <1>2, <3>2, Multiply
    <3> QED
      BY <1>2, <2>3, <3>1, <3>3
  <2>6. w * rout < base * aout
    BY <1>2, <1>4, <2>2, <2>3, <2>5
  <2>7. less \in Nat /\ base * less <= w * rout
    BY <2>3, <2>4, FloorDivision
  <2> HIDE DEF less
  <2>8. base * less < base * aout
    <3> DEFINE low == base * less
               high == base * aout
    <3>1. low \in Nat /\ high \in Nat
      BY <2>3, <2>7
    <3>2. low <= w * rout /\ w * rout < high
      BY <2>6, <2>7
    <3> HIDE DEF low, high
    <3>3. low < high
      BY <2>3, <3>1, <3>2
    <3> QED
      BY <3>3 DEF low, high
  <2>9. SUFFICES ASSUME aout <= less PROVE FALSE
    BY <2>7 DEF less, base, w, Yield
  <2>10. base * aout <= base * less
    BY <2>3, <2>7, <2>9, Multiply
  <2> QED
    BY <2>3, <2>5, <2>7, <2>8, <2>10
<1> QED
  BY <1>5, <1>6

\* What get_amount_in answers is enough: paid into get_amount_out it yields at
\* least the output asked for, whatever the reserves and the fee, and it asks
\* for at most one more than needed: two less, or any input below that, yields
\* less than was asked for.  Where it panics instead, because the input does not
\* fit 128 bits (an output close to the reserve), no input below the largest
\* 128-bit number would have been enough.
THEOREM AmountInIsEnough ==
  ASSUME NEW T, NEW p \in Pools(T), NEW tout \in {p.token0, p.token1}, NEW aout \in Nat
  PROVE  /\ \A ain : GetAmountIn(p, aout, tout) = Ok(ain) =>
              /\ ain \in 1..(U128 - 1)
              /\ \A out : GetAmountOut(p, ain, TokenOutFor(p, tout)) = Ok(out) => aout <= out
              /\ \A x \in 1..(ain - 2) : \A less :
                   GetAmountOut(p, x, TokenOutFor(p, tout)) = Ok(less) => less < aout
         /\ GetAmountIn(p, aout, tout) = Panic =>
              \A x \in 1..(U128 - 2) : \A less :
                GetAmountOut(p, x, TokenOutFor(p, tout)) = Ok(less) => less < aout
<1> DEFINE t == TokenOutFor(p, tout)
           rin == ReserveOut(p, tout)
           rout == ReserveIn(p, tout)
           gain == BPS_SCALE - p.fee
           q == (rin * aout * BPS_SCALE) \div ((rout - aout) * gain)
           Out(x) == OutputOf(p, x, t)
           ans == GetAmountIn(p, aout, tout)
<1>1. /\ t \in {p.token0, p.token1} /\ Holds(p, tout) /\ p.token0 # p.token1
      /\ rin \in Nat /\ rin > 0 /\ rout \in Nat /\ gain \in Nat /\ gain > 0
  BY PoolParts DEF TokenOutFor
<1>2. ReserveIn(p, t) = rin /\ ReserveOut(p, t) = rout
  BY <1>1 DEF TokenOutFor, ReserveIn, ReserveOut
<1>3. U128 \in Nat
  BY WidthAssumption
<1>4. \/ \E e \in {"ZeroAmountOut", "InsufficientLiquidity", "ArithmeticOverflow"} : ans = Err(e)
      \/ aout # 0 /\ ~(aout >= rout) /\ q + 1 >= U128 /\ ans = Panic
      \/ aout # 0 /\ ~(aout >= rout) /\ ~(q + 1 >= U128) /\ ans = Ok(q + 1)
  BY <1>1, Zenon DEF GetAmountIn
<1>5. \A x \in Nat : \A out : x > 0 /\ GetAmountOut(p, x, t) = Ok(out) => out = Out(x)
  <2> SUFFICES ASSUME NEW x \in Nat, NEW out, x > 0, GetAmountOut(p, x, t) = Ok(out) PROVE out = Out(x)
    BY Zenon
  <2> QED
    BY <1>1, SwapAnswer, Zenon
<1>6. \A x : Out(x) = Yield(rin, rout, gain, x)
  BY <1>2, Zenon DEF OutputOf, Yield
<1> HIDE DEF Out, t, ans
<1>7. ASSUME aout # 0, ~(aout >= rout)
      PROVE  q \in Nat /\ aout <= Out(q + 1) /\ \A x \in Nat : x < q => Out(x) < aout
  <2>1. q \in Nat
    <3> DEFINE a == rin * aout * BPS_SCALE
               d == (rout - aout) * gain
    <3>1. a \in Nat /\ d \in Nat /\ d > 0
      <4>1. BPS_SCALE \in Nat
        BY DEF BPS_SCALE
      <4> HIDE DEF rin, rout, gain
      <4> QED
        BY <1>1, <1>7, <4>1
    <3> HIDE DEF a, d
    <3>2. a \div d \in Nat
      BY <3>1, FloorDivision
    <3> QED
      BY <3>2 DEF a, d
  <2>2. q = (rin * aout * BPS_SCALE) \div ((rout - aout) * gain)
    OBVIOUS
  <2> HIDE DEF q, rin, rout, gain
  <2>3. aout > 0 /\ aout < rout
    BY <1>1, <1>7
  <2>4. /\ aout <= Yield(rin, rout, gain, q + 1)
        /\ \A x \in Nat : x < q => Yield(rin, rout, gain, x) < aout
    BY <1>1, <2>1, <2>2, <2>3, AmountInArithmetic
  <2> QED
    BY <1>6, <2>1, <2>4, Zenon
<1> HIDE DEF q, rin, rout, gain
<1>8. ASSUME NEW ain, ans = Ok(ain)
      PROVE  /\ ain \in 1..(U128 - 1)
             /\ \A out : GetAmountOut(p, ain, t) = Ok(out) => aout <= out
             /\ \A x \in 1..(ain - 2) : \A less : GetAmountOut(p, x, t) = Ok(less) => less < aout
  <2>1. aout # 0 /\ ~(aout >= rout) /\ ~(q + 1 >= U128) /\ ain = q + 1
    BY <1>4, <1>8, OkIsNotErr, Zenon DEF Panic
  <2>2. q \in Nat /\ aout <= Out(q + 1) /\ \A x \in Nat : x < q => Out(x) < aout
    BY <1>7, <2>1, Zenon
  <2>3. q + 1 \in Nat /\ q + 1 > 0 /\ ain \in 1..(U128 - 1)
    BY <1>3, <2>1, <2>2
  <2>4. \A x \in 1..(ain - 2) : x \in Nat /\ x > 0 /\ x < q
    BY <2>1, <2>2
  <2> QED
    BY <1>5, <2>1, <2>2, <2>3, <2>4, Zenon
<1>9. ASSUME ans = Panic, NEW x \in 1..(U128 - 2), NEW less, GetAmountOut(p, x, t) = Ok(less)
      PROVE  less < aout
  <2>1. aout # 0 /\ ~(aout >= rout) /\ q + 1 >= U128
    <3>1. \A e \in {"ZeroAmountOut", "InsufficientLiquidity", "ArithmeticOverflow"} : e # "panic"
      OBVIOUS
    <3> QED
      BY <1>4, <1>9, <3>1, OkIsNotErr, Zenon DEF Panic
  <2>2. q \in Nat /\ \A n \in Nat : n < q => Out(n) < aout
    BY <1>7, <2>1, Zenon
  <2>3. x \in Nat /\ x > 0 /\ x < q
    BY <1>3, <2>1, <2>2
  <2> QED
    BY <1>5, <1>9, <2>2, <2>3, Zenon
<1> QED
  BY <1>8, <1>9, Zenon DEF t, ans

-----------------------------------------------------------------------------
(* The search for the largest size within a price impact. *)

\* A set of round numbers that holds the successors of its members and 0 holds
\* every one.
LEMMA Induct ==
  ASSUME NEW n \in Nat, NEW good, 0 \in good,
         \A m \in Nat : m + 1 <= n /\ m \in good => m + 1 \in good
  PROVE  \A m \in 0..n : m \in good
<1> DEFINE bad == {m \in Nat : m <= n /\ m \notin good}
<1>1. SUFFICES ASSUME bad # {} PROVE FALSE
  OBVIOUS
<1>2. PICK m \in bad : \A k \in bad : ~(<<k, m>> \in OpToRel(<, Nat))
  <2>1. bad \subseteq Nat
    OBVIOUS
  <2> HIDE DEF bad
  <2> QED
    BY <1>1, <2>1, NatLessThanWellFounded, WFMin, Zenon
<1>3. \A k \in Nat : k < m => k \notin bad
  <2> SUFFICES ASSUME NEW k \in Nat, k < m, k \in bad PROVE FALSE
    OBVIOUS
  <2>1. <<k, m>> \in OpToRel(<, Nat)
    BY Zenon DEF OpToRel
  <2> QED
    BY <2>1, <1>2, Zenon
<1>4. m # 0 /\ m \in Nat
  OBVIOUS
<1>5. m - 1 \in Nat /\ m - 1 < m /\ (m - 1) + 1 = m
  BY <1>4
<1>6. m - 1 \in good
  BY <1>3, <1>5
<1> QED
  BY <1>5, <1>6

\* The rounds 1..n of a loop, from start and within S.
Runs(n, S, start, step) ==
  \E f \in [0..n -> S] : f[0] = start /\ \A k \in 1..n : f[k] = step[<<f[k - 1], k>>]

\* A loop over the rounds 1..n has a value after each of them, and the values
\* stay in any set the rounds do not leave.
LEMMA LoopExists ==
  ASSUME NEW n \in Nat, NEW S, NEW start \in S, NEW step \in [S \X (1..n) -> S]
  PROVE  Runs(n, S, start, step)
<1> DEFINE Run(f, m) == f[0] = start /\ \A k \in 1..m : f[k] = step[<<f[k - 1], k>>]
           good == {m \in Nat : \E f \in [0..m -> S] : Run(f, m)}
<1>1. 0 \in good
  <2>1. [k \in 0..0 |-> start] \in [0..0 -> S] /\ Run([k \in 0..0 |-> start], 0)
    OBVIOUS
  <2> HIDE DEF Run
  <2> QED
    BY <2>1
<1>2. ASSUME NEW m \in Nat, m + 1 <= n, m \in good PROVE m + 1 \in good
  <2>1. PICK f \in [0..m -> S] : Run(f, m)
    BY <1>2
  <2> DEFINE g == [k \in 0..(m + 1) |-> IF k = m + 1 THEN step[<<f[m], m + 1>>] ELSE f[k]]
  <2>2. step[<<f[m], m + 1>>] \in S
    <3>1. f[m] \in S /\ m + 1 \in 1..n
      BY <1>2
    <3> QED
      BY <3>1
  <2>3. g \in [0..(m + 1) -> S]
    <3>1. ASSUME NEW k \in 0..(m + 1) PROVE g[k] \in S
      BY <2>2
    <3> QED
      BY <3>1
  <2>4. g[0] = start
    BY <2>1
  <2>5. ASSUME NEW k \in 1..(m + 1) PROVE g[k] = step[<<g[k - 1], k>>]
    <3>1. CASE k = m + 1
      <4>1. k - 1 = m /\ m \in 0..(m + 1) /\ m # m + 1 /\ m + 1 \in 0..(m + 1)
        BY <3>1
      <4>2. g[m] = f[m] /\ g[m + 1] = step[<<f[m], m + 1>>]
        BY <4>1, Zenon
      <4> HIDE DEF g
      <4> QED
        BY <3>1, <4>1, <4>2
    <3>2. CASE k \in 1..m
      <4>1. k - 1 \in 0..m /\ k \in 0..m /\ k # m + 1 /\ k - 1 # m + 1
        BY <3>2
      <4> QED
        BY <4>1, <2>1, <3>2
    <3> QED
      BY <3>1, <3>2
  <2> HIDE DEF g
  <2>6. Run(g, m + 1)
    BY <2>4, <2>5
  <2> HIDE DEF Run
  <2> QED
    BY <2>3, <2>6
<1> HIDE DEF good
<1>3. n \in good
  <2>1. \A m \in Nat : m + 1 <= n /\ m \in good => m + 1 \in good
    BY <1>2
  <2>2. \A m \in 0..n : m \in good
    BY <1>1, <2>1, Induct, Zenon
  <2> QED
    BY <2>2
<1> QED
  BY <1>3, Zenon DEF good, Runs

\* The sizes whose impact is computed and within the limit, and those whose
\* impact is computed and beyond it.
InLimit(p, t, limit, x) == GetPriceImpact(p, x, t).ok /\ AtMost(GetPriceImpact(p, x, t).val, limit)
Exceeds(p, t, limit, x) == GetPriceImpact(p, x, t).ok /\ ~AtMost(GetPriceImpact(p, x, t).val, limit)
Feasible(p, t, limit) == {x \in Nat : InLimit(p, t, limit, x)}
Excess(p, t, limit) == {x \in Nat : Exceeds(p, t, limit, x)}

\* What the search's window keeps: the best size so far is feasible and just
\* below the window, and the size just above the window is beyond the limit.
Windows(fit, over, cap) ==
  {s \in [lo : Nat, hi : Nat, best : Nat] :
     /\ s.lo >= 1 /\ s.lo <= s.hi + 1 /\ s.hi <= cap
     /\ s.best \in fit
     /\ s.hi < cap => s.hi + 1 \in over
     /\ s.lo = s.best + 1 \/ (s.lo = 1 /\ s.best = 1)}

\* How many sizes the window holds.
Width(s) == s.hi - s.lo + 1

\* The windows of a pool's search, and those it gets no further with: the
\* impact of the size in the middle fails.
WindowsFor(p, t, limit, cap) == Windows(Feasible(p, t, limit), Excess(p, t, limit), cap)
Stuck(p, t, s) == ~GetPriceImpact(p, Mid(s), t).ok

\* A round keeps that, and a window that is neither empty nor stuck shrinks.
LEMMA ProbeShrinks ==
  ASSUME NEW p, NEW t, NEW limit, NEW cap \in Nat, NEW s \in WindowsFor(p, t, limit, cap)
  PROVE  /\ Probe(p, t, limit, s) \in WindowsFor(p, t, limit, cap)
         /\ Width(Probe(p, t, limit, s)) \in Nat /\ Width(s) \in Nat
         /\ Width(s) > 0 /\ ~Stuck(p, t, s) => Width(Probe(p, t, limit, s)) < Width(s)
         /\ Width(s) = 0 \/ Stuck(p, t, s) => Probe(p, t, limit, s) = s
<1> DEFINE fit == Feasible(p, t, limit)
           over == Excess(p, t, limit)
           mid == Mid(s)
           n == Probe(p, t, limit, s)
<1>1. /\ s = [lo |-> s.lo, hi |-> s.hi, best |-> s.best]
      /\ s.lo \in Nat /\ s.hi \in Nat /\ s.best \in Nat /\ s.lo >= 1 /\ s.lo <= s.hi + 1 /\ s.hi <= cap
      /\ s.best \in fit /\ (s.hi < cap => s.hi + 1 \in over)
      /\ s.lo = s.best + 1 \/ (s.lo = 1 /\ s.best = 1)
  BY DEF Windows, WindowsFor
<1>2. Width(s) \in Nat /\ (Width(s) > 0 <=> s.lo <= s.hi)
  BY <1>1 DEF Width
<1>3. CASE s.lo > s.hi
  <2>1. n = s
    BY <1>3, Zenon DEF Probe
  <2>2. Width(s) = 0
    BY <1>1, <1>3 DEF Width
  <2> HIDE DEF n
  <2> QED
    BY <1>2, <2>1, <2>2 DEF n
<1>4. CASE s.lo <= s.hi /\ Stuck(p, t, s)
  <2>1. n = s
    BY <1>4, Zenon DEF Probe, Stuck
  <2>2. Width(s) > 0
    BY <1>2, <1>4
  <2> HIDE DEF n
  <2> QED
    BY <1>2, <1>4, <2>1, <2>2 DEF n
<1>5. CASE s.lo <= s.hi /\ ~Stuck(p, t, s)
  <2>1. mid \in Nat /\ s.lo <= mid /\ mid <= s.hi
    <3> DEFINE d == s.hi - s.lo
    <3>1. d \in Nat /\ s.hi = s.lo + d
      BY <1>1, <1>5
    <3>2. d \div 2 \in Nat /\ d \div 2 <= d
      <4> HIDE DEF d
      <4> QED
        BY <3>1
    <3> DEFINE h == d \div 2
    <3>3. mid = s.lo + h
      BY DEF Mid
    <3> HIDE DEF d, h, mid
    <3>4. h \in Nat /\ h <= d
      BY <3>2 DEF h
    <3> QED
      BY <1>1, <3>1, <3>3, <3>4
  <2>2. /\ GetPriceImpact(p, mid, t).ok
        /\ mid \in fit <=> AtMost(GetPriceImpact(p, mid, t).val, limit)
        /\ mid \in over <=> ~AtMost(GetPriceImpact(p, mid, t).val, limit)
    BY <1>5, <2>1, Zenon DEF Feasible, Excess, InLimit, Exceeds, Stuck
  <2>3. ~(s.lo > s.hi)
    BY <1>1, <1>5
  <2>4. CASE mid \in fit
    <3>1. n = [s EXCEPT !.lo = mid + 1, !.best = mid]
      BY <2>2, <2>3, <2>4, Zenon DEF Probe
    <3> HIDE DEF n, mid, fit, over
    <3>2. n = [lo |-> mid + 1, hi |-> s.hi, best |-> mid]
      BY <1>1, <3>1, Zenon
    <3>3. n \in Windows(fit, over, cap)
      BY <1>1, <2>1, <2>4, <3>2 DEF Windows
    <3>4. Width(n) \in Nat /\ Width(n) < Width(s)
      BY <1>1, <2>1, <3>2 DEF Width
    <3> QED
      BY <1>2, <1>5, <3>3, <3>4 DEF n, fit, over, WindowsFor
  <2>5. CASE mid \in over
    <3>1. n = [s EXCEPT !.hi = mid - 1]
      BY <2>2, <2>3, <2>5, Zenon DEF Probe
    <3> HIDE DEF n, mid, fit, over
    <3>2. n = [lo |-> s.lo, hi |-> mid - 1, best |-> s.best]
      BY <1>1, <3>1, Zenon
    <3>3. n \in Windows(fit, over, cap)
      BY <1>1, <2>1, <2>5, <3>2 DEF Windows
    <3>4. Width(n) \in Nat /\ Width(n) < Width(s)
      BY <1>1, <2>1, <3>2 DEF Width
    <3> QED
      BY <1>2, <1>5, <3>3, <3>4 DEF n, fit, over, WindowsFor
  <2> QED
    BY <2>2, <2>4, <2>5, Zenon
<1>6. s.lo > s.hi \/ s.lo <= s.hi
  BY <1>1
<1> QED
  BY <1>3, <1>4, <1>5, <1>6, Zenon

\* The windows of the search, one after each round.
WindowsOf(p, t, limit, cap) ==
  CHOOSE window : window = [k \in 0..cap |-> IF k = 0 THEN [lo |-> 1, hi |-> cap, best |-> 1]
                                             ELSE Probe(p, t, limit, window[k - 1])]

\* Each is what its round makes of the one before.
LEMMA WindowsRun ==
  ASSUME NEW p, NEW t, NEW limit, NEW cap \in Nat, 1 \in Feasible(p, t, limit)
  PROVE  /\ WindowsOf(p, t, limit, cap)[0] = [lo |-> 1, hi |-> cap, best |-> 1]
         /\ \A k \in 1..cap : WindowsOf(p, t, limit, cap)[k] = Probe(p, t, limit, WindowsOf(p, t, limit, cap)[k - 1])
<1> DEFINE S == WindowsFor(p, t, limit, cap)
           start == [lo |-> 1, hi |-> cap, best |-> 1]
           step == [q \in S \X (1..cap) |-> Probe(p, t, limit, q[1])]
           R(window) == window = [k \in 0..cap |-> IF k = 0 THEN start ELSE Probe(p, t, limit, window[k - 1])]
           w == WindowsOf(p, t, limit, cap)
<1>1. start \in S
  BY DEF Windows, WindowsFor
<1>2. step \in [S \X (1..cap) -> S]
  <2>1. \A q \in S \X (1..cap) : Probe(p, t, limit, q[1]) \in S
    BY ProbeShrinks
  <2> HIDE DEF S
  <2> QED
    BY <2>1
<1>3. \A s \in S, k \in 1..cap : step[<<s, k>>] = Probe(p, t, limit, s)
  <2> HIDE DEF S
  <2> QED
    OBVIOUS
<1> HIDE DEF S, start, step
<1>4. Runs(cap, S, start, step)
  BY <1>1, <1>2, LoopExists, Zenon
<1>5. PICK f \in [0..cap -> S] : f[0] = start /\ \A k \in 1..cap : f[k] = step[<<f[k - 1], k>>]
  BY <1>4, Zenon DEF Runs
<1>6. R(f)
  <2>1. ASSUME NEW k \in 0..cap
        PROVE  f[k] = IF k = 0 THEN start ELSE Probe(p, t, limit, f[k - 1])
    <3>1. CASE k = 0
      BY <1>5, <3>1
    <3>2. CASE k # 0
      <4>1. k \in 1..cap /\ k - 1 \in 0..cap
        BY <3>2
      <4>2. f[k - 1] \in S
        BY <4>1
      <4> QED
        BY <1>3, <1>5, <3>2, <4>1, <4>2, Zenon
    <3> QED
      BY <3>1, <3>2
  <2> QED
    BY <2>1
<1>7. R(w)
  <2>1. w = CHOOSE window : R(window)
    BY Zenon DEF WindowsOf, start
  <2> HIDE DEF R, w
  <2> QED
    BY <1>6, <2>1, Zenon
<1> HIDE DEF w
<1>8. w[0] = start
  <2>1. 0 \in 0..cap
    OBVIOUS
  <2> QED
    BY <1>7, <2>1, Zenon
<1>9. ASSUME NEW k \in 1..cap PROVE w[k] = Probe(p, t, limit, w[k - 1])
  <2>1. k \in 0..cap /\ k # 0
    OBVIOUS
  <2> QED
    BY <1>7, <2>1, Zenon
<1> QED
  BY <1>8, <1>9, Zenon DEF w, start

\* After as many rounds as the window was wide it is empty or stuck.
LEMMA SearchEnds ==
  ASSUME NEW p, NEW t, NEW limit, NEW cap \in Nat, 1 \in Feasible(p, t, limit)
  PROVE  /\ WindowsOf(p, t, limit, cap)[cap] \in WindowsFor(p, t, limit, cap)
         /\ \/ Width(WindowsOf(p, t, limit, cap)[cap]) = 0
            \/ Stuck(p, t, WindowsOf(p, t, limit, cap)[cap])
<1> DEFINE S == WindowsFor(p, t, limit, cap)
           w == WindowsOf(p, t, limit, cap)
           good == {k \in Nat : k <= cap => w[k] \in S /\ (Stuck(p, t, w[k]) \/ Width(w[k]) <= cap - k)}
<1>1. w[0] = [lo |-> 1, hi |-> cap, best |-> 1] /\ \A k \in 1..cap : w[k] = Probe(p, t, limit, w[k - 1])
  BY WindowsRun, Zenon
<1> HIDE DEF w
<1>2. 0 \in good
  <2>1. w[0] \in S
    BY <1>1 DEF Windows, WindowsFor
  <2>2. Width(w[0]) <= cap - 0
    BY <1>1 DEF Width
  <2> QED
    BY <2>1, <2>2
<1> HIDE DEF S
<1>3. ASSUME NEW k \in Nat, k + 1 <= cap, k \in good PROVE k + 1 \in good
  <2>1. w[k] \in S /\ (Stuck(p, t, w[k]) \/ Width(w[k]) <= cap - k)
    BY <1>3
  <2>2. w[k + 1] = Probe(p, t, limit, w[k])
    <3>1. k + 1 \in 1..cap /\ (k + 1) - 1 = k
      BY <1>3
    <3> QED
      BY <1>1, <3>1
  <2>3. /\ Probe(p, t, limit, w[k]) \in S /\ Width(w[k]) \in Nat /\ Width(Probe(p, t, limit, w[k])) \in Nat
        /\ Width(w[k]) > 0 /\ ~Stuck(p, t, w[k]) => Width(Probe(p, t, limit, w[k])) < Width(w[k])
        /\ Width(w[k]) = 0 \/ Stuck(p, t, w[k]) => Probe(p, t, limit, w[k]) = w[k]
    BY <2>1, ProbeShrinks, Zenon DEF S
  <2>4. w[k + 1] \in S
    BY <2>2, <2>3
  <2>5. Stuck(p, t, w[k + 1]) \/ Width(w[k + 1]) <= cap - (k + 1)
    <3>1. CASE Stuck(p, t, w[k])
      BY <2>2, <2>3, <3>1, Zenon
    <3>2. CASE Width(w[k]) > 0 /\ ~Stuck(p, t, w[k])
      BY <1>3, <2>1, <2>2, <2>3, <3>2
    <3>3. CASE Width(w[k]) = 0 /\ ~Stuck(p, t, w[k])
      BY <1>3, <2>1, <2>2, <2>3, <3>3
    <3> QED
      BY <2>3, <3>1, <3>2, <3>3
  <2> QED
    BY <2>4, <2>5
<1>4. cap \in good
  <2> HIDE DEF good
  <2>1. \A m \in 0..cap : m \in good
    BY <1>2, <1>3, Induct, Zenon
  <2> QED
    BY <2>1
<1>5. w[cap] \in S /\ (Stuck(p, t, w[cap]) \/ Width(w[cap]) <= 0)
  BY <1>4
<1>6. Width(w[cap]) \in Nat
  BY <1>5, ProbeShrinks, Zenon DEF S
<1> QED
  BY <1>5, <1>6 DEF S, w

\* The size that find_max_size_for_impact answers is within the impact limit,
\* and the next larger one is not, or is beyond half the reserve, whatever the
\* pool and the limit and though the integer impact is not monotone.  A size
\* whose impact fails on the way is returned as that failure.
THEOREM SearchFindsEdge ==
  ASSUME NEW T, NEW p \in Pools(T), NEW t \in {p.token0, p.token1}, NEW limit, NEW size,
         FindMaxSizeForImpact(p, t, limit) = Ok(size)
  PROVE  /\ size \in Nat /\ InLimit(p, t, limit, size)
         /\ \/ Exceeds(p, t, limit, size + 1)
            \/ size + 1 > ReserveIn(p, t) \div MAX_SWAP_RESERVE_DIVISOR
<1> DEFINE cap == ReserveIn(p, t) \div MAX_SWAP_RESERVE_DIVISOR
           fit == Feasible(p, t, limit)
           over == Excess(p, t, limit)
           end == WindowsOf(p, t, limit, cap)[cap]
<1>1. cap \in Nat
  <2>1. ReserveIn(p, t) \in Nat
    BY PoolParts, Zenon
  <2> QED
    BY <2>1 DEF MAX_SWAP_RESERVE_DIVISOR
<1>2. InLimit(p, t, limit, 1) /\ Search(p, t, limit, cap) = Ok(size)
  BY OkIsNotErr, Zenon DEF FindMaxSizeForImpact, InLimit
<1>3. 1 \in fit
  BY <1>2 DEF Feasible
<1> HIDE DEF cap
<1>4. /\ end \in WindowsFor(p, t, limit, cap)
      /\ Width(end) = 0 \/ Stuck(p, t, end)
  BY <1>1, <1>3, SearchEnds, Zenon
<1>5. /\ end.lo <= end.hi => GetPriceImpact(p, Mid(end), t) = Ok(size)
      /\ ~(end.lo <= end.hi) => Ok(end.best) = Ok(size)
  BY <1>2, Zenon DEF Search, WindowsOf
<1> HIDE DEF end
<1>6. /\ end.lo \in Nat /\ end.hi \in Nat /\ end.best \in Nat /\ end.hi <= cap
      /\ end.best \in fit /\ (end.hi < cap => end.hi + 1 \in over)
      /\ end.lo = end.best + 1 \/ (end.lo = 1 /\ end.best = 1)
      /\ end.lo <= end.hi + 1
  BY <1>4 DEF Windows, WindowsFor
<1>7. end.lo = end.hi + 1 /\ size = end.best
  <2>1. end.lo <= end.hi => ~Stuck(p, t, end)
    BY <1>5, OkIsNotErr, Zenon DEF Stuck
  <2>2. ~(end.lo <= end.hi)
    BY <1>4, <1>6, <2>1 DEF Width
  <2>3. size = end.best
    BY <1>5, <2>2, OkIsNotErr, Zenon
  <2> QED
    BY <1>6, <2>2, <2>3
<1> HIDE DEF fit, over
<1>8. size \in fit /\ size \in Nat /\ (size + 1 \in over \/ size + 1 > cap)
  <2>1. CASE end.lo = end.best + 1
    BY <1>1, <1>6, <1>7, <2>1
  <2>2. CASE end.lo = 1 /\ end.best = 1
    <3>1. end.hi = 0
      BY <1>6, <1>7, <2>2
    <3>2. 0 < cap => 1 \in over
      BY <1>6, <3>1
    <3>3. 1 \notin over
      BY <1>2, Zenon DEF over, Excess, InLimit, Exceeds
    <3> QED
      BY <1>1, <1>6, <1>7, <2>2, <3>2, <3>3
  <2> QED
    BY <1>6, <2>1, <2>2
<1> QED
  BY <1>8, Zenon DEF cap, fit, over, Feasible, Excess

-----------------------------------------------------------------------------
(* The walk of an order book. *)

\* The running total of a sequence of numbers.
Running(s) == CHOOSE sum : sum = [k \in 0..Len(s) |-> IF k = 0 THEN 0 ELSE sum[k - 1] + s[k]]

\* It starts at zero and each element is added to it.
LEMMA RunningAdds ==
  ASSUME NEW s \in Seq(Int)
  PROVE  /\ Running(s) \in [0..Len(s) -> Int] /\ Running(s)[0] = 0
         /\ \A k \in 1..Len(s) : Running(s)[k] = Running(s)[k - 1] + s[k]
<1> DEFINE n == Len(s)
           step == [p \in Int \X (1..n) |-> p[1] + s[p[2]]]
<1>1. n \in Nat /\ step \in [Int \X (1..n) -> Int] /\ 0 \in Int
  OBVIOUS
<1>2. PICK f \in [0..n -> Int] : f[0] = 0 /\ \A k \in 1..n : f[k] = step[<<f[k - 1], k>>]
  <2> HIDE DEF step, n
  <2>1. Runs(n, Int, 0, step)
    BY <1>1, LoopExists, Zenon
  <2> QED
    BY <2>1, Zenon DEF Runs
<1>3. ASSUME NEW k \in 1..n PROVE f[k] = f[k - 1] + s[k]
  <2>1. k - 1 \in 0..n
    OBVIOUS
  <2>2. <<f[k - 1], k>> \in Int \X (1..n)
    BY <2>1
  <2> QED
    BY <2>2, <1>2, Zenon
<1> DEFINE Sums(sum) == [k \in 0..n |-> IF k = 0 THEN 0 ELSE sum[k - 1] + s[k]]
<1>4. f = Sums(f)
  <2>1. ASSUME NEW k \in 0..n PROVE f[k] = IF k = 0 THEN 0 ELSE f[k - 1] + s[k]
    BY <1>2, <1>3
  <2> QED
    BY <2>1
<1>5. Running(s) = CHOOSE sum : sum = Sums(sum)
  BY DEF Running
<1>6. Running(s) = Sums(Running(s))
  <2> HIDE DEF Sums
  <2> QED
    BY <1>4, <1>5
<1> DEFINE r == Running(s)
<1>7. r = [k \in 0..n |-> IF k = 0 THEN 0 ELSE r[k - 1] + s[k]]
  BY <1>6, Zenon
<1> HIDE DEF r
<1>8. r[0] = 0 /\ \A k \in 1..n : r[k] = r[k - 1] + s[k]
  <2>1. 0 \in 0..n /\ \A k \in 1..n : k \in 0..n /\ k # 0
    BY <1>1
  <2> HIDE DEF n
  <2> QED
    BY <1>7, <2>1, Zenon
<1> DEFINE good == {m \in Nat : m <= n => r[m] \in Int}
<1>9. \A m \in 0..n : m \in good
  <2>1. 0 \in good
    BY <1>8
  <2>2. ASSUME NEW m \in Nat, m + 1 <= n, m \in good PROVE m + 1 \in good
    <3>1. r[m + 1] = r[m] + s[m + 1] /\ s[m + 1] \in Int
      <4>1. m + 1 \in 1..n /\ (m + 1) - 1 = m
        BY <2>2
      <4>2. r[m + 1] = r[(m + 1) - 1] + s[m + 1]
        BY <4>1, <1>8
      <4> QED
        BY <4>1, <4>2
    <3> QED
      BY <3>1, <2>2
  <2> HIDE DEF good
  <2> QED
    BY <1>1, <2>1, <2>2, Induct, Zenon
<1>10. r \in [0..n -> Int]
  <2>1. \A k \in 0..n : r[k] \in Int
    BY <1>9
  <2> QED
    BY <1>7, <2>1
<1> QED
  BY <1>8, <1>10 DEF r

\* SumOf is the last running total.
LEMMA SumIsRunning ==
  ASSUME NEW s PROVE SumOf(s) = Running(s)[Len(s)]
BY DEF SumOf, Running

\* A side of a book, and where a walk of it may be.
Sides == Seq([p : Nat, q : Nat])
Walks == [left : Nat, qty : Nat, cost : Nat, levels : Nat, fills : Seq([p : Nat, q : Nat])]
Outset(qty) == [left |-> qty, qty |-> 0, cost |-> 0, levels |-> 0, fills |-> <<>>]

\* The elements of a sequence.
LEMMA Elements ==
  ASSUME NEW S, NEW s \in Seq(S)
  PROVE  Len(s) \in Nat /\ DOMAIN s = 1..Len(s) /\ \A k \in 1..Len(s) : s[k] \in S
OBVIOUS

\* A list of elements is a sequence.
LEMMA MadeSeq ==
  ASSUME NEW S, NEW n \in Nat, NEW s \in [1..n -> S]
  PROVE  s \in Seq(S) /\ Len(s) = n
OBVIOUS

\* The walk after each level.
WalkOf(levels, qty) ==
  CHOOSE acc : acc = [k \in 0..Len(levels) |-> IF k = 0 THEN Outset(qty) ELSE Fill(acc[k - 1], levels[k])]

\* A level gives what is still wanted or all it has, at its price.
LEMMA FillTakes ==
  ASSUME NEW w \in Walks, NEW l \in [p : Nat, q : Nat]
  PROVE  /\ Fill(w, l) \in Walks
         /\ Smaller(w.left, l.q) \in Nat
         /\ Fill(w, l).left = w.left - Smaller(w.left, l.q)
         /\ Fill(w, l).qty = w.qty + Smaller(w.left, l.q)
         /\ Fill(w, l).cost = w.cost + Smaller(w.left, l.q) * l.p
<1> DEFINE m == Smaller(w.left, l.q)
<1>1. w.left \in Nat /\ w.qty \in Nat /\ w.cost \in Nat /\ w.levels \in Nat /\ l.q \in Nat /\ l.p \in Nat
      /\ w.fills \in Seq([p : Nat, q : Nat])
  BY DEF Walks
<1>2. m \in Nat /\ m <= w.left /\ m <= l.q
  BY <1>1 DEF Smaller
<1>3. CASE w.left <= 0
  <2>1. Fill(w, l) = w
    BY <1>3, Zenon DEF Fill
  <2>2. m = 0
    BY <1>1, <1>2, <1>3
  <2>3. m * l.p = 0
    BY <1>1, <2>2
  <2> QED
    BY <1>1, <2>1, <2>2, <2>3
<1>4. CASE ~(w.left <= 0)
  <2> DEFINE c == m * l.p
             new == [left |-> w.left - m, qty |-> w.qty + m, cost |-> w.cost + c, levels |-> w.levels + 1,
                     fills |-> Append(w.fills, [p |-> l.p, q |-> m])]
  <2>1. Fill(w, l) = new
    BY <1>4, Zenon DEF Fill, Smaller
  <2>2. c \in Nat
    BY <1>1, <1>2
  <2>3. Append(w.fills, [p |-> l.p, q |-> m]) \in Seq([p : Nat, q : Nat])
    BY <1>1, <1>2
  <2>4. new.left = w.left - m /\ new.qty = w.qty + m /\ new.cost = w.cost + c
    BY Zenon
  <2>5. new \in Walks
    <3> HIDE DEF c, m
    <3>1. w.left - m \in Nat /\ w.qty + m \in Nat /\ w.cost + c \in Nat /\ w.levels + 1 \in Nat
      BY <1>1, <1>2, <2>2
    <3> QED
      BY <2>3, <3>1 DEF Walks
  <2> HIDE DEF new
  <2> QED
    BY <1>2, <2>1, <2>4, <2>5
<1> QED
  BY <1>3, <1>4

\* A walk takes the levels one by one.
LEMMA WalkRuns ==
  ASSUME NEW levels \in Sides, NEW qty \in Nat
  PROVE  /\ WalkOf(levels, qty) \in [0..Len(levels) -> Walks]
         /\ WalkOf(levels, qty)[0] = Outset(qty)
         /\ \A k \in 1..Len(levels) :
              WalkOf(levels, qty)[k] = Fill(WalkOf(levels, qty)[k - 1], levels[k])
<1> DEFINE n == Len(levels)
           step == [s \in Walks \X (1..n) |-> Fill(s[1], levels[s[2]])]
<1>1. n \in Nat /\ \A k \in 1..n : levels[k] \in [p : Nat, q : Nat]
  BY Elements, Zenon DEF Sides
<1>2. Outset(qty) \in Walks
  BY DEF Outset, Walks
<1>3. step \in [Walks \X (1..n) -> Walks]
  <2>1. ASSUME NEW s \in Walks \X (1..n) PROVE Fill(s[1], levels[s[2]]) \in Walks
    <3>1. s[1] \in Walks /\ levels[s[2]] \in [p : Nat, q : Nat]
      BY <1>1
    <3> QED
      BY <3>1, FillTakes, Zenon
  <2> QED
    BY <2>1, Zenon
<1>4. PICK f \in [0..n -> Walks] : f[0] = Outset(qty) /\ \A k \in 1..n : f[k] = step[<<f[k - 1], k>>]
  <2> HIDE DEF step, n
  <2>1. Runs(n, Walks, Outset(qty), step)
    BY <1>1, <1>2, <1>3, LoopExists, Zenon
  <2> QED
    BY <2>1, Zenon DEF Runs
<1>5. ASSUME NEW k \in 1..n PROVE f[k] = Fill(f[k - 1], levels[k])
  <2>1. k - 1 \in 0..n
    BY <1>1
  <2>2. <<f[k - 1], k>> \in Walks \X (1..n)
    BY <2>1
  <2>3. <<f[k - 1], k>>[1] = f[k - 1] /\ <<f[k - 1], k>>[2] = k
    OBVIOUS
  <2>4. step[<<f[k - 1], k>>] = Fill(<<f[k - 1], k>>[1], levels[<<f[k - 1], k>>[2]])
    BY <2>2, Zenon
  <2> QED
    BY <1>4, <2>3, <2>4, Zenon
<1> DEFINE Next1(acc) == [k \in 0..n |-> IF k = 0 THEN Outset(qty) ELSE Fill(acc[k - 1], levels[k])]
<1>6. f = Next1(f)
  <2>1. ASSUME NEW k \in 0..n PROVE f[k] = IF k = 0 THEN Outset(qty) ELSE Fill(f[k - 1], levels[k])
    <3>1. CASE k = 0
      BY <1>4, <3>1, Zenon
    <3>2. CASE k # 0
      <4>1. k \in 1..n
        BY <1>1, <3>2
      <4> QED
        BY <1>5, <3>2, <4>1, Zenon
    <3> QED
      BY <3>1, <3>2
  <2> QED
    BY <2>1, Zenon
<1>7. WalkOf(levels, qty) = CHOOSE acc : acc = Next1(acc)
  BY Zenon DEF WalkOf
<1> DEFINE r == WalkOf(levels, qty)
<1>8. r = Next1(r)
  <2> HIDE DEF Next1
  <2> QED
    BY <1>6, <1>7
<1>9. r[0] = Outset(qty) /\ \A k \in 1..n : r[k] = Fill(r[k - 1], levels[k])
  <2>1. 0 \in 0..n /\ \A k \in 1..n : k \in 0..n /\ k # 0
    BY <1>1
  <2> HIDE DEF r, n
  <2> QED
    BY <1>8, <2>1, Zenon
<1> HIDE DEF r, step
<1> DEFINE good == {m \in Nat : m <= n => r[m] \in Walks}
<1>10. \A m \in 0..n : m \in good
  <2>1. 0 \in good
    BY <1>2, <1>9
  <2>2. ASSUME NEW m \in Nat, m + 1 <= n, m \in good PROVE m + 1 \in good
    <3>1. m + 1 \in 1..n /\ (m + 1) - 1 = m /\ r[m] \in Walks
      BY <1>1, <2>2
    <3>2. r[m + 1] = Fill(r[m], levels[m + 1])
      BY <1>9, <3>1
    <3>3. r[m + 1] \in Walks
      BY <1>1, <3>1, <3>2, FillTakes, Zenon
    <3> QED
      BY <3>3
  <2> HIDE DEF good, n
  <2> QED
    BY <1>1, <2>1, <2>2, Induct, Zenon
<1>11. r \in [0..n -> Walks]
  <2>1. \A k \in 0..n : r[k] \in Walks
    BY <1>10
  <2> HIDE DEF n
  <2> QED
    BY <1>8, <2>1, Zenon
<1> QED
  BY <1>9, <1>11 DEF r

\* What the walk takes from each level.
Taken(levels, qty) ==
  [k \in 1..Len(levels) |-> WalkOf(levels, qty)[k - 1].left - WalkOf(levels, qty)[k].left]

\* The totals of the walk are those of what it takes.
LEMMA WalkAmounts ==
  ASSUME NEW levels \in Sides, NEW qty \in Nat
  PROVE  LET n == Len(levels)
             r == WalkOf(levels, qty)
             w == Taken(levels, qty)
         IN /\ n \in Nat /\ w \in [1..n -> Nat]
            /\ \A k \in 0..n : r[k].left \in Nat /\ r[k].qty \in Nat /\ r[k].cost \in Nat
            /\ r[0].left = qty /\ r[0].qty = 0 /\ r[0].cost = 0
            /\ \A k \in 1..n :
                 /\ levels[k].p \in Nat /\ levels[k].q \in Nat /\ k - 1 \in 0..n
                 /\ w[k] = Smaller(r[k - 1].left, levels[k].q)
                 /\ r[k].left = r[k - 1].left - w[k]
                 /\ r[k].qty = r[k - 1].qty + w[k]
                 /\ r[k].cost = r[k - 1].cost + w[k] * levels[k].p
<1> DEFINE n == Len(levels)
           r == WalkOf(levels, qty)
           w == Taken(levels, qty)
<1>1. n \in Nat /\ \A k \in 1..n : levels[k] \in [p : Nat, q : Nat]
  BY Elements, Zenon DEF Sides
<1>2. /\ r \in [0..n -> Walks] /\ r[0] = Outset(qty)
      /\ \A k \in 1..n : r[k] = Fill(r[k - 1], levels[k])
  BY WalkRuns, Zenon
<1>3. w = [k \in 1..n |-> r[k - 1].left - r[k].left]
  BY Zenon DEF Taken
<1> HIDE DEF r, w, n
<1>4. \A k \in 0..n : r[k].left \in Nat /\ r[k].qty \in Nat /\ r[k].cost \in Nat
  BY <1>2 DEF Walks
<1>5. r[0].left = qty /\ r[0].qty = 0 /\ r[0].cost = 0
  BY <1>2 DEF Outset
<1>6. ASSUME NEW k \in 1..n
      PROVE  /\ levels[k].p \in Nat /\ levels[k].q \in Nat /\ k - 1 \in 0..n
             /\ w[k] = Smaller(r[k - 1].left, levels[k].q) /\ w[k] \in Nat
             /\ r[k].left = r[k - 1].left - w[k]
             /\ r[k].qty = r[k - 1].qty + w[k]
             /\ r[k].cost = r[k - 1].cost + w[k] * levels[k].p
  <2>1. levels[k].p \in Nat /\ levels[k].q \in Nat
    BY <1>1
  <2>2. k - 1 \in 0..n /\ k \in 0..n
    BY <1>1
  <2>3. r[k - 1] \in Walks
    BY <1>2, <2>2, Zenon
  <2> DEFINE m == Smaller(r[k - 1].left, levels[k].q)
  <2>4. m \in Nat /\ r[k].left = r[k - 1].left - m /\ r[k].qty = r[k - 1].qty + m
        /\ r[k].cost = r[k - 1].cost + m * levels[k].p
    <3>1. levels[k] \in [p : Nat, q : Nat] /\ r[k] = Fill(r[k - 1], levels[k])
      BY <1>1, <1>2, Zenon
    <3> DEFINE before == r[k - 1]
               level == levels[k]
    <3> HIDE DEF before, level
    <3>2. /\ Smaller(before.left, level.q) \in Nat
          /\ Fill(before, level).left = before.left - Smaller(before.left, level.q)
          /\ Fill(before, level).qty = before.qty + Smaller(before.left, level.q)
          /\ Fill(before, level).cost = before.cost + Smaller(before.left, level.q) * level.p
      BY <2>3, <3>1, FillTakes, Zenon DEF before, level
    <3> QED
      BY <3>1, <3>2, Zenon DEF before, level
  <2> HIDE DEF m
  <2>5. w[k] = r[k - 1].left - r[k].left
    BY <1>3, Zenon
  <2>6. w[k] = m
    BY <1>4, <2>2, <2>4, <2>5
  <2> QED
    BY <2>1, <2>2, <2>4, <2>6, Zenon DEF m
<1>7. w \in [1..n -> Nat]
  BY <1>3, <1>6, Zenon
<1> QED
  BY <1>1, <1>4, <1>5, <1>6, <1>7, Zenon DEF r, w, n

\* A set of numbers has a least one.
LEMMA Least ==
  ASSUME NEW Z, Z \subseteq Nat, Z # {} PROVE \E m \in Z : \A k \in Z : m <= k
<1>1. PICK m \in Z : \A k \in Z : ~(<<k, m>> \in OpToRel(<, Nat))
  BY NatLessThanWellFounded, WFMin, Zenon
<1>2. ASSUME NEW k \in Z, k < m PROVE FALSE
  <2>1. <<k, m>> \in OpToRel(<, Nat)
    BY <1>2, Zenon DEF OpToRel
  <2> QED
    BY <1>1, <2>1, Zenon
<1>3. \A k \in Z : m <= k
  BY <1>2
<1> QED
  BY <1>3

\* What is wanted never grows.
LEMMA LeftFalls ==
  ASSUME NEW n \in Nat, NEW left, \A k \in 0..n : left[k] \in Nat,
         \A k \in 1..n : left[k] <= left[k - 1], NEW i \in 0..n, NEW j \in 0..n, i <= j
  PROVE  left[j] <= left[i]
<1> DEFINE good == {m \in Nat : i <= m /\ m <= n => left[m] <= left[i]}
<1>1. 0 \in good
  OBVIOUS
<1>2. ASSUME NEW m \in Nat, m + 1 <= n, m \in good PROVE m + 1 \in good
  <2>1. CASE i <= m
    <3>1. m + 1 \in 1..n /\ (m + 1) - 1 = m /\ m \in 0..n /\ m + 1 \in 0..n
      BY <1>2
    <3>2. left[m + 1] <= left[m]
      BY <3>1
    <3>3. left[m] <= left[i] /\ left[m] \in Nat /\ left[m + 1] \in Nat /\ left[i] \in Nat
      BY <1>2, <2>1, <3>1
    <3> QED
      BY <3>2, <3>3
  <2>2. CASE ~(i <= m)
    <3>1. CASE i = m + 1
      BY <3>1
    <3>2. CASE i # m + 1
      <4>1. ~(i <= m + 1)
        BY <2>2, <3>2
      <4> QED
        BY <4>1
    <3> QED
      BY <3>1, <3>2
  <2> QED
    BY <2>1, <2>2
<1>3. j \in good
  <2> HIDE DEF good
  <2>1. \A m \in 0..n : m \in good
    BY <1>1, <1>2, Induct, Zenon
  <2> QED
    BY <2>1, Zenon
<1> QED
  BY <1>3

\* Where the walk stops: levels taken from are no dearer than some price, and
\* levels not emptied no cheaper, when the prices rise.
Stops(n, u, q, w) ==
  \E x \in Int : \A k \in 1..n : (w[k] > 0 => u[k] <= x) /\ (w[k] < q[k] => x <= u[k])

\* There is such a price.
LEMMA WalkStops ==
  ASSUME NEW n \in Nat, NEW left, NEW q, NEW w, NEW u,
         \A k \in 0..n : left[k] \in Nat, \A k \in 1..n : u[k] \in Int /\ q[k] \in Nat,
         \A k \in 1..n : k - 1 \in 0..n /\ w[k] = Smaller(left[k - 1], q[k]) /\ left[k] = left[k - 1] - w[k],
         \A i, j \in 1..n : i < j => u[i] <= u[j]
  PROVE  Stops(n, u, q, w)
<1> DEFINE Z == {k \in Nat : k <= n /\ left[k] = 0}
<1>1. ASSUME NEW k \in 1..n
      PROVE  /\ w[k] \in Nat /\ w[k] <= q[k] /\ left[k] <= left[k - 1]
             /\ w[k] > 0 => left[k - 1] # 0
             /\ w[k] < q[k] => left[k] = 0
  <2>1. w[k] = Smaller(left[k - 1], q[k]) /\ left[k] = left[k - 1] - w[k]
    OBVIOUS
  <2>2. left[k - 1] \in Nat /\ q[k] \in Nat
    OBVIOUS
  <2> QED
    BY <2>1, <2>2 DEF Smaller
<1>2. \A i, j \in 0..n : i <= j => left[j] <= left[i]
  BY <1>1, LeftFalls, Zenon
<1>3. \A i, j \in 1..n : i <= j => u[i] <= u[j]
  OBVIOUS
<1>4. CASE n = 0
  <2>1. \A k \in 1..n : (w[k] > 0 => u[k] <= 0) /\ (w[k] < q[k] => 0 <= u[k])
    BY <1>4
  <2>2. 0 \in Int
    OBVIOUS
  <2> QED
    BY <2>1, <2>2, Zenon DEF Stops
<1>5. CASE n # 0 /\ Z = {}
  <2>1. n \in 1..n /\ u[n] \in Int
    BY <1>5
  <2>2. ASSUME NEW k \in 1..n PROVE u[k] <= u[n] /\ ~(w[k] < q[k])
    <3>1. u[k] <= u[n]
      BY <1>3, <2>1
    <3>2. left[k] # 0
      BY <1>5
    <3> QED
      BY <1>1, <3>1, <3>2
  <2> QED
    BY <2>1, <2>2, Zenon DEF Stops
<1>6. CASE n # 0 /\ Z # {}
  <2>1. PICK m \in Z : \A k \in Z : m <= k
    BY <1>6, Least, Zenon
  <2>2. m \in 0..n /\ left[m] = 0
    BY <2>1
  <2> HIDE DEF Z
  <2>3. ASSUME NEW k \in 1..n PROVE (w[k] > 0 => k <= m) /\ (w[k] < q[k] => m <= k)
    <3>1. ASSUME w[k] > 0 PROVE k <= m
      <4>1. left[k - 1] # 0 /\ k - 1 \in 0..n /\ left[k - 1] \in Nat
        BY <1>1, <3>1
      <4>2. ~(m <= k - 1)
        <5>1. m <= k - 1 => left[k - 1] <= left[m]
          BY <1>2, <2>2, <4>1
        <5> QED
          BY <2>2, <4>1, <5>1
      <4> QED
        BY <2>2, <4>2
    <3>2. ASSUME w[k] < q[k] PROVE m <= k
      <4>1. k \in Z
        BY <1>1, <3>2 DEF Z
      <4> QED
        BY <2>1, <4>1
    <3> QED
      BY <3>1, <3>2
  <2>4. CASE m = 0
    <3>1. 1 \in 1..n /\ u[1] \in Int
      BY <1>6
    <3>2. ASSUME NEW k \in 1..n PROVE ~(w[k] > 0) /\ u[1] <= u[k]
      <4>1. u[1] <= u[k]
        BY <1>3, <3>1
      <4>2. ~(k <= m)
        BY <2>4
      <4> QED
        BY <2>3, <4>1, <4>2
    <3> QED
      BY <3>1, <3>2, Zenon DEF Stops
  <2>5. CASE m # 0
    <3>1. m \in 1..n /\ u[m] \in Int
      BY <2>2, <2>5
    <3>2. ASSUME NEW k \in 1..n PROVE (w[k] > 0 => u[k] <= u[m]) /\ (w[k] < q[k] => u[m] <= u[k])
      BY <1>3, <2>3, <3>1
    <3> QED
      BY <3>1, <3>2, Zenon DEF Stops
  <2> QED
    BY <2>4, <2>5
<1> QED
  BY <1>4, <1>5, <1>6

\* A different amount of one level costs no less, at the difference to x.
LEMMA LevelCost ==
  ASSUME NEW q \in Nat, NEW w \in Nat, NEW t \in Nat, NEW u \in Int, NEW x \in Int,
         t <= q, w <= q, w > 0 => u <= x, w < q => x <= u
  PROVE  w * u - x * w <= t * u - x * t
<1>1. CASE w = q /\ w > 0
  <2>1. w - t \in Nat /\ x - u \in Nat
    BY <1>1
  <2>2. (w - t) * (x - u) \in Nat
    BY <2>1
  <2>3. (w - t) * (x - u) = (t * u - x * t) - (w * u - x * w)
    OBVIOUS
  <2> QED
    BY <2>2, <2>3
<1>2. CASE w = q /\ w = 0
  <2>1. t = w
    BY <1>2
  <2> QED
    BY <2>1
<1>3. CASE w < q /\ w > 0
  <2>1. u = x
    BY <1>3
  <2>2. w * x = x * w /\ t * x = x * t
    OBVIOUS
  <2> QED
    BY <2>1, <2>2
<1>4. CASE w < q /\ w = 0
  <2>1. u - x \in Nat
    BY <1>4
  <2>2. t * (u - x) \in Nat
    BY <2>1
  <2>3. t * (u - x) = t * u - x * t
    OBVIOUS
  <2>4. w * u - x * w = 0
    BY <1>4
  <2>5. t * u \in Int /\ x * t \in Int
    OBVIOUS
  <2> QED
    BY <2>2, <2>3, <2>4, <2>5
<1> QED
  BY <1>1, <1>2, <1>3, <1>4

\* Amounts within the levels', and the running cost c and amount s of taking them.
Within(n, q, w) == \A k \in 1..n : w[k] \in Nat /\ q[k] \in Nat /\ w[k] <= q[k]
Tally(n, u, w, c, s) ==
  /\ c \in [0..n -> Int] /\ s \in [0..n -> Int] /\ c[0] = 0 /\ s[0] = 0
  /\ \A k \in 1..n : c[k] = c[k - 1] + w[k] * u[k] /\ s[k] = s[k - 1] + w[k]

\* So no other way of taking the same amount costs less.
LEMMA NoCheaper ==
  ASSUME NEW n \in Nat, NEW u, NEW q, NEW w, NEW t, NEW cw, NEW ct, NEW sw, NEW st, Stops(n, u, q, w),
         \A k \in 1..n : u[k] \in Int, Within(n, q, w), Within(n, q, t),
         Tally(n, u, w, cw, sw), Tally(n, u, t, ct, st), sw[n] = st[n]
  PROVE  cw[n] <= ct[n]
<1>0. /\ cw \in [0..n -> Int] /\ sw \in [0..n -> Int] /\ ct \in [0..n -> Int] /\ st \in [0..n -> Int]
      /\ cw[0] = 0 /\ sw[0] = 0 /\ ct[0] = 0 /\ st[0] = 0
      /\ \A k \in 1..n : /\ cw[k] = cw[k - 1] + w[k] * u[k] /\ sw[k] = sw[k - 1] + w[k]
                         /\ ct[k] = ct[k - 1] + t[k] * u[k] /\ st[k] = st[k - 1] + t[k]
                         /\ q[k] \in Nat /\ w[k] \in Nat /\ t[k] \in Nat /\ w[k] <= q[k] /\ t[k] <= q[k]
  BY Zenon DEF Tally, Within
<1>1. PICK x \in Int : \A k \in 1..n : (w[k] > 0 => u[k] <= x) /\ (w[k] < q[k] => x <= u[k])
  BY Zenon DEF Stops
<1> DEFINE good == {m \in Nat : m <= n => cw[m] - x * sw[m] <= ct[m] - x * st[m]}
<1>2. 0 \in good
  BY <1>0
<1>3. ASSUME NEW m \in Nat, m + 1 <= n, m \in good PROVE m + 1 \in good
  <2> DEFINE k == m + 1
  <2>1. k \in 1..n /\ k - 1 = m /\ m \in 0..n /\ k \in 0..n
    BY <1>3
  <2>2. cw[m] - x * sw[m] <= ct[m] - x * st[m]
    BY <1>3
  <2> HIDE DEF k
  <2>3. /\ cw[k] = cw[m] + w[k] * u[k] /\ ct[k] = ct[m] + t[k] * u[k]
        /\ sw[k] = sw[m] + w[k] /\ st[k] = st[m] + t[k]
    BY <1>0, <2>1, Zenon
  <2>4. w[k] * u[k] - x * w[k] <= t[k] * u[k] - x * t[k]
    BY <1>0, <1>1, <2>1, LevelCost, Zenon
  <2>5. /\ cw[m] \in Int /\ ct[m] \in Int /\ sw[m] \in Int /\ st[m] \in Int
        /\ w[k] \in Int /\ t[k] \in Int /\ u[k] \in Int
    <3>1. /\ cw[m] \in Int /\ ct[m] \in Int /\ sw[m] \in Int /\ st[m] \in Int
          /\ w[k] \in Nat /\ t[k] \in Nat /\ u[k] \in Int
      BY <1>0, <2>1, Zenon
    <3> QED
      BY <3>1
  <2>6. x * sw[k] = x * sw[m] + x * w[k] /\ x * st[k] = x * st[m] + x * t[k]
    BY <2>3, <2>5
  <2> DEFINE a == x * sw[m]
             b == x * st[m]
             c == w[k] * u[k]
             d == t[k] * u[k]
             e == x * w[k]
             f == x * t[k]
  <2>7. a \in Int /\ b \in Int /\ c \in Int /\ d \in Int /\ e \in Int /\ f \in Int
    BY <2>5
  <2> HIDE DEF a, b, c, d, e, f
  <2>8. cw[m] - a <= ct[m] - b /\ c - e <= d - f /\ x * sw[k] = a + e /\ x * st[k] = b + f
        /\ cw[k] = cw[m] + c /\ ct[k] = ct[m] + d
    BY <2>2, <2>3, <2>4, <2>6, Zenon DEF a, b, c, d, e, f
  <2>9. cw[k] - x * sw[k] <= ct[k] - x * st[k]
    BY <2>5, <2>7, <2>8
  <2> QED
    BY <2>1, <2>9 DEF k
<1>4. n \in good
  <2> HIDE DEF good
  <2>1. \A m \in 0..n : m \in good
    BY <1>2, <1>3, Induct, Zenon
  <2> QED
    BY <2>1
<1>5. cw[n] - x * sw[n] <= ct[n] - x * sw[n]
  BY <1>4
<1>6. cw[n] \in Int /\ ct[n] \in Int /\ x * sw[n] \in Int
  BY <1>0
<1> QED
  BY <1>5, <1>6

\* The ways of taking an amount from the levels, and what each costs.
Picks(levels, amount) ==
  {take \in [1..Len(levels) -> Nat] :
     (\A k \in 1..Len(levels) : take[k] <= levels[k].q) /\ SumOf(take) = amount}
CostOf(levels, take) == SumOf([k \in 1..Len(levels) |-> take[k] * levels[k].p])
DepthOf(levels) == SumOf([k \in 1..Len(levels) |-> levels[k].q])

\* A list of numbers and its running total.
LEMMA Totals ==
  ASSUME NEW n \in Nat, NEW s \in [1..n -> Int]
  PROVE  /\ Running(s) \in [0..n -> Int] /\ Running(s)[0] = 0 /\ SumOf(s) = Running(s)[n]
         /\ \A k \in 1..n : Running(s)[k] = Running(s)[k - 1] + s[k]
<1>1. s \in Seq(Int) /\ Len(s) = n
  BY MadeSeq, Zenon
<1>2. SumOf(s) = Running(s)[Len(s)]
  BY SumIsRunning, Zenon
<1> QED
  BY <1>1, <1>2, RunningAdds, Zenon

\* A total is determined by its steps.
LEMMA SameTotal ==
  ASSUME NEW n \in Nat, NEW s \in [1..n -> Int], NEW f, f[0] = 0,
         \A k \in 1..n : k - 1 \in 0..n /\ f[k] = f[k - 1] + s[k]
  PROVE  f[n] = SumOf(s)
<1> DEFINE r == Running(s)
<1>1. r[0] = 0 /\ SumOf(s) = r[n] /\ \A k \in 1..n : r[k] = r[k - 1] + s[k]
  BY Totals, Zenon
<1> HIDE DEF r
<1> DEFINE good == {m \in Nat : m <= n => f[m] = r[m]}
<1>2. 0 \in good
  BY <1>1
<1>3. ASSUME NEW m \in Nat, m + 1 <= n, m \in good PROVE m + 1 \in good
  <2>1. m + 1 \in 1..n /\ (m + 1) - 1 = m /\ f[m] = r[m]
    BY <1>3
  <2>2. f[m + 1] = f[(m + 1) - 1] + s[m + 1] /\ r[m + 1] = r[(m + 1) - 1] + s[m + 1]
    BY <1>1, <2>1, Zenon
  <2>3. f[m + 1] = r[m + 1]
    BY <2>1, <2>2
  <2> QED
    BY <2>3
<1>4. n \in good
  <2> HIDE DEF good
  <2>1. \A m \in 0..n : m \in good
    BY <1>2, <1>3, Induct, Zenon
  <2> QED
    BY <2>1
<1> QED
  BY <1>1, <1>4

\* The walk takes all there is or all that is wanted.
LEMMA WalkFills ==
  ASSUME NEW levels \in Sides, NEW qty \in Nat, NEW end, end = WalkOf(levels, qty)[Len(levels)]
  PROVE  /\ end.left \in Nat /\ end.qty \in Nat /\ end.cost \in Nat
         /\ end.qty + end.left = qty /\ DepthOf(levels) \in Int
         /\ end.qty = Smaller(qty, DepthOf(levels))
<1> DEFINE n == Len(levels)
           r == WalkOf(levels, qty)
           w == Taken(levels, qty)
           s == [k \in 1..n |-> levels[k].q]
           d == Running(s)
<1>1. /\ n \in Nat /\ w \in [1..n -> Nat]
      /\ \A k \in 0..n : r[k].left \in Nat /\ r[k].qty \in Nat /\ r[k].cost \in Nat
      /\ r[0].left = qty /\ r[0].qty = 0
      /\ \A k \in 1..n :
           /\ levels[k].q \in Nat /\ k - 1 \in 0..n
           /\ w[k] = Smaller(r[k - 1].left, levels[k].q)
           /\ r[k].left = r[k - 1].left - w[k]
           /\ r[k].qty = r[k - 1].qty + w[k]
  BY WalkAmounts, Zenon
<1>2. s \in [1..n -> Int] /\ \A k \in 1..n : s[k] = levels[k].q
  BY <1>1
<1> HIDE DEF s, w, r, n
<1>3. /\ d \in [0..n -> Int] /\ d[0] = 0 /\ SumOf(s) = d[n]
      /\ \A k \in 1..n : d[k] = d[k - 1] + s[k]
  BY <1>1, <1>2, Totals, Zenon
<1> HIDE DEF d
<1> DEFINE good == {m \in Nat : m <= n => /\ d[m] \in Nat /\ r[m].qty + r[m].left = qty
                                          /\ r[m].qty = Smaller(qty, d[m])}
<1>4. 0 \in good
  BY <1>1, <1>3 DEF Smaller
<1>5. ASSUME NEW m \in Nat, m + 1 <= n, m \in good PROVE m + 1 \in good
  <2> DEFINE k == m + 1
  <2>1. k \in 1..n /\ k - 1 = m /\ m \in 0..n /\ k \in 0..n
    BY <1>1, <1>5
  <2>2. d[m] \in Nat /\ r[m].qty + r[m].left = qty /\ r[m].qty = Smaller(qty, d[m])
    BY <1>5, <2>1
  <2> HIDE DEF k
  <2>3. /\ w[k] = Smaller(r[m].left, levels[k].q) /\ r[k].left = r[m].left - w[k]
        /\ r[k].qty = r[m].qty + w[k] /\ d[k] = d[m] + levels[k].q
        /\ levels[k].q \in Nat /\ r[m].left \in Nat /\ r[m].qty \in Nat
    BY <1>1, <1>2, <1>3, <2>1, Zenon
  <2>4. d[k] \in Nat /\ r[k].qty + r[k].left = qty /\ r[k].qty = Smaller(qty, d[k])
    BY <2>2, <2>3 DEF Smaller
  <2> QED
    BY <2>1, <2>4 DEF k
<1>6. n \in good
  <2> HIDE DEF good
  <2>1. \A m \in 0..n : m \in good
    BY <1>1, <1>4, <1>5, Induct, Zenon
  <2> QED
    BY <1>1, <2>1
<1>7. d[n] \in Nat /\ r[n].qty + r[n].left = qty /\ r[n].qty = Smaller(qty, d[n])
  BY <1>1, <1>6
<1>8. end = r[n] /\ DepthOf(levels) = d[n]
  BY <1>3, Zenon DEF DepthOf, r, n, s
<1>9. n \in 0..n
  BY <1>1
<1> QED
  BY <1>1, <1>7, <1>8, <1>9

\* What the walk takes is one of the ways, at the walk's cost.
LEMMA WalkIsPick ==
  ASSUME NEW levels \in Sides, NEW qty \in Nat, NEW end, end = WalkOf(levels, qty)[Len(levels)]
  PROVE  /\ Taken(levels, qty) \in Picks(levels, end.qty)
         /\ CostOf(levels, Taken(levels, qty)) = end.cost
<1> DEFINE n == Len(levels)
           r == WalkOf(levels, qty)
           w == Taken(levels, qty)
           s == [k \in 1..n |-> w[k] * levels[k].p]
           fq == [k \in 0..n |-> r[k].qty]
           fc == [k \in 0..n |-> r[k].cost]
<1>1. /\ n \in Nat /\ w \in [1..n -> Nat]
      /\ \A k \in 0..n : r[k].left \in Nat /\ r[k].qty \in Nat /\ r[k].cost \in Nat
      /\ r[0].qty = 0 /\ r[0].cost = 0
      /\ \A k \in 1..n :
           /\ levels[k].p \in Nat /\ levels[k].q \in Nat /\ k - 1 \in 0..n
           /\ w[k] = Smaller(r[k - 1].left, levels[k].q)
           /\ r[k].qty = r[k - 1].qty + w[k]
           /\ r[k].cost = r[k - 1].cost + w[k] * levels[k].p
  BY WalkAmounts, Zenon
<1> HIDE DEF w, r, n
<1>2. 0 \in 0..n /\ n \in 0..n /\ \A k \in 1..n : k \in 0..n
  BY <1>1
<1>3. SumOf(w) = r[n].qty
  <2>1. w \in [1..n -> Int]
    BY <1>1
  <2>2. fq[0] = 0 /\ \A k \in 1..n : k - 1 \in 0..n /\ fq[k] = fq[k - 1] + w[k]
    BY <1>1, <1>2, Zenon
  <2>3. fq[n] = r[n].qty
    BY <1>2, Zenon
  <2> HIDE DEF fq
  <2>4. fq[n] = SumOf(w)
    BY <1>1, <2>1, <2>2, SameTotal, Zenon
  <2> QED
    BY <2>3, <2>4, Zenon
<1>4. SumOf(s) = r[n].cost
  <2>1. s \in [1..n -> Int] /\ \A k \in 1..n : s[k] = w[k] * levels[k].p
    <3>1. \A k \in 1..n : w[k] * levels[k].p \in Int
      BY <1>1
    <3> QED
      BY <3>1, Zenon
  <2> HIDE DEF s
  <2>2. fc[0] = 0 /\ \A k \in 1..n : k - 1 \in 0..n /\ fc[k] = fc[k - 1] + s[k]
    BY <1>1, <1>2, <2>1, Zenon
  <2>3. fc[n] = r[n].cost
    BY <1>2, Zenon
  <2> HIDE DEF fc
  <2>4. fc[n] = SumOf(s)
    BY <1>1, <2>1, <2>2, SameTotal, Zenon
  <2> QED
    BY <2>3, <2>4, Zenon
<1>5. ASSUME NEW k \in 1..n PROVE w[k] <= levels[k].q
  <2>1. /\ w[k] = Smaller(r[k - 1].left, levels[k].q)
        /\ r[k - 1].left \in Nat /\ levels[k].q \in Nat
    BY <1>1, Zenon
  <2> QED
    BY <2>1 DEF Smaller
<1>6. w \in Picks(levels, end.qty)
  BY <1>1, <1>3, <1>5, Zenon DEF Picks, r, n
<1>7. CostOf(levels, w) = end.cost
  BY <1>4, Zenon DEF CostOf, r, n
<1> QED
  BY <1>6, <1>7, Zenon DEF w

\* Levels are listed best price first.
BestFirst(side, levels) ==
  \A i, j \in 1..Len(levels) :
    i < j => IF side = "buy" THEN levels[i].p <= levels[j].p ELSE levels[j].p <= levels[i].p

\* No way of taking what the walk takes is better.
LEMMA WalkIsOptimal ==
  ASSUME NEW side \in {"buy", "sell"}, NEW levels \in Sides, BestFirst(side, levels), NEW qty \in Nat,
         NEW end, end = WalkOf(levels, qty)[Len(levels)], NEW t \in Picks(levels, end.qty)
  PROVE  /\ CostOf(levels, t) \in Int
         /\ IF side = "buy" THEN end.cost <= CostOf(levels, t) ELSE CostOf(levels, t) <= end.cost
<1> DEFINE n == Len(levels)
           r == WalkOf(levels, qty)
           w == Taken(levels, qty)
           q == [k \in 1..n |-> levels[k].q]
           p == [k \in 1..n |-> levels[k].p]
           s == [k \in 1..n |-> t[k] * levels[k].p]
           left == [k \in 0..n |-> r[k].left]
           sw == [k \in 0..n |-> r[k].qty]
           cw == [k \in 0..n |-> r[k].cost]
           st == Running(t)
           ct == Running(s)
<1>1. /\ n \in Nat /\ w \in [1..n -> Nat]
      /\ \A k \in 0..n : r[k].left \in Nat /\ r[k].qty \in Nat /\ r[k].cost \in Nat
      /\ r[0].qty = 0 /\ r[0].cost = 0
      /\ \A k \in 1..n :
           /\ levels[k].p \in Nat /\ levels[k].q \in Nat /\ k - 1 \in 0..n
           /\ w[k] = Smaller(r[k - 1].left, levels[k].q)
           /\ r[k].left = r[k - 1].left - w[k]
           /\ r[k].qty = r[k - 1].qty + w[k]
           /\ r[k].cost = r[k - 1].cost + w[k] * levels[k].p
  BY WalkAmounts, Zenon
<1>2. t \in [1..n -> Nat] /\ (\A k \in 1..n : t[k] <= levels[k].q) /\ SumOf(t) = end.qty
  BY Zenon DEF Picks
<1>3. end = r[n] /\ CostOf(levels, t) = SumOf(s)
  BY Zenon DEF CostOf
<1>4. \A i, j \in 1..n : i < j => IF side = "buy" THEN levels[i].p <= levels[j].p
                                  ELSE levels[j].p <= levels[i].p
  BY Zenon DEF BestFirst
<1> HIDE DEF n, r, w
<1>5. 0 \in 0..n /\ n \in 0..n /\ \A k \in 1..n : k \in 0..n /\ k - 1 \in 0..n
  BY <1>1
<1>6. /\ \A k \in 1..n : q[k] = levels[k].q /\ p[k] = levels[k].p /\ s[k] = t[k] * levels[k].p
      /\ \A k \in 0..n : left[k] = r[k].left /\ sw[k] = r[k].qty /\ cw[k] = r[k].cost
  BY Zenon
<1>7. s \in [1..n -> Int] /\ t \in [1..n -> Int]
  <2>1. ASSUME NEW k \in 1..n PROVE t[k] * levels[k].p \in Int
    <3>1. t[k] \in Nat /\ levels[k].p \in Nat
      BY <1>1, <1>2, Zenon
    <3> QED
      BY <3>1
  <2>2. t \in [1..n -> Int]
    BY <1>2
  <2> QED
    BY <2>1, <2>2, Zenon
<1>8. sw \in [0..n -> Int] /\ cw \in [0..n -> Int]
  BY <1>1
<1> HIDE DEF q, p, s, left, sw, cw
<1>9. /\ st \in [0..n -> Int] /\ st[0] = 0 /\ SumOf(t) = st[n]
      /\ \A k \in 1..n : st[k] = st[k - 1] + t[k]
  BY <1>1, <1>7, Totals, Zenon
<1>10. /\ ct \in [0..n -> Int] /\ ct[0] = 0 /\ SumOf(s) = ct[n]
       /\ \A k \in 1..n : ct[k] = ct[k - 1] + s[k]
  BY <1>1, <1>7, Totals, Zenon
<1> HIDE DEF st, ct
<1>11. /\ sw[0] = 0 /\ cw[0] = 0 /\ sw[n] = end.qty /\ cw[n] = end.cost /\ sw[n] = st[n]
       /\ CostOf(levels, t) = ct[n]
  BY <1>1, <1>2, <1>3, <1>5, <1>6, <1>9, <1>10, Zenon
<1>12. \A k \in 1..n : sw[k] = sw[k - 1] + w[k] /\ cw[k] = cw[k - 1] + w[k] * p[k] /\ ct[k] = ct[k - 1] + t[k] * p[k]
  <2> SUFFICES ASSUME NEW k \in 1..n
               PROVE  /\ sw[k] = sw[k - 1] + w[k] /\ cw[k] = cw[k - 1] + w[k] * p[k]
                      /\ ct[k] = ct[k - 1] + t[k] * p[k]
    BY Zenon
  <2>1. k \in 0..n /\ k - 1 \in 0..n
    BY <1>5, Zenon
  <2>2. /\ sw[k] = r[k].qty /\ sw[k - 1] = r[k - 1].qty /\ cw[k] = r[k].cost /\ cw[k - 1] = r[k - 1].cost
        /\ p[k] = levels[k].p /\ s[k] = t[k] * levels[k].p
    BY <1>6, <2>1, Zenon
  <2>3. r[k].qty = r[k - 1].qty + w[k] /\ r[k].cost = r[k - 1].cost + w[k] * levels[k].p
    BY <1>1, Zenon
  <2>4. ct[k] = ct[k - 1] + s[k]
    BY <1>10, Zenon
  <2> QED
    BY <2>2, <2>3, <2>4, Zenon
<1>13. ASSUME NEW k \in 1..n
       PROVE  /\ q[k] \in Nat /\ p[k] \in Nat /\ w[k] \in Nat /\ t[k] \in Nat /\ t[k] <= q[k]
              /\ w[k] = Smaller(left[k - 1], q[k]) /\ left[k] = left[k - 1] - w[k] /\ w[k] <= q[k]
  <2>1. /\ q[k] \in Nat /\ p[k] \in Nat /\ w[k] \in Nat /\ t[k] \in Nat /\ t[k] <= q[k]
        /\ w[k] = Smaller(left[k - 1], q[k]) /\ left[k] = left[k - 1] - w[k] /\ left[k - 1] \in Nat
    BY <1>1, <1>2, <1>5, <1>6, Zenon
  <2>2. w[k] <= q[k]
    BY <2>1 DEF Smaller
  <2> QED
    BY <2>1, <2>2, Zenon
<1>14. \A k \in 0..n : left[k] \in Nat
  BY <1>1, <1>6, Zenon
<1>15. Within(n, q, w) /\ Within(n, q, t)
  BY <1>13, Zenon DEF Within
<1>16. CASE side = "buy"
  <2>1. \A i, j \in 1..n : i < j => p[i] <= p[j]
    BY <1>4, <1>6, <1>16, Zenon
  <2>2. \A k \in 1..n : p[k] \in Int
    BY <1>13
  <2>3. Stops(n, p, q, w)
    BY <1>1, <1>5, <1>13, <1>14, <2>1, <2>2, WalkStops, Zenon
  <2>4. cw[n] <= ct[n]
    <3>1. Tally(n, p, w, cw, sw) /\ Tally(n, p, t, ct, st)
      BY <1>8, <1>9, <1>10, <1>11, <1>12, Zenon DEF Tally
    <3> QED
      BY <1>1, <1>11, <1>15, <2>2, <2>3, <3>1, NoCheaper, Zenon
  <2>5. ct[n] \in Int
    BY <1>5, <1>10, Zenon
  <2> QED
    BY <1>11, <1>16, <2>4, <2>5, Zenon
<1>17. CASE side = "sell"
  <2> DEFINE u == [k \in 1..n |-> -p[k]]
             dw == [k \in 0..n |-> -cw[k]]
             dt == [k \in 0..n |-> -ct[k]]
  <2>1. \A k \in 1..n : u[k] = -p[k] /\ u[k] \in Int
    BY <1>13
  <2>2. /\ dw \in [0..n -> Int] /\ dt \in [0..n -> Int]
        /\ \A k \in 0..n : dw[k] = -cw[k] /\ dt[k] = -ct[k]
    BY <1>8, <1>10
  <2> HIDE DEF u, dw, dt
  <2>3. ASSUME NEW i \in 1..n, NEW j \in 1..n, i < j PROVE u[i] <= u[j]
    <3>1. side # "buy"
      BY <1>17
    <3>2. p[j] <= p[i]
      BY <1>4, <1>6, <2>3, <3>1, Zenon
    <3> QED
      BY <1>13, <2>1, <3>2
  <2>4. Stops(n, u, q, w)
    BY <1>1, <1>5, <1>13, <1>14, <2>1, <2>3, WalkStops, Zenon
  <2>5. ASSUME NEW k \in 1..n PROVE dw[k] = dw[k - 1] + w[k] * u[k] /\ dt[k] = dt[k - 1] + t[k] * u[k]
    <3>1. /\ cw[k] = cw[k - 1] + w[k] * p[k] /\ ct[k] = ct[k - 1] + t[k] * p[k]
          /\ dw[k] = -cw[k] /\ dt[k] = -ct[k] /\ dw[k - 1] = -cw[k - 1] /\ dt[k - 1] = -ct[k - 1]
          /\ u[k] = -p[k]
      BY <1>5, <1>12, <2>1, <2>2, Zenon
    <3>2. /\ cw[k - 1] \in Int /\ ct[k - 1] \in Int /\ p[k] \in Int /\ w[k] \in Int /\ t[k] \in Int
      <4>1. k - 1 \in 0..n
        BY <1>5, Zenon
      <4>2. cw[k - 1] \in Int /\ ct[k - 1] \in Int
        BY <1>8, <1>10, <4>1, Zenon
      <4>3. p[k] \in Nat /\ w[k] \in Nat /\ t[k] \in Nat
        BY <1>13, Zenon
      <4> QED
        BY <4>2, <4>3
    <3>3. w[k] * (-p[k]) = -(w[k] * p[k]) /\ t[k] * (-p[k]) = -(t[k] * p[k])
      BY <3>2
    <3> DEFINE a == w[k] * p[k]
               b == t[k] * p[k]
    <3>4. a \in Int /\ b \in Int
      BY <3>2
    <3> HIDE DEF a, b
    <3>5. w[k] * u[k] = -a /\ t[k] * u[k] = -b /\ cw[k] = cw[k - 1] + a /\ ct[k] = ct[k - 1] + b
      BY <3>1, <3>3, Zenon DEF a, b
    <3>6. dw[k] = dw[k - 1] + (-a) /\ dt[k] = dt[k - 1] + (-b)
      <4>1. \A x, y \in Int : -(x + y) = (-x) + (-y)
        OBVIOUS
      <4>2. -(cw[k - 1] + a) = -cw[k - 1] + (-a) /\ -(ct[k - 1] + b) = -ct[k - 1] + (-b)
        BY <3>2, <3>4, <4>1, Zenon
      <4> QED
        BY <3>1, <3>5, <4>2, Zenon
    <3> QED
      BY <3>5, <3>6, Zenon
  <2>6. dw[0] = 0 /\ dt[0] = 0
    BY <1>5, <1>10, <1>11, <2>2
  <2>7. dw[n] <= dt[n]
    <3>1. Tally(n, u, w, dw, sw) /\ Tally(n, u, t, dt, st)
      BY <1>8, <1>9, <1>11, <1>12, <2>2, <2>5, <2>6, Zenon DEF Tally
    <3> QED
      BY <1>1, <1>11, <1>15, <2>1, <2>4, <3>1, NoCheaper, Zenon
  <2>8. ct[n] \in Int /\ cw[n] \in Int
    BY <1>5, <1>8, <1>10, Zenon
  <2>9. ct[n] <= cw[n]
    BY <1>5, <2>2, <2>7, <2>8
  <2>10. side # "buy"
    BY <1>17
  <2> QED
    BY <1>11, <2>8, <2>9, <2>10, Zenon
<1> QED
  BY <1>16, <1>17, Zenon

\* A walk of a book takes all that is wanted or all there is, says "full" only
\* in the first case, and pays (or earns) what the best of all ways of taking
\* that amount from the levels does (orderbook.rs `walk_the_book`).
THEOREM WalkIsBest ==
  ASSUME NEW book, NEW side \in {"buy", "sell"}, SideLevels(book, side) \in Sides,
         BestFirst(side, SideLevels(book, side)), NEW qty \in Nat
  PROVE  LET levels == SideLevels(book, side)
             walk == WalkTheBook(book, side, qty)
         IN /\ walk.qty = Smaller(qty, DepthOf(levels))
            /\ walk.full <=> walk.qty = qty
            /\ \E take \in Picks(levels, walk.qty) : CostOf(levels, take) = walk.cost
            /\ \A take \in Picks(levels, walk.qty) :
                 IF side = "buy" THEN walk.cost <= CostOf(levels, take) ELSE CostOf(levels, take) <= walk.cost
<1> DEFINE levels == SideLevels(book, side)
           walk == WalkTheBook(book, side, qty)
           end == WalkOf(levels, qty)[Len(levels)]
<1>1. walk.qty = end.qty /\ walk.cost = end.cost /\ walk.full = (end.left <= 0)
  <2> DEFINE slip == Slippage(side, Best(levels).p, end.cost, end.qty)
  <2>1. walk = [cost |-> end.cost, qty |-> end.qty, levels |-> end.levels, full |-> end.left <= 0,
                fills |-> end.fills, slippage |-> slip]
    BY Zenon DEF WalkTheBook, Fold, WalkOf, Outset
  <2> HIDE DEF walk, end, slip
  <2> QED
    BY <2>1, Zenon
<1> HIDE DEF walk, end, levels
<1>2. levels \in Sides /\ BestFirst(side, levels) /\ end = WalkOf(levels, qty)[Len(levels)]
  BY Zenon DEF levels, end
<1>3. /\ end.left \in Nat /\ end.qty \in Nat /\ end.qty + end.left = qty
      /\ end.qty = Smaller(qty, DepthOf(levels))
  BY <1>2, WalkFills, Zenon
<1>4. end.left <= 0 <=> end.qty = qty
  BY <1>3
<1>5. \E take \in Picks(levels, end.qty) : CostOf(levels, take) = end.cost
  BY <1>2, WalkIsPick, Zenon
<1>6. \A take \in Picks(levels, end.qty) :
        IF side = "buy" THEN end.cost <= CostOf(levels, take) ELSE CostOf(levels, take) <= end.cost
  BY <1>2, WalkIsOptimal, Zenon
<1> QED
  BY <1>1, <1>3, <1>4, <1>5, <1>6, Zenon DEF walk, levels

-----------------------------------------------------------------------------
(* The order the exchange's filters take. *)

\* What parse_symbol_filters makes of the filters; zero means none.
Filters == [min_qty : Nat, max_qty : Nat, step : Nat, min_price : Nat, max_price : Nat, tick : Nat,
            min_notional : Nat]

\* What the exchange takes under them.
OnGrid(x, step) == step = 0 \/ \E k \in Nat : x = k * step
Takes(f, q, p) ==
  /\ q > 0 /\ OnGrid(q, f.step) /\ f.min_qty <= q /\ (f.max_qty = 0 \/ q <= f.max_qty)
  /\ p > 0 /\ OnGrid(p, f.tick) /\ f.min_price <= p /\ (f.max_price = 0 \/ p <= f.max_price)
  /\ f.min_notional <= q * p

\* floor_to_step: the largest value on the grid that is no larger.
LEMMA FloorIsLargest ==
  ASSUME NEW v \in Nat, NEW s \in Nat
  PROVE  /\ FloorToStep(v, s) \in Nat /\ FloorToStep(v, s) <= v /\ OnGrid(FloorToStep(v, s), s)
         /\ \A x \in Nat : x <= v /\ OnGrid(x, s) => x <= FloorToStep(v, s)
<1>1. CASE s = 0
  BY <1>1 DEF FloorToStep, OnGrid
<1>2. CASE s > 0
  <2> DEFINE k == v \div s
  <2>1. k \in Nat /\ s * k <= v
    BY <1>2, FloorDivision
  <2>2. FloorToStep(v, s) = k * s
    BY <1>2 DEF FloorToStep
  <2>3. \A j \in Nat : s * j <= v => j <= k
    BY <1>2, FloorAtLeast
  <2> HIDE DEF k
  <2>4. k * s = s * k /\ k * s \in Nat
    BY <2>1
  <2>5. ASSUME NEW x \in Nat, x <= v, OnGrid(x, s)
        PROVE  x <= k * s
    <3>1. PICK j \in Nat : x = j * s
      BY <1>2, <2>5 DEF OnGrid
    <3>2. s * j = x
      BY <3>1
    <3>3. j <= k
      BY <2>3, <2>5, <3>2
    <3>4. j * s <= k * s
      BY <2>1, <3>3, Multiply
    <3> QED
      BY <3>1, <3>4
  <2> QED
    BY <2>1, <2>2, <2>4, <2>5 DEF OnGrid
<1> QED
  BY <1>1, <1>2

\* Whatever the filters, normalize_limit_order answers an order the exchange
\* takes, for no more and at no higher a price than asked, and the largest such
\* in both; an order within the maxima is held back only when the exchange
\* would take nothing that it could be cut down to.
THEOREM NormalizedIsLargest ==
  ASSUME NEW amount \in Nat, NEW price \in Nat, NEW f \in Filters
  PROVE  LET res == NormalizeLimitOrder(amount, price, f)
         IN /\ \A q, p : res = Ok([qty |-> q, price |-> p]) =>
                 /\ Takes(f, q, p) /\ q <= amount /\ p <= price
                 /\ \A x \in 0..amount, y \in 0..price : Takes(f, x, y) => x <= q /\ y <= p
            /\ (\E e : res = Err(e)) /\ (f.max_qty = 0 \/ amount <= f.max_qty)
                 /\ (f.max_price = 0 \/ price <= f.max_price) =>
                 \A x \in 0..amount, y \in 0..price : ~Takes(f, x, y)
<1> DEFINE res == NormalizeLimitOrder(amount, price, f)
           qty == FloorToStep(amount, f.step)
           pr == FloorToStep(price, f.tick)
           zero == qty <= 0 \/ pr <= 0
           quantity == qty < f.min_qty \/ (f.max_qty > 0 /\ qty > f.max_qty)
           priced == pr < f.min_price \/ (f.max_price > 0 /\ pr > f.max_price)
           small == qty * pr < f.min_notional
<1>1. /\ f.min_qty \in Nat /\ f.max_qty \in Nat /\ f.step \in Nat /\ f.min_price \in Nat
      /\ f.max_price \in Nat /\ f.tick \in Nat /\ f.min_notional \in Nat
  BY DEF Filters
<1>2. /\ qty \in Nat /\ qty <= amount /\ OnGrid(qty, f.step)
      /\ \A x \in Nat : x <= amount /\ OnGrid(x, f.step) => x <= qty
  BY <1>1, FloorIsLargest, Zenon
<1>3. /\ pr \in Nat /\ pr <= price /\ OnGrid(pr, f.tick)
      /\ \A y \in Nat : y <= price /\ OnGrid(y, f.tick) => y <= pr
  BY <1>1, FloorIsLargest, Zenon
<1>4. /\ ~zero /\ ~quantity /\ ~priced /\ ~small => res = Ok([qty |-> qty, price |-> pr])
      /\ zero \/ quantity \/ priced \/ small => \E e : res = Err(e)
  BY Zenon DEF NormalizeLimitOrder
<1>5. \A v, e : Ok(v) # Err(e)
  <2>1. \A v, e : Ok(v).ok = TRUE /\ Err(e).ok = FALSE
    BY Zenon DEF Ok, Err
  <2> QED
    BY <2>1, Zenon
<1>6. \A v, w : Ok(v) = Ok(w) => v = w
  BY DEF Ok
<1> HIDE DEF res, qty, pr
<1>7. ASSUME NEW x \in 0..amount, NEW y \in 0..price, Takes(f, x, y)
      PROVE  x <= qty /\ y <= pr
  BY <1>2, <1>3, <1>7 DEF Takes
<1>8. ASSUME NEW q, NEW p, res = Ok([qty |-> q, price |-> p])
      PROVE  /\ Takes(f, q, p) /\ q <= amount /\ p <= price
             /\ \A x \in 0..amount, y \in 0..price : Takes(f, x, y) => x <= q /\ y <= p
  <2>1. ~zero /\ ~quantity /\ ~priced /\ ~small
    <3> HIDE DEF zero, quantity, priced, small
    <3> QED
      BY <1>4, <1>5, <1>8, Zenon
  <2>2. [qty |-> q, price |-> p] = [qty |-> qty, price |-> pr]
    <3> HIDE DEF zero, quantity, priced, small
    <3> QED
      BY <1>4, <1>6, <1>8, <2>1, Zenon
  <2>3. q = qty /\ p = pr
    BY <2>2
  <2>4. Takes(f, qty, pr)
    <3> DEFINE worth == qty * pr
    <3>1. worth \in Nat /\ ~(worth < f.min_notional)
      BY <1>2, <1>3, <2>1
    <3> HIDE DEF worth
    <3>2. f.min_notional <= worth
      BY <1>1, <3>1
    <3> QED
      BY <1>1, <1>2, <1>3, <2>1, <3>2 DEF Takes, worth
  <2> QED
    BY <1>2, <1>3, <1>7, <2>3, <2>4
<1>9. ASSUME \E e : res = Err(e), f.max_qty = 0 \/ amount <= f.max_qty, f.max_price = 0 \/ price <= f.max_price,
             NEW x \in 0..amount, NEW y \in 0..price, Takes(f, x, y)
      PROVE  FALSE
  <2>1. x <= qty /\ y <= pr /\ x \in Nat /\ y \in Nat
    BY <1>7, <1>9
  <2>2. ~zero /\ ~quantity /\ ~priced
    BY <1>1, <1>2, <1>3, <1>9, <2>1 DEF Takes
  <2>3. x * y <= qty * pr
    <3>1. x * y <= qty * y /\ x * y \in Nat /\ qty * y \in Nat
      BY <1>2, <2>1, Multiply
    <3>2. qty * y <= qty * pr /\ qty * pr \in Nat
      BY <1>2, <1>3, <2>1, Multiply
    <3> DEFINE a == x * y
               b == qty * y
               c == qty * pr
    <3> HIDE DEF a, b, c
    <3>3. a <= b /\ b <= c /\ a \in Nat /\ b \in Nat /\ c \in Nat
      BY <3>1, <3>2 DEF a, b, c
    <3>4. a <= c
      BY <3>3
    <3> QED
      BY <3>4 DEF a, c
  <2>4. ~small
    <3>1. f.min_notional <= x * y
      BY <1>9 DEF Takes
    <3> DEFINE a == x * y
               c == qty * pr
    <3>2. a \in Nat /\ c \in Nat
      BY <1>2, <1>3, <2>1
    <3> HIDE DEF a, c
    <3>3. f.min_notional <= a /\ a <= c
      BY <2>3, <3>1 DEF a, c
    <3>4. ~(c < f.min_notional)
      BY <1>1, <3>2, <3>3
    <3> QED
      BY <3>4 DEF c
  <2> HIDE DEF zero, quantity, priced, small
  <2> QED
    BY <1>4, <1>5, <1>9, <2>2, <2>4, Zenon
<1> QED
  BY <1>8, <1>9, Zenon DEF res
=============================================================================
