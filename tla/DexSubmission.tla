---------------------------- MODULE DexSubmission ----------------------------
(***************************************************************************)
(* Getting transactions of one wallet onto the chain: the shared           *)
(* `NonceManager`, the public and private `DexSwapper`s of                 *)
(* src/executor/dex_swapper.rs, the same-nonce cancellation, the on-chain  *)
(* transfers of the rebalancer, and the RPC retry loop underneath them.    *)
(*                                                                         *)
(* A job is one call of the wallet's owner: a leg's public swap ("swap"),  *)
(* one sent as a Flashbots bundle ("bundle"), the swap that unwinds a DEX  *)
(* leg 1 ("unwind") or a rebalance transfer ("transfer").  Jobs run        *)
(* concurrently and meet in two places only: the nonce manager             *)
(* (`next_nonce`) and the chain.  A node may take a transaction and lose   *)
(* the reply, a bundle may land between two reads of the poll loop, and    *)
(* the engine's leg timeout may drop a leg's job at any await.             *)
(* Swaps sell WETH, the one token with a step of its own; a swap of any    *)
(* other token takes the steps of V2.                                      *)
(***************************************************************************)
EXTENDS Integers, FiniteSets, FiniteSetsExt

CONSTANTS
  Jobs,            \* calls made during the run
  Mixes,           \* the mixes of calls to explore: functions from Jobs to Roles
  MaxAttempts,     \* RPC endpoints times (max_retries + 1)
  TargetOffset,    \* FlashbotsConfig.target_block_offset
  MaxBlocksToTry,  \* FlashbotsConfig.max_blocks_to_try
  MaxBlock,        \* bound: blocks the run lasts
  MaxRestarts      \* bound: process restarts

ASSUME MixesAssumption == Mixes \subseteq [Jobs -> {"swap", "bundle", "unwind", "transfer"}]
ASSUME AttemptsAssumption == MaxAttempts \in Nat \ {0}
ASSUME FlashbotsAssumption == TargetOffset \in Nat /\ MaxBlocksToTry \in Nat
ASSUME BoundsAssumption == MaxBlock \in Nat /\ MaxRestarts \in Nat

VARIABLES
  next_nonce,     \* NonceState.next_nonce of the wallet (NoNonce for None)
  role,           \* what each job is
  job,            \* where each job is suspended, and what it holds
  restarts,       \* restarts of the process so far
  account_nonce,  \* chain: transactions of the wallet mined so far
  block,          \* chain: the latest block number
  mempool,        \* chain: public transactions waiting
  bundles,        \* relay: bundles held for a target block
  receipts,       \* chain: mined transactions with their status
  allowed,        \* chain: is the router's WETH allowance in place ("yes" or "no")
  weth            \* chain: WETH of the wallet, in swaps' worth

chain == <<account_nonce, block, mempool, bundles, receipts, allowed, weth>>
vars == <<next_nonce, role, job, restarts, account_nonce, block, mempool,
          bundles, receipts, allowed, weth>>

NoNonce == -1
Roles == {"swap", "bundle", "unwind", "transfer"}
TxKinds == {"none", "wrap", "approve", "swap", "transfer", "cancel"}
Awaits == {"idle", "weth", "allowance", "build", "sign", "send", "await", "target", "relay",
           "poll", "poll_block", "cancel_check", "cancel_wait", "ended"}
Outcomes ==
  {"running", "Error", "SendFailed", "Reverted", "Filled", "BundleNotIncluded", "Dropped",
   "Cancelled", "OriginalMined", "OriginalReverted", "Unknown"}

Idle == [at |-> "idle", tx |-> "none", nonce |-> NoNonce, tries |-> 0, target |-> 0,
         out |-> "running"]

Init ==
  /\ next_nonce = NoNonce /\ restarts = 0
  /\ role \in Mixes
  /\ job = [j \in Jobs |-> Idle]
  /\ account_nonce = 0 /\ block = 0
  /\ mempool = {} /\ bundles = {} /\ receipts = {}
  /\ allowed \in {"yes", "no"} /\ weth = 0

-----------------------------------------------------------------------------
(* The nonce manager.                                                      *)

\* `ChainClient::get_nonce(_, Pending)`: mined transactions plus the unbroken
\* run of waiting ones.
PendingNonce ==
  Min({n \in account_nonce..(account_nonce + Cardinality(mempool)) :
         \A tx \in mempool : tx.nonce # n})

\* Mutant: every reservation asks the node instead of counting on.
ReserveNextFromNode(j) ==
  LET nonce == PendingNonce
  IN /\ next_nonce' = nonce + 1
     /\ job' = [job EXCEPT ![j].at = "sign", ![j].nonce = nonce]

\* Mutant: a reservation advances the counter past the nonce after it.
ReserveNextSkips(j) ==
  LET nonce == IF next_nonce = NoNonce THEN PendingNonce ELSE next_nonce
  IN /\ next_nonce' = nonce + 2
     /\ job' = [job EXCEPT ![j].at = "sign", ![j].nonce = nonce]

\* `NonceManager::reserve_next`; the lock is held across the RPC call.
ReserveNext(j) ==
  LET nonce == IF next_nonce = NoNonce THEN PendingNonce ELSE next_nonce
  IN /\ next_nonce' = nonce + 1
     /\ job' = [job EXCEPT ![j].at = "sign", ![j].nonce = nonce]

\* Mutant: a failure rolls the counter back whoever has reserved since.
MarkFailedAlways(nonce) == next_nonce' = nonce

\* `NonceManager::mark_failed`: only the latest reservation is rolled back.
MarkFailed(nonce) ==
  IF next_nonce = nonce + 1 THEN next_nonce' = nonce ELSE UNCHANGED next_nonce

-----------------------------------------------------------------------------
(* The steps every transaction goes through.                               *)

\* The call returns.  The errors the engine does not tell apart are "Error".
End(j, out) ==
  job' = [job EXCEPT ![j].at = "ended", ![j].out = out,
                       ![j].tx = "none", ![j].tries = 0, ![j].target = 0]

Goto(j, at) == job' = [job EXCEPT ![j].at = at]

\* A transaction is about to be built, signed and sent.
Prepare(j, tx) == job' = [job EXCEPT ![j].at = "build", ![j].tx = tx, ![j].tries = 0]

Tx(j) == [by |-> j, kind |-> job[j].tx, nonce |-> job[j].nonce]
SwapTx(j) == [by |-> j, kind |-> "swap", nonce |-> job[j].nonce]
Mined(tx) == \E r \in receipts : r.tx = tx
MinedOk(tx) == [tx |-> tx, ok |-> "yes"] \in receipts

Submits(j, r, first) ==
  /\ job[j].at = "idle" /\ role[j] \in r
  /\ End(j, "Error") \/ Goto(j, first)
  /\ UNCHANGED <<next_nonce, role, restarts>> /\ UNCHANGED chain

\* `UniswapV2Swapper::submit_swap`: a zero min_out is refused, then allowance,
\* calldata, gas, nonce, cap, signature and send.
SubmitSwapV2(j) == Submits(j, {"swap", "unwind"}, "allowance")

\* `UniswapV3Swapper::submit_swap_for_pair`: the same behind the WETH balance.
SubmitSwapV3(j) == Submits(j, {"swap", "unwind"}, "weth")

\* The two `build_signed_swap_tx*` behind `submit_bundle_swap`: they approve
\* and wrap in public, and sign the swap without sending it.
BuildBundleV2(j) == Submits(j, {"bundle"}, "allowance")
BuildBundleV3(j) == Submits(j, {"bundle"}, "weth")

\* `execute_wallet_to_cex_transfer` up to its transaction.
BeginTransfer(j) ==
  /\ job[j].at = "idle" /\ role[j] = "transfer"
  /\ Prepare(j, "transfer")
  /\ UNCHANGED <<next_nonce, role, restarts>> /\ UNCHANGED chain

\* `ensure_weth_balance` (V3 only): wraps ETH when the wallet is short.
EnsureWethBalance(j) ==
  /\ job[j].at = "weth"
  /\ \/ End(j, "Error")
     \/ weth < 1 /\ Prepare(j, "wrap")
     \/ weth >= 1 /\ Goto(j, "allowance")
  /\ UNCHANGED <<next_nonce, role, restarts>> /\ UNCHANGED chain

\* `ensure_allowance`: approves the router when its allowance is short.
EnsureAllowance(j) ==
  /\ job[j].at = "allowance"
  /\ \/ End(j, "Error")
     \/ allowed = "no" /\ Prepare(j, "approve")
     \/ allowed = "yes" /\ Prepare(j, "swap")
  /\ UNCHANGED <<next_nonce, role, restarts>> /\ UNCHANGED chain

\* Calldata, `with_gas_estimate`, `with_gas_price`, then `apply_reserved_nonce`.
Build(j) ==
  /\ job[j].at = "build"
  /\ \/ End(j, "Error") /\ UNCHANGED next_nonce
     \/ ReserveNext(j)
  /\ UNCHANGED <<role, restarts>> /\ UNCHANGED chain

\* The gas cap and the signature; both give the nonce back when they fail.
Sign(j) ==
  /\ job[j].at = "sign"
  /\ \/ MarkFailed(job[j].nonce) /\ End(j, "Error")
     \/ /\ Goto(j, IF role[j] = "bundle" /\ job[j].tx = "swap" THEN "target" ELSE "send")
        /\ UNCHANGED next_nonce
  /\ UNCHANGED <<role, restarts>> /\ UNCHANGED chain

AfterSend(j) == IF job[j].tx = "cancel" THEN "cancel_wait" ELSE "await"

\* What a node does with a raw transaction: it refuses a used nonce and a
\* transaction it knows, and may take it in place of another with its nonce.
Accepts(tx) == tx.nonce >= account_nonce /\ tx \notin mempool /\ ~Mined(tx)
Broadcast(tx) == mempool' = {o \in mempool : o.nonce # tx.nonce} \cup {tx}

\* Mutant: the retry loop makes one attempt too many.
SendAttemptOneMore(j) ==
  /\ job[j].at = "send" /\ job[j].tries <= MaxAttempts
  /\ job' = [job EXCEPT ![j].tries = @ + 1]
  /\ UNCHANGED <<next_nonce, role, restarts>> /\ UNCHANGED chain

\* One attempt of `with_provider` for send_raw_transaction.  The node may take
\* the transaction and the reply still be lost.
SendAttempt(j) ==
  /\ job[j].at = "send" /\ job[j].tries < MaxAttempts
  /\ \/ Accepts(Tx(j)) /\ Broadcast(Tx(j)) /\ Goto(j, AfterSend(j))
     \/ /\ Accepts(Tx(j)) /\ Broadcast(Tx(j))
        /\ job' = [job EXCEPT ![j].tries = @ + 1]
     \/ job' = [job EXCEPT ![j].tries = @ + 1] /\ UNCHANGED mempool
  /\ UNCHANGED <<next_nonce, role, restarts>>
  /\ UNCHANGED <<account_nonce, block, bundles, receipts, allowed, weth>>

\* The cancellation looks at the original once more before it answers.
RefetchOriginal(j) ==
  \/ End(j, "Error")
  \/ Mined(SwapTx(j)) /\ End(j, IF MinedOk(SwapTx(j)) THEN "OriginalMined" ELSE "OriginalReverted")
  \/ ~Mined(SwapTx(j)) /\ End(j, "Unknown")

\* Every attempt failed.  The swappers keep the reservation, the rebalancer
\* rolls it back.
SendFailed(j) ==
  /\ job[j].at = "send" /\ job[j].tries = MaxAttempts
  /\ \/ job[j].tx = "cancel" /\ RefetchOriginal(j) /\ UNCHANGED next_nonce
     \/ role[j] # "transfer" /\ job[j].tx # "cancel" /\ End(j, "SendFailed") /\ UNCHANGED next_nonce
     \/ role[j] = "transfer" /\ MarkFailed(job[j].nonce) /\ End(j, "SendFailed")
  /\ UNCHANGED <<role, restarts>> /\ UNCHANGED chain

\* `wait_for_receipt` and what the caller does with the receipt.  A swap whose
\* receipt holds no Transfer to the recipient is treated as a revert.
AwaitReceipt(j) ==
  /\ job[j].at = "await"
  /\ \/ End(j, "Error")
     \/ Mined(Tx(j)) /\ ~MinedOk(Tx(j)) /\ End(j, "Reverted")
     \/ /\ MinedOk(Tx(j))
        /\ \/ job[j].tx = "wrap" /\ Goto(j, "allowance")
           \/ job[j].tx = "approve" /\ Prepare(j, "swap")
           \/ job[j].tx \in {"swap", "transfer"} /\ End(j, "Filled")
           \/ job[j].tx = "swap" /\ End(j, "Reverted")
  /\ UNCHANGED <<next_nonce, role, restarts>> /\ UNCHANGED chain

-----------------------------------------------------------------------------
(* The leg timeout and the same-nonce cancellation.                        *)

\* The job is in `cancel_dex`, which the engine awaits after the leg's timer.
Cancelling(j) == job[j].at \in {"cancel_check", "cancel_wait"} \/ job[j].tx = "cancel"

\* Mutant: a private submission is waited for without the leg's timer.
LegTimeoutPublicOnly(j) ==
  /\ role[j] = "swap" /\ job[j].tx = "swap" /\ job[j].at = "await"
  /\ Goto(j, "cancel_check")
  /\ UNCHANGED <<next_nonce, role, restarts>> /\ UNCHANGED chain

\* The engine's leg timeout drops the call wherever it waits.  As leg 2 of a
\* CEX-first execution a public swap whose hash is known is cancelled next; as
\* leg 1 of a DEX-first one it is left as it is, like everything else.
LegTimeout(j) ==
  /\ role[j] \in {"swap", "bundle"}
  /\ job[j].at \notin {"idle", "ended"} /\ ~Cancelling(j)
  /\ \/ role[j] = "swap" /\ job[j].tx = "swap" /\ job[j].at = "await" /\ Goto(j, "cancel_check")
     \/ End(j, "Dropped")
  /\ UNCHANGED <<next_nonce, role, restarts>> /\ UNCHANGED chain

\* `cancel_pending_public_swap` up to the send: the original's receipt, the
\* fee, the gas cap and the signature of an empty transfer with its nonce.
CancelCheck(j) ==
  /\ job[j].at = "cancel_check"
  /\ \/ RefetchOriginal(j)
     \/ /\ ~Mined(SwapTx(j))
        /\ job' = [job EXCEPT ![j].at = "send", ![j].tx = "cancel", ![j].tries = 0]
  /\ UNCHANGED <<next_nonce, role, restarts>> /\ UNCHANGED chain

\* Mutant: the replacement counts as soon as a node has taken it.
CancelWaitOptimistic(j) ==
  /\ job[j].at = "cancel_wait"
  /\ End(j, "Cancelled")
  /\ UNCHANGED <<next_nonce, role, restarts>> /\ UNCHANGED chain

\* The rest of it: only a mined replacement counts as a cancellation.
CancelWait(j) ==
  /\ job[j].at = "cancel_wait"
  /\ \/ MinedOk(Tx(j)) /\ End(j, "Cancelled")
     \/ Mined(Tx(j)) /\ ~MinedOk(Tx(j)) /\ End(j, "Unknown")
     \/ RefetchOriginal(j)
  /\ UNCHANGED <<next_nonce, role, restarts>> /\ UNCHANGED chain

-----------------------------------------------------------------------------
(* Private bundles.                                                        *)

\* `bundle_target_blocks`: at least one block ahead, at least one block.
FirstTarget(current) == current + Max({TargetOffset, 1})
TargetCount == Max({MaxBlocksToTry, 1})

\* `submit_bundle_swap` reads the block it counts the targets from.
BundleTarget(j) ==
  /\ job[j].at = "target"
  /\ \/ End(j, "Error")
     \/ job' = [job EXCEPT ![j].at = "relay", ![j].target = FirstTarget(block), ![j].tries = 1]
  /\ UNCHANGED <<next_nonce, role, restarts>> /\ UNCHANGED chain

Bundle(j) == [by |-> j, nonce |-> job[j].nonce, target |-> job[j].target]

\* One round of its loop: simulate, then send for one target block.  An error
\* returns at once, whatever earlier rounds have sent; a failed send may have
\* reached the relay.
BundleRelay(j) ==
  /\ job[j].at = "relay"
  /\ \/ End(j, "Error") /\ UNCHANGED bundles
     \/ End(j, "Error") /\ bundles' = bundles \cup {Bundle(j)}
     \/ /\ bundles' = bundles \cup {Bundle(j)}
        /\ \/ job[j].tries = TargetCount /\ Goto(j, "poll")
           \/ /\ job[j].tries < TargetCount
              /\ job' = [job EXCEPT ![j].target = @ + 1, ![j].tries = @ + 1]
  /\ UNCHANGED <<next_nonce, role, restarts>>
  /\ UNCHANGED <<account_nonce, block, mempool, receipts, allowed, weth>>

\* `FlashbotsSwapper::wait_swap`, the receipt read.
PollReceipt(j) ==
  /\ job[j].at = "poll"
  /\ \/ End(j, "Error")
     \/ Mined(Tx(j)) /\ ~MinedOk(Tx(j)) /\ End(j, "Reverted")
     \/ MinedOk(Tx(j)) /\ End(j, "Filled")
     \/ MinedOk(Tx(j)) /\ End(j, "Reverted")
     \/ ~Mined(Tx(j)) /\ Goto(j, "poll_block")
  /\ UNCHANGED <<next_nonce, role, restarts>> /\ UNCHANGED chain

\* The block read that follows it: past the target, or past the deadline, the
\* bundle is given up without another look at the receipt.
PollBlock(j) ==
  /\ job[j].at = "poll_block"
  /\ \/ End(j, "Error")
     \/ End(j, "BundleNotIncluded")
     \/ block <= job[j].target /\ Goto(j, "poll")
  /\ UNCHANGED <<next_nonce, role, restarts>> /\ UNCHANGED chain

-----------------------------------------------------------------------------
(* The process and the chain.                                              *)

\* The process dies: the nonce manager and the jobs in flight are gone, what
\* they sent is not.
Restart ==
  /\ restarts < MaxRestarts
  /\ restarts' = restarts + 1
  /\ next_nonce' = NoNonce
  /\ job' = [j \in Jobs |-> IF job[j].at \in {"idle", "ended"} THEN job[j]
                            ELSE [job[j] EXCEPT !.at = "ended", !.out = "Dropped",
                                                !.tx = "none", !.tries = 0, !.target = 0]]
  /\ UNCHANGED role /\ UNCHANGED chain

\* The effect of a mined transaction on the wallet.  A WETH swap without WETH
\* reverts, so does any swap whose allowance is missing.
Effect(tx, ok) ==
  /\ receipts' = receipts \cup {[tx |-> tx, ok |-> ok]}
  /\ account_nonce' = account_nonce + 1
  /\ mempool' = {o \in mempool : o.nonce # tx.nonce}
  /\ allowed' = IF tx.kind = "approve" /\ ok = "yes" THEN "yes" ELSE allowed
  /\ weth' = CASE tx.kind = "wrap" /\ ok = "yes" -> weth + 1
               [] tx.kind = "swap" /\ ok = "yes" -> weth - 1
               [] OTHER -> weth

CanSucceed(tx) ==
  tx.kind = "swap" => allowed = "yes" /\ weth >= 1

\* The relay drops a bundle once its target block is there.
NewBlock ==
  /\ block < MaxBlock /\ block' = block + 1
  /\ bundles' = {b \in bundles : b.target > block'}

Mine(tx) ==
  /\ tx.nonce = account_nonce
  /\ \/ CanSucceed(tx) /\ Effect(tx, "yes")
     \/ tx.kind # "cancel" /\ Effect(tx, "no")
  /\ NewBlock
  /\ UNCHANGED <<next_nonce, role, job, restarts>>

MinePublic == \E tx \in mempool : Mine(tx)

MineBundle ==
  \E b \in bundles : b.target = block + 1 /\ Mine([by |-> b.by, kind |-> "swap", nonce |-> b.nonce])

MineEmpty ==
  /\ NewBlock
  /\ UNCHANGED <<next_nonce, role, job, restarts>>
  /\ UNCHANGED <<account_nonce, mempool, receipts, allowed, weth>>

\* A node drops a waiting transaction.
Evict ==
  /\ \E tx \in mempool : mempool' = mempool \ {tx}
  /\ UNCHANGED <<next_nonce, role, job, restarts>>
  /\ UNCHANGED <<account_nonce, block, bundles, receipts, allowed, weth>>

JobStep(j) ==
  \/ SubmitSwapV2(j) \/ SubmitSwapV3(j) \/ BuildBundleV2(j) \/ BuildBundleV3(j)
  \/ BeginTransfer(j) \/ EnsureWethBalance(j) \/ EnsureAllowance(j) \/ Build(j) \/ Sign(j)
  \/ SendAttempt(j) \/ SendFailed(j) \/ AwaitReceipt(j) \/ CancelCheck(j) \/ CancelWait(j)
  \/ BundleTarget(j) \/ BundleRelay(j) \/ PollReceipt(j) \/ PollBlock(j)

Next ==
  \/ \E j \in Jobs : JobStep(j) \/ LegTimeout(j)
  \/ Restart \/ MinePublic \/ MineBundle \/ MineEmpty \/ Evict

\* The timer of a leg fires.  No call to a node or to the relay need return:
\* their HTTP clients have no request timeout.
Fairness == \A j \in Jobs : WF_vars(LegTimeout(j))

Spec == Init /\ [][Next]_vars /\ Fairness

-----------------------------------------------------------------------------
(* Properties.                                                             *)

Job == [at : Awaits, tx : TxKinds, nonce : {NoNonce} \cup Nat, tries : Nat, target : Nat,
        out : Outcomes]
Txs == [by : Jobs, kind : TxKinds \ {"none"}, nonce : Nat]

\* Type invariant.  A running job's retry counter stays within the attempts
\* `with_provider` makes.
TypeOK ==
  /\ next_nonce \in {NoNonce} \cup Nat
  /\ role \in [Jobs -> Roles]
  /\ job \in [Jobs -> Job]
  /\ restarts \in 0..MaxRestarts
  /\ account_nonce \in Nat /\ block \in 0..MaxBlock
  /\ mempool \subseteq Txs
  /\ bundles \subseteq [by : Jobs, nonce : Nat, target : Nat]
  /\ receipts \subseteq [tx : Txs, ok : {"yes", "no"}]
  /\ allowed \in {"yes", "no"} /\ weth \in Nat
  /\ \A j \in Jobs : job[j].at = "send" => job[j].tries <= MaxAttempts

\* Everything of job j that may still be mined or has been.
Sent(j) ==
  {tx \in mempool : tx.by = j} \cup {r.tx : r \in {q \in receipts : q.tx.by = j}}
    \cup {[by |-> j, kind |-> "swap", nonce |-> b.nonce] : b \in {c \in bundles : c.by = j}}

\* A nonce given back by `mark_failed` after a gas-cap or signing failure is not
\* carried by anything sent: without restarts and failed transfers, the
\* counter stays ahead of every transaction that is out.
CounterAheadOfSent ==
  (restarts = 0 /\ \A j \in Jobs : ~(role[j] = "transfer" /\ job[j].out = "SendFailed"))
    => \A j \in Jobs : \A tx \in Sent(j) : tx.nonce < next_nonce

\* Two jobs whose transactions carry the same nonce compete for one slot: one
\* of them can never be mined.  With the shared `NonceManager` that happens
\* only after the process restarted and forgot its reservations, or after a
\* rebalance transfer whose send reported an error had reached a node all the
\* same and its nonce was rolled back.
NonceReuseHasCause ==
  /\ CounterAheadOfSent
  /\ \A j, k \in Jobs :
       (j # k /\ restarts = 0 /\ \E a \in Sent(j), b \in Sent(k) : a.nonce = b.nonce)
         => \E l \in {j, k} : role[l] = "transfer" /\ job[l].out = "SendFailed"

\* `cancel_dex` answers Cancelled only when the swap can no longer happen: its
\* nonce has been used by the replacement, so the engine may report the leg as
\* flat.
CancelledMeansDead ==
  \A j \in Jobs :
    job[j].out = "Cancelled" =>
      /\ ~Mined(SwapTx(j))
      /\ account_nonce > job[j].nonce

\* Outcomes that say nothing about the receipt of what the job has sent.
NoReceipt == {"running", "Error", "SendFailed", "Dropped", "BundleNotIncluded", "Unknown"}

\* A nonce below the counter that nothing carries stalls every later
\* transaction of the wallet.  Such a gap is never silent: every nonce between
\* the account's and the counter belongs to a job that still runs, or that
\* ended without a receipt because its timer fired, its send or its bundle
\* failed, or `mark_failed` found a later reservation and left it.
NonceGapHasOwner ==
  /\ TypeOK
  /\ \A n \in account_nonce..(next_nonce - 1) :
       \E j \in Jobs : job[j].nonce = n /\ job[j].out \in NoReceipt

\* A submitted job ends, whatever the nodes and the relay do, or it hangs for
\* good where no leg's timer runs: in a rebalance transfer, in the swap that
\* unwinds a DEX leg 1, or in the cancellation of a swap that timed out.
SubmissionEnds ==
  \A j \in Jobs :
    job[j].at # "idle" ~>
      \/ job[j].at = "ended"
      \/ [](role[j] \in {"transfer", "unwind"} \/ Cancelling(j))

=============================================================================
