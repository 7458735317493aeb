------------------------------ MODULE TxSender ------------------------------
(***************************************************************************)
(* The chain side of execute_dex_leg (executor/src/engine.rs): the         *)
(* allowance, at most two approvals and the swap, each a transaction that  *)
(* TransactionBuilder builds (chain/src/builder.rs) and ChainClient sends  *)
(* and waits for (chain/src/client.rs), while the leg may be given up at   *)
(* any await.                                                              *)
(*                                                                         *)
(* Legs run one after the other, as in the bot.  The network is at its     *)
(* worst: a transaction that was ever sent may be mined at any time, as    *)
(* long as its nonce is the account's next one, whether its sender got an  *)
(* answer, an error ("already known", "nonce too low", "replacement        *)
(* underpriced") or none, and whatever else was sent with that nonce.      *)
(* Gas prices are left out.  A token's approvals of one nonce differ in    *)
(* nothing else, and are one transaction.                                  *)
(***************************************************************************)
EXTENDS Integers, Sequences

CONSTANTS
    MaxLegs,        \* bound: legs in a behaviour
    MaxRetries,     \* max_retries
    Amounts,        \* what a leg may sell
    Allowances      \* what the router may be allowed at the start

ASSUME SenderAssumption ==
    /\ MaxLegs \in Nat /\ MaxRetries \in Nat
    /\ Amounts \subseteq Nat \ {0} /\ Allowances \subseteq Nat

Legs == 1..MaxLegs

VARIABLES
    leg,            \* the leg that runs, or ran last
    at,             \* the await it is at, "idle" between legs
    amount,         \* amount_in
    tx,             \* the transaction it is about
    attempt,        \* attempts of send_transaction that failed
    report,         \* what each leg has returned
    \* The chain:
    mined,          \* the account's transactions, in order: [tx, ok]
    allowance,      \* what the router may spend, Unlimited for U256::MAX
    sent,           \* every transaction that has left the bot
    \* Observed only by the properties:
    clean,          \* no older transaction could be mined when leg started
    starved         \* legs whose swap reverted for lack of allowance

legVars == <<leg, at, amount, tx, attempt, report>>
chainVars == <<mined, allowance, sent>>
vars == <<legVars, chainVars, clean, starved>>

Unlimited == -1
Covers(a, needed) == a = Unlimited \/ a >= needed

Jobs == {"reset", "approve", "swap"}
Txs == [job : Jobs, leg : 0..MaxLegs, nonce : Nat, amount : Nat]
\* job of the leg's transaction before it is built: nonce and the rest follow.
Draft(job) ==
    [job |-> job, leg |-> IF job = "swap" THEN leg ELSE 0, nonce |-> 0,
     amount |-> IF job = "swap" THEN amount ELSE 0]

TypeOK ==
    /\ leg \in 0..MaxLegs
    /\ at \in {"idle", "allowance", "nonce", "send", "answer", "receipt"}
    /\ amount \in Amounts \cup {0}
    /\ tx \in Txs
    /\ attempt \in 0..MaxRetries
    /\ report \in [Legs -> {"none", "filled", "failed"}]
    /\ mined \in Seq([tx : Txs, ok : BOOLEAN])
    /\ allowance \in Nat \cup {Unlimited}
    /\ sent \in SUBSET Txs
    /\ clean \in BOOLEAN
    /\ starved \in SUBSET Legs

NoTx == [job |-> "swap", leg |-> 0, nonce |-> 0, amount |-> 0]

Init ==
    /\ leg = 0 /\ at = "idle" /\ amount = 0 /\ tx = NoTx /\ attempt = 0
    /\ report = [l \in Legs |-> "none"]
    /\ mined = <<>> /\ allowance \in Allowances /\ sent = {}
    /\ clean = TRUE /\ starved = {}

\* The account's nonce: the number of its mined transactions.
AccountNonce == Len(mined)

Mineable == {t \in sent : t.nonce = AccountNonce}

----------------------------------------------------------------------------
(* A leg.                                                                  *)

StartLeg ==
    /\ at = "idle" /\ leg < MaxLegs
    /\ leg' = leg + 1
    /\ amount' \in Amounts
    /\ at' = "allowance"
    /\ clean' = (Mineable = {})
    /\ UNCHANGED <<tx, attempt, report, chainVars, starved>>

Return(result) ==
    /\ report' = [report EXCEPT ![leg] = result]
    /\ at' = "idle"
    /\ UNCHANGED <<leg, amount, tx, attempt>>

\* The leg goes on to build its next transaction.
Build(job) ==
    /\ at' = "nonce"
    /\ tx' = Draft(job)
    /\ UNCHANGED <<leg, amount, attempt, report>>

\* ensure_allowance, the call.
ReadAllowance ==
    /\ at = "allowance"
    /\ Build(IF Covers(allowance, amount) THEN "swap"
             ELSE IF allowance # 0 THEN "reset" ELSE "approve")
    /\ UNCHANGED <<chainVars, clean, starved>>

\* The transaction is mined (ok or reverted), or send_and_wait has failed:
\* nobody looks at what became of a reset.
JobDone(ok) ==
    CASE tx.job = "reset" -> Build("approve")
      [] tx.job = "approve" -> IF ok THEN Build("swap") ELSE Return("failed")
      [] tx.job = "swap" -> Return(IF ok THEN "filled" ELSE "failed")

\* Slip: the nonce counts on the transaction that was just sent.
ReadNonceAhead ==
    /\ at = "nonce"
    /\ at' = "send" /\ attempt' = 0
    /\ tx' = [tx EXCEPT !.nonce = IF sent = {} THEN AccountNonce
                                  ELSE AccountNonce + 1]
    /\ UNCHANGED <<leg, amount, report, chainVars, clean, starved>>

\* build: the nonce is the number of mined transactions, whatever is pending.
ReadNonce ==
    /\ at = "nonce"
    /\ at' = "send" /\ attempt' = 0
    /\ tx' = [tx EXCEPT !.nonce = AccountNonce]
    /\ UNCHANGED <<leg, amount, report, chainVars, clean, starved>>

\* send_raw_transaction: the request leaves.
Transmit ==
    /\ at = "send"
    /\ at' = "answer"
    /\ sent' = sent \cup {tx}
    /\ UNCHANGED <<leg, amount, tx, attempt, report, mined, allowance, clean,
                   starved>>

\* Slips: the attempts are not counted; a retry builds the transaction anew.
SendRetriesForEver ==
    /\ at \in {"send", "answer"}
    /\ attempt' = attempt + 1
    /\ at' = "send"
    /\ UNCHANGED <<leg, amount, tx, report, chainVars, clean, starved>>
SendRetriesRebuild ==
    /\ at \in {"send", "answer"}
    /\ attempt < MaxRetries
    /\ attempt' = attempt + 1
    /\ at' = "send"
    /\ tx' = [tx EXCEPT !.nonce = AccountNonce]
    /\ UNCHANGED <<leg, amount, report, chainVars, clean, starved>>

\* send_transaction gets a retryable error, or no answer, and sends the same
\* bytes again, whether the node has them already or not.
SendRetries ==
    /\ at \in {"send", "answer"}
    /\ attempt < MaxRetries
    /\ attempt' = attempt + 1
    /\ at' = "send"
    /\ UNCHANGED <<leg, amount, tx, report, chainVars, clean, starved>>

\* The node answers with the hash.
SendAccepted ==
    /\ at = "answer"
    /\ at' = "receipt"
    /\ UNCHANGED <<leg, amount, tx, attempt, report, chainVars, clean, starved>>

\* Slip: a receipt is good news.
ReceiptFoundIgnored ==
    /\ at = "receipt"
    /\ \E i \in DOMAIN mined : mined[i].tx = tx /\ JobDone(TRUE)
    /\ UNCHANGED <<chainVars, clean, starved>>

\* wait_for_receipt finds the receipt.
ReceiptFound ==
    /\ at = "receipt"
    /\ \E i \in DOMAIN mined : mined[i].tx = tx /\ JobDone(mined[i].ok)
    /\ UNCHANGED <<chainVars, clean, starved>>

\* Slip: an approval whose fate is not known is taken for granted.
JobFailsOptimistic ==
    /\ at \in {"nonce", "send", "answer", "receipt"}
    /\ JobDone(tx.job # "swap")
    /\ UNCHANGED <<chainVars, clean, starved>>

\* send_and_wait returns an error: the nonce or the gas price cannot be read,
\* send_transaction gets an error that is not retryable, or one too many, or
\* no receipt is found in time.
JobFails ==
    /\ at \in {"nonce", "send", "answer", "receipt"}
    /\ JobDone(FALSE)
    /\ UNCHANGED <<chainVars, clean, starved>>

\* The allowance cannot be read, or the leg's timeout drops the future.
GiveUp ==
    /\ at # "idle"
    /\ Return("failed")
    /\ UNCHANGED <<chainVars, clean, starved>>

----------------------------------------------------------------------------
(* The chain.                                                              *)

\* What a transaction that does not revert leaves of the allowance.
AllowanceAfter(t) ==
    CASE t.job = "reset" -> 0
      [] t.job = "approve" -> Unlimited
      [] t.job = "swap" -> IF allowance = Unlimited THEN Unlimited
                           ELSE allowance - t.amount

\* A transaction is mined.  Any may revert, and a swap that the allowance
\* does not cover must.
Mine(t) ==
    /\ t \in Mineable
    /\ \E ok \in BOOLEAN :
          /\ ok => Covers(allowance, t.amount)
          /\ mined' = Append(mined, [tx |-> t, ok |-> ok])
          /\ allowance' = IF ok THEN AllowanceAfter(t) ELSE allowance
    /\ starved' = IF Covers(allowance, t.amount) THEN starved
                  ELSE starved \cup {t.leg}
    /\ UNCHANGED <<legVars, sent, clean>>

Next ==
    \/ StartLeg \/ ReadAllowance \/ ReadNonce
    \/ Transmit \/ SendRetries \/ SendAccepted \/ ReceiptFound
    \/ JobFails \/ GiveUp
    \/ \E t \in sent : Mine(t)

Spec == Init /\ [][Next]_vars

----------------------------------------------------------------------------
\* Whatever was given up for lost, retried or refused, only one nonce is ever
\* at stake: of all the transactions that may still be mined, at most one will
\* be next.  So the swaps of failed legs that can still land come to one
\* trade, and no transaction waits for a nonce that nobody fills.
OneTradeExposed == \A t \in sent : t.nonce <= AccountNonce

\* A swap that finds its allowance spent or reset belongs to a leg that began
\* while something older could still be mined: ensure_allowance is enough
\* whenever the legs before have settled.
CleanLegsAreApproved == clean => leg \notin starved

\* Swaps are executed in the order of their legs and each at most once, though
\* each is sent up to MaxRetries + 1 times and may land after its leg.
SwapsInOrder ==
    \A i, j \in DOMAIN mined :
       /\ i < j /\ mined[i].tx.job = "swap" /\ mined[j].tx.job = "swap"
       => mined[i].tx.leg < mined[j].tx.leg

\* A leg's swap seen as an order.
Executed(l) == \E i \in DOMAIN mined :
                  mined[i].ok /\ mined[i].tx.job = "swap" /\ mined[i].tx.leg = l
order == [l \in Legs |->
             IF Executed(l) THEN "executed"
             ELSE IF \E t \in sent : t.job = "swap" /\ t.leg = l THEN "live"
             ELSE "unsent"]

Orders == INSTANCE SwapOrders

\* The legs implement the abstract orders: what Executor assumes of a DEX leg.
OrdersSpec == Orders!Spec
=============================================================================
