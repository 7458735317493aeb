--------------------------- MODULE TxSenderProofs ---------------------------
(***************************************************************************)
(* What the transactions of the DEX legs guarantee for any number of legs, *)
(* retries, amounts and allowances, on a chain that mines whatever it was  *)
(* ever sent: one trade is at stake, swaps keep the order of their legs, a *)
(* leg that starts clean has its allowance, and the legs are the abstract  *)
(* orders of SwapOrders.                                                   *)
(***************************************************************************)
EXTENDS TxSender, SequenceTheorems, TLAPS

\* The transaction has its nonce.
Busy == {"send", "answer", "receipt"}
\* The leg is about a transaction.
Working == {"nonce"} \cup Busy

----------------------------------------------------------------------------
(* The inductive invariant.                                                *)

\* A leg that runs has reported nothing, and no later one has.
RunningInv ==
    /\ at # "idle" => leg \in Legs /\ amount \in Amounts /\ report[leg] = "none"
    /\ \A l \in Legs : l > leg => report[l] = "none"

\* A swap carries its leg and its amount, an approval neither.
Drafted(t) == t.job # "swap" => t.amount = 0
JobInv ==
    /\ at \in Working => /\ Drafted(tx)
                         /\ tx.job = "swap" => tx.leg = leg /\ tx.amount = amount
    /\ \A t \in sent : Drafted(t) /\ (t.job = "swap" => t.leg \in 1 .. leg)

\* A leg's swap leaves the bot after it was built.
SwapIsNew == at \in {"allowance", "nonce"} \/ (at \in Busy /\ tx.job # "swap")
SwapInv == SwapIsNew => \A t \in sent : t.job = "swap" => t.leg # leg

\* What is mined was sent, with the nonce of its place.
MinedInv == \A i \in DOMAIN mined :
                mined[i].tx \in sent /\ mined[i].tx.nonce = i - 1

\* The nonce of the transaction at hand was read after all that were sent.
LatestInv == at \in Busy => /\ tx.nonce <= AccountNonce
                            /\ \A t \in sent : t.nonce <= tx.nonce

\* Nonces grow with the legs, and a leg's swap has one.
OrderedInv ==
    /\ \A s, t \in sent : s.job = "swap" /\ t.job = "swap" /\ s.leg <= t.leg
                              => s.nonce <= t.nonce
    /\ at \in Busy /\ tx.job = "swap" =>
          \A t \in sent : t.job = "swap" /\ t.leg = leg => t.nonce = tx.nonce

\* The approval the leg is about has been mined.
ApprovalMined == \E i \in DOMAIN mined : mined[i].tx = tx /\ mined[i].ok

\* While a leg that began clean is the last one, a swap that can be mined is
\* alone, and covered; before it is sent nothing can take its allowance.
CleanInv ==
    clean =>
      /\ leg \notin starved
      /\ \A t \in Mineable : t.job = "swap" => /\ Mineable = {t}
                                               /\ Covers(allowance, t.amount)
      /\ at = "allowance" => Mineable = {}
      /\ at = "nonce" /\ tx.job = "swap" =>
            Mineable = {} /\ Covers(allowance, tx.amount)
      /\ at \in Busy /\ tx.job = "swap" /\ tx.nonce = AccountNonce =>
            Mineable \subseteq {tx} /\ Covers(allowance, tx.amount)
      /\ at \in Working /\ tx.job # "swap" =>
            \A t \in Mineable : t.job # "swap"
      /\ at \in Busy /\ tx.job = "approve" /\ ApprovalMined =>
            allowance = Unlimited

\* Legs that lacked an allowance are legs whose swap was sent.
StarvedInv == \A l \in starved : l <= leg

NonceInv == OneTradeExposed /\ MinedInv /\ LatestInv /\ OrderedInv

IInv == /\ TypeOK /\ RunningInv /\ JobInv /\ SwapInv /\ NonceInv
        /\ StarvedInv /\ CleanInv

----------------------------------------------------------------------------
(* What the steps do.                                                      *)

LEMMA MinedIsSeq ==
    ASSUME TypeOK
    PROVE  /\ AccountNonce \in Nat /\ DOMAIN mined = 1 .. AccountNonce
           /\ \A i \in DOMAIN mined : mined[i].tx \in Txs /\ mined[i].ok \in BOOLEAN
<1> DEFINE Blocks == [tx : Txs, ok : BOOLEAN]
<1>1. mined \in Seq(Blocks)
  BY DEF TypeOK
<1>2. \A b \in Blocks : b.tx \in Txs /\ b.ok \in BOOLEAN
  OBVIOUS
<1> HIDE DEF Blocks
<1> QED BY <1>1, <1>2, LenProperties, ElementOfSeq DEF AccountNonce

\* A job is over in one of four ways, and the chain has no part in it.
JobOver ==
    /\ at \in Working
    /\ UNCHANGED <<chainVars, clean, starved>>
    /\ \/ tx.job = "reset" /\ Build("approve")
       \/ at = "receipt" /\ tx.job = "approve" /\ ApprovalMined /\ Build("swap")
       \/ Return("failed")
       \/ at = "receipt" /\ tx.job = "swap" /\ ApprovalMined /\ Return("filled")

LEMMA JobDoneIsOver ==
    ASSUME TypeOK, ReceiptFound \/ JobFails
    PROVE  JobOver
<1>1. tx.job \in Jobs
  BY DEF TypeOK, Txs
<1>2. ASSUME NEW ok \in BOOLEAN, JobDone(ok)
      PROVE  \/ tx.job = "reset" /\ Build("approve")
             \/ tx.job = "approve" /\ ok /\ Build("swap")
             \/ tx.job \in {"approve", "swap"} /\ ~ok /\ Return("failed")
             \/ tx.job = "swap" /\ ok /\ Return("filled")
  <2>1. CASE tx.job = "reset"
    BY <1>2, <2>1 DEF JobDone
  <2>2. CASE tx.job = "approve"
    BY <1>2, <2>2 DEF JobDone
  <2>3. CASE tx.job = "swap"
    BY <1>2, <2>3 DEF JobDone
  <2> QED BY <1>1, <2>1, <2>2, <2>3 DEF Jobs
<1>3. CASE ReceiptFound
  <2>1. PICK i \in DOMAIN mined : mined[i].tx = tx /\ JobDone(mined[i].ok)
    BY <1>3 DEF ReceiptFound
  <2>2. mined[i].ok \in BOOLEAN
    BY MinedIsSeq
  <2>3. at = "receipt" /\ UNCHANGED <<chainVars, clean, starved>>
    BY <1>3 DEF ReceiptFound
  <2> QED BY <1>2, <2>1, <2>2, <2>3 DEF JobOver, Working, Busy, ApprovalMined
<1>4. CASE JobFails
  BY <1>2, <1>4 DEF JobFails, JobOver, Working, Busy
<1> QED BY <1>3, <1>4

\* The steps, with the ends of a job taken together.
LEMMA Steps ==
    ASSUME TypeOK, [Next]_vars
    PROVE  \/ StartLeg \/ ReadAllowance \/ ReadNonce
           \/ Transmit \/ SendRetries \/ SendAccepted
           \/ JobOver
           \/ (at # "idle" /\ Return("failed") /\ UNCHANGED <<chainVars, clean, starved>>)
           \/ \E t \in sent : Mine(t)
           \/ UNCHANGED vars
BY JobDoneIsOver DEF Next, GiveUp

LEMMA DraftEffect ==
    ASSUME TypeOK, NEW job \in Jobs
    PROVE  /\ Draft(job) \in Txs /\ Draft(job).job = job
           /\ Draft(job).leg = IF job = "swap" THEN leg ELSE 0
           /\ Draft(job).amount = IF job = "swap" THEN amount ELSE 0
BY SenderAssumption DEF TypeOK, Draft, Txs

LEMMA NonceEffect ==
    ASSUME TypeOK, NEW n \in Nat
    PROVE  /\ [tx EXCEPT !.nonce = n] \in Txs
           /\ [tx EXCEPT !.nonce = n].nonce = n
           /\ [tx EXCEPT !.nonce = n].job = tx.job
           /\ [tx EXCEPT !.nonce = n].leg = tx.leg
           /\ [tx EXCEPT !.nonce = n].amount = tx.amount
BY DEF TypeOK, Txs

\* The chain is one transaction longer.
LEMMA MineAppends ==
    ASSUME TypeOK, NEW t \in sent, Mine(t)
    PROVE  \E ok \in BOOLEAN :
              /\ ok => Covers(allowance, t.amount)
              /\ mined' \in Seq([tx : Txs, ok : BOOLEAN])
              /\ AccountNonce' = AccountNonce + 1
              /\ DOMAIN mined' = 1 .. AccountNonce + 1
              /\ \A i \in DOMAIN mined : mined'[i] = mined[i]
              /\ mined'[AccountNonce + 1] = [tx |-> t, ok |-> ok]
              /\ allowance' = IF ok THEN AllowanceAfter(t) ELSE allowance
<1>1. PICK ok \in BOOLEAN :
         /\ ok => Covers(allowance, t.amount)
         /\ mined' = Append(mined, [tx |-> t, ok |-> ok])
         /\ allowance' = IF ok THEN AllowanceAfter(t) ELSE allowance
  BY DEF Mine
<1> DEFINE block == [tx |-> t, ok |-> ok]
           Blocks == [tx : Txs, ok : BOOLEAN]
<1>2. block \in Blocks /\ mined \in Seq(Blocks)
  BY DEF TypeOK
<1> HIDE DEF block, Blocks
<1>3. /\ mined' \in Seq(Blocks) /\ Len(mined') = Len(mined) + 1
      /\ \A i \in 1 .. Len(mined) : mined'[i] = mined[i]
      /\ mined'[Len(mined) + 1] = block
  BY <1>1, <1>2, AppendProperties DEF block
<1>4. DOMAIN mined' = 1 .. Len(mined) + 1
  BY <1>3, LenProperties
<1> QED BY <1>1, <1>3, <1>4, MinedIsSeq DEF AccountNonce, block, Blocks

----------------------------------------------------------------------------
(* The invariant holds at the start.                                       *)

LEMMA InitInv == Init => IInv
<1> SUFFICES ASSUME Init PROVE IInv
  OBVIOUS
<1>1. AccountNonce = 0 /\ DOMAIN mined = {} /\ sent = {} /\ Mineable = {}
  BY DEF Init, AccountNonce, Mineable
<1>2. TypeOK
  <2>1. NoTx \in Txs
    BY SenderAssumption DEF NoTx, Txs, Jobs
  <2>2. mined \in Seq([tx : Txs, ok : BOOLEAN])
    BY DEF Init
  <2> QED BY <2>1, <2>2, SenderAssumption DEF Init, TypeOK
<1>3. RunningInv /\ JobInv /\ SwapInv
  BY <1>1 DEF Init, RunningInv, JobInv, SwapInv, SwapIsNew, Working, Busy
<1>4. NonceInv
  BY <1>1 DEF Init, NonceInv, OneTradeExposed, MinedInv, LatestInv, OrderedInv, Busy
<1>5. CleanInv /\ StarvedInv
  BY <1>1 DEF Init, CleanInv, StarvedInv, Working, Busy
<1> QED BY <1>2, <1>3, <1>4, <1>5 DEF IInv

----------------------------------------------------------------------------
(* Every step preserves it.                                                *)

LEMMA TypeStep ==
    ASSUME TypeOK, RunningInv, JobInv, [Next]_vars
    PROVE  TypeOK'
<1>1. CASE StartLeg
  <2>1. leg' \in 0 .. MaxLegs
    BY <1>1, SenderAssumption DEF TypeOK, StartLeg
  <2>2. clean' \in BOOLEAN
    BY <1>1 DEF StartLeg
  <2> QED BY <1>1, <2>1, <2>2 DEF TypeOK, StartLeg, chainVars
<1>2. ASSUME NEW job \in Jobs, Build(job), UNCHANGED <<chainVars, clean, starved>>
      PROVE  TypeOK'
  BY <1>2, DraftEffect DEF TypeOK, Build, chainVars
<1>3. CASE ReadAllowance
  BY <1>2, <1>3 DEF ReadAllowance, Jobs
<1>4. CASE ReadNonce
  BY <1>4, MinedIsSeq, NonceEffect, SenderAssumption DEF TypeOK, ReadNonce, chainVars
<1>5. CASE Transmit
  BY <1>5 DEF TypeOK, Transmit
<1>6. CASE SendRetries \/ SendAccepted
  BY <1>6, SenderAssumption DEF TypeOK, SendRetries, SendAccepted, chainVars
<1>7. ASSUME NEW r \in {"filled", "failed"}, Return(r), UNCHANGED <<chainVars, clean, starved>>
      PROVE  TypeOK'
  BY <1>7 DEF TypeOK, Return, chainVars
<1>8. CASE JobOver
  BY <1>2, <1>7, <1>8 DEF JobOver, Jobs
<1>9. ASSUME NEW t \in sent, Mine(t) PROVE TypeOK'
  <2>1. PICK ok \in BOOLEAN :
           /\ ok => Covers(allowance, t.amount)
           /\ mined' \in Seq([tx : Txs, ok : BOOLEAN])
           /\ allowance' = IF ok THEN AllowanceAfter(t) ELSE allowance
    BY <1>9, MineAppends
  <2>2. /\ t \in Txs /\ t.job \in Jobs /\ t.amount \in Nat
        /\ allowance \in Nat \cup {Unlimited} /\ leg \in 0 .. MaxLegs
        /\ MaxLegs \in Nat
    BY SenderAssumption DEF TypeOK, Txs
  <2>3. allowance' \in Nat \cup {Unlimited}
    <3>1. CASE t.job = "reset"
      BY <2>1, <2>2, <3>1 DEF AllowanceAfter
    <3>2. CASE t.job = "approve"
      BY <2>1, <2>2, <3>2 DEF AllowanceAfter
    <3>3. CASE t.job = "swap"
      BY <2>1, <2>2, <3>3 DEF AllowanceAfter, Covers, Unlimited
    <3> QED BY <2>2, <3>1, <3>2, <3>3 DEF Jobs
  <2>4. starved' \in SUBSET Legs
    <3>0. starved \in SUBSET Legs
      BY DEF TypeOK
    <3>1. CASE t.job = "swap"
      <4>1. t.leg \in 1 .. leg
        BY <3>1 DEF JobInv
      <4>2. t.leg \in Legs
        BY <2>2, <4>1 DEF Legs
      <4> QED BY <1>9, <3>0, <4>2 DEF Mine
    <3>2. CASE t.job # "swap"
      <4>1. Covers(allowance, t.amount)
        BY <2>2, <3>2 DEF JobInv, Drafted, Covers, Unlimited
      <4> QED BY <1>9, <3>0, <4>1 DEF Mine
    <3> QED BY <3>1, <3>2
  <2> QED BY <1>9, <2>1, <2>3, <2>4 DEF Mine, TypeOK, legVars
<1>10. CASE UNCHANGED vars
  BY <1>10 DEF TypeOK, vars, legVars, chainVars
<1> QED BY <1>1, <1>3, <1>4, <1>5, <1>6, <1>7, <1>8, <1>9, <1>10, Steps

LEMMA RunningStep ==
    ASSUME TypeOK, RunningInv, [Next]_vars
    PROVE  RunningInv'
<1>0. leg \in Nat /\ MaxLegs \in Nat /\ report \in [Legs -> {"none", "filled", "failed"}]
  BY SenderAssumption DEF TypeOK
<1>1. CASE StartLeg
  <2>1. leg' = leg + 1 /\ leg' \in Legs /\ report' = report /\ amount' \in Amounts
    BY <1>0, <1>1 DEF StartLeg, Legs
  <2>2. report[leg'] = "none" /\ \A l \in Legs : l > leg' => report[l] = "none"
    BY <1>0, <2>1 DEF RunningInv, Legs
  <2> QED BY <2>1, <2>2 DEF RunningInv
<1>2. CASE ReadAllowance \/ ReadNonce \/ Transmit \/ SendRetries \/ SendAccepted
  BY <1>2 DEF ReadAllowance, Build, ReadNonce, Transmit, SendRetries, SendAccepted,
              RunningInv
<1>3. ASSUME NEW job, Build(job), at \in Working PROVE RunningInv'
  BY <1>3 DEF Build, RunningInv, Working, Busy
<1>4. ASSUME NEW r, Return(r) PROVE RunningInv'
  BY <1>0, <1>4 DEF Return, RunningInv, Legs
<1>5. CASE JobOver
  BY <1>3, <1>4, <1>5 DEF JobOver
<1>6. CASE \E t \in sent : Mine(t)
  BY <1>6 DEF Mine, legVars, RunningInv
<1>7. CASE UNCHANGED vars
  BY <1>7 DEF vars, legVars, RunningInv
<1> QED BY <1>1, <1>2, <1>4, <1>5, <1>6, <1>7, Steps

LEMMA JobStep ==
    ASSUME TypeOK, RunningInv, JobInv, [Next]_vars
    PROVE  JobInv'
<1>0. leg \in Nat /\ MaxLegs \in Nat
  BY SenderAssumption DEF TypeOK
<1>1. CASE StartLeg
  BY <1>0, <1>1 DEF StartLeg, chainVars, JobInv, Drafted, Working, Busy
<1>2. ASSUME NEW job \in Jobs, Build(job), sent' = sent PROVE JobInv'
  BY <1>2, DraftEffect DEF Build, JobInv, Drafted
<1>3. CASE ReadAllowance
  BY <1>2, <1>3 DEF ReadAllowance, chainVars, Jobs
<1>4. CASE ReadNonce
  BY <1>4, MinedIsSeq, NonceEffect DEF ReadNonce, chainVars, JobInv, Drafted, Working
<1>5. CASE Transmit
  <2>1. leg \in 1 .. leg
    BY <1>0, <1>5 DEF Transmit, RunningInv, Legs
  <2> QED BY <1>0, <1>5, <2>1 DEF Transmit, JobInv, Drafted, Working, Busy
<1>6. CASE SendRetries \/ SendAccepted
  BY <1>6 DEF SendRetries, SendAccepted, chainVars, JobInv, Drafted, Working, Busy
<1>7. ASSUME NEW r, Return(r), sent' = sent PROVE JobInv'
  BY <1>7 DEF Return, JobInv, Drafted, Working, Busy
<1>8. CASE JobOver
  BY <1>2, <1>7, <1>8 DEF JobOver, chainVars, Jobs
<1>9. CASE \E t \in sent : Mine(t)
  BY <1>9 DEF Mine, legVars, JobInv, Drafted
<1>10. CASE UNCHANGED vars
  BY <1>10 DEF vars, legVars, chainVars, JobInv, Drafted
<1> QED BY <1>1, <1>3, <1>4, <1>5, <1>6, <1>7, <1>8, <1>9, <1>10, Steps DEF chainVars

LEMMA SwapStep ==
    ASSUME TypeOK, RunningInv, JobInv, SwapInv, [Next]_vars
    PROVE  SwapInv'
<1>0. leg \in Nat
  BY DEF TypeOK
<1>1. CASE StartLeg
  BY <1>0, <1>1 DEF StartLeg, chainVars, SwapInv, SwapIsNew, JobInv
<1>2. CASE ReadAllowance
  BY <1>2 DEF ReadAllowance, Build, chainVars, SwapInv, SwapIsNew
<1>3. CASE ReadNonce
  BY <1>3 DEF ReadNonce, chainVars, SwapInv, SwapIsNew
<1>4. CASE Transmit
  BY <1>4 DEF Transmit, SwapInv, SwapIsNew, Busy
<1>5. CASE SendRetries \/ SendAccepted
  BY <1>5 DEF SendRetries, SendAccepted, chainVars, SwapInv, SwapIsNew, Busy
<1>6. ASSUME NEW r, Return(r), sent' = sent PROVE SwapInv'
  BY <1>6 DEF Return, SwapInv, SwapIsNew, Busy
<1>7. CASE JobOver
  <2>1. ASSUME NEW job, Build(job), tx.job # "swap" PROVE SwapInv'
    BY <1>7, <2>1 DEF JobOver, Build, chainVars, SwapInv, SwapIsNew, Working, Busy
  <2> QED BY <1>6, <1>7, <2>1 DEF JobOver, chainVars
<1>8. CASE \E t \in sent : Mine(t)
  BY <1>8 DEF Mine, legVars, SwapInv, SwapIsNew
<1>9. CASE UNCHANGED vars
  BY <1>9 DEF vars, legVars, chainVars, SwapInv, SwapIsNew
<1> QED BY <1>1, <1>2, <1>3, <1>4, <1>5, <1>6, <1>7, <1>8, <1>9, Steps DEF chainVars

LEMMA NonceStep ==
    ASSUME TypeOK, RunningInv, JobInv, SwapInv, NonceInv, [Next]_vars
    PROVE  NonceInv'
<1>0. /\ leg \in Nat /\ tx \in Txs /\ tx.nonce \in Nat /\ AccountNonce \in Nat
      /\ \A t \in sent : t \in Txs /\ t.nonce \in Nat /\ t.leg \in Nat
  BY MinedIsSeq, SenderAssumption DEF TypeOK, Txs
\* Neither the chain nor what was sent has changed, and at most the swap is
\* another one.
<1>1. ASSUME UNCHANGED chainVars, LatestInv',
             at' \in Busy /\ tx'.job = "swap" =>
                \A t \in sent : t.job = "swap" /\ t.leg = leg' => t.nonce = tx'.nonce
      PROVE  NonceInv'
  BY <1>1 DEF NonceInv, OneTradeExposed, MinedInv, OrderedInv, chainVars, AccountNonce
<1>2. ASSUME UNCHANGED chainVars, at' \notin Busy
      PROVE  NonceInv'
  BY <1>1, <1>2 DEF LatestInv
<1>3. CASE StartLeg \/ ReadAllowance
  BY <1>2, <1>3 DEF StartLeg, ReadAllowance, Build, Busy
<1>4. CASE ReadNonce
  <2>1. tx' = [tx EXCEPT !.nonce = AccountNonce] /\ UNCHANGED chainVars
        /\ leg' = leg /\ at = "nonce"
    BY <1>4 DEF ReadNonce
  <2>2. tx'.nonce = AccountNonce
    BY <1>0, <2>1, NonceEffect
  <2>3. LatestInv'
    BY <1>0, <2>1, <2>2 DEF LatestInv, NonceInv, OneTradeExposed, chainVars, AccountNonce
  <2>4. \A t \in sent : t.job = "swap" => t.leg # leg
    BY <2>1 DEF SwapInv, SwapIsNew
  <2> QED BY <1>1, <2>1, <2>3, <2>4
<1>5. CASE Transmit
  <2>1. /\ sent' = sent \cup {tx} /\ mined' = mined /\ tx' = tx /\ leg' = leg
        /\ at \in Busy /\ at' \in Busy /\ AccountNonce' = AccountNonce
    BY <1>5 DEF Transmit, Busy, AccountNonce
  <2>2. tx.nonce <= AccountNonce /\ \A t \in sent : t.nonce <= tx.nonce
    BY <2>1 DEF NonceInv, LatestInv
  <2>3. OneTradeExposed' /\ MinedInv' /\ LatestInv'
    BY <1>0, <2>1, <2>2 DEF NonceInv, OneTradeExposed, MinedInv, LatestInv
  <2>4. tx.job = "swap" =>
           /\ tx.leg = leg
           /\ \A t \in sent : t.job = "swap" => t.leg <= leg
           /\ \A t \in sent : t.job = "swap" /\ t.leg = leg => t.nonce = tx.nonce
    BY <1>0, <2>1 DEF JobInv, NonceInv, OrderedInv, Working
  <2>5. OrderedInv'
    <3>1. ASSUME NEW s \in sent', NEW t \in sent',
                 s.job = "swap", t.job = "swap", s.leg <= t.leg
          PROVE  s.nonce <= t.nonce
      <4>1. CASE s \in sent /\ t \in sent
        BY <3>1, <4>1 DEF NonceInv, OrderedInv
      <4>2. CASE t = tx
        BY <1>0, <2>1, <2>2, <3>1, <4>2
      <4>3. CASE s = tx /\ t \in sent
        <5>1. t.leg = leg
          BY <1>0, <2>4, <3>1, <4>3
        <5> QED BY <1>0, <2>4, <3>1, <4>3, <5>1
      <4> QED BY <2>1, <4>1, <4>2, <4>3
    <3>2. tx.job = "swap" =>
             \A t \in sent' : t.job = "swap" /\ t.leg = leg => t.nonce = tx.nonce
      BY <2>1, <2>4
    <3> QED BY <2>1, <3>1, <3>2 DEF OrderedInv
  <2> QED BY <2>3, <2>5 DEF NonceInv
<1>6. CASE SendRetries \/ SendAccepted
  <2>1. /\ UNCHANGED chainVars /\ tx' = tx /\ leg' = leg /\ at \in Busy
        /\ AccountNonce' = AccountNonce /\ sent' = sent
    BY <1>6 DEF SendRetries, SendAccepted, Busy, chainVars, AccountNonce
  <2>2. LatestInv'
    BY <2>1 DEF NonceInv, LatestInv
  <2> QED BY <1>1, <2>1, <2>2 DEF NonceInv, OrderedInv
<1>7. CASE JobOver
  BY <1>2, <1>7 DEF JobOver, Build, Return, Busy
<1>8. CASE Return("failed") /\ UNCHANGED <<chainVars, clean, starved>>
  BY <1>2, <1>8 DEF Return, Busy
<1>9. ASSUME NEW t \in sent, Mine(t) PROVE NonceInv'
  <2>1. PICK ok \in BOOLEAN :
           /\ AccountNonce' = AccountNonce + 1
           /\ DOMAIN mined' = 1 .. AccountNonce + 1
           /\ \A i \in DOMAIN mined : mined'[i] = mined[i]
           /\ mined'[AccountNonce + 1] = [tx |-> t, ok |-> ok]
    BY <1>9, MineAppends
  <2>2. sent' = sent /\ tx' = tx /\ at' = at /\ leg' = leg /\ t.nonce = AccountNonce
    BY <1>9 DEF Mine, legVars, Mineable
  <2>3. MinedInv'
    <3> SUFFICES ASSUME NEW i \in DOMAIN mined'
                 PROVE  mined'[i].tx \in sent /\ mined'[i].tx.nonce = i - 1
      BY <2>2 DEF MinedInv
    <3>1. CASE i = AccountNonce + 1
      BY <1>0, <2>1, <2>2, <3>1
    <3>2. CASE i # AccountNonce + 1
      BY <1>0, <2>1, <3>2, MinedIsSeq DEF NonceInv, MinedInv
    <3> QED BY <3>1, <3>2
  <2>4. OneTradeExposed' /\ LatestInv'
    BY <1>0, <2>1, <2>2 DEF NonceInv, OneTradeExposed, LatestInv
  <2>5. OrderedInv'
    BY <2>2 DEF NonceInv, OrderedInv
  <2> QED BY <2>3, <2>4, <2>5 DEF NonceInv
<1>10. CASE UNCHANGED vars
  BY <1>10 DEF vars, legVars, chainVars, AccountNonce, NonceInv, OneTradeExposed,
               MinedInv, LatestInv, OrderedInv
<1> QED BY <1>3, <1>4, <1>5, <1>6, <1>7, <1>8, <1>9, <1>10, Steps

LEMMA StarvedStep ==
    ASSUME TypeOK, JobInv, StarvedInv, [Next]_vars
    PROVE  StarvedInv'
<1>0. leg \in Nat /\ MaxLegs \in Nat /\ \A l \in starved : l \in Nat
  BY SenderAssumption DEF TypeOK, Legs
<1>1. CASE StartLeg
  BY <1>0, <1>1 DEF StartLeg, StarvedInv
<1>2. CASE ReadAllowance \/ ReadNonce \/ Transmit \/ SendRetries \/ SendAccepted
  BY <1>2 DEF ReadAllowance, Build, ReadNonce, Transmit, SendRetries, SendAccepted,
              StarvedInv
<1>3. CASE JobOver
  BY <1>3 DEF JobOver, Build, Return, StarvedInv
<1>4. CASE Return("failed") /\ UNCHANGED <<chainVars, clean, starved>>
  BY <1>4 DEF Return, StarvedInv
<1>5. ASSUME NEW t \in sent, Mine(t) PROVE StarvedInv'
  <2>1. t \in Txs /\ allowance \in Nat \cup {Unlimited}
    BY DEF TypeOK
  <2>2. CASE t.job = "swap"
    BY <1>0, <1>5, <2>2 DEF Mine, legVars, JobInv, StarvedInv
  <2>3. CASE t.job # "swap"
    <3>1. Covers(allowance, t.amount)
      BY <2>1, <2>3 DEF JobInv, Drafted, Covers
    <3> QED BY <1>5, <3>1 DEF Mine, legVars, StarvedInv
  <2> QED BY <2>2, <2>3
<1>6. CASE UNCHANGED vars
  BY <1>6 DEF vars, legVars, StarvedInv
<1> QED BY <1>1, <1>2, <1>3, <1>4, <1>5, <1>6, Steps

\* Once the transaction at hand is mined, nothing is left to mine.
LEMMA MinedIsLast ==
    ASSUME TypeOK, NonceInv, at \in Busy, ApprovalMined
    PROVE  tx.nonce < AccountNonce /\ Mineable = {}
<1>1. PICK i \in DOMAIN mined : mined[i].tx = tx
  BY DEF ApprovalMined
<1>2. tx.nonce = i - 1 /\ i \in 1 .. AccountNonce /\ AccountNonce \in Nat
  BY <1>1, MinedIsSeq DEF NonceInv, MinedInv
<1>3. tx.nonce < AccountNonce
  BY <1>2
<1>4. \A t \in sent : t.nonce \in Nat /\ t.nonce <= tx.nonce
  BY DEF NonceInv, LatestInv, TypeOK, Txs
<1> QED BY <1>2, <1>3, <1>4 DEF Mineable

\* One transaction is mined of a nonce: what else has it is lost.
LEMMA MineEmpties ==
    ASSUME TypeOK, NonceInv, NEW t \in sent, Mine(t)
    PROVE  Mineable' = {}
<1>1. AccountNonce \in Nat /\ AccountNonce' = AccountNonce + 1
  BY MineAppends, MinedIsSeq
<1>2. \A s \in sent : s.nonce \in Nat /\ s.nonce <= AccountNonce
  BY DEF NonceInv, OneTradeExposed, TypeOK, Txs
<1>3. sent' = sent
  BY DEF Mine
<1> QED BY <1>1, <1>2, <1>3 DEF Mineable

LEMMA CleanStep ==
    ASSUME TypeOK, RunningInv, JobInv, NonceInv, StarvedInv, CleanInv, [Next]_vars
    PROVE  CleanInv'
<1>0. /\ leg \in Nat /\ tx \in Txs /\ tx.nonce \in Nat /\ AccountNonce \in Nat
      /\ tx.job \in Jobs /\ tx.amount \in Nat /\ amount \in Nat
      /\ \A t \in sent : t \in Txs /\ t.nonce \in Nat /\ t.leg \in Nat /\ t.amount \in Nat
      /\ \A l \in starved : l \in Nat
      /\ allowance \in Nat \cup {Unlimited}
  BY MinedIsSeq, SenderAssumption DEF TypeOK, Txs, Legs
\* Nothing moves but the leg.
<1>1. ASSUME UNCHANGED <<chainVars, clean, starved>>
      PROVE  Mineable' = Mineable /\ clean' = clean /\ starved' = starved
             /\ allowance' = allowance /\ sent' = sent /\ AccountNonce' = AccountNonce
  BY <1>1 DEF chainVars, Mineable, AccountNonce
<1>2. CASE StartLeg
  <2>1. /\ clean' => Mineable = {}
        /\ Mineable' = Mineable /\ leg' = leg + 1 /\ starved' = starved
        /\ at' = "allowance"
    BY <1>2 DEF StartLeg, chainVars, Mineable, AccountNonce
  <2>2. leg' \notin starved
    BY <1>0, <2>1 DEF StarvedInv
  <2> QED BY <2>1, <2>2 DEF CleanInv, Working, Busy
<1>3. CASE ReadAllowance
  <2>1. PICK job \in Jobs : /\ tx' = Draft(job)
                            /\ job = "swap" => Covers(allowance, amount)
    BY <1>3 DEF ReadAllowance, Build, Jobs
  <2>2. at = "allowance" /\ at' = "nonce" /\ leg' = leg
        /\ UNCHANGED <<chainVars, clean, starved>>
    BY <1>3 DEF ReadAllowance, Build
  <2>3. tx'.job = job /\ (job = "swap" => tx'.amount = amount)
    BY <2>1, DraftEffect
  <2>4. clean => leg \notin starved /\ Mineable = {}
    BY <2>2 DEF CleanInv
  <2> QED BY <1>1, <2>1, <2>2, <2>3, <2>4 DEF CleanInv, Working, Busy
<1>4. CASE ReadNonce
  <2>1. at = "nonce" /\ at' = "send" /\ leg' = leg /\ mined' = mined
        /\ tx' = [tx EXCEPT !.nonce = AccountNonce]
        /\ UNCHANGED <<chainVars, clean, starved>>
    BY <1>4 DEF ReadNonce, chainVars
  <2>2. tx'.nonce = AccountNonce /\ tx'.job = tx.job /\ tx'.amount = tx.amount
    BY <1>0, <2>1, NonceEffect
  <2>3. ~ApprovalMined'
    <3> SUFFICES ASSUME NEW i \in DOMAIN mined, mined[i].tx = tx' PROVE FALSE
      BY <2>1 DEF ApprovalMined
    <3>1. i \in 1 .. AccountNonce /\ mined[i].tx.nonce = i - 1
      BY MinedIsSeq DEF NonceInv, MinedInv
    <3> QED BY <1>0, <2>2, <3>1
  <2> QED BY <1>1, <2>1, <2>2, <2>3 DEF CleanInv, Working, Busy
<1>5. CASE Transmit
  <2>1. /\ at = "send" /\ at' = "answer" /\ sent' = sent \cup {tx}
        /\ UNCHANGED <<leg, tx, mined, allowance, clean, starved>>
        /\ AccountNonce' = AccountNonce
    BY <1>5 DEF Transmit, AccountNonce
  <2>2. tx.nonce <= AccountNonce /\ \A t \in sent : t.nonce <= tx.nonce
    BY <2>1 DEF NonceInv, LatestInv, Busy
  <2>3. Mineable' = Mineable \cup (IF tx.nonce = AccountNonce THEN {tx} ELSE {})
    BY <2>1 DEF Mineable
  <2>4. ApprovalMined' <=> ApprovalMined
    BY <2>1 DEF ApprovalMined
  <2> SUFFICES ASSUME clean PROVE CleanInv'
    BY <2>1 DEF CleanInv
  <2>5. CASE tx.job = "swap" /\ tx.nonce = AccountNonce
    <3>1. Mineable \subseteq {tx} /\ Covers(allowance, tx.amount)
      BY <2>1, <2>5 DEF CleanInv, Busy
    <3>2. Mineable' = {tx}
      BY <2>3, <2>5, <3>1
    <3> QED BY <2>1, <2>5, <3>1, <3>2 DEF CleanInv, Busy, Working
  <2>6. CASE tx.job = "swap" /\ tx.nonce # AccountNonce
    BY <2>1, <2>3, <2>6 DEF CleanInv, Busy, Working
  <2>7. CASE tx.job # "swap"
    <3>1. \A t \in Mineable' : t.job # "swap"
      BY <2>1, <2>3, <2>7 DEF CleanInv, Busy, Working
    <3> QED BY <2>1, <2>4, <2>7, <3>1 DEF CleanInv, Busy
  <2> QED BY <2>5, <2>6, <2>7
<1>6. CASE SendRetries \/ SendAccepted
  <2>1. /\ UNCHANGED <<chainVars, clean, starved, leg, tx, mined>>
        /\ at \in Busy /\ at' \in Busy /\ at' # "allowance" /\ at' # "nonce"
    BY <1>6 DEF SendRetries, SendAccepted, Busy, chainVars
  <2>2. ApprovalMined' <=> ApprovalMined
    BY <2>1 DEF ApprovalMined
  <2> QED BY <1>1, <2>1, <2>2 DEF CleanInv, Working
<1>7. ASSUME NEW r, Return(r), UNCHANGED <<chainVars, clean, starved>>
      PROVE  CleanInv'
  BY <1>1, <1>7 DEF Return, CleanInv, Working, Busy
<1>8. CASE JobOver
  <2>0. UNCHANGED <<chainVars, clean, starved>> /\ at \in Working
    BY <1>8 DEF JobOver
  <2>1. CASE tx.job = "reset" /\ Build("approve")
    <3>1. tx'.job = "approve" /\ at' = "nonce" /\ leg' = leg
      BY <2>1, DraftEffect DEF Build, Jobs
    <3> QED BY <1>1, <2>0, <2>1, <3>1 DEF CleanInv, Busy
  <2>2. CASE at = "receipt" /\ tx.job = "approve" /\ ApprovalMined /\ Build("swap")
    <3>1. tx'.job = "swap" /\ at' = "nonce" /\ leg' = leg
      BY <2>2, DraftEffect DEF Build, Jobs
    <3>2. Mineable = {}
      BY <2>2, MinedIsLast DEF Busy
    <3>3. clean => leg \notin starved /\ allowance = Unlimited
      BY <2>2 DEF CleanInv, Busy
    <3> QED BY <1>1, <2>0, <3>1, <3>2, <3>3 DEF CleanInv, Busy, Working, Covers
  <2> QED BY <1>7, <1>8, <2>0, <2>1, <2>2 DEF JobOver
<1>9. ASSUME NEW t \in sent, Mine(t) PROVE CleanInv'
  <2> SUFFICES ASSUME clean PROVE CleanInv'
    BY <1>9 DEF Mine, CleanInv
  <2>1. PICK ok \in BOOLEAN :
           /\ AccountNonce' = AccountNonce + 1
           /\ DOMAIN mined' = 1 .. AccountNonce + 1
           /\ \A i \in DOMAIN mined : mined'[i] = mined[i]
           /\ mined'[AccountNonce + 1] = [tx |-> t, ok |-> ok]
           /\ allowance' = IF ok THEN AllowanceAfter(t) ELSE allowance
    BY <1>9, MineAppends
  <2>2. /\ UNCHANGED <<leg, tx, at, sent, clean>>
        /\ t \in Mineable /\ t.nonce = AccountNonce
    BY <1>9 DEF Mine, legVars, Mineable
  <2>3. Mineable' = {}
    BY <1>9, MineEmpties
  <2>4. Covers(allowance, t.amount)
    <3>1. CASE t.job = "swap"
      BY <2>2, <3>1 DEF CleanInv
    <3>2. CASE t.job # "swap"
      BY <1>0, <3>2 DEF JobInv, Drafted, Covers
    <3> QED BY <3>1, <3>2
  <2>5. starved' = starved
    BY <1>9, <2>4 DEF Mine
  <2>6. ~(at = "nonce" /\ tx.job = "swap")
    BY <2>2 DEF CleanInv
  <2>7. at \in Busy => tx.nonce # AccountNonce'
    BY <1>0, <2>1 DEF NonceInv, LatestInv
  <2>8. ASSUME at \in Busy, tx.job = "approve", ApprovalMined'
        PROVE  allowance' = Unlimited
    <3>1. PICK i \in DOMAIN mined' : mined'[i].tx = tx /\ mined'[i].ok
      BY <2>2, <2>8 DEF ApprovalMined
    <3>2. CASE i \in DOMAIN mined
      BY <2>1, <2>2, <2>8, <3>1, <3>2, MinedIsLast DEF ApprovalMined
    <3>3. CASE i = AccountNonce + 1
      BY <2>1, <2>8, <3>1, <3>3 DEF AllowanceAfter
    <3> QED BY <1>0, <2>1, <3>2, <3>3, MinedIsSeq
  <2>9. leg \notin starved
    BY DEF CleanInv
  <2> QED BY <2>2, <2>3, <2>5, <2>6, <2>7, <2>8, <2>9 DEF CleanInv
<1>10. CASE UNCHANGED vars
  <2>1. UNCHANGED <<chainVars, clean, starved, leg, tx, at, mined>>
    BY <1>10 DEF vars, legVars, chainVars
  <2>2. ApprovalMined' <=> ApprovalMined
    BY <2>1 DEF ApprovalMined
  <2> QED BY <1>1, <2>1, <2>2 DEF CleanInv
<1> QED BY <1>2, <1>3, <1>4, <1>5, <1>6, <1>7, <1>8, <1>9, <1>10, Steps

LEMMA StepInv == IInv /\ [Next]_vars => IInv'
BY TypeStep, RunningStep, JobStep, SwapStep, NonceStep, StarvedStep, CleanStep
   DEF IInv

----------------------------------------------------------------------------
(* What follows from it.                                                   *)

THEOREM Invariance == Spec => []IInv
BY InitInv, StepInv, PTL DEF Spec

\* The legs and the chain keep their types, whatever is lost or mined late:
\* the allowance never falls below zero, and only legs that exist are sent.
THEOREM Types == Spec => []TypeOK
<1>1. IInv => TypeOK
  BY DEF IInv
<1> QED BY <1>1, Invariance, PTL

\* Whatever was given up for lost, at most one nonce is at stake: no
\* transaction of the bot ever waits for a nonce that nobody fills.
THEOREM OneTrade == Spec => []OneTradeExposed
<1>1. IInv => OneTradeExposed
  BY DEF IInv, NonceInv
<1> QED BY <1>1, Invariance, PTL

\* ensure_allowance is enough for a leg that begins when the legs before have
\* settled: its swap does not revert for lack of allowance, whatever becomes
\* of its own resets, approvals and retries.
THEOREM CleanLegs == Spec => []CleanLegsAreApproved
<1>1. IInv => CleanLegsAreApproved
  BY DEF IInv, CleanInv, CleanLegsAreApproved
<1> QED BY <1>1, Invariance, PTL

\* What is mined later has the larger nonce.
LEMMA MinedInOrder == IInv => SwapsInOrder
<1> SUFFICES ASSUME IInv, NEW i \in DOMAIN mined, NEW j \in DOMAIN mined, i < j,
                    mined[i].tx.job = "swap", mined[j].tx.job = "swap"
             PROVE  mined[i].tx.leg < mined[j].tx.leg
  BY DEF SwapsInOrder
<1> DEFINE s == mined[i].tx
           t == mined[j].tx
<1>1. /\ s \in sent /\ s.nonce = i - 1 /\ t \in sent /\ t.nonce = j - 1
      /\ s.job = "swap" /\ t.job = "swap"
  BY DEF IInv, NonceInv, MinedInv
<1>2. i \in Nat /\ j \in Nat /\ s.leg \in Int /\ t.leg \in Int
  BY <1>1, MinedIsSeq DEF IInv, JobInv, TypeOK
<1> HIDE DEF s, t
<1>3. t.leg <= s.leg => t.nonce <= s.nonce
  BY <1>1 DEF IInv, NonceInv, OrderedInv
<1> QED BY <1>1, <1>2, <1>3 DEF s, t

\* Each leg's swap is executed at most once and in the order of the legs,
\* though every one is sent several times and may land after its leg failed.
THEOREM InOrder == Spec => []SwapsInOrder
BY MinedInOrder, Invariance, PTL

----------------------------------------------------------------------------
(***************************************************************************)
(* The legs implement the abstract orders: the first transmission of a     *)
(* swap sends the order, its block executes it, and the end of the leg     *)
(* reports it.  All else is a stutter.                                     *)
(***************************************************************************)

\* The order is a matter of what is mined and of the swaps sent.
LEMMA OrderEffect ==
    ASSUME NEW l \in Legs
    PROVE  /\ order \in [Legs -> {"unsent", "live", "executed"}]
           /\ order[l] = "executed" <=> Executed(l)
           /\ order[l] = "unsent" <=>
                 ~Executed(l) /\ \A t \in sent : t.job = "swap" => t.leg # l
BY DEF order

LEMMA SameOrder ==
    ASSUME \A l \in Legs :
              /\ Executed(l)' <=> Executed(l)
              /\ (\E t \in sent' : t.job = "swap" /\ t.leg = l)
                    <=> (\E t \in sent : t.job = "swap" /\ t.leg = l)
    PROVE  order' = order
BY DEF order

\* A leg ends: executed if that is what it says.
LEMMA ReturnReports ==
    ASSUME IInv, at # "idle", UNCHANGED <<mined, sent>>,
           NEW r \in {"filled", "failed"}, Return(r),
           r = "filled" => Executed(leg)
    PROVE  Orders!Next
<1>1. order' = order
  BY SameOrder DEF Executed
<1>2. leg \in Legs /\ report[leg] = "none"
  BY DEF IInv, RunningInv
<1>3. report' = [report EXCEPT ![leg] = r]
  BY DEF Return
<1>4. CASE r = "filled"
  <2>1. order[leg] = "executed"
    BY <1>2, <1>4, OrderEffect
  <2>2. Orders!ReportFilled(leg)
    BY <1>1, <1>2, <1>3, <1>4, <2>1 DEF Orders!ReportFilled
  <2> QED BY <1>2, <2>2 DEF Orders!Next
<1>5. CASE r = "failed"
  <2>1. Orders!ReportFailed(leg)
    BY <1>1, <1>2, <1>3, <1>5 DEF Orders!ReportFailed
  <2> QED BY <1>2, <2>1 DEF Orders!Next
<1> QED BY <1>4, <1>5

\* A swap leaves the bot, for the first time or again.
LEMMA TransmitSends ==
    ASSUME IInv, Transmit
    PROVE  Orders!Next \/ UNCHANGED <<order, report>>
<1>1. /\ at \in Working /\ sent' = sent \cup {tx} /\ mined' = mined /\ report' = report
      /\ leg \in Legs /\ report[leg] = "none"
  BY DEF Transmit, IInv, RunningInv, Working, Busy
<1>2. \A l \in Legs : Executed(l)' <=> Executed(l)
  BY <1>1 DEF Executed
<1>3. CASE tx.job # "swap"
  BY <1>1, <1>2, <1>3, SameOrder
<1>4. CASE tx.job = "swap" /\ \E t \in sent : t.job = "swap" /\ t.leg = leg
  <2>1. tx.leg = leg
    BY <1>1, <1>4 DEF IInv, JobInv
  <2> QED BY <1>1, <1>2, <1>4, <2>1, SameOrder
<1>5. CASE tx.job = "swap" /\ \A t \in sent : t.job = "swap" => t.leg # leg
  <2>1. tx.leg = leg
    BY <1>1, <1>5 DEF IInv, JobInv
  <2>2. ~Executed(leg)
    BY <1>5 DEF Executed, IInv, NonceInv, MinedInv
  <2>3. order[leg] = "unsent"
    BY <1>1, <1>5, <2>2, OrderEffect
  <2>4. order' = [order EXCEPT ![leg] = "live"]
    BY <1>1, <1>2, <1>5, <2>1, <2>2 DEF order
  <2>5. Orders!Send(leg)
    BY <1>1, <2>3, <2>4 DEF Orders!Send
  <2> QED BY <1>1, <2>5 DEF Orders!Next
<1> QED BY <1>3, <1>4, <1>5

\* A block executes a swap, or something else.
LEMMA MineExecutes ==
    ASSUME IInv, NEW t \in sent, Mine(t)
    PROVE  Orders!Next \/ UNCHANGED <<order, report>>
<1>0. TypeOK
  BY DEF IInv
<1>1. PICK ok \in BOOLEAN :
         /\ DOMAIN mined' = 1 .. AccountNonce + 1
         /\ \A i \in DOMAIN mined : mined'[i] = mined[i]
         /\ mined'[AccountNonce + 1] = [tx |-> t, ok |-> ok]
  BY <1>0, MineAppends
<1>2. sent' = sent /\ report' = report /\ t.nonce = AccountNonce
  BY DEF Mine, legVars, Mineable
<1>3. AccountNonce \in Nat /\ DOMAIN mined = 1 .. AccountNonce
  BY <1>0, MinedIsSeq
<1>4. \A l \in Legs : Executed(l)' <=>
         Executed(l) \/ (ok /\ t.job = "swap" /\ t.leg = l)
  <2> SUFFICES ASSUME NEW l \in Legs
               PROVE  Executed(l)' <=>
                         Executed(l) \/ (ok /\ t.job = "swap" /\ t.leg = l)
    OBVIOUS
  <2>1. /\ DOMAIN mined' = DOMAIN mined \cup {AccountNonce + 1}
        /\ mined'[AccountNonce + 1].tx = t /\ mined'[AccountNonce + 1].ok = ok
    BY <1>1, <1>3
  <2>2. ASSUME NEW i \in DOMAIN mined', mined'[i].ok, mined'[i].tx.job = "swap",
               mined'[i].tx.leg = l
        PROVE  Executed(l) \/ (ok /\ t.job = "swap" /\ t.leg = l)
    BY <1>1, <2>1, <2>2 DEF Executed
  <2>3. Executed(l) => Executed(l)'
    BY <1>1, <2>1 DEF Executed
  <2>4. ok /\ t.job = "swap" /\ t.leg = l => Executed(l)'
    BY <2>1 DEF Executed
  <2>5. Executed(l)' => Executed(l) \/ (ok /\ t.job = "swap" /\ t.leg = l)
    BY <2>2 DEF Executed
  <2> QED BY <2>3, <2>4, <2>5
<1>5. CASE ~ok \/ t.job # "swap"
  BY <1>2, <1>4, <1>5, SameOrder
<1>6. CASE ok /\ t.job = "swap"
  <2>1. t.leg \in Legs
    BY <1>0, <1>6, SenderAssumption DEF IInv, JobInv, TypeOK, Legs
  \* What was executed had a smaller nonce, so it is of an older leg.
  <2>2. \A k \in Legs : Executed(k) => k < t.leg
    <3> SUFFICES ASSUME NEW k \in Legs, NEW i \in DOMAIN mined,
                        mined[i].tx.job = "swap", mined[i].tx.leg = k
                 PROVE  k < t.leg
      BY DEF Executed
    <3>1. mined[i].tx \in sent /\ mined[i].tx.nonce = i - 1
      BY DEF IInv, NonceInv, MinedInv
    <3>2. t.leg <= k => t.nonce <= i - 1
      BY <1>6, <3>1 DEF IInv, NonceInv, OrderedInv
    <3> QED BY <1>2, <1>3, <2>1, <3>2 DEF Legs
  <2>3. order[t.leg] = "live"
    <3>1. ~Executed(t.leg)
      BY <2>1, <2>2 DEF Legs
    <3> QED BY <1>6, <2>1, <3>1 DEF order
  <2>4. \A k \in Legs : k > t.leg => order[k] # "executed"
    BY <2>1, <2>2, OrderEffect DEF Legs
  <2>5. order' = [order EXCEPT ![t.leg] = "executed"]
    BY <1>2, <1>4, <1>6, <2>1 DEF order
  <2>6. Orders!Execute(t.leg)
    BY <1>2, <2>3, <2>4, <2>5 DEF Orders!Execute
  <2> QED BY <2>1, <2>6 DEF Orders!Next
<1> QED BY <1>5, <1>6

LEMMA StepImplementsOrders ==
    IInv /\ [Next]_vars => [Orders!Next]_<<order, report>>
<1> SUFFICES ASSUME IInv, [Next]_vars
             PROVE  Orders!Next \/ UNCHANGED <<order, report>>
  OBVIOUS
<1>0. TypeOK
  BY DEF IInv
<1>1. ASSUME UNCHANGED <<mined, sent, report>> PROVE UNCHANGED <<order, report>>
  BY <1>1, SameOrder DEF Executed
<1>2. CASE StartLeg \/ ReadAllowance \/ ReadNonce \/ SendRetries \/ SendAccepted
  BY <1>1, <1>2 DEF StartLeg, ReadAllowance, Build, ReadNonce, SendRetries,
                    SendAccepted, chainVars
<1>3. CASE Transmit
  BY <1>3, TransmitSends
<1>4. CASE JobOver
  <2>1. /\ at # "idle" /\ UNCHANGED <<mined, sent>>
    BY <1>4 DEF JobOver, chainVars, Working, Busy
  <2>2. ASSUME NEW job, Build(job) PROVE UNCHANGED <<order, report>>
    BY <1>1, <2>1, <2>2 DEF Build
  <2>3. CASE at = "receipt" /\ tx.job = "swap" /\ ApprovalMined /\ Return("filled")
    <3>1. tx.leg = leg
      BY <2>3 DEF IInv, JobInv, Working, Busy
    <3>2. Executed(leg)
      BY <2>3, <3>1 DEF ApprovalMined, Executed
    <3> QED BY <2>1, <2>3, <3>2, ReturnReports
  <2>4. CASE Return("failed")
    BY <2>1, <2>4, ReturnReports
  <2> QED BY <1>4, <2>2, <2>3, <2>4 DEF JobOver
<1>5. CASE at # "idle" /\ Return("failed") /\ UNCHANGED <<chainVars, clean, starved>>
  BY <1>5, ReturnReports DEF chainVars
<1>6. CASE \E t \in sent : Mine(t)
  BY <1>6, MineExecutes
<1>7. CASE UNCHANGED vars
  BY <1>1, <1>7 DEF vars, legVars, chainVars
<1> QED BY <1>0, <1>2, <1>3, <1>4, <1>5, <1>6, <1>7, Steps

\* The legs and the chain together are the abstract orders, whatever is lost,
\* retried, given up or mined late: a leg reports a fill only of a swap that
\* was executed, and no swap is executed twice or out of turn.
THEOREM ImplementsOrders == Spec => OrdersSpec
<1>1. Init => Orders!Init
  BY DEF Init, Orders!Init, order, Executed
<1> QED BY <1>1, Invariance, StepImplementsOrders, PTL
        DEF Spec, OrdersSpec, Orders!Spec
=============================================================================
