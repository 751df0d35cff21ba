-------------------------- MODULE SettlementProofs --------------------------
(***************************************************************************)
(* Theorems about Settlement: the vault under it behaves as PolicyVault     *)
(* says, the vendor only delivers what was paid, and a sweep neither touches *)
(* an open goal nor is executed twice for one amount.                        *)
(***************************************************************************)
EXTENDS Settlement, PolicyVaultProofs

\* What the signer has released and the token has executed.
SignedShape ==
  \A a \in signed :
    /\ a.kind \in {"spend", "sweep"} /\ a.goal \in GoalIds
    /\ a.kind = "spend" => a.seq \in Seqs
    /\ a.kind = "sweep" => Closed(a.goal)

SweepShape ==
  \A a \in sweeps :
    a \in signed /\ a.kind = "sweep" /\ SweepNonce(a) \in sweepUsed

ResponseShape == response \in [GoalIds -> [Seqs -> Responses]]

MoneyInv ==
  SignedShape /\ SweepShape /\ ResponseShape /\ OneSweepPerBalance
    /\ DeliveredWasPaid

-----------------------------------------------------------------------------
(* The vault under the settlement.                                         *)

LEMMA ExecuteIsTransfer ==
  ASSUME SignedShape, NEW a, Execute(a)
  PROVE  [Next]_vars
<1>1. a \in signed
  BY DEF Execute
<1>2. CASE a.kind = "spend"
  <2>1. TransferWithAuthorization(a.goal, a.seq)
    BY <1>2 DEF Execute
  <2>2. a.goal \in GoalIds /\ a.seq \in Seqs
    BY <1>1, <1>2 DEF SignedShape
  <2> QED BY <2>1, <2>2 DEF Next
<1>3. CASE a.kind = "sweep"
  BY <1>3 DEF Execute
<1> QED BY <1>1, <1>2, <1>3 DEF SignedShape

LEMMA VaultStepIsNext == ASSUME VaultStep PROVE Next
  BY DEF VaultStep, Next

\* Everything but the vault's own steps and the transfers leaves it alone.
LEMMA QuietSteps ==
  /\ \A p, amount : Deposit(p, amount) => UNCHANGED vars
  /\ \A g, s : Sign(g, s) \/ GiveUp(g, s) => UNCHANGED vars
  /\ \A g, s, c : Present(g, s, c) => UNCHANGED vars
  /\ \A g, c : Sweep(g, c) => UNCHANGED vars
  /\ \A c : ReadState(c) \/ Verify(c) \/ Write(c) \/ Unsettled(c) \/ Dies(c)
              => UNCHANGED vars
BY DEF Deposit, Sign, GiveUp, Present, Sweep, ReadState, Verify, Write,
       Unsettled, Dies

LEMMA SettleStepIsNext ==
  ASSUME SignedShape, SettleNext
  PROVE  [Next]_vars
<1>1. CASE VaultStep
  BY <1>1, VaultStepIsNext
<1>2. ASSUME NEW a \in signed, Submit(a) PROVE [Next]_vars
  BY <1>2, ExecuteIsTransfer DEF Submit
<1>3. ASSUME NEW c \in Slots, Lands(c) PROVE [Next]_vars
  BY <1>3, ExecuteIsTransfer DEF Lands
<1> QED BY <1>1, <1>2, <1>3, QuietSteps DEF SettleNext, CallStep

\* What the vault can take back: neither a payment nor a closing.
LEMMA VaultIsMonotone ==
  ASSUME IInv, [Next]_vars
  PROVE  /\ used \subseteq used'
         /\ \A g \in GoalIds : Closed(g) => Closed(g)'
<1> USE DEF IInv, Structure
<1>1. CASE OpenSomeGoal
  <2>1. PICK owner \in Users, payer \in Payers, relay \in Relays,
             budget \in Budgets, cap \in Caps, goalCalls \in Seqs,
             attempts \in Seqs, expiry \in Times, allowlist \in SUBSET Payees :
          OpenGoal(owner, payer, relay, budget, cap, goalCalls, attempts,
                   expiry, allowlist)
    BY <1>1 DEF OpenSomeGoal
  <2>2. \A g \in GoalIds : Opened(g) => g # goalCount + 1
    BY DEF GoalShape, GoalIds, TypeOK
  <2>3. \A g \in GoalIds : g # goalCount + 1 => goals'[g] = goals[g]
    BY <2>1 DEF OpenGoal, TypeOK
  <2> QED BY <2>1, <2>2, <2>3 DEF Closed, Opened, OpenGoal, tokenVars
<1>2. ASSUME NEW caller \in Users, NEW g \in GoalIds, CloseGoal(caller, g)
      PROVE  /\ used \subseteq used'
             /\ \A h \in GoalIds : Closed(h) => Closed(h)'
  BY <1>2 DEF CloseGoal, Closed, Opened, tokenVars, TypeOK, Goal
<1>3. ASSUME NEW caller \in Relays, NEW g \in GoalIds, NEW amount \in Amounts,
             NEW payTo \in Payees, NEW payBy \in Times,
             RequestSpend(caller, g, amount, payTo, payBy)
      PROVE  /\ used \subseteq used'
             /\ \A h \in GoalIds : Closed(h) => Closed(h)'
  BY <1>3 DEF RequestSpend, Closed, Opened, tokenVars, TypeOK, Goal
<1>4. ASSUME NEW g \in GoalIds, NEW s \in Seqs, FinalizeDecision(g, s)
      PROVE  /\ used \subseteq used'
             /\ \A h \in GoalIds : Closed(h) => Closed(h)'
  BY <1>4 DEF FinalizeDecision, Closed, Opened, tokenVars, TypeOK, Goal
<1>5. ASSUME NEW g \in GoalIds, NEW s \in Seqs, ReclaimExpired(g, s)
      PROVE  /\ used \subseteq used'
             /\ \A h \in GoalIds : Closed(h) => Closed(h)'
  BY <1>5 DEF ReclaimExpired, Closed, Opened, tokenVars, TypeOK, Goal
<1>6. ASSUME NEW g \in GoalIds, NEW s \in Seqs, TransferWithAuthorization(g, s)
      PROVE  /\ used \subseteq used'
             /\ \A h \in GoalIds : Closed(h) => Closed(h)'
  BY <1>6 DEF TransferWithAuthorization, Closed, Opened, vaultVars
<1>7. CASE Tick
  BY <1>7 DEF Tick, Closed, Opened, vaultVars, tokenVars
<1>8. CASE UNCHANGED vars
  BY <1>8 DEF vars, Closed, Opened, vaultVars, tokenVars
<1> QED BY <1>1, <1>2, <1>3, <1>4, <1>5, <1>6, <1>7, <1>8 DEF Next

-----------------------------------------------------------------------------
(* The inductive invariant.                                                *)

LEMMA InitMoney == SettleInit => MoneyInv
BY DEF SettleInit, MoneyInv, SignedShape, SweepShape, ResponseShape,
       Responses, OneSweepPerBalance, DeliveredWasPaid

LEMMA KeepSigned ==
  ASSUME IInv, SignedShape, SettleNext
  PROVE  SignedShape'
<1>1. \A g \in GoalIds : Closed(g) => Closed(g)'
  BY SettleStepIsNext, VaultIsMonotone
<1>2. CASE signed' = signed
  BY <1>1, <1>2 DEF SignedShape
<1>3. ASSUME NEW g \in GoalIds, NEW s \in Seqs, Sign(g, s) PROVE SignedShape'
  BY <1>1, <1>3 DEF Sign, SignedShape, SpendAuth
<1>4. ASSUME NEW g \in GoalIds, NEW c \in Slots, Sweep(g, c) PROVE SignedShape'
  BY <1>1, <1>4 DEF Sweep, Sweepable, SignedShape, SweepAuth
<1>5. \/ signed' = signed
      \/ \E g \in GoalIds, s \in Seqs : Sign(g, s)
      \/ \E g \in GoalIds, c \in Slots : Sweep(g, c)
  BY DEF SettleNext, VaultStep, settleVars, Deposit, Submit, GiveUp, Present,
         CallStep, ReadState, Verify, Write, Lands, Unsettled, Dies
<1> QED BY <1>2, <1>3, <1>4, <1>5

\* Only the token executes a sweep, and each nonce once.
LEMMA KeepSweeps ==
  ASSUME SweepShape, OneSweepPerBalance, SettleNext
  PROVE  SweepShape' /\ OneSweepPerBalance'
<1>1. signed \subseteq signed'
  BY DEF SettleNext, VaultStep, settleVars, Deposit, Submit, Sign, GiveUp,
         Present, Sweep, CallStep, ReadState, Verify, Write, Lands, Unsettled,
         Dies
<1>2. CASE UNCHANGED <<sweeps, sweepUsed>>
  BY <1>1, <1>2 DEF SweepShape, OneSweepPerBalance, SweepNonce
<1>3. ASSUME NEW a, Execute(a)
      PROVE  SweepShape' /\ OneSweepPerBalance'
  <2>1. CASE UNCHANGED <<sweeps, sweepUsed>>
    BY <1>2, <2>1
  <2>2. CASE /\ a.kind = "sweep" /\ SweepNonce(a) \notin sweepUsed
             /\ sweepUsed' = sweepUsed \cup {SweepNonce(a)}
             /\ sweeps' = sweeps \cup {a}
    <3>1. a \in signed'
      BY <1>1, <1>3 DEF Execute
    <3>2. SweepShape'
      BY <1>1, <2>2, <3>1 DEF SweepShape, SweepNonce
    <3>3. \A b \in sweeps : ~(b.goal = a.goal /\ b.value = a.value)
      BY <2>2 DEF SweepShape, SweepNonce
    <3>4. OneSweepPerBalance'
      BY <2>2, <3>3 DEF OneSweepPerBalance
    <3> QED BY <3>2, <3>4
  <2> QED BY <1>3, <2>1, <2>2 DEF Execute, Consumed
<1>4. \/ UNCHANGED <<sweeps, sweepUsed>>
      \/ \E a : Execute(a)
  BY DEF SettleNext, VaultStep, settleVars, moneyVars, Deposit, Submit, Sign,
         GiveUp, Present, Sweep, CallStep, ReadState, Verify, Write, Lands,
         Unsettled, Dies
<1> QED BY <1>2, <1>3, <1>4

\* A success is only reported for a payment that was made.
LEMMA HeardPaid ==
  ASSUME ResponseShape, DeliveredWasPaid, used \subseteq used',
         NEW c \in Slots, NEW answer, response' = Heard(c, answer),
         answer # "failed" /\ settles[c].auth.kind = "spend"
           => <<settles[c].auth.goal, settles[c].auth.seq>> \in used'
  PROVE  ResponseShape' /\ DeliveredWasPaid'
<1> DEFINE a == settles[c].auth
<1>1. CASE response' = response
  BY <1>1 DEF ResponseShape, DeliveredWasPaid
<1>2. CASE /\ a.kind = "spend"
           /\ response' = [response EXCEPT ![a.goal][a.seq] =
                IF answer = "failed" THEN "refused" ELSE "delivered"]
  <2>1. ResponseShape'
    <3>1. CASE a.goal \in GoalIds /\ a.seq \in Seqs
      BY <1>2, <3>1 DEF ResponseShape, Responses
    <3>2. CASE a.goal \in GoalIds /\ a.seq \notin Seqs
      <4> DEFINE answered == IF answer = "failed" THEN "refused" ELSE "delivered"
                 row == [response[a.goal] EXCEPT ![a.seq] = answered]
      <4>a. response[a.goal] \in [Seqs -> Responses]
        BY <3>2 DEF ResponseShape
      <4>b. row \in [Seqs -> Responses]
        <5>1. row = [s \in Seqs |-> response[a.goal][s]]
          BY <3>2, <4>a
        <5> QED BY <4>a, <5>1
      <4>c. response' = [response EXCEPT ![a.goal] = row]
        BY <1>2
      <4>1. \A g \in GoalIds : response'[g] \in [Seqs -> Responses]
        <5> HIDE DEF row
        <5> QED BY <3>2, <4>b, <4>c DEF ResponseShape
      <4>2. response' = [g \in GoalIds |-> response'[g]]
        BY <1>2 DEF ResponseShape
      <4> QED BY <4>1, <4>2 DEF ResponseShape
    <3>3. CASE a.goal \notin GoalIds
      BY <1>2, <3>3 DEF ResponseShape
    <3> QED BY <3>1, <3>2, <3>3
  <2>2. ASSUME NEW g \in GoalIds, NEW s \in Seqs, response'[g][s] = "delivered"
        PROVE  <<g, s>> \in used'
    <3>1. CASE g = a.goal /\ s = a.seq
      BY <1>2, <2>2, <3>1 DEF ResponseShape
    <3>2. CASE ~(g = a.goal /\ s = a.seq)
      <4>1. response'[g][s] = response[g][s]
        BY <1>2, <3>2 DEF ResponseShape
      <4> QED BY <2>2, <4>1 DEF DeliveredWasPaid
    <3> QED BY <3>1, <3>2
  <2> QED BY <2>1, <2>2 DEF DeliveredWasPaid
<1> QED BY <1>1, <1>2 DEF Heard

LEMMA KeepDelivered ==
  ASSUME IInv, SignedShape, ResponseShape, DeliveredWasPaid, SettleNext
  PROVE  ResponseShape' /\ DeliveredWasPaid'
<1>1. used \subseteq used'
  BY SettleStepIsNext, VaultIsMonotone
<1>2. CASE response' = response
  BY <1>1, <1>2 DEF ResponseShape, DeliveredWasPaid
<1>3. ASSUME NEW g \in GoalIds, NEW s \in Seqs,
             NEW value \in {"signed", "waiting", "failed"},
             response' = [response EXCEPT ![g][s] = value]
      PROVE  ResponseShape' /\ DeliveredWasPaid'
  BY <1>1, <1>3 DEF ResponseShape, Responses, DeliveredWasPaid
<1>4. ASSUME NEW c \in Slots, CallStep(c)
      PROVE  ResponseShape' /\ DeliveredWasPaid'
  <2>1. CASE response' = Heard(c, "failed")
    BY <1>1, <2>1, HeardPaid
  <2>2. CASE response' = Heard(c, "already") /\ Consumed(settles[c].auth)
    BY <1>1, <2>2, HeardPaid DEF Consumed
  <2>3. CASE response' = Heard(c, "settled") /\ Execute(settles[c].auth)
    <3>1. settles[c].auth.kind = "spend"
            => <<settles[c].auth.goal, settles[c].auth.seq>> \in used'
      BY <2>3 DEF Execute, TransferWithAuthorization
    <3> QED BY <1>1, <2>3, <3>1, HeardPaid
  <2> QED BY <1>2, <1>4, <2>1, <2>2, <2>3
          DEF CallStep, ReadState, Verify, Write, Broadcast, Lands, Unsettled,
              Proceed, Reply
<1>5. \/ response' = response
      \/ \E g \in GoalIds, s \in Seqs, value \in {"signed", "waiting", "failed"} :
           response' = [response EXCEPT ![g][s] = value]
      \/ \E c \in Slots : CallStep(c)
  BY DEF SettleNext, VaultStep, settleVars, clientVars, Deposit, Submit, Sign,
         GiveUp, Present, Sweep, Dies
<1> QED BY <1>2, <1>3, <1>4, <1>5

LEMMA SettleInvariant == SettleSpec => [](IInv /\ MoneyInv)
<1>1. SettleInit => IInv /\ MoneyInv
  BY InitIInv, InitMoney DEF SettleInit
<1>2. IInv /\ MoneyInv /\ [SettleNext]_allVars => (IInv /\ MoneyInv)'
  <2> SUFFICES ASSUME IInv, MoneyInv, [SettleNext]_allVars
               PROVE  IInv' /\ MoneyInv'
    OBVIOUS
  <2> USE DEF MoneyInv
  <2>1. CASE SettleNext
    BY <2>1, SettleStepIsNext, NextIInv, KeepSigned, KeepSweeps, KeepDelivered
  <2>2. CASE UNCHANGED allVars
    <3>1. UNCHANGED vars
      BY <2>2 DEF allVars
    <3>2. UNCHANGED <<goals, used, signed, sweeps, sweepUsed, response>>
      BY <2>2 DEF allVars, vars, vaultVars, tokenVars, settleVars, moneyVars,
                  clientVars
    <3>3. MoneyInv'
      BY <3>2 DEF SignedShape, Closed, Opened, SweepShape, SweepNonce,
                  ResponseShape, OneSweepPerBalance, DeliveredWasPaid
    <3> QED BY <3>1, <3>3, NextIInv
  <2> QED BY <2>1, <2>2
<1> QED BY <1>1, <1>2, PTL DEF SettleSpec

-----------------------------------------------------------------------------
(* The theorems.                                                           *)

\* Balances, sweeps, overlapping settle calls and repeats never take the vault
\* outside the behaviours of PolicyVault.
THEOREM SettlementImplementsVault == SettleSpec => Spec
<1>1. SettleInit => Init
  BY DEF SettleInit
<1>2. (IInv /\ MoneyInv) /\ [SettleNext]_allVars => [Next]_vars
  <2> SUFFICES ASSUME MoneyInv, [SettleNext]_allVars PROVE [Next]_vars
    OBVIOUS
  <2>1. CASE SettleNext
    BY <2>1, SettleStepIsNext DEF MoneyInv
  <2>2. CASE UNCHANGED allVars
    BY <2>2 DEF allVars
  <2> QED BY <2>1, <2>2
<1> QED BY <1>1, <1>2, SettleInvariant, PTL DEF SettleSpec, Spec

\* A vendor hands out nothing for a payment that did not happen, whatever the
\* number of calls, repeats and submitters.
THEOREM DeliveryIsPaid == SettleSpec => []DeliveredWasPaid
<1>1. MoneyInv => DeliveredWasPaid
  BY DEF MoneyInv
<1> QED BY <1>1, SettleInvariant, PTL

\* However many sweep authorizations are signed for one amount of one goal, at
\* most one is ever executed.
THEOREM SweptOnce == SettleSpec => []OneSweepPerBalance
<1>1. MoneyInv => OneSweepPerBalance
  BY DEF MoneyInv
<1> QED BY <1>1, SettleInvariant, PTL

\* The payer of an open goal is only charged for approved spends.
THEOREM OpenIsNotSwept == SettleSpec => []OpenGoalIsNotSwept
<1>1. MoneyInv => OpenGoalIsNotSwept
  BY DEF MoneyInv, SweepShape, SignedShape, OpenGoalIsNotSwept, Closed
<1> QED BY <1>1, SettleInvariant, PTL
=============================================================================
