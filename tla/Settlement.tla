----------------------------- MODULE Settlement -----------------------------
(***************************************************************************)
(* How the money of a payer moves.  The signer (signer/src/service.ts)     *)
(* releases two kinds of authorization: the frozen tuple of an approved    *)
(* spend, and the sweep of a closed goal's balance to its owner.  Both are *)
(* executed by the token, mostly through the facilitator                   *)
(* (facilitator/src/facilitator.ts), whose settle reads the chain twice    *)
(* before it writes; the client repeats a paid request whose response was  *)
(* lost (orchestrator/src/x402/client.ts), so calls for one payment        *)
(* overlap.                                                                *)
(*                                                                         *)
(* The state of the vault is that of PolicyVault; the token now also keeps *)
(* the balances that PolicyVault leaves out.                               *)
(***************************************************************************)
EXTENDS PolicyVault

CONSTANTS
  Slots,        \* settle calls the facilitator may have in hand at once
  MaxTries,     \* maxAttempts of the client's retry policy
  SweepWindow,  \* how long a sweep authorization is valid
  MaxFunds      \* bound: the most ever sent to one payer

ASSUME SettlementAssumption ==
  MaxTries \in Nat /\ SweepWindow \in Nat /\ MaxFunds \in Nat

VARIABLES
  balance,    \* token: payer -> what it holds
  funded,     \* payer -> what its owner ever sent to it
  signed,     \* authorizations the signer has released
  sweepUsed,  \* token: nonces of executed sweeps
  sweeps,     \* history: the executed sweep authorizations
  settles,      \* facilitator: call -> the settle it is working on
  tries,      \* client: goal -> seq -> paid requests sent
  response    \* client: goal -> seq -> what the purchase came to

moneyVars  == <<balance, funded, sweepUsed, sweeps>>
clientVars == <<tries, response>>
settleVars == <<moneyVars, signed, settles, clientVars>>
allVars    == <<vars, settleVars>>

\* The two shapes of authorization; a spend's tuple is frozen in the vault.
SpendAuth(g, s) == [kind |-> "spend", goal |-> g, seq |-> s,
                    value |-> spends[g][s].amount,
                    until |-> spends[g][s].validBefore]
SweepAuth(g, amount) == [kind |-> "sweep", goal |-> g, seq |-> 0,
                         value |-> amount, until |-> now + SweepWindow]

Auths == [kind : {"spend", "sweep"}, goal : GoalIds, seq : 0..MaxAttempts,
          value : Nat, until : Int]

\* A settle call: where it is, the payment, the attempt it belongs to (0 for a
\* sweep) and, once it is over, its answer.
NoAuth == [kind |-> "none", goal |-> 0, seq |-> 0, value |-> 0, until |-> 0]
Idle == [point |-> "idle", auth |-> NoAuth, attempt |-> 0, answer |-> "none"]
CallPoints == {"check", "verify", "write", "sent"}
Responses == {"none", "signed", "waiting", "delivered", "refused", "failed"}

SettleInit ==
  /\ Init
  /\ balance = [p \in Payers |-> 0]
  /\ funded = [p \in Payers |-> 0]
  /\ signed = {}
  /\ sweepUsed = {}
  /\ sweeps = {}
  /\ settles = [c \in Slots |-> Idle]
  /\ tries = [g \in GoalIds |-> [s \in Seqs |-> 0]]
  /\ response = [g \in GoalIds |-> [s \in Seqs |-> "none"]]

-----------------------------------------------------------------------------
(* The token.                                                              *)

PayerOf(a) == goals[a.goal].payer

\* Fault: the nonce of a sweep also covers the clock.
NonceWithClock(a) == <<a.goal, a.value, a.until>>

\* keccak256(goalId, "SWEEP", amount): independent of the clock.
SweepNonce(a) == <<a.goal, a.value>>

Consumed(a) == IF a.kind = "spend" THEN <<a.goal, a.seq>> \in used
                                   ELSE SweepNonce(a) \in sweepUsed

Covered(a) == balance[PayerOf(a)] >= a.value

\* transferWithAuthorization of a released authorization.
Execute(a) ==
  /\ a \in signed
  /\ Covered(a)
  /\ balance' = [balance EXCEPT ![PayerOf(a)] = @ - a.value]
  /\ \/ /\ a.kind = "spend"
        /\ TransferWithAuthorization(a.goal, a.seq)
        /\ UNCHANGED <<sweepUsed, sweeps>>
     \/ /\ a.kind = "sweep"
        /\ ~Consumed(a)
        /\ now < a.until
        /\ sweepUsed' = sweepUsed \cup {SweepNonce(a)}
        /\ sweeps' = sweeps \cup {a}
        /\ UNCHANGED vars
  /\ UNCHANGED funded

\* Whether the token would still execute it.
Executable(a) == Covered(a) /\ ~Consumed(a) /\ now < a.until

\* USDC sent to the payer, by its owner or anyone else.
Deposit(p, amount) ==
  /\ payerGoal[p] # 0
  /\ funded[p] + amount <= MaxFunds
  /\ balance' = [balance EXCEPT ![p] = @ + amount]
  /\ funded' = [funded EXCEPT ![p] = @ + amount]
  /\ UNCHANGED <<vars, signed, sweepUsed, sweeps, settles, clientVars>>

\* Whoever holds an authorization submits it without the facilitator: a vendor,
\* or a broadcast transaction whose receipt nobody saw.
Submit(a) == Execute(a) /\ UNCHANGED <<signed, settles, clientVars>>

-----------------------------------------------------------------------------
(* The signer.                                                             *)

\* sign: the spend is finalised, approved and its frozen window is open.
Sign(g, s) ==
  /\ Opened(g)
  /\ Signable(g, s)
  /\ now < spends[g][s].validBefore
  /\ response[g][s] = "none"
  /\ signed' = signed \cup {SpendAuth(g, s)}
  /\ response' = [response EXCEPT ![g][s] = "signed"]
  /\ UNCHANGED <<vars, moneyVars, settles, tries>>

Closed(g)    == Opened(g) /\ ~goals[g].open
Sweepable(g) == Closed(g)

\* Fault: the amount is what the payer was sent, not what it holds.
EverSent(g) == funded[goals[g].payer]

SweepAmount(g) == balance[goals[g].payer]

\* sweepGoal: the signer signs for the whole balance of a closed goal, and the
\* orchestrator takes the authorization to the facilitator.
Sweep(g, c) ==
  LET a == SweepAuth(g, SweepAmount(g)) IN
  /\ Sweepable(g)
  /\ SweepAmount(g) > 0
  /\ settles[c].point = "idle"
  /\ signed' = signed \cup {a}
  /\ settles' = [settles EXCEPT ![c] =
       [point |-> "check", auth |-> a, attempt |-> 0, answer |-> "none"]]
  /\ UNCHANGED <<vars, moneyVars, clientVars>>

-----------------------------------------------------------------------------
(* The client and the vendor's handler.                                    *)

MayTry(g, s) == tries[g][s] < MaxTries

\* The paid request reaches the vendor, which has the facilitator settle it.
\* It is sent again, up to MaxTries, while no response to it has come.
Present(g, s, c) ==
  /\ response[g][s] \in {"signed", "waiting"}
  /\ MayTry(g, s)
  /\ settles[c].point = "idle"
  /\ tries' = [tries EXCEPT ![g][s] = @ + 1]
  /\ response' = [response EXCEPT ![g][s] = "waiting"]
  /\ settles' = [settles EXCEPT ![c] =
       [point |-> "check", auth |-> SpendAuth(g, s),
        attempt |-> tries[g][s] + 1, answer |-> "none"]]
  /\ UNCHANGED <<vars, moneyVars, signed>>

\* The last response is lost too: retries-exhausted.
GiveUp(g, s) ==
  /\ response[g][s] = "waiting"
  /\ ~MayTry(g, s)
  /\ response' = [response EXCEPT ![g][s] = "failed"]
  /\ UNCHANGED <<vars, moneyVars, signed, settles, tries>>

\* What the client makes of the vendor's response to the attempt it is waiting
\* for: 200 with the thing, or a second 402.  Responses to others go nowhere.
Heard(c, answer) ==
  LET a == settles[c].auth IN
  IF a.kind = "spend" /\ settles[c].attempt = tries[a.goal][a.seq]
                      /\ response[a.goal][a.seq] = "waiting"
    THEN [response EXCEPT ![a.goal][a.seq] =
            IF answer = "failed" THEN "refused" ELSE "delivered"]
    ELSE response

-----------------------------------------------------------------------------
(* The facilitator's settle.                                               *)

Proceed(c, point) ==
  /\ settles' = [settles EXCEPT ![c].point = point]
  /\ UNCHANGED response

Reply(c, answer) ==
  /\ settles' = [settles EXCEPT ![c] = [Idle EXCEPT !.answer = answer]]
  /\ response' = Heard(c, answer)

\* The first read: an authorization that was consumed has moved its money.
ReadState(c) ==
  /\ settles[c].point = "check"
  /\ IF Consumed(settles[c].auth) THEN Reply(c, "already")
                                ELSE Proceed(c, "verify")
  /\ UNCHANGED <<vars, moneyVars, signed, tries>>

\* verify: the window, then authorizationState and balanceOf.
Verify(c) ==
  /\ settles[c].point = "verify"
  /\ IF Executable(settles[c].auth) THEN Proceed(c, "write")
                                  ELSE Reply(c, "failed")
  /\ UNCHANGED <<vars, moneyVars, signed, tries>>

\* Fault: the transfer is taken for settled once it is broadcast.
BroadcastIsSettled(c) == Reply(c, "settled")

Broadcast(c) == Proceed(c, "sent")

\* Gas estimation passes and the transfer is broadcast, or the write throws.
Write(c) ==
  /\ settles[c].point = "write"
  /\ Broadcast(c) \/ Reply(c, "failed")
  /\ UNCHANGED <<vars, moneyVars, signed, tries>>

\* The receipt: the transfer was executed.
Lands(c) ==
  /\ settles[c].point = "sent"
  /\ Execute(settles[c].auth)
  /\ Reply(c, "settled")
  /\ UNCHANGED <<signed, tries>>

\* A failure in place of an answer: the facilitator's limiter refuses the call,
\* a read of it throws, the receipt says "reverted" or never comes, or the
\* facilitator cannot be reached any more and the vendor's gateway says so.
Unsettled(c) ==
  /\ settles[c].point \in CallPoints
  /\ Reply(c, "failed")
  /\ UNCHANGED <<vars, moneyVars, signed, tries>>

\* The vendor, or the sweep that asked, is gone: nobody is answered.
Dies(c) ==
  /\ settles[c].point \in CallPoints
  /\ settles' = [settles EXCEPT ![c] = Idle]
  /\ UNCHANGED <<vars, moneyVars, signed, clientVars>>

-----------------------------------------------------------------------------
(* The vault under it: everything but the transfers is as before.          *)

VaultStep ==
  /\ \/ OpenSomeGoal
     \/ \E caller \in Users, g \in GoalIds : CloseGoal(caller, g)
     \/ \E caller \in Relays, g \in GoalIds, amount \in Amounts,
           payTo \in Payees, payBy \in Times :
          RequestSpend(caller, g, amount, payTo, payBy)
     \/ \E g \in GoalIds, s \in Seqs :
          FinalizeDecision(g, s) \/ ReclaimExpired(g, s)
     \/ Tick
  /\ UNCHANGED settleVars

CallStep(c) ==
  ReadState(c) \/ Verify(c) \/ Write(c) \/ Lands(c) \/ Unsettled(c)

SettleNext ==
  \/ VaultStep
  \/ \E p \in Payers, amount \in Amounts : Deposit(p, amount)
  \/ \E a \in signed : Submit(a)
  \/ \E g \in GoalIds, s \in Seqs : Sign(g, s) \/ GiveUp(g, s)
  \/ \E g \in GoalIds, s \in Seqs, c \in Slots : Present(g, s, c)
  \/ \E g \in GoalIds, c \in Slots : Sweep(g, c)
  \/ \E c \in Slots : CallStep(c) \/ Dies(c)

SettleSpec == SettleInit /\ [][SettleNext]_allVars

\* The owner keeps asking for the sweep, and a facilitator that is asked for
\* ever neither dies nor fails at the same point every time.
SettleFairness ==
  /\ \A g \in GoalIds : SF_allVars(\E c \in Slots : Sweep(g, c))
  /\ \A c \in Slots :
       /\ WF_allVars(CallStep(c))
       /\ SF_allVars(ReadState(c)) /\ SF_allVars(Verify(c))
       /\ SF_allVars(Write(c) /\ settles'[c].point = "sent")
       /\ SF_allVars(Lands(c))

FairSettleSpec == SettleSpec /\ SettleFairness

-----------------------------------------------------------------------------
(* Properties.                                                             *)

\* Every variable of the settlement, and of the vault under it, keeps its type.
SettleTypeOK ==
  /\ TypeOK
  /\ balance \in [Payers -> Nat]
  /\ funded \in [Payers -> 0..MaxFunds]
  /\ signed \subseteq Auths
  /\ sweepUsed \subseteq GoalIds \X Nat
  /\ sweeps \subseteq Auths
  /\ \A c \in Slots :
       /\ settles[c].point \in CallPoints \cup {"idle"}
       /\ settles[c].auth \in Auths \cup {NoAuth}
       /\ settles[c].attempt \in 0..MaxTries
       /\ settles[c].answer \in {"none", "already", "settled", "failed"}
  /\ tries \in [GoalIds -> [Seqs -> 0..MaxTries]]
  /\ response \in [GoalIds -> [Seqs -> Responses]]

\* The vendor never hands out the thing for a payment that did not happen,
\* however its calls, the client's repeats and other submitters interleave.
DeliveredWasPaid ==
  \A g \in GoalIds, s \in Seqs :
    response[g][s] = "delivered" => <<g, s>> \in used

\* "however many sweep authorizations get signed for the same balance, at most
\* one can ever execute" (service.ts), also when the payer is funded again.
OneSweepPerBalance ==
  \A a, b \in sweeps : a.goal = b.goal /\ a.value = b.value => a = b

\* While a goal is open its payer is only ever charged for approved spends.
OpenGoalIsNotSwept == \A a \in sweeps : ~goals[a.goal].open

\* Fairness apart, only a repeated amount keeps a closed goal from being swept.
ClosedIsReturned ==
  \A g \in GoalIds :
    LET left == balance[goals[g].payer] IN
    Closed(g) ~>
      Opened(g) /\ (left = 0 \/ <<g, left>> \in sweepUsed)

\* "returning the payer's whole USDC balance to the goal owner" (service.ts 129).
WholeBalanceIsReturned ==
  \A g \in GoalIds : Closed(g) ~> Opened(g) /\ balance[goals[g].payer] = 0
=============================================================================
