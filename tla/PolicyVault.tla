---------------------------- MODULE PolicyVault ----------------------------
(***************************************************************************)
(* The policy contract (contracts/src/PolicyVault.sol) together with the   *)
(* two things its guarantees are stated against: the block clock and the   *)
(* EIP-3009 token that executes the payments the vault approves.           *)
(*                                                                         *)
(* A transaction is one action; a transaction that reverts is an action    *)
(* whose guard is false.  The budget and the cap are ciphertexts on chain; *)
(* here they are the plaintext values Inco computes with, and nothing but  *)
(* the decision of a spend is ever read out of them.                       *)
(***************************************************************************)
EXTENDS Integers, FiniteSets

CONSTANTS
  Users,        \* wallets that may own a goal
  Payers,       \* ephemeral payer addresses
  Relays,       \* orchestrator relay wallets
  Payees,       \* vendors that may be paid
  Nobody,       \* the zero address
  Amounts,      \* amounts a relay may ask for
  Budgets,      \* plaintext of the budget ciphertexts
  Caps,         \* plaintext of the per-call cap ciphertexts
  MaxGoals,     \* bound: goals ever opened
  MaxAttempts,  \* bound: the largest maxAttempts a goal is opened with
  MaxTime,      \* bound: the last block timestamp
  Window        \* AUTHORIZATION_WINDOW, in ticks of the clock

ASSUME DataAssumption ==
  /\ Amounts \subseteq Nat
  /\ Budgets \subseteq Nat
  /\ Caps \subseteq Nat
ASSUME BoundAssumption ==
  /\ MaxGoals \in Nat
  /\ MaxAttempts \in Nat
  /\ MaxTime \in Nat \ {0}
  /\ Window \in Nat \ {0}
ASSUME AddressAssumption ==
  Nobody \notin Users \cup Payers \cup Relays \cup Payees

GoalIds == 1..MaxGoals
Seqs    == 1..MaxAttempts
Times   == 0..MaxTime

VARIABLES
  now,                \* block.timestamp of the next transaction
  goalCount,
  goals,              \* goal id -> Goal record; owner Nobody: never opened
  perCallCap,         \* goal id -> plaintext of _perCallCap
  remainingBudget,    \* goal id -> plaintext of _remainingBudget
  allowlisted,        \* goal id -> payees of the goal
  spends,             \* goal id -> seq -> SpendRecord; amount 0: no record
  pendingSeq,         \* goal id -> the spend awaiting finalisation, or 0
  attemptsRemaining,  \* goal id -> requestSpend calls still allowed
  payerGoal,          \* payer -> its goal, or 0
  used,               \* token: (goal, seq) whose nonce has been consumed
  outflow,            \* token: total ever transferred out of each payer
  granted             \* history: what the owner granted when opening a goal

vaultVars == <<goalCount, goals, perCallCap, remainingBudget, allowlisted,
               spends, pendingSeq, attemptsRemaining, payerGoal, granted>>
tokenVars == <<used, outflow>>
vars      == <<now, vaultVars, tokenVars>>

Goal == [owner : Users \cup {Nobody}, payer : Payers \cup {Nobody},
         relay : Relays \cup {Nobody}, callsRemaining : Nat,
         expiry : Times, seq : 0..MaxAttempts, open : BOOLEAN]

SpendRecord == [payTo : Payees \cup {Nobody}, amount : Nat,
                validAfter : Int, validBefore : Int, decision : BOOLEAN,
                finalized : BOOLEAN, approved : BOOLEAN, reclaimed : BOOLEAN]

NoGoal  == [owner |-> Nobody, payer |-> Nobody, relay |-> Nobody,
            callsRemaining |-> 0, expiry |-> 0, seq |-> 0, open |-> FALSE]
NoSpend == [payTo |-> Nobody, amount |-> 0, validAfter |-> 0,
            validBefore |-> 0, decision |-> FALSE, finalized |-> FALSE,
            approved |-> FALSE, reclaimed |-> FALSE]

Opened(g)    == goals[g].owner # Nobody
Exists(g, s) == spends[g][s].amount # 0
\* Finalised as approved; a rejected spend debited nothing and can never pay.
Approved(g, s) == spends[g][s].finalized /\ spends[g][s].approved

Init ==
  /\ now = 1
  /\ goalCount = 0
  /\ goals = [g \in GoalIds |-> NoGoal]
  /\ perCallCap = [g \in GoalIds |-> 0]
  /\ remainingBudget = [g \in GoalIds |-> 0]
  /\ allowlisted = [g \in GoalIds |-> {}]
  /\ spends = [g \in GoalIds |-> [s \in Seqs |-> NoSpend]]
  /\ pendingSeq = [g \in GoalIds |-> 0]
  /\ attemptsRemaining = [g \in GoalIds |-> 0]
  /\ payerGoal = [p \in Payers |-> 0]
  /\ used = {}
  /\ outflow = [p \in Payers |-> 0]
  /\ granted = [g \in GoalIds |-> [budget |-> 0, calls |-> 0, attempts |-> 0]]

-----------------------------------------------------------------------------
(* Opening and closing a goal.                                             *)

\* Fault: a payer may be named by a second goal.
PayerMayBeReused(payer) == TRUE

PayerIsFree(payer) == payerGoal[payer] = 0

\* The terms are the plaintext arguments and the two ciphertexts' values.
OpenGoal(owner, payer, relay, budget, cap, calls, attempts, expiry, allowlist) ==
  LET g == goalCount + 1 IN
  /\ goalCount < MaxGoals
  /\ PayerIsFree(payer)
  /\ expiry > now
  /\ calls > 0
  /\ attempts >= calls
  /\ allowlist # {}
  /\ goalCount' = g
  /\ remainingBudget' = [remainingBudget EXCEPT ![g] = budget]
  /\ perCallCap' = [perCallCap EXCEPT ![g] = cap]
  /\ goals' = [goals EXCEPT ![g] =
       [owner |-> owner, payer |-> payer, relay |-> relay,
        callsRemaining |-> calls, expiry |-> expiry, seq |-> 0, open |-> TRUE]]
  /\ attemptsRemaining' = [attemptsRemaining EXCEPT ![g] = attempts]
  /\ payerGoal' = [payerGoal EXCEPT ![payer] = g]
  /\ allowlisted' = [allowlisted EXCEPT ![g] = allowlist]
  /\ granted' = [granted EXCEPT ![g] =
       [budget |-> budget, calls |-> calls, attempts |-> attempts]]
  /\ UNCHANGED <<now, spends, pendingSeq, tokenVars>>

\* Closing is idempotent and leaves a pending spend alone.
CloseGoal(caller, g) ==
  /\ Opened(g)
  /\ caller = goals[g].owner
  /\ goals' = [goals EXCEPT ![g].open = FALSE]
  /\ UNCHANGED <<now, goalCount, perCallCap, remainingBudget, allowlisted,
                 spends, pendingSeq, attemptsRemaining, payerGoal, granted,
                 tokenVars>>

-----------------------------------------------------------------------------
(* The spend cycle.                                                        *)

TakesRequests(g) == goals[g].open /\ now < goals[g].expiry

\* Fault: a second request may be in flight.
PendingIsIgnored(g) == TRUE

NothingPending(g) == pendingSeq[g] = 0

NextSeq(g) == goals[g].seq + 1

\* Every request asks one question of the encrypted limits.
AttemptCost(g, ok) == 1

EndOf(g, payBy) ==
  LET window == now + Window IN
  IF payBy < window /\ payBy < goals[g].expiry THEN payBy
  ELSE IF goals[g].expiry < window THEN goals[g].expiry ELSE window

\* Fault: the cap is left out of the conjunction.
WithinBudgetOnly(g, amount) ==
  goals[g].callsRemaining >= 1 /\ remainingBudget[g] >= amount

\* _evaluateAndDebit: the public count first, then both encrypted limits.
Decide(g, amount) ==
  /\ goals[g].callsRemaining >= 1
  /\ remainingBudget[g] >= amount
  /\ perCallCap[g] >= amount

Debit(g, amount) == IF Decide(g, amount) THEN amount ELSE 0

RequestSpend(caller, g, amount, payTo, payBy) ==
  LET s  == NextSeq(g)
      ok == Decide(g, amount) IN
  /\ Opened(g)
  /\ caller = goals[g].relay
  /\ TakesRequests(g)
  /\ payTo \in allowlisted[g]
  /\ amount > 0
  /\ payBy > now
  /\ NothingPending(g)
  /\ attemptsRemaining[g] > 0
  /\ attemptsRemaining' =
       [attemptsRemaining EXCEPT ![g] = @ - AttemptCost(g, ok)]
  /\ goals' = [goals EXCEPT ![g].seq = s]
  /\ spends' = [spends EXCEPT ![g][s] =
       [payTo |-> payTo, amount |-> amount, validAfter |-> now - 1,
        validBefore |-> EndOf(g, payBy), decision |-> ok,
        finalized |-> FALSE, approved |-> FALSE, reclaimed |-> FALSE]]
  /\ remainingBudget' = [remainingBudget EXCEPT ![g] = @ - Debit(g, amount)]
  /\ pendingSeq' = [pendingSeq EXCEPT ![g] = s]
  /\ UNCHANGED <<now, goalCount, perCallCap, allowlisted, payerGoal, granted,
                 tokenVars>>

\* Fault: a decision can no longer be recorded once the goal is closed.
FinalizableWhileOpen(g, s) == goals[g].open /\ ~spends[g][s].finalized

Finalizable(g, s) == ~spends[g][s].finalized

\* Anyone may submit the covalidators' attestation of the stored handle; no
\* other claim verifies, so the recorded answer is the decision.  The checked
\* decrement of the counter reverts the transaction at zero.
FinalizeDecision(g, s) ==
  LET ok == spends[g][s].decision IN
  /\ Opened(g)
  /\ Exists(g, s)
  /\ Finalizable(g, s)
  /\ ok => goals[g].callsRemaining >= 1
  /\ spends' = [spends EXCEPT ![g][s].finalized = TRUE,
                              ![g][s].approved = ok]
  /\ pendingSeq' = [pendingSeq EXCEPT ![g] = 0]
  /\ goals' = [goals EXCEPT ![g].callsRemaining = IF ok THEN @ - 1 ELSE @]
  /\ UNCHANGED <<now, goalCount, perCallCap, remainingBudget, allowlisted,
                 attemptsRemaining, payerGoal, granted, tokenVars>>

\* Fault: the window is taken to end one tick early.
WindowAlmostClosed(g, s) == now + 1 >= spends[g][s].validBefore

WindowClosed(g, s) == now >= spends[g][s].validBefore

\* Fault: the token is not asked whether the authorization was used.
UseIsNotChecked(g, s) == Approved(g, s) /\ ~spends[g][s].reclaimed

\* Fault: a spend can be given back any number of times.
RepeatedlyReclaimable(g, s) == Approved(g, s) /\ <<g, s>> \notin used

\* Fault: only an open goal gives back.
ReclaimableWhileOpen(g, s) ==
  /\ goals[g].open
  /\ Approved(g, s) /\ ~spends[g][s].reclaimed /\ <<g, s>> \notin used

Unspent(g, s) ==
  Approved(g, s) /\ ~spends[g][s].reclaimed /\ <<g, s>> \notin used

ReclaimExpired(g, s) ==
  /\ Opened(g)
  /\ Exists(g, s)
  /\ Unspent(g, s)
  /\ WindowClosed(g, s)
  /\ spends' = [spends EXCEPT ![g][s].reclaimed = TRUE]
  /\ remainingBudget' = [remainingBudget EXCEPT ![g] = @ + spends[g][s].amount]
  /\ goals' = [goals EXCEPT ![g].callsRemaining = @ + 1]
  /\ UNCHANGED <<now, goalCount, perCallCap, allowlisted, pendingSeq,
                 attemptsRemaining, payerGoal, granted, tokenVars>>

-----------------------------------------------------------------------------
(* The world around the vault.                                             *)

\* The signer's gate: it signs the frozen tuple of an approved spend.
Signable(g, s) == Exists(g, s) /\ Approved(g, s)

\* transferWithAuthorization at the token, by anyone who holds the signature.
\* It may as well never happen: a payment can be lost at any point.
TransferWithAuthorization(g, s) ==
  LET spend == spends[g][s]
      payer == goals[g].payer IN
  /\ Opened(g)
  /\ Signable(g, s)
  /\ spend.validAfter < now
  /\ now < spend.validBefore
  /\ <<g, s>> \notin used
  /\ used' = used \cup {<<g, s>>}
  /\ outflow' = [outflow EXCEPT ![payer] = @ + spend.amount]
  /\ UNCHANGED <<now, vaultVars>>

Tick ==
  /\ now < MaxTime
  /\ now' = now + 1
  /\ UNCHANGED <<vaultVars, tokenVars>>

OpenSomeGoal ==
  \E owner \in Users, payer \in Payers, relay \in Relays, budget \in Budgets,
     cap \in Caps, calls \in Seqs, attempts \in Seqs, expiry \in Times,
     allowlist \in SUBSET Payees :
    OpenGoal(owner, payer, relay, budget, cap, calls, attempts, expiry, allowlist)

Next ==
  \/ OpenSomeGoal
  \/ \E caller \in Users, g \in GoalIds : CloseGoal(caller, g)
  \/ \E caller \in Relays, g \in GoalIds, amount \in Amounts,
        payTo \in Payees, payBy \in Times :
       RequestSpend(caller, g, amount, payTo, payBy)
  \/ \E g \in GoalIds, s \in Seqs :
       \/ FinalizeDecision(g, s)
       \/ ReclaimExpired(g, s)
       \/ TransferWithAuthorization(g, s)
  \/ Tick

Spec == Init /\ [][Next]_vars

\* Time passes; finalisation and reclaiming are open to anyone, and the
\* covalidators answer every revealed handle sooner or later.
Fairness ==
  /\ WF_vars(Tick)
  /\ \A g \in GoalIds, s \in Seqs :
       WF_vars(FinalizeDecision(g, s)) /\ WF_vars(ReclaimExpired(g, s))

FairSpec == Spec /\ Fairness

-----------------------------------------------------------------------------
(* Properties.                                                             *)

\* Every variable keeps its type; the zero records stand for unset storage.
TypeOK ==
  /\ now \in Times
  /\ goalCount \in 0..MaxGoals
  /\ goals \in [GoalIds -> Goal]
  /\ perCallCap \in [GoalIds -> Nat]
  /\ remainingBudget \in [GoalIds -> Nat]
  /\ allowlisted \in [GoalIds -> SUBSET Payees]
  /\ spends \in [GoalIds -> [Seqs -> SpendRecord]]
  /\ pendingSeq \in [GoalIds -> 0..MaxAttempts]
  /\ attemptsRemaining \in [GoalIds -> 0..MaxAttempts]
  /\ payerGoal \in [Payers -> 0..MaxGoals]
  /\ used \subseteq GoalIds \X Seqs
  /\ outflow \in [Payers -> Nat]
  /\ granted \in [GoalIds -> [budget : Nat, calls : 0..MaxAttempts,
                              attempts : 0..MaxAttempts]]

\* The spends that hold a call of the goal: approved and not given back.
Charged(g) == {s \in Seqs : Approved(g, s) /\ ~spends[g][s].reclaimed}

\* What a spend still holds of the budget: its debit, until the amount is paid
\* or given back.
Held(g, s) ==
  IF spends[g][s].decision /\ ~spends[g][s].reclaimed /\ <<g, s>> \notin used
    THEN spends[g][s].amount ELSE 0

\* acc is the running total of what the goal's spends hold.
IsRunningTotal(acc, g) ==
  /\ acc[0] = 0
  /\ \A s \in Seqs : acc[s] = acc[s - 1] + Held(g, s)

\* "Strictly sequential per goal" (PolicyVault.sol requestSpend): the written
\* records are exactly 1..seq, at most the last of them is undecided, and
\* pendingSeq names it whenever there is one.
StrictlySequential ==
  \A g \in GoalIds :
    /\ \A s \in Seqs : Exists(g, s) <=> s <= goals[g].seq
    /\ \A s \in Seqs :
         (Exists(g, s) /\ ~spends[g][s].finalized) <=> s = pendingSeq[g]
    /\ pendingSeq[g] \in {0, goals[g].seq}

\* A goal answers at most maxAttempts questions about its encrypted limits:
\* attempts are neither created nor given back, reclaiming included.
AttemptsConserved ==
  \A g \in GoalIds :
    attemptsRemaining[g] + goals[g].seq = granted[g].attempts

\* The public call count and the approved spends that were not given back
\* always add up to the calls the owner granted.
CallsConserved ==
  \A g \in GoalIds :
    goals[g].callsRemaining + Cardinality(Charged(g)) = granted[g].calls

\* The checked decrement in finalizeDecision cannot revert, so an approved
\* decision never wedges the goal behind a pending spend nobody can finalise.
FinalizeNeverReverts ==
  \A g \in GoalIds, s \in Seqs :
    Exists(g, s) /\ ~spends[g][s].finalized /\ spends[g][s].decision
      => goals[g].callsRemaining >= 1

\* Budget left, amounts held by decided spends and money paid always add up to
\* the budget the owner encrypted: no amount is both returned and paid, none is
\* lost, and the encrypted subtraction and addition never wrap.
BudgetConserved ==
  \A g \in GoalIds : Opened(g) =>
    \E acc \in [0..MaxAttempts -> 0..granted[g].budget] :
      /\ IsRunningTotal(acc, g)
      /\ remainingBudget[g] + acc[MaxAttempts] + outflow[goals[g].payer]
           = granted[g].budget

\* "the amount cannot be both returned here and paid" (reclaimExpired).
NeverReturnedAndPaid ==
  \A g \in GoalIds, s \in Seqs :
    ~(spends[g][s].reclaimed /\ <<g, s>> \in used)

\* The ceiling of ARCHITECTURE.md 3.3: whatever the relay, the vendor and the
\* order of events, a payer loses no more than the budget of the one goal it is
\* bound to and no more than cap times calls.
LossCeiling ==
  \A p \in Payers :
    IF payerGoal[p] = 0 THEN outflow[p] = 0
    ELSE LET g == payerGoal[p] IN
         /\ outflow[p] <= granted[g].budget
         /\ outflow[p] <= perCallCap[g] * granted[g].calls

\* Money moves only for a spend the owner's policy approved: to a payee of the
\* goal's allowlist, for no more than the cap.
PaidWithinPolicy ==
  \A g \in GoalIds, s \in Seqs : <<g, s>> \in used =>
    /\ Approved(g, s)
    /\ spends[g][s].payTo \in allowlisted[g]
    /\ spends[g][s].amount <= perCallCap[g]

RecordsStay ==
  \A g \in GoalIds, s \in Seqs : Exists(g, s) =>
    LET old == spends[g][s]
        new == spends'[g][s] IN
    /\ \A f \in {"payTo", "amount", "validAfter", "validBefore", "decision"} :
         new[f] = old[f]
    /\ \A f \in {"finalized", "approved", "reclaimed"} : old[f] => new[f]

\* The frozen tuple of a written record never changes, nor does its decision,
\* and finalized, approved and reclaimed are only ever raised.
FrozenOnceWritten == [][RecordsStay]_vars

\* Spends that may yet move money.
Exposure(g) == {s \in Seqs : Held(g, s) > 0}

ExposureShrinks ==
  \A g \in GoalIds : Opened(g) /\ ~goals[g].open =>
    ~goals'[g].open /\ Exposure(g)' \subseteq Exposure(g)

\* Closing a goal caps what it can still cost: it stays closed, and no step
\* adds a spend that may yet be paid.
ClosedOnlyShrinks == [][ExposureShrinks]_vars

\* A pending spend cannot wedge its goal, open or closed, expired or not.
PendingIsResolved ==
  \A g \in GoalIds, s \in Seqs : pendingSeq[g] = s ~> pendingSeq[g] # s

\* Every debit ends as a payment or back in the budget.
DebitIsSettled ==
  \A g \in GoalIds, s \in Seqs : Held(g, s) > 0 ~> Held(g, s) = 0

\* What has become of a spend.
Became(g, s) ==
  IF ~Exists(g, s) THEN "none"
  ELSE IF ~spends[g][s].finalized THEN "asked"
  ELSE IF ~spends[g][s].approved THEN "rejected"
  ELSE IF <<g, s>> \in used THEN "paid"
  ELSE IF spends[g][s].reclaimed THEN "returned" ELSE "approved"

LifeOf(g, s) ==
  [state |-> Became(g, s), payTo |-> spends[g][s].payTo,
   amount |-> spends[g][s].amount, until |-> spends[g][s].validBefore,
   within |-> spends[g][s].decision]

LifeGranted == [g \in GoalIds |-> Opened(g)]
LifeClosed  == [g \in GoalIds |-> Opened(g) /\ ~goals[g].open]
LifePaid    == [g \in GoalIds |-> IF Opened(g) THEN outflow[goals[g].payer] ELSE 0]
Lives       == [g \in GoalIds |-> [s \in Seqs |-> LifeOf(g, s)]]

Lifecycle == INSTANCE SpendLifecycle WITH
  Goals <- GoalIds, Grants <- Budgets, Ends <- Times,
  clock <- now, granted <- LifeGranted, closed <- LifeClosed,
  free <- remainingBudget, paid <- LifePaid, life <- Lives

\* The vault and the token implement the life of a spend: terms frozen when it
\* is asked for, one undecided spend at a time, an amount that is held, paid or
\* returned exactly once, with the window the line between the last two, and no
\* new spend of a closed goal.
ImplementsLifecycle == Lifecycle!LifeSpec
=============================================================================
