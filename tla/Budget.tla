-------------------------------- MODULE Budget --------------------------------
(***************************************************************************)
(* The confidential budget and the prices that are measured against it:    *)
(* from the field in which it is typed (apps/web/src/App.tsx) through the  *)
(* goal that is opened with it, to what a vendor of the catalog            *)
(* (shared/src/demo/catalog.ts) asks for a resource (mock-api), and to the *)
(* decision of the vault.  Amounts are in hundredths of USDC, of which all *)
(* the code's constants are multiples.                                     *)
(*                                                                         *)
(* Two goals: "earlier" was opened by another session of the page, "mine"  *)
(* is the one this page opens.  Runs on one goal that overlap, orphans and *)
(* windows are the subject of PaymentLoop, closing and sweeping of Console *)
(* and Settlement.  Nothing is bounded here: what may be typed, sent and   *)
(* bought has no end, and ConsoleProofs proves what holds of it.           *)
(***************************************************************************)
EXTENDS Integers

VARIABLES
  field,     \* the budget field: what it reads, and the budget it stands for
  console,   \* the page: the goal shown, whether opened here, dialog, funded
  task,      \* what the page is busy with, and the budget that it captured
  grants,    \* vault and token: goal -> budget, calls, attempts, balance
  purchase,  \* the run that the orchestrator works on
  decision   \* the last decision, beside what it was taken from

budgetVars == <<field, console, task, grants, purchase, decision>>

\* Lets both honest resources settle.
MinBudget == 30

\* Below the 5.00 that the injecting vendor asks.
MaxBudget == 400

DefaultBudget == MinBudget
FundingHeadroom == 10
PerCallCap    == 600
CallsAtFirst  == 5
MaxAttempts   == 10
OverchargeMargin == 5
MaxPriceAtomic   == 10000

\* The demo catalog: priceAtomic and tactic of every resource.  All payees of
\* it are allowlisted when a goal is opened.
Resources == {"market-data", "bulk-archive", "compliance-audit", "premium-feed"}

PriceAtomic == [r \in Resources |->
  IF r = "market-data" THEN 1 ELSE IF r = "bulk-archive" THEN 12
  ELSE IF r = "compliance-audit" THEN 35 ELSE 500]

Honest      == {"market-data", "bulk-archive"}
Overcharges(r) == r = "compliance-audit"

Unreadable == -1    \* parseUsdc: undefined
NoPrice    == -1    \* priceFor: undefined, no ?price= in the URL

GoalNames == {"earlier", "mine"}
NotOpened == [grant |-> 0, left |-> 0, calls |-> 0, attempts |-> 0, balance |-> 0,
              sent |-> 0, bought |-> [r \in Resources |-> 0]]
Opened(budget) == [NotOpened EXCEPT !.grant = budget, !.left = budget,
                                    !.calls = CallsAtFirst, !.attempts = MaxAttempts]

\* funding: a little above the budget.
FundingFor(budget) == budget + FundingHeadroom
Credited(grant, amount) == [grant EXCEPT !.balance = @ + amount, !.sent = @ + amount]

IsOpened(g) == grants[g].grant > 0

NoTask     == [name |-> "free", budget |-> 0]
NoPurchase == [point |-> "none", goal |-> "mine", which |-> "market-data", ask |-> NoPrice,
               label |-> 0, shown |-> 0, amount |-> 0]
NoDecision == [goal |-> "none", which |-> "market-data", label |-> 0, shown |-> 0,
               amount |-> 0, approved |-> FALSE, before |-> NotOpened]

-----------------------------------------------------------------------------
(* The field.                                                              *)

\* clampBudget.
Clamp(amount) ==
  IF amount < MinBudget THEN MinBudget ELSE IF amount > MaxBudget THEN MaxBudget ELSE amount

\* The page is loaded; the goal of an earlier session is as good as new.
BudgetInit ==
  /\ field = [draft |-> DefaultBudget, budget |-> DefaultBudget]
  /\ console = [goal |-> "none", openedHere |-> FALSE, dialog |-> FALSE, funded |-> FALSE]
  /\ task = NoTask
  /\ \E budget \in {Clamp(a) : a \in Nat} :
       grants = [g \in GoalNames |-> IF g = "earlier"
                   THEN Credited(Opened(budget), FundingFor(budget)) ELSE NotOpened]
  /\ purchase = NoPurchase
  /\ decision = NoDecision

Chain == <<grants, purchase, decision>>

\* onChange: while nothing is under way.
Type(text) ==
  /\ console.dialog /\ task = NoTask
  /\ field' = [draft |-> text,
               budget |-> IF text = Unreadable THEN field.budget ELSE Clamp(text)]
  /\ UNCHANGED <<console, task, Chain>>

\* onBlur: the text is made to say what it stands for.
Blur ==
  /\ console.dialog /\ task = NoTask
  /\ LET next == Clamp(IF field.draft = Unreadable THEN DefaultBudget ELSE field.draft)
     IN field' = [draft |-> next, budget |-> next]
  /\ UNCHANGED <<console, task, Chain>>

\* "Set up a goal": wherever no goal is shown, also while one is being opened.
OpenSetup ==
  /\ console.goal = "none" /\ ~console.dialog
  /\ console' = [console EXCEPT !.dialog = TRUE]
  /\ UNCHANGED <<field, task, Chain>>

CloseSetup ==
  /\ console.dialog
  /\ console' = [console EXCEPT !.dialog = FALSE]
  /\ UNCHANGED <<field, task, Chain>>

\* "Resume": a goal by its number.
ResumeGoal(g) ==
  /\ console.dialog /\ IsOpened(g)
  /\ console' = [console EXCEPT !.goal = g, !.dialog = FALSE]
  /\ UNCHANGED <<field, task, Chain>>

-----------------------------------------------------------------------------
(* Opening and funding.                                                    *)

\* openGoal encrypts the budget of the render in which it was clicked.
Encrypt ==
  /\ console.dialog /\ console.goal = "none" /\ task = NoTask
  /\ task' = [name |-> "opening", budget |-> field.budget]
  /\ console' = [console EXCEPT !.dialog = FALSE]
  /\ UNCHANGED <<field, Chain>>

\* The transaction is mined, unless the payer is bound already, and the page
\* is told of it, unless the receipt is lost.
OpenGoal ==
  /\ task.name = "opening" /\ ~IsOpened("mine")
  /\ grants' = [grants EXCEPT !["mine"] = Opened(task.budget)]
  /\ \/ console' = [console EXCEPT !.goal = "mine", !.openedHere = TRUE]
     \/ UNCHANGED console
  /\ task' = NoTask
  /\ UNCHANGED <<field, purchase, decision>>

\* fundPayer, to the payer of this page: it may be mined and not heard of, or
\* revert, which the page does not look at.
FundPayer ==
  /\ console.goal # "none" /\ ~console.dialog /\ task = NoTask /\ ~console.funded
  /\ \/ UNCHANGED grants
     \/ LET amount == FundingFor(field.budget) IN
        /\ IsOpened("mine")
        /\ grants' = [grants EXCEPT !["mine"] = Credited(@, amount)]
  /\ console' = [console EXCEPT !.funded = TRUE] \/ UNCHANGED console
  /\ UNCHANGED <<field, task, purchase, decision>>

-----------------------------------------------------------------------------
(* A purchase.                                                             *)

\* priceFor: the overcharging vendor sits just above the budget.
PriceFor(r, budget) == IF Overcharges(r) THEN budget + OverchargeMargin ELSE NoPrice

\* requestedPrice, as the button says it.
RequestedPrice(r, budget) ==
  IF PriceFor(r, budget) = NoPrice THEN PriceAtomic[r] ELSE PriceFor(r, budget)

\* "Buy": POST /runs with the price to ask for.
Buy(r) ==
  /\ console.goal # "none" /\ ~console.dialog /\ task = NoTask /\ purchase = NoPurchase
  /\ task' = [name |-> "running", budget |-> field.budget]
  /\ purchase' = [point |-> "asked", goal |-> console.goal, which |-> r,
                  ask |-> PriceFor(r, field.budget), label |-> RequestedPrice(r, field.budget),
                  shown |-> field.budget, amount |-> 0]
  /\ UNCHANGED <<field, console, grants, decision>>

\* The orchestrator takes a run of the catalog, and asks the vendor at the URL
\* that carries the price.
TakeRun ==
  /\ purchase.point = "asked"
  /\ purchase' = [purchase EXCEPT !.point = "taken"]
  /\ UNCHANGED <<field, console, task, grants, decision>>

\* overridePrice: honoured by the overcharging vendor only, and up to a limit.
OverridePrice(r, ask) ==
  IF Overcharges(r) /\ ask > 0 /\ ask <= MaxPriceAtomic THEN ask ELSE NoPrice

\* routeFor: what the vendor asks.
RouteAmount(r, ask) ==
  IF OverridePrice(r, ask) = NoPrice THEN PriceAtomic[r] ELSE OverridePrice(r, ask)

\* The 402, whose amount is the one that the vault is asked for.
Quote ==
  /\ purchase.point = "taken"
  /\ purchase' = [purchase EXCEPT !.point = "quoted",
                                  !.amount = RouteAmount(purchase.which, purchase.ask)]
  /\ UNCHANGED <<field, console, task, grants, decision>>

\* _evaluateAndDebit, and finalizeDecision, which counts the call.
Within(grant, amount) ==
  grant.calls >= 1 /\ grant.left >= amount /\ PerCallCap >= amount

Attempted(grant) == [grant EXCEPT !.attempts = @ - 1]
Counted(bought, r, n) == [bought EXCEPT ![r] = @ + n]

Debited(grant, r, amount) ==
  [grant EXCEPT !.left = @ - amount, !.calls = @ - 1, !.bought = Counted(@, r, 1)]

Decide ==
  /\ purchase.point = "quoted"
  /\ LET g == purchase.goal
         asked == Attempted(grants[g])
         approved == Within(grants[g], purchase.amount) IN
     /\ grants[g].attempts > 0
     /\ grants' = [grants EXCEPT ![g] =
          IF approved THEN Debited(asked, purchase.which, purchase.amount) ELSE asked]
     /\ decision' = [goal |-> g, which |-> purchase.which, label |-> purchase.label,
                     shown |-> purchase.shown, amount |-> purchase.amount,
                     approved |-> approved, before |-> grants[g]]
     /\ purchase' = [purchase EXCEPT !.point = IF approved THEN "approved" ELSE "ended"]
  /\ UNCHANGED <<field, console, task>>

\* The payment: collected if the payer holds it, and else, or if it was lost on
\* the way, reclaimed at the end of its window.
Covered(g, amount) == grants[g].balance >= amount

Paid(grant, amount) == [grant EXCEPT !.balance = @ - amount]

Collect ==
  /\ purchase.point = "approved"
  /\ Covered(purchase.goal, purchase.amount)
  /\ grants' = [grants EXCEPT ![purchase.goal] = Paid(@, purchase.amount)]
  /\ purchase' = [purchase EXCEPT !.point = "ended"]
  /\ UNCHANGED <<field, console, task, decision>>

\* reclaimExpired: the attempt is not given back.
Restored(grant, r, amount) ==
  [grant EXCEPT !.left = @ + amount, !.calls = @ + 1, !.bought = Counted(@, r, -1)]

Reclaim ==
  /\ purchase.point = "approved"
  /\ grants' = [grants EXCEPT ![purchase.goal] =
       Restored(@, purchase.which, purchase.amount)]
  /\ purchase' = [purchase EXCEPT !.point = "ended"]
  /\ UNCHANGED <<field, console, task, decision>>

\* The run ends, wherever it is: what was approved by then and not collected
\* stays debited.
RunEnds ==
  /\ purchase # NoPurchase
  /\ purchase' = NoPurchase
  /\ task' = IF task.name = "running" THEN NoTask ELSE task
  /\ UNCHANGED <<field, console, grants, decision>>

\* The operation throws (a wallet that refuses, a stream that breaks): the page
\* is free again, and a run goes on.
Throws ==
  /\ task # NoTask
  /\ task' = NoTask
  /\ UNCHANGED <<field, console, Chain>>

BudgetNext ==
  \/ (\E text \in Nat \cup {Unreadable} : Type(text)) \/ Blur
  \/ OpenSetup \/ CloseSetup \/ (\E g \in GoalNames : ResumeGoal(g))
  \/ Encrypt \/ OpenGoal \/ FundPayer
  \/ (\E r \in Resources : Buy(r)) \/ TakeRun \/ Quote \/ Decide \/ Collect \/ Reclaim \/ RunEnds
  \/ Throws

BudgetSpec == BudgetInit /\ [][BudgetNext]_budgetVars

-----------------------------------------------------------------------------
(* Properties.                                                             *)

\* Both honest resources can be bought on a goal that this page opened: the
\* first time of each is approved, whatever was typed for the budget, and once
\* the payer is funded it can pay ("a viewer always gets to watch two real
\* debits before anything is refused").
HonestSettles ==
  /\ decision.goal = "mine" /\ decision.which \in Honest
  /\ decision.before.bought[decision.which] = 0
  /\ \A r \in Resources : decision.before.bought[r] <= IF r \in Honest THEN 1 ELSE 0
  => /\ decision.approved
     /\ decision.before.sent > 0 => decision.before.balance >= decision.amount

\* A hostile resource is stopped by the confidential budget and by nothing that
\* is public; the only one that can ever be approved is the overcharging one,
\* on a goal with a larger budget than the page knew of when it named a price.
HostileMeetsTheBudget ==
  decision.goal # "none" /\ decision.which \notin Honest =>
    /\ decision.amount <= PerCallCap
    /\ decision.approved => /\ Overcharges(decision.which)
                            /\ decision.shown < decision.before.grant
    /\ ~decision.approved /\ decision.before.calls > 0 =>
         decision.amount > decision.before.left

\* "So Inco binds before the balance does": where the payer was sent the budget
\* of its goal, what is approved can be paid, after any sequence of purchases,
\* refusals and reclaims.
FundsOutlastBudget ==
  /\ decision.goal # "none" /\ decision.approved
  /\ decision.before.sent >= decision.before.grant
  => decision.before.balance >= decision.amount

\* What the button says is what the vault is asked for, across the page, the
\* orchestrator, the URL and the vendor's 402.
BilledAsShown == decision.goal # "none" => decision.amount = decision.label
=============================================================================
