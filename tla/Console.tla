------------------------------ MODULE Console ------------------------------
(***************************************************************************)
(* The web console (apps/web/src/App.tsx): it mints a payer, opens and     *)
(* funds a goal, runs purchases and brings the rest of the money back, one *)
(* guarded operation at a time.  What it shows is state of the page: a     *)
(* reload loses it, while the runs and the sweeps that the page had asked  *)
(* the orchestrator for go on, beside those that the next page asks for:   *)
(* the server serialises neither.  The sweep tool (tools/e2e/src/sweep.ts) *)
(* returns the money of many goals without the console, and may meet it.   *)
(*                                                                         *)
(* The vault, the signer and the facilitator are reduced to what the page  *)
(* and the tool can tell apart; they have modules of their own.            *)
(***************************************************************************)
EXTENDS Integers, FiniteSets

CONSTANTS
  MaxGoals,   \* bound: goals of the vault
  MaxMints,   \* bound: payer keys minted by the console
  MaxFunds,   \* bound: transfers to a payer by the console
  MaxReloads, \* bound: reloads of the page
  Posts,      \* POST /sweeps that may be in hand at once
  Runs,       \* bound: the POST /runs that pages send, at any times
  OldOwners   \* bound: who may own the goal of an earlier session

ASSUME ConsoleAssumption ==
  /\ {MaxGoals, MaxMints, MaxFunds, MaxReloads} \subseteq Nat
  /\ OldOwners \subseteq {"me", "other"}
  /\ "tool" \notin Posts /\ "none" \notin Posts \cup Runs

VARIABLES
  goals,     \* vault: goal -> its record
  balance,   \* token: payer -> what it holds
  sent,      \* transfers to payers by the console so far
  swept,     \* token: executed sweeps, and who submitted them
  minted,    \* signer: payer keys so far; 0 is that of goal 1
  page,      \* what the page shows
  act,       \* the operation under the guard ("busy"), and what it captured
  job,       \* Runs -> the run that the orchestrator works on
  left,      \* what the runs of this page load collected from payers
  sweeps,    \* Posts and the tool -> the sweep it works on
  recovered, \* sweeps the tool counts as recovered
  live,      \* a facilitator is configured (X402_FACILITATOR_URL)
  reloads

consoleVars == <<goals, balance, sent, swept, minted, page, act, job, left,
                 sweeps, recovered, live, reloads>>

Ids      == 1..MaxGoals
Payers   == 0..MaxMints
Accounts == {"me", "other"}      \* "me" is the connected wallet
Sweepers == Posts \cup {"tool"}
Funding  == 2                    \* budget + FUNDING_HEADROOM
Price    == 1

NoPayer == -1
NoGoal  == [owner |-> "nobody", payer |-> NoPayer, open |-> FALSE]
Blank   == [payer |-> NoPayer, goal |-> 0, funded |-> FALSE, closed |-> FALSE,
            returned |-> 0, spent |-> 0, dialog |-> FALSE]
Free    == [name |-> "free", point |-> "start", goal |-> 0, payer |-> NoPayer,
            asked |-> "none"]
NoJob   == [point |-> "idle", goal |-> 0, session |-> 0]
JobOver == [point |-> "over", goal |-> 0, session |-> 0]
NoSweep == [point |-> "idle", goal |-> 0, amount |-> 0]

\* A page is loaded; a goal of an earlier session, mine or not, still holds money.
ConsoleInit ==
  /\ \E owner \in OldOwners :
       goals = [g \in Ids |-> IF g = 1
                  THEN [owner |-> owner, payer |-> 0, open |-> TRUE] ELSE NoGoal]
  /\ balance = [p \in Payers |-> IF p = 0 THEN Funding ELSE 0]
  /\ swept = {} /\ recovered = {}
  /\ minted = 0 /\ left = 0 /\ sent = 0 /\ reloads = 0
  /\ page = Blank /\ act = Free
  /\ job = [r \in Runs |-> NoJob]
  /\ sweeps = [s \in Sweepers |-> NoSweep]
  /\ live \in BOOLEAN

chainVars  == <<goals, balance, swept, sent>>
serverVars == <<job, left, sweeps, recovered, live>>

-----------------------------------------------------------------------------
(* The page: dialogs and the guard.                                        *)

Shows(fields) ==
  page' = [f \in DOMAIN page |-> IF f \in DOMAIN fields THEN fields[f] ELSE page[f]]

\* "Set up a goal" is only there while the page has no goal.
OpenDialog ==
  /\ page.goal = 0 /\ ~page.dialog
  /\ Shows([dialog |-> TRUE])
  /\ UNCHANGED <<chainVars, minted, act, serverVars, reloads>>

CloseDialog ==
  /\ page.dialog
  /\ Shows([dialog |-> FALSE])
  /\ UNCHANGED <<chainVars, minted, act, serverVars, reloads>>

\* "Resume": also while an operation is under way.
Resume(g) ==
  /\ page.dialog
  /\ Shows([goal |-> g, dialog |-> FALSE])
  /\ UNCHANGED <<chainVars, minted, act, serverVars, reloads>>

Known(g) == goals[g] # NoGoal

\* The buttons.  While the dialog is up they are its own two only.
Offered(name) ==
  CASE name = "mint"   -> page.dialog /\ page.payer = NoPayer
    [] name = "open"   -> page.dialog /\ page.payer # NoPayer /\ page.goal = 0
    [] name = "fund"   -> ~page.dialog /\ page.goal # 0 /\ ~page.funded
    [] name = "return" -> ~page.dialog /\ page.goal # 0 /\ page.returned = 0
    [] name = "run"    -> ~page.dialog /\ page.goal # 0 /\ ~page.closed

Operations == {"mint", "open", "fund", "return", "run"}

\* guard: busy is set, and the closure has captured the state of this render.
\* Opening a goal closes the dialog at once.
Click(name) ==
  /\ act = Free
  /\ Offered(name)
  /\ act' = IF name \in {"return", "run"}
                THEN [Free EXCEPT !.name = name, !.goal = page.goal]
                ELSE [Free EXCEPT !.name = name, !.payer = page.payer]
  /\ Shows(IF name = "open" THEN [dialog |-> FALSE] ELSE <<>>)
  /\ UNCHANGED <<chainVars, minted, serverVars, reloads>>

\* Any await of the operation throws: a wallet that refuses, an answer that is
\* lost.  What it had asked for may still happen.
Throw ==
  /\ act # Free
  /\ act' = Free
  /\ UNCHANGED <<chainVars, minted, page, serverVars, reloads>>

At(name, point) == act.name = name /\ act.point = point

\* The operation did its work and shows it, or nobody heard of the work.
Done(fields) == act' = Free /\ (Shows(fields) \/ UNCHANGED page)

Mint ==
  /\ At("mint", "start")
  /\ minted < MaxMints
  /\ minted' = minted + 1
  /\ Done([payer |-> minted'])
  /\ UNCHANGED <<chainVars, serverVars, reloads>>

\* openGoal; the vault binds a payer to one goal only.
Open ==
  /\ At("open", "start")
  /\ \A g \in Ids : goals[g].payer # act.payer
  /\ \E g \in Ids :
       /\ ~Known(g) /\ \A h \in 1..g-1 : Known(h)
       /\ goals' = [goals EXCEPT ![g] =
                      [owner |-> "me", payer |-> act.payer, open |-> TRUE]]
       /\ Done([goal |-> g])
  /\ UNCHANGED <<balance, swept, sent, minted, serverVars, reloads>>

\* fundPayer: the transfer is mined, or its receipt, which the page does not
\* look into, says that it reverted.
Fund ==
  /\ At("fund", "start") /\ act.payer # NoPayer
  /\ \/ /\ sent < MaxFunds
        /\ sent' = sent + 1
        /\ balance' = [balance EXCEPT ![act.payer] = @ + Funding]
     \/ UNCHANGED <<balance, sent>>
  /\ Done([funded |-> TRUE])
  /\ UNCHANGED <<goals, swept, minted, serverVars, reloads>>

\* The vault's closeGoal: by the owner only.
CloseBy(caller, g) ==
  goals' = IF goals[g].owner = caller THEN [goals EXCEPT ![g].open = FALSE] ELSE goals

\* The other owner closes the goal from a page of its own.
OtherCloses ==
  /\ \E g \in Ids : goals[g].open /\ goals[g].owner = "other" /\ CloseBy("other", g)
  /\ UNCHANGED <<balance, swept, sent, minted, page, act, serverVars, reloads>>

\* returnFunds, its first half: close the goal unless it is closed.  A closing
\* that reverts, as that of somebody else's goal does, shows as closed too.
ReturnCloses ==
  /\ At("return", "start") /\ Known(act.goal)
  /\ CloseBy("me", act.goal) \/ UNCHANGED goals
  /\ \/ act' = [act EXCEPT !.point = "post"] /\ Shows([closed |-> TRUE])
     \/ act' = Free /\ UNCHANGED page
  /\ UNCHANGED <<balance, swept, sent, minted, serverVars, reloads>>

\* Its second half: POST /sweeps, which without a facilitator is a 409.
ReturnPosts(s) ==
  /\ At("return", "post")
  /\ live
  /\ s # "tool" /\ sweeps[s] = NoSweep
  /\ act' = [act EXCEPT !.point = "wait", !.asked = s]
  /\ sweeps' = [sweeps EXCEPT ![s] = [NoSweep EXCEPT !.point = "ask", !.goal = act.goal]]
  /\ UNCHANGED <<chainVars, minted, page, job, left, recovered, live, reloads>>

\* A new page in the same tab.
Reload ==
  /\ reloads < MaxReloads
  /\ reloads' = reloads + 1
  /\ page' = Blank /\ act' = Free /\ left' = 0
  /\ UNCHANGED <<chainVars, minted, job, sweeps, recovered, live>>

-----------------------------------------------------------------------------
(* A run.                                                                  *)

\* POST /runs reaches the orchestrator, whatever else is running there.
RunStarts(r) ==
  /\ At("run", "start") /\ Known(act.goal)
  /\ job[r] = NoJob
  /\ act' = [act EXCEPT !.point = "stream", !.asked = r]
  /\ job' = [job EXCEPT ![r] =
       [NoJob EXCEPT !.point = "begun", !.goal = act.goal, !.session = reloads]]
  /\ UNCHANGED <<chainVars, minted, page, left, sweeps, recovered, live, reloads>>

Pending(g) == \E r \in Runs : job[r].point = "pending" /\ job[r].goal = g

\* The spend is requested of an open goal that has none pending.
JobRequests(r) ==
  /\ job[r].point = "begun"
  /\ goals[job[r].goal].open /\ ~Pending(job[r].goal)
  /\ job' = [job EXCEPT ![r].point = "pending"]
  /\ UNCHANGED <<chainVars, minted, page, act, left, sweeps, recovered, live, reloads>>

\* The spend is finalised, and the payment signed.
JobSigns(r) ==
  /\ job[r].point = "pending"
  /\ job' = [job EXCEPT ![r].point = "signed"]
  /\ UNCHANGED <<chainVars, minted, page, act, left, sweeps, recovered, live, reloads>>

\* The vendor has the payment settled, or simulates a settlement.
Settlement == IF live THEN "real" ELSE "simulated"

Settles(r) ==
  /\ job[r].point = "signed"
  /\ LET payer == goals[job[r].goal].payer IN
     /\ live => balance[payer] >= Price
     /\ balance' = IF live THEN [balance EXCEPT ![payer] = @ - Price] ELSE balance
     /\ left' = IF live /\ job[r].session = reloads THEN left + Price ELSE left
  /\ job' = [job EXCEPT ![r].point = "settled"]
  /\ UNCHANGED <<goals, swept, sent, minted, page, act, sweeps, recovered, live, reloads>>

\* Fault: a simulated settlement counts as spent.
CountsAny(settled) == settled # "none"

\* "Only a real settlement counts".
CountsAsSpent(settled) == settled = "real"

\* Fault: the stream of a run carries what every run emits, as subscribers of
\* the loop hear it.
EveryRun(r) == Runs

\* The runs whose events the stream of r carries: onEvent is its own.
Streamed(r) == {r}

CountedOver(r) ==
  \E s \in Streamed(r) : job[s].point = "settled" /\ CountsAsSpent(Settlement)

\* A run ends, at whatever point, and its stream with it.  The page that reads
\* that stream counts what came over it, once; the vendor's answer, and with it
\* the event "settled", may have been lost.
JobEnds(r) ==
  /\ job[r] \notin {NoJob, JobOver}
  /\ job' = [job EXCEPT ![r] = JobOver]
  /\ IF At("run", "stream") /\ act.asked = r
       THEN /\ act' = Free
            /\ \/ CountedOver(r) /\ Shows([spent |-> page.spent + Price])
               \/ UNCHANGED page
       ELSE UNCHANGED <<act, page>>
  /\ UNCHANGED <<chainVars, minted, left, sweeps, recovered, live, reloads>>

-----------------------------------------------------------------------------
(* A sweep: the signer signs, the facilitator or the tool submits.         *)

\* The tool reads a goal while it makes its plan, and acts on it later.
ToolPlans(g) ==
  /\ sweeps["tool"] = NoSweep
  /\ Known(g) /\ balance[goals[g].payer] > 0
  /\ goals[g].open => goals[g].owner = "me" /\ ~Pending(g)
  /\ sweeps' = [sweeps EXCEPT !["tool"] =
       [NoSweep EXCEPT !.point = IF goals[g].open THEN "close" ELSE "ask", !.goal = g]]
  /\ UNCHANGED <<chainVars, minted, page, act, job, left, recovered, live, reloads>>

ToolCloses ==
  /\ sweeps["tool"].point = "close"
  /\ CloseBy("me", sweeps["tool"].goal)
  /\ sweeps' = [sweeps EXCEPT !["tool"].point = "ask"]
  /\ UNCHANGED <<balance, swept, sent, minted, page, act, job, left, recovered, live, reloads>>

\* askSignerToSweep: a closed goal that has a balance.
Authorized(s) ==
  LET g == sweeps[s].goal IN
  /\ sweeps[s].point = "ask"
  /\ ~goals[g].open /\ balance[goals[g].payer] > 0
  /\ sweeps' = [sweeps EXCEPT ![s].point = "submit", ![s].amount = balance[goals[g].payer]]
  /\ UNCHANGED <<chainVars, minted, page, act, job, left, recovered, live, reloads>>

\* The token knows a sweep by (goalId, amount).
Consumed(s) ==
  \E w \in swept : w.goal = sweeps[s].goal /\ w.amount = sweeps[s].amount

\* Who sends the transaction.
Submitter(s) == IF s = "tool" THEN "tool" ELSE "facilitator"

\* transferWithAuthorization, to the owner that the goal record names.
Transfers(s) ==
  LET g == sweeps[s].goal  payer == goals[g].payer IN
  /\ ~Consumed(s) /\ balance[payer] >= sweeps[s].amount
  /\ balance' = [balance EXCEPT ![payer] = @ - sweeps[s].amount]
  /\ swept' = swept \cup {[goal |-> g, amount |-> sweeps[s].amount,
                           to |-> goals[g].owner, by |-> Submitter(s)]}

\* Fault: an answer of the facilitator is taken for a settlement unread.
AnyAnswer(result) == TRUE

\* settle succeeds also for a sweep that had been executed before.
IsSettled(result) == result \in {"moved", "already"}

\* Fault: the tool counts a sweep that somebody else executed.
CountsConsumed(result) == result # "failed"

\* The tool looks at the receipt of its own transaction.
IsRecovered(result) == result = "moved"

\* The page, if it still waits for this sweep, gets its amount or throws.
Concludes(s, result) ==
  /\ sweeps' = [sweeps EXCEPT ![s] = NoSweep]
  /\ IF At("return", "wait") /\ act.asked = s
       THEN /\ act' = Free
            /\ IF IsSettled(result) THEN Shows([returned |-> sweeps[s].amount])
                                    ELSE UNCHANGED page
       ELSE UNCHANGED <<act, page>>
  /\ recovered' = IF s = "tool" /\ IsRecovered(result)
       THEN recovered \cup {[goal |-> sweeps[s].goal, amount |-> sweeps[s].amount]}
       ELSE recovered

Submits(s) ==
  /\ sweeps[s].point = "submit"
  /\ \/ Transfers(s) /\ (Concludes(s, "moved") \/ Concludes(s, "failed"))
     \/ Consumed(s) /\ Concludes(s, "already") /\ UNCHANGED <<balance, swept>>
  /\ UNCHANGED <<goals, sent, minted, job, left, live, reloads>>

\* Refused by the signer, not executed, or nobody there.
SweepFails(s) ==
  /\ sweeps[s].point \in {"close", "ask", "submit"}
  /\ Concludes(s, "failed")
  /\ UNCHANGED <<chainVars, minted, job, left, live, reloads>>

ConsoleNext ==
  \/ OpenDialog \/ CloseDialog \/ (\E g \in {h \in Ids : Known(h)} : Resume(g))
  \/ (\E name \in Operations : Click(name)) \/ Throw
  \/ Mint \/ Open \/ Fund \/ ReturnCloses \/ (\E s \in Posts : ReturnPosts(s)) \/ Reload
  \/ OtherCloses
  \/ \E r \in Runs : RunStarts(r) \/ JobRequests(r) \/ JobSigns(r) \/ Settles(r) \/ JobEnds(r)
  \/ (\E g \in Ids : ToolPlans(g)) \/ ToolCloses
  \/ \E s \in Sweepers : Authorized(s) \/ Submits(s) \/ SweepFails(s)

ConsoleSpec == ConsoleInit /\ [][ConsoleNext]_consoleVars

-----------------------------------------------------------------------------
(* Properties.                                                             *)

\* The page never shows more as spent than the runs it started itself have
\* collected: not what was simulated, nor what another run collects while this
\* page's goes on, be it one that an earlier load of the page left behind or one
\* of this page whose stream broke.
SpentWasCollected == page.spent <= left

\* What the page shows as returned went to the owner of the goal it shows, and
\* that goal is closed: also when the sweep was a retry of one whose answer was
\* lost, or met the tool's.
ReturnedWentHome ==
  page.returned > 0 =>
    /\ ~goals[page.goal].open
    /\ \E w \in swept : /\ w.goal = page.goal /\ w.amount = page.returned
                        /\ w.to = goals[page.goal].owner

\* The tool counts as recovered only what its own transactions moved, also when
\* the console returns the same balance in between.
RecoveredIsMoved ==
  \A r \in recovered :
    \E w \in swept : w.goal = r.goal /\ w.amount = r.amount /\ w.by = "tool"
=============================================================================
