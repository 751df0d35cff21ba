---------------------------- MODULE PaymentLoop ----------------------------
(***************************************************************************)
(* The orchestrator's payment loop (pay/payment-loop.ts) and its relay     *)
(* (pay/relay.ts) driving the vault: concurrent purchases on one goal, a    *)
(* server that may die at any point, transactions that land after their     *)
(* sender stopped watching, and RPC nodes that lag behind the chain.        *)
(*                                                                          *)
(* The state of the chain is that of PolicyVault; every transaction of the  *)
(* loop is one of its actions.  A step that ends in an awaited call is an   *)
(* action of its own, so purchases interleave exactly at their awaits.      *)
(***************************************************************************)
EXTENDS PolicyVault

CONSTANTS
  Runs,         \* purchases the server may have in hand at once
  NoRun,        \* no purchase, or one that has been forgotten
  HoldFor,      \* maxTimeoutSeconds of the vendor's 402
  MinHold,      \* minHoldSeconds: hold that must be left to commit a spend
  ReclaimWait,  \* reclaimWaitMs: the longest a failed run waits for expiry
  Reuse,        \* bound: whether a slot takes another purchase without a crash
  MaxCrashes,   \* bound: deaths of the server process
  MaxStray      \* bound: transactions whose sender stopped watching

ASSUME LoopAssumption ==
  /\ HoldFor \in Nat /\ MinHold \in Nat /\ ReclaimWait \in Nat
  /\ Reuse \in BOOLEAN /\ MaxCrashes \in Nat /\ MaxStray \in Nat
  /\ NoRun \notin Runs
  /\ MaxGoals > 0     \* runs start out on goal 1

VARIABLES
  pc,         \* run -> where its fetchPaid is waiting
  goalOf,     \* run -> the goal it spends from
  quotedAt,   \* run -> when the 402 arrived: the start of the vendor's hold
  seqOf,      \* run -> the spend it committed, or 0
  orphan,     \* run -> the spend of another run it is finalising, or 0
  outcome,    \* run -> PaymentResult.kind of its last purchase
  report,     \* run -> outcome of its last reclaim event
  finalized,  \* the relay's #finalized: spends it saw finalised
  behind,     \* goal -> pendingSeq as a lagging RPC node still reports it
  stray,      \* broadcast transactions nobody waits for any more
  crashes,
  presented,  \* authorizations that reached a vendor
  requester,  \* history: goal -> seq -> the run whose purchase it is
  holdEnd,    \* history: goal -> seq -> when the vendor's hold ends
  recovered   \* history: spends finalised by another run's recovery

runVars  == <<pc, goalOf, quotedAt, seqOf, orphan, outcome, report>>
procVars == <<finalized, crashes>>
histVars == <<requester, holdEnd, recovered>>
loopVars == <<runVars, procVars, behind, stray, presented, histVars>>
allVars  == <<vars, loopVars>>

Resting == {"idle", "done"}
Points  == Resting \cup
  {"recover", "orphanPoll", "orphanFinalize", "orphanFinalizing",
   "orphanReclaim", "hold", "request", "requesting", "poll", "finalize",
   "finalizing", "sign", "pay", "reclaim"}
Outcomes == {"none", "paid", "policy-rejected", "decision-unavailable", "failed"}
Reports  == {"none", "reclaimed", "collected", "deferred", "failed"}

\* Transactions that may land although their sender is gone.
Strays == [kind : {"request"}, goal : GoalIds, run : Runs \cup {NoRun},
           payBy : Int, hold : Int]
          \cup [kind : {"finalize"}, goal : GoalIds, seq : Seqs]

LoopInit ==
  /\ Init
  /\ pc = [r \in Runs |-> "idle"]
  /\ goalOf = [r \in Runs |-> 1]
  /\ quotedAt = [r \in Runs |-> 0]
  /\ seqOf = [r \in Runs |-> 0]
  /\ orphan = [r \in Runs |-> 0]
  /\ outcome = [r \in Runs |-> "none"]
  /\ report = [r \in Runs |-> "none"]
  /\ finalized = {}
  /\ behind = [g \in GoalIds |-> 0]
  /\ stray = {}
  /\ crashes = 0
  /\ presented = {}
  /\ requester = [g \in GoalIds |-> [s \in Seqs |-> NoRun]]
  /\ holdEnd = [g \in GoalIds |-> [s \in Seqs |-> 0]]
  /\ recovered = {}

-----------------------------------------------------------------------------
(* Moving a run, and what it sees of the chain.                            *)

Goto(r, point) == pc' = [pc EXCEPT ![r] = point]

\* The run returns its PaymentResult.
Finish(r, result) ==
  /\ pc' = [pc EXCEPT ![r] = "done"]
  /\ outcome' = [outcome EXCEPT ![r] = result]

\* pendingSeq as some node behind the load balancer answers it.
Views(g) == {pendingSeq[g], behind[g]}

\* Fault: no run looks for what another one left behind.
NothingIsAnOrphan(g, seq) == TRUE

\* A pendingSeq read that names no unfinished spend of anybody.
NotAnOrphan(g, seq) == seq = 0 \/ <<g, seq>> \in finalized

\* What is left alone by a transaction that writes pendingSeq of goal g; the
\* node that lags keeps the value from before.
Overtakes(g) == behind' = [behind EXCEPT ![g] = pendingSeq[g]]

\* The lagging node sees the latest block.
CatchUp ==
  /\ behind # pendingSeq
  /\ behind' = pendingSeq
  /\ UNCHANGED <<vars, runVars, procVars, stray, presented, histVars>>

-----------------------------------------------------------------------------
(* A purchase, in the order of fetchPaid.                                  *)

\* The vendor answered 402 with acceptable terms and the agent agreed to
\* request the spend.  The slot's earlier purchase is forgotten.
Start(r, g) ==
  /\ Opened(g)
  /\ pc[r] = "idle" \/ (Reuse /\ pc[r] = "done")
  /\ Goto(r, "recover")
  /\ goalOf' = [goalOf EXCEPT ![r] = g]
  /\ quotedAt' = [quotedAt EXCEPT ![r] = now]
  /\ seqOf' = [seqOf EXCEPT ![r] = 0]
  /\ orphan' = [orphan EXCEPT ![r] = 0]
  /\ outcome' = [outcome EXCEPT ![r] = "none"]
  /\ report' = [report EXCEPT ![r] = "none"]
  /\ requester' = [h \in GoalIds |-> [s \in Seqs |->
       IF requester[h][s] = r THEN NoRun ELSE requester[h][s]]]
  /\ stray' = {IF t.kind = "request" /\ t.run = r
                 THEN [t EXCEPT !.run = NoRun] ELSE t : t \in stray}
  /\ UNCHANGED <<vars, procVars, behind, presented, holdEnd, recovered>>

\* #recoverOrphan reads pendingSeq; a read error is taken for "none".
LookForOrphan(r) ==
  LET g == goalOf[r] IN
  /\ pc[r] = "recover"
  /\ \/ Goto(r, "hold") /\ UNCHANGED orphan
     \/ \E seq \in Views(g) :
          /\ ~NotAnOrphan(g, seq)
          /\ orphan' = [orphan EXCEPT ![r] = seq]
          /\ Goto(r, "orphanPoll")
  /\ UNCHANGED <<vars, goalOf, quotedAt, seqOf, outcome, report, procVars,
                 behind, stray, presented, histVars>>

\* The covalidators answered for the decision handle.
Decided(r) ==
  /\ \/ pc[r] = "orphanPoll" /\ Goto(r, "orphanFinalize")
     \/ pc[r] = "poll" /\ Goto(r, "finalize")
  /\ UNCHANGED <<vars, goalOf, quotedAt, seqOf, orphan, outcome, report,
                 procVars, behind, stray, presented, histVars>>

\* They did not, within the polling budget; the spend stays pending.
PollTimesOut(r) ==
  /\ \/ pc[r] = "orphanPoll" /\ Finish(r, "failed")
     \/ pc[r] = "poll" /\ Finish(r, "decision-unavailable")
  /\ UNCHANGED <<vars, goalOf, quotedAt, seqOf, orphan, report, procVars,
                 behind, stray, presented, histVars>>

\* finalizeDecision passed gas estimation and is broadcast.
SubmitFinalize(r) ==
  /\ \/ pc[r] = "orphanFinalize" /\ Goto(r, "orphanFinalizing")
     \/ pc[r] = "finalize" /\ Goto(r, "finalizing")
  /\ UNCHANGED <<vars, goalOf, quotedAt, seqOf, orphan, outcome, report,
                 procVars, behind, stray, presented, histVars>>

\* The orphan's finalisation is mined and the receipt arrives.
OrphanFinalized(r) ==
  LET g == goalOf[r]
      s == orphan[r] IN
  /\ pc[r] = "orphanFinalizing"
  /\ FinalizeDecision(g, s)
  /\ finalized' = finalized \cup {<<g, s>>}
  /\ recovered' = recovered \cup {<<g, s>>}
  /\ Overtakes(g)
  /\ Goto(r, "orphanReclaim")
  /\ UNCHANGED <<goalOf, quotedAt, seqOf, orphan, outcome, report, crashes,
                 stray, presented, requester, holdEnd>>

\* The run's own spend is finalised: signed for if approved.
OwnFinalized(r) ==
  LET g == goalOf[r]
      s == seqOf[r] IN
  /\ pc[r] = "finalizing"
  /\ FinalizeDecision(g, s)
  /\ finalized' = finalized \cup {<<g, s>>}
  /\ Overtakes(g)
  /\ IF spends[g][s].decision
       THEN Goto(r, "sign") /\ UNCHANGED outcome
       ELSE Finish(r, "policy-rejected")
  /\ UNCHANGED <<goalOf, quotedAt, seqOf, orphan, report, crashes, stray,
                 presented, histVars>>

\* Fault: AlreadyFinalized is taken for success.
RevertedIsDone(r) ==
  IF pc[r] = "finalizing" /\ Approved(goalOf[r], seqOf[r])
    THEN Goto(r, "sign") /\ UNCHANGED outcome
    ELSE Finish(r, "failed")

RevertedIsFailure(r) == Finish(r, "failed")

\* Somebody finalised the spend first: the transaction reverts.
FinalizeReverts(r) ==
  LET s == IF pc[r] = "finalizing" THEN seqOf[r] ELSE orphan[r] IN
  /\ pc[r] \in {"finalizing", "orphanFinalizing"}
  /\ ~Finalizable(goalOf[r], s)
  /\ RevertedIsFailure(r)
  /\ UNCHANGED <<vars, goalOf, quotedAt, seqOf, orphan, report, procVars,
                 behind, stray, presented, histVars>>

\* An approved orphan is given back if its window has closed; never waited for.
\* A rejected one has nothing to give back.
OrphanReclaim(r) ==
  LET g == goalOf[r]
      s == orphan[r] IN
  /\ pc[r] = "orphanReclaim"
  /\ Goto(r, "hold")
  /\ orphan' = [orphan EXCEPT ![r] = 0]
  /\ \/ WindowClosed(g, s) /\ ReclaimExpired(g, s)
     \/ UNCHANGED vars        \* still usable, already gone, or a failed call
  /\ UNCHANGED <<goalOf, quotedAt, seqOf, outcome, report, procVars,
                 behind, stray, presented, histVars>>

\* Fault: the hold is counted from the request instead of from the quote.
HoldFromRequest(r) == now + HoldFor

\* When the vendor lets the thing go.
PayBy(r) == quotedAt[r] + HoldFor

\* With too little of the hold left the run stops before committing anything.
CheckHold(r) ==
  /\ pc[r] = "hold"
  /\ IF PayBy(r) - now < MinHold
       THEN Finish(r, "failed")
       ELSE Goto(r, "request") /\ UNCHANGED outcome
  /\ UNCHANGED <<vars, goalOf, quotedAt, seqOf, orphan, report, procVars,
                 behind, stray, presented, histVars>>

\* requestSpend passes gas estimation on a node that sees nothing pending.
SubmitRequest(r) ==
  /\ pc[r] = "request"
  /\ 0 \in Views(goalOf[r])
  /\ Goto(r, "requesting")
  /\ UNCHANGED <<vars, goalOf, quotedAt, seqOf, orphan, outcome, report,
                 procVars, behind, stray, presented, histVars>>

\* requestSpend is mined and its receipt arrives; the terms are the vendor's.
Requested(r, amount, payTo) ==
  LET g == goalOf[r]
      s == NextSeq(g) IN
  /\ pc[r] = "requesting"
  /\ \E relay \in Relays : RequestSpend(relay, g, amount, payTo, PayBy(r))
  /\ seqOf' = [seqOf EXCEPT ![r] = s]
  /\ requester' = [requester EXCEPT ![g][s] = r]
  /\ holdEnd' = [holdEnd EXCEPT ![g][s] = quotedAt[r] + HoldFor]
  /\ Overtakes(g)
  /\ Goto(r, "poll")
  /\ UNCHANGED <<goalOf, quotedAt, orphan, outcome, report, procVars, stray,
                 presented, recovered>>

\* The signer reads the vault and signs the frozen tuple.
Signed(r) ==
  LET g == goalOf[r]
      s == seqOf[r] IN
  /\ pc[r] = "sign"
  /\ Signable(g, s)
  /\ now < spends[g][s].validBefore
  /\ Goto(r, "pay")
  /\ UNCHANGED <<vars, goalOf, quotedAt, seqOf, orphan, outcome, report,
                 procVars, behind, stray, presented, histVars>>

\* It refuses, cannot be reached, or keeps asking to wait.
SignerRefuses(r) ==
  /\ pc[r] = "sign"
  /\ Goto(r, "reclaim")
  /\ UNCHANGED <<vars, goalOf, quotedAt, seqOf, orphan, outcome, report,
                 procVars, behind, stray, presented, histVars>>

\* The paid request: it may or may not reach the vendor, and whatever the
\* vendor does with it, it may or may not answer 200.
Pay(r) ==
  /\ pc[r] = "pay"
  /\ \/ /\ presented' = presented \cup {<<goalOf[r], seqOf[r]>>}
        /\ \/ Finish(r, "paid")
           \/ Goto(r, "reclaim") /\ UNCHANGED outcome
     \/ Goto(r, "reclaim") /\ UNCHANGED <<outcome, presented>>
  /\ UNCHANGED <<vars, goalOf, quotedAt, seqOf, orphan, report, procVars,
                 behind, stray, histVars>>

\* #reclaim with wait: a window that closes too late is left to the tool.
ReclaimDeferred(r) ==
  /\ pc[r] = "reclaim"
  /\ spends[goalOf[r]][seqOf[r]].validBefore - now > ReclaimWait
  /\ Finish(r, "failed")
  /\ report' = [report EXCEPT ![r] = "deferred"]
  /\ UNCHANGED <<vars, goalOf, quotedAt, seqOf, orphan, procVars, behind,
                 stray, presented, histVars>>

\* Fault: a refused reclaim is taken for somebody else's reclaim.
RefusalMeansReclaimed(g, s) ==
  IF <<g, s>> \in used \/ spends[g][s].reclaimed THEN "reclaimed" ELSE "failed"

\* The revert reason of reclaimExpired, as the outcome it is reported under.
RefusedReclaim(g, s) ==
  IF spends[g][s].reclaimed THEN "reclaimed"
  ELSE IF <<g, s>> \in used THEN "collected" ELSE "failed"

\* The window is over by the server's clock: the vault is asked and answers.
Reclaim(r) ==
  LET g == goalOf[r]
      s == seqOf[r] IN
  /\ pc[r] = "reclaim"
  /\ WindowClosed(g, s)
  /\ Finish(r, "failed")
  /\ \/ /\ ReclaimExpired(g, s)
        /\ report' = [report EXCEPT ![r] = "reclaimed"]
     \/ /\ ~Unspent(g, s)
        /\ report' = [report EXCEPT ![r] = RefusedReclaim(g, s)]
        /\ UNCHANGED vars
     \/ /\ \E answer \in {"failed", "deferred"} :   \* the call failed, or a node
            report' = [report EXCEPT ![r] = answer]  \* behind still reads "live"
        /\ UNCHANGED vars
  /\ UNCHANGED <<goalOf, quotedAt, seqOf, orphan, procVars, behind, stray,
                 presented, histVars>>

-----------------------------------------------------------------------------
(* Failures.                                                               *)

\* Fault: a request that threw is sent again, whatever it threw.
AnyFailureIsRetried(r) == pc[r] \in {"request", "requesting"}

\* A throw is retried only when nothing was broadcast: a SpendPending refusal
\* in gas estimation, whose pending spend turns out not to be one.
MayRetry(r) ==
  pc[r] = "request" /\ \E seq \in Views(goalOf[r]) : NotAnOrphan(goalOf[r], seq)

\* The transaction in flight when a run stops watching it.
InFlight(r) ==
  LET g == goalOf[r] IN
  IF pc[r] = "requesting"
    THEN {[kind |-> "request", goal |-> g, run |-> r, payBy |-> PayBy(r),
           hold |-> quotedAt[r] + HoldFor]}
  ELSE IF pc[r] = "finalizing"
    THEN {[kind |-> "finalize", goal |-> g, seq |-> seqOf[r]]}
  ELSE IF pc[r] = "orphanFinalizing"
    THEN {[kind |-> "finalize", goal |-> g, seq |-> orphan[r]]}
  ELSE {}

\* A write to the vault throws: refused in estimation, reverted when mined, or
\* broadcast with its receipt lost, in which case it may still land.
WriteFails(r) ==
  /\ pc[r] \in {"request", "requesting", "orphanFinalize", "orphanFinalizing",
                "finalize", "finalizing"}
  /\ \/ UNCHANGED stray
     \/ /\ InFlight(r) # {}
        /\ Cardinality(stray) < MaxStray
        /\ stray' = stray \cup InFlight(r)
  /\ \/ MayRetry(r) /\ Goto(r, "request") /\ UNCHANGED outcome
     \/ Finish(r, "failed")
  /\ UNCHANGED <<vars, goalOf, quotedAt, seqOf, orphan, report, procVars,
                 behind, presented, histVars>>

\* A stray requestSpend is mined with nobody watching.
StrayRequestLands(t, amount, payTo) ==
  LET g == t.goal
      s == NextSeq(g) IN
  /\ t.kind = "request"
  /\ \E relay \in Relays : RequestSpend(relay, g, amount, payTo, t.payBy)
  /\ requester' = [requester EXCEPT ![g][s] = t.run]
  /\ holdEnd' = [holdEnd EXCEPT ![g][s] = t.hold]
  /\ stray' = stray \ {t}
  /\ Overtakes(g)
  /\ UNCHANGED <<runVars, procVars, presented, recovered>>

StrayFinalizeLands(t) ==
  /\ t.kind = "finalize"
  /\ FinalizeDecision(t.goal, t.seq)
  /\ stray' = stray \ {t}
  /\ Overtakes(t.goal)
  /\ UNCHANGED <<runVars, procVars, presented, histVars>>

\* The server dies: every run and the relay's memory are gone, the chain and
\* the transactions already broadcast are not, though any of them may be lost.
Crash ==
  /\ crashes < MaxCrashes
  /\ crashes' = crashes + 1
  /\ pc' = [r \in Runs |-> "idle"]
  /\ goalOf' = [r \in Runs |-> 1]
  /\ quotedAt' = [r \in Runs |-> 0]
  /\ seqOf' = [r \in Runs |-> 0]
  /\ orphan' = [r \in Runs |-> 0]
  /\ outcome' = [r \in Runs |-> "none"]
  /\ report' = [r \in Runs |-> "none"]
  /\ finalized' = {}
  /\ \E afloat \in SUBSET UNION {InFlight(r) : r \in Runs} :
       /\ Cardinality(stray \cup afloat) <= MaxStray
       /\ stray' = stray \cup afloat
  /\ UNCHANGED <<vars, behind, presented, histVars>>

-----------------------------------------------------------------------------
(* The rest of the world.                                                  *)

\* A vendor collects what was presented to it, whenever it likes.
Collect(g, s) ==
  /\ <<g, s>> \in presented
  /\ TransferWithAuthorization(g, s)
  /\ UNCHANGED loopVars

\* The reclaim tool, or anyone.
ReclaimTool(g, s) == ReclaimExpired(g, s) /\ UNCHANGED loopVars

\* The owner opens a goal for as many calls as attempts, closes it; time passes.
OwnerOpens ==
  /\ \E owner \in Users, payer \in Payers, relay \in Relays,
        budget \in Budgets, cap \in Caps :
       OpenGoal(owner, payer, relay, budget, cap, MaxAttempts, MaxAttempts,
                MaxTime, Payees)
  /\ UNCHANGED loopVars

OwnerCloses(g) ==
  /\ \E owner \in Users : CloseGoal(owner, g)
  /\ UNCHANGED loopVars

TimePasses == Tick /\ UNCHANGED loopVars

RunStep(r) ==
  \/ LookForOrphan(r) \/ Decided(r) \/ PollTimesOut(r) \/ SubmitFinalize(r)
  \/ OrphanFinalized(r) \/ OwnFinalized(r) \/ FinalizeReverts(r)
  \/ OrphanReclaim(r) \/ CheckHold(r) \/ SubmitRequest(r)
  \/ \E amount \in Amounts, payTo \in Payees : Requested(r, amount, payTo)
  \/ Signed(r) \/ SignerRefuses(r) \/ Pay(r) \/ ReclaimDeferred(r)
  \/ Reclaim(r) \/ WriteFails(r)

LoopNext ==
  \/ OwnerOpens
  \/ \E g \in GoalIds : OwnerCloses(g)
  \/ \E r \in Runs, g \in GoalIds : Start(r, g)
  \/ \E r \in Runs : RunStep(r)
  \/ \E t \in stray :
       \/ \E amount \in Amounts, payTo \in Payees :
            StrayRequestLands(t, amount, payTo)
       \/ StrayFinalizeLands(t)
  \/ \E g \in GoalIds, s \in Seqs : Collect(g, s) \/ ReclaimTool(g, s)
  \/ CatchUp
  \/ Crash
  \/ TimePasses

LoopSpec == LoopInit /\ [][LoopNext]_allVars

\* The server keeps serving, the RPC nodes catch up, Inco answers some poll of
\* those that are repeated for ever, and a transaction sent for ever is mined.
LoopFairness ==
  /\ WF_allVars(TimePasses) /\ WF_allVars(CatchUp)
  /\ \A r \in Runs :
       /\ \A g \in GoalIds : WF_allVars(Start(r, g))
       /\ WF_allVars(RunStep(r))
       /\ SF_allVars(LookForOrphan(r) /\ orphan'[r] # 0)
       /\ SF_allVars(Decided(r))
       /\ SF_allVars(SubmitFinalize(r))
       /\ SF_allVars(OrphanFinalized(r))

FairLoopSpec == LoopSpec /\ LoopFairness

-----------------------------------------------------------------------------
(* Properties.                                                             *)

\* Every variable of the loop, and of the vault under it, keeps its type.
LoopTypeOK ==
  /\ TypeOK
  /\ pc \in [Runs -> Points]
  /\ goalOf \in [Runs -> GoalIds]
  /\ quotedAt \in [Runs -> Times]
  /\ seqOf \in [Runs -> 0..MaxAttempts]
  /\ orphan \in [Runs -> 0..MaxAttempts]
  /\ outcome \in [Runs -> Outcomes]
  /\ report \in [Runs -> Reports]
  /\ finalized \subseteq GoalIds \X Seqs
  /\ behind \in [GoalIds -> 0..MaxAttempts]
  /\ stray \subseteq Strays
  /\ crashes \in 0..MaxCrashes
  /\ presented \subseteq GoalIds \X Seqs
  /\ requester \in [GoalIds -> [Seqs -> Runs \cup {NoRun}]]
  /\ holdEnd \in [GoalIds -> [Seqs -> Int]]
  /\ recovered \subseteq GoalIds \X Seqs

\* "Nothing was broadcast, so a retry cannot double-commit" (relay.ts): a
\* purchase commits at most one spend, whatever is refused, lost or lands late.
OneSpendPerPurchase ==
  \A r \in Runs, g, h \in GoalIds, s, t \in Seqs :
    requester[g][s] = r /\ requester[h][t] = r => <<g, s>> = <<h, t>>

\* "an approved orphan was never paid" (payment-loop.ts): the authorization of
\* a spend that a recovery finalised never reaches a vendor, even when the run
\* that requested it is still alive.
RecoveredNeverPaid == recovered \cap presented = {}

\* What a run reports is what happened on chain.
TrueReports ==
  \A r \in Runs :
    LET g == goalOf[r]
        s == seqOf[r] IN
    /\ outcome[r] = "paid" => s # 0 /\ Approved(g, s) /\ <<g, s>> \in presented
    /\ outcome[r] = "policy-rejected" =>
         s # 0 /\ spends[g][s].finalized /\ ~spends[g][s].decision
    /\ outcome[r] = "decision-unavailable" =>
         s # 0 /\ Exists(g, s) /\ <<g, s>> \notin presented
    /\ report[r] = "reclaimed" => spends[g][s].reclaimed
    /\ report[r] = "collected" => <<g, s>> \in used

\* "the payment would expire on the way": no vendor collects once its hold on
\* the thing it quoted has ended.
CollectedWithinHold ==
  [][\A g \in GoalIds, s \in Seqs :
       <<g, s>> \in used' \ used => now < holdEnd[g][s]]_allVars

\* A goal whose pending spend was abandoned is usable again as long as runs on
\* it keep being started: #recoverOrphan does what the dead run would have done.
GoalUnwedges ==
  \A g \in GoalIds, s \in Seqs : pendingSeq[g] = s ~> pendingSeq[g] # s
=============================================================================
