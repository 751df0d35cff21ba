------------------------- MODULE PaymentLoopProofs -------------------------
(***************************************************************************)
(* The payment loop implements the vault: whatever runs, crashes and        *)
(* lagging nodes do, the chain only ever takes steps of PolicyVault, so      *)
(* every theorem of PolicyVaultProofs holds of the whole system.  On top of  *)
(* that, the book the purchases keep (Book): each knows of one spend at      *)
(* most, its own, and reports nothing the chain does not show.               *)
(***************************************************************************)
EXTENDS PaymentLoop, PolicyVaultProofs

-----------------------------------------------------------------------------
(* The steps that write the chain, each as a step of the vault.            *)

\* What the loop hands the vault is well formed.
Shape ==
  /\ pc \in [Runs -> Points]
  /\ goalOf \in [Runs -> GoalIds]
  /\ quotedAt \in [Runs -> Times]
  /\ seqOf \in [Runs -> 0..MaxAttempts]
  /\ orphan \in [Runs -> 0..MaxAttempts]
  /\ behind \in [GoalIds -> 0..MaxAttempts]
  /\ \A r \in Runs :
       /\ pc[r] \in {"orphanPoll", "orphanFinalize", "orphanFinalizing",
                     "orphanReclaim"} => orphan[r] \in Seqs
       /\ pc[r] \in {"poll", "finalize", "finalizing", "sign", "pay", "reclaim"}
            => seqOf[r] \in Seqs
  /\ \A t \in stray :
       /\ t.goal \in GoalIds
       /\ t.kind = "request" => t.payBy \in Int
       /\ t.kind = "finalize" => t.seq \in Seqs

\* A payBy past the last modelled block asks for no more than the goal's
\* expiry allows anyway.
LEMMA LatePayBy ==
  ASSUME TypeOK, NEW relay \in Relays, NEW g \in GoalIds, NEW amount \in Amounts,
         NEW payTo \in Payees, NEW payBy \in Int,
         RequestSpend(relay, g, amount, payTo, payBy)
  PROVE  Next
<1>1. /\ now \in Nat /\ goals[g].expiry \in Nat
      /\ now < goals[g].expiry /\ goals[g].expiry <= MaxTime /\ payBy > now
      /\ Window \in Nat /\ MaxTime \in Nat
  <2>1. now \in Times /\ goals[g].expiry \in Times
    BY DEF TypeOK, Goal
  <2>2. now < goals[g].expiry /\ payBy > now
    BY DEF RequestSpend, TakesRequests
  <2> QED BY <2>1, <2>2, BoundAssumption DEF Times
<1>2. CASE payBy <= MaxTime
  <2>1. payBy \in Times
    BY <1>1, <1>2 DEF Times
  <2> QED BY <2>1 DEF Next
<1>3. CASE payBy > MaxTime
  <2>1. MaxTime \in Times /\ MaxTime > now
    BY <1>1 DEF Times
  <2>2. EndOf(g, payBy) = EndOf(g, MaxTime)
    BY <1>1, <1>3 DEF EndOf
  <2>3. RequestSpend(relay, g, amount, payTo, MaxTime)
    BY <2>1, <2>2 DEF RequestSpend
  <2> QED BY <2>1, <2>3 DEF Next
<1> QED BY <1>1, <1>2, <1>3

LEMMA LocalSteps ==
  ASSUME NEW r \in Runs,
         \/ LookForOrphan(r) \/ Decided(r) \/ PollTimesOut(r)
         \/ SubmitFinalize(r) \/ FinalizeReverts(r) \/ CheckHold(r)
         \/ SubmitRequest(r) \/ Signed(r) \/ SignerRefuses(r) \/ Pay(r)
         \/ ReclaimDeferred(r) \/ WriteFails(r)
  PROVE  UNCHANGED vars
<1>1. CASE LookForOrphan(r) \/ Decided(r) \/ PollTimesOut(r)
  BY <1>1 DEF LookForOrphan, Decided, PollTimesOut
<1>2. CASE SubmitFinalize(r) \/ FinalizeReverts(r) \/ CheckHold(r)
  BY <1>2 DEF SubmitFinalize, FinalizeReverts, CheckHold
<1>3. CASE SubmitRequest(r) \/ Signed(r) \/ SignerRefuses(r)
  BY <1>3 DEF SubmitRequest, Signed, SignerRefuses
<1>4. CASE Pay(r) \/ ReclaimDeferred(r) \/ WriteFails(r)
  BY <1>4 DEF Pay, ReclaimDeferred, WriteFails
<1> QED BY <1>1, <1>2, <1>3, <1>4

\* Each of the loop's steps is a step of the vault or leaves the chain alone.
LEMMA ChainStep ==
  ASSUME TypeOK, Shape, LoopNext
  PROVE  [Next]_vars
<1>1. CASE OwnerOpens
  <2>1. PICK owner \in Users, payer \in Payers, relay \in Relays,
             budget \in Budgets, cap \in Caps :
          OpenGoal(owner, payer, relay, budget, cap, MaxAttempts, MaxAttempts,
                   MaxTime, Payees)
    BY <1>1 DEF OwnerOpens
  <2>2. MaxAttempts \in Seqs /\ MaxTime \in Times /\ Payees \in SUBSET Payees
    <3>1. MaxAttempts > 0
      BY <2>1 DEF OpenGoal
    <3> QED BY <3>1, BoundAssumption DEF Seqs, Times
  <2>3. OpenSomeGoal
    BY <2>1, <2>2 DEF OpenSomeGoal
  <2> QED BY <2>3 DEF Next
<1>2. ASSUME NEW g \in GoalIds, OwnerCloses(g) PROVE Next
  BY <1>2 DEF OwnerCloses, Next
<1>3. ASSUME NEW r \in Runs, NEW g \in GoalIds, Start(r, g) PROVE UNCHANGED vars
  BY <1>3 DEF Start
<1>4. ASSUME NEW r \in Runs, RunStep(r) PROVE [Next]_vars
  <2>1. goalOf[r] \in GoalIds
    BY DEF Shape
  <2>2. CASE OrphanFinalized(r)
    <3>1. orphan[r] \in Seqs
      BY <2>2 DEF OrphanFinalized, Shape
    <3> QED BY <2>1, <2>2, <3>1 DEF OrphanFinalized, Next
  <2>3. CASE OwnFinalized(r)
    <3>1. seqOf[r] \in Seqs
      BY <2>3 DEF OwnFinalized, Shape
    <3> QED BY <2>1, <2>3, <3>1 DEF OwnFinalized, Next
  <2>4. CASE OrphanReclaim(r)
    <3>1. orphan[r] \in Seqs
      BY <2>4 DEF OrphanReclaim, Shape
    <3> QED BY <2>1, <2>4, <3>1 DEF OrphanReclaim, Next
  <2>5. ASSUME NEW amount \in Amounts, NEW payTo \in Payees,
               Requested(r, amount, payTo)
        PROVE  Next
    <3>1. PICK relay \in Relays :
            RequestSpend(relay, goalOf[r], amount, payTo, PayBy(r))
      BY <2>5 DEF Requested
    <3>2. PayBy(r) \in Int
      BY BoundAssumption, LoopAssumption DEF PayBy, Shape, Times
    <3> QED BY <2>1, <3>1, <3>2, LatePayBy
  <2>6. CASE Reclaim(r)
    <3>1. seqOf[r] \in Seqs
      BY <2>6 DEF Reclaim, Shape
    <3> QED BY <2>1, <2>6, <3>1 DEF Reclaim, Next
  <2> QED BY <1>4, <2>2, <2>3, <2>4, <2>5, <2>6, LocalSteps DEF RunStep
<1>5. ASSUME NEW t \in stray, NEW amount \in Amounts, NEW payTo \in Payees,
             StrayRequestLands(t, amount, payTo)
      PROVE  Next
  <2>1. PICK relay \in Relays : RequestSpend(relay, t.goal, amount, payTo, t.payBy)
    BY <1>5 DEF StrayRequestLands
  <2>2. t.goal \in GoalIds /\ t.payBy \in Int
    BY <1>5 DEF StrayRequestLands, Shape
  <2> QED BY <2>1, <2>2, LatePayBy
<1>6. ASSUME NEW t \in stray, StrayFinalizeLands(t) PROVE Next
  <2>1. t.goal \in GoalIds /\ t.seq \in Seqs
    BY <1>6 DEF StrayFinalizeLands, Shape
  <2> QED BY <1>6, <2>1 DEF StrayFinalizeLands, Next
<1>7. ASSUME NEW g \in GoalIds, NEW s \in Seqs, Collect(g, s) \/ ReclaimTool(g, s)
      PROVE  Next
  BY <1>7 DEF Collect, ReclaimTool, Next
<1>8. CASE CatchUp \/ Crash
  BY <1>8 DEF CatchUp, Crash
<1>9. CASE TimePasses
  BY <1>9 DEF TimePasses, Next
<1> QED BY <1>1, <1>2, <1>3, <1>4, <1>5, <1>6, <1>7, <1>8, <1>9 DEF LoopNext

-----------------------------------------------------------------------------
(* The shape is inductive under the vault's invariant.                      *)

LEMMA InitShape == LoopInit => Shape
BY BoundAssumption, LoopAssumption
DEF LoopInit, Shape, Points, Resting, GoalIds, Times

\* Steps that move one run's pc and nothing else the shape speaks of.
LEMMA MoveShape ==
  ASSUME Shape, NEW r \in Runs, NEW point \in Points, Goto(r, point),
         UNCHANGED <<goalOf, quotedAt>>,
         behind' \in [GoalIds -> 0..MaxAttempts],
         seqOf' \in [Runs -> 0..MaxAttempts],
         orphan' \in [Runs -> 0..MaxAttempts],
         \A q \in Runs \ {r} : seqOf'[q] = seqOf[q] /\ orphan'[q] = orphan[q],
         point \in {"orphanPoll", "orphanFinalize", "orphanFinalizing",
                    "orphanReclaim"} => orphan'[r] \in Seqs,
         point \in {"poll", "finalize", "finalizing", "sign", "pay", "reclaim"}
            => seqOf'[r] \in Seqs,
         \A t \in stray' :
            /\ t.goal \in GoalIds
            /\ t.kind = "request" => t.payBy \in Int
            /\ t.kind = "finalize" => t.seq \in Seqs
  PROVE  Shape'
BY DEF Shape, Goto

LEMMA FinishMoves ==
  ASSUME NEW r \in Runs, NEW result, Finish(r, result)
  PROVE  Goto(r, "done")
BY DEF Finish, Goto

LEMMA OvertakesType ==
  ASSUME TypeOK, Shape, NEW g \in GoalIds, Overtakes(g)
  PROVE  behind' \in [GoalIds -> 0..MaxAttempts]
BY DEF Overtakes, TypeOK, Shape

\* A goal that still takes a request has a sequence number left for it.
LEMMA NextSeqInRange ==
  ASSUME Structure, NEW relay \in Relays, NEW g \in GoalIds, NEW amount,
         NEW payTo, NEW payBy, RequestSpend(relay, g, amount, payTo, payBy)
  PROVE  NextSeq(g) \in Seqs
<1>1. attemptsRemaining[g] > 0
  BY DEF RequestSpend
<1>2. /\ attemptsRemaining[g] \in Nat
      /\ goals[g].seq \in Nat
      /\ granted[g].attempts \in 0..MaxAttempts
  BY BoundAssumption DEF Structure, TypeOK, Goal
<1>3. attemptsRemaining[g] + goals[g].seq = granted[g].attempts
  BY DEF Structure, AttemptsConserved
<1> QED BY <1>1, <1>2, <1>3, BoundAssumption DEF Seqs, NextSeq

\* The transactions a run leaves behind are well formed.
LEMMA InFlightShape ==
  ASSUME Shape, NEW r \in Runs, NEW t \in InFlight(r)
  PROVE  /\ t.goal \in GoalIds
         /\ t.kind = "request" => t.payBy \in Int
         /\ t.kind = "finalize" => t.seq \in Seqs
<1>1. goalOf[r] \in GoalIds /\ PayBy(r) \in Int
  BY BoundAssumption, LoopAssumption DEF Shape, PayBy, Times
<1>2. CASE pc[r] = "requesting"
  BY <1>1, <1>2 DEF InFlight
<1>3. CASE pc[r] = "finalizing"
  <2>1. seqOf[r] \in Seqs
    BY <1>3 DEF Shape
  <2> QED BY <1>1, <1>3, <2>1 DEF InFlight
<1>4. CASE pc[r] = "orphanFinalizing"
  <2>1. orphan[r] \in Seqs
    BY <1>4 DEF Shape
  <2> QED BY <1>1, <1>4, <2>1 DEF InFlight
<1> QED BY <1>2, <1>3, <1>4 DEF InFlight

\* A run's own steps keep the shape.
LEMMA RunShape ==
  ASSUME Structure, Shape, NEW r \in Runs, RunStep(r)
  PROVE  Shape'
<1> USE DEF Points, Resting
<1>t. TypeOK
  BY DEF Structure
<1>0. /\ pc \in [Runs -> Points]
      /\ goalOf[r] \in GoalIds
      /\ seqOf \in [Runs -> 0..MaxAttempts] /\ orphan \in [Runs -> 0..MaxAttempts]
      /\ behind \in [GoalIds -> 0..MaxAttempts]
      /\ pc[r] \in {"orphanPoll", "orphanFinalize", "orphanFinalizing",
                    "orphanReclaim"} => orphan[r] \in Seqs
      /\ pc[r] \in {"poll", "finalize", "finalizing", "sign", "pay", "reclaim"}
           => seqOf[r] \in Seqs
      /\ \A t \in stray :
           /\ t.goal \in GoalIds
           /\ t.kind = "request" => t.payBy \in Int
           /\ t.kind = "finalize" => t.seq \in Seqs
  BY DEF Shape
<1>1. CASE LookForOrphan(r)
  <2>1. CASE Goto(r, "hold") /\ UNCHANGED orphan
    BY <1>0, <1>1, <2>1, MoveShape DEF LookForOrphan
  <2>2. ASSUME NEW seq \in Views(goalOf[r]), ~NotAnOrphan(goalOf[r], seq),
               orphan' = [orphan EXCEPT ![r] = seq], Goto(r, "orphanPoll")
        PROVE  Shape'
    <3>1. seq \in Seqs
      <4>1. seq \in 0..MaxAttempts
        BY <1>0, <1>t, <2>2 DEF Views, TypeOK
      <4>2. seq # 0
        BY <2>2 DEF NotAnOrphan
      <4> QED BY <4>1, <4>2, BoundAssumption DEF Seqs
    <3>2. orphan' \in [Runs -> 0..MaxAttempts] /\ orphan'[r] = seq
      BY <1>0, <2>2, <3>1, BoundAssumption DEF Seqs
    <3>3. \A q \in Runs \ {r} : orphan'[q] = orphan[q]
      BY <1>0, <2>2
    <3> QED BY <1>0, <1>1, <2>2, <3>1, <3>2, <3>3, MoveShape DEF LookForOrphan
  <2> QED BY <1>1, <2>1, <2>2 DEF LookForOrphan
<1>2. CASE Decided(r)
  BY <1>0, <1>2, MoveShape DEF Decided
<1>3. CASE PollTimesOut(r)
  <2>1. Goto(r, "done")
    BY <1>3, FinishMoves DEF PollTimesOut
  <2> QED BY <1>0, <1>3, <2>1, MoveShape DEF PollTimesOut
<1>4. CASE SubmitFinalize(r)
  BY <1>0, <1>4, MoveShape DEF SubmitFinalize
<1>5. CASE OrphanFinalized(r)
  BY <1>0, <1>5, <1>t, OvertakesType, MoveShape DEF OrphanFinalized
<1>6. CASE OwnFinalized(r)
  <2>1. Goto(r, "sign") \/ Goto(r, "done")
    BY <1>6, FinishMoves DEF OwnFinalized
  <2>2. behind' \in [GoalIds -> 0..MaxAttempts]
    BY <1>0, <1>t, <1>6, OvertakesType DEF OwnFinalized
  <2> QED BY <1>0, <1>6, <2>1, <2>2, MoveShape DEF OwnFinalized
<1>7. CASE FinalizeReverts(r)
  <2>1. Goto(r, "done")
    BY <1>7, FinishMoves DEF FinalizeReverts, RevertedIsFailure
  <2> QED BY <1>0, <1>7, <2>1, MoveShape DEF FinalizeReverts
<1>8. CASE OrphanReclaim(r)
  <2>1. orphan' \in [Runs -> 0..MaxAttempts]
    BY <1>0, <1>8, BoundAssumption DEF OrphanReclaim
  <2>2. \A q \in Runs \ {r} : orphan'[q] = orphan[q]
    BY <1>0, <1>8 DEF OrphanReclaim
  <2> QED BY <1>0, <1>8, <2>1, <2>2, MoveShape DEF OrphanReclaim
<1>9. CASE CheckHold(r)
  <2>1. Goto(r, "request") \/ Goto(r, "done")
    BY <1>9, FinishMoves DEF CheckHold
  <2> QED BY <1>0, <1>9, <2>1, MoveShape DEF CheckHold
<1>10. CASE SubmitRequest(r)
  BY <1>0, <1>10, MoveShape DEF SubmitRequest
<1>11. ASSUME NEW amount \in Amounts, NEW payTo \in Payees,
              Requested(r, amount, payTo)
       PROVE  Shape'
  <2> DEFINE s == NextSeq(goalOf[r])
  <2>1. s \in Seqs
    <3>1. PICK relay \in Relays :
            RequestSpend(relay, goalOf[r], amount, payTo, PayBy(r))
      BY <1>11 DEF Requested
    <3> QED BY <1>0, <3>1, NextSeqInRange
  <2>2. seqOf' = [seqOf EXCEPT ![r] = s]
    BY <1>11 DEF Requested
  <2> HIDE DEF s
  <2>3. seqOf' \in [Runs -> 0..MaxAttempts] /\ seqOf'[r] = s
    BY <1>0, <2>1, <2>2, BoundAssumption DEF Seqs
  <2>4. \A q \in Runs \ {r} : seqOf'[q] = seqOf[q]
    BY <1>0, <2>2
  <2>5. behind' \in [GoalIds -> 0..MaxAttempts]
    BY <1>0, <1>t, <1>11, OvertakesType DEF Requested
  <2> QED BY <1>0, <1>11, <2>1, <2>3, <2>4, <2>5, MoveShape DEF Requested
<1>12. CASE Signed(r)
  BY <1>0, <1>12, MoveShape DEF Signed
<1>13. CASE SignerRefuses(r)
  BY <1>0, <1>13, MoveShape DEF SignerRefuses
<1>14. CASE Pay(r)
  <2>1. Goto(r, "reclaim") \/ Goto(r, "done")
    BY <1>14, FinishMoves DEF Pay
  <2> QED BY <1>0, <1>14, <2>1, MoveShape DEF Pay
<1>15. CASE ReclaimDeferred(r)
  <2>1. Goto(r, "done")
    BY <1>15, FinishMoves DEF ReclaimDeferred
  <2> QED BY <1>0, <1>15, <2>1, MoveShape DEF ReclaimDeferred
<1>16. CASE Reclaim(r)
  <2>1. Goto(r, "done")
    BY <1>16, FinishMoves DEF Reclaim
  <2> QED BY <1>0, <1>16, <2>1, MoveShape DEF Reclaim
<1>17. CASE WriteFails(r)
  <2>1. Goto(r, "request") \/ Goto(r, "done")
    BY <1>17, FinishMoves DEF WriteFails
  <2>2. stray' \subseteq stray \cup InFlight(r)
    BY <1>17 DEF WriteFails
  <2> QED BY <1>0, <1>17, <2>1, <2>2, InFlightShape, MoveShape DEF WriteFails
<1> QED BY <1>1, <1>2, <1>3, <1>4, <1>5, <1>6, <1>7, <1>8, <1>9, <1>10, <1>11,
           <1>12, <1>13, <1>14, <1>15, <1>16, <1>17 DEF RunStep

LEMMA StepShape ==
  ASSUME Structure, Shape, LoopNext
  PROVE  Shape'
<1> USE DEF Points, Resting
<1>t. TypeOK
  BY DEF Structure
<1>1. CASE \/ OwnerOpens
           \/ \E g \in GoalIds : OwnerCloses(g)
           \/ \E g \in GoalIds, s \in Seqs : Collect(g, s) \/ ReclaimTool(g, s)
           \/ TimePasses
  <2>1. UNCHANGED loopVars
    BY <1>1 DEF OwnerOpens, OwnerCloses, Collect, ReclaimTool, TimePasses
  <2>2. UNCHANGED <<pc, goalOf, quotedAt, seqOf, orphan, behind, stray>>
    BY <2>1 DEF loopVars, runVars
  <2> QED BY <2>2 DEF Shape
<1>2. ASSUME NEW r \in Runs, NEW g \in GoalIds, Start(r, g) PROVE Shape'
  <2>1. /\ pc' = [pc EXCEPT ![r] = "recover"]
        /\ goalOf' = [goalOf EXCEPT ![r] = g]
        /\ quotedAt' = [quotedAt EXCEPT ![r] = now]
        /\ seqOf' = [seqOf EXCEPT ![r] = 0]
        /\ orphan' = [orphan EXCEPT ![r] = 0]
        /\ behind' = behind
    BY <1>2 DEF Start, Goto
  <2>2. /\ pc' \in [Runs -> Points]
        /\ goalOf' \in [Runs -> GoalIds]
        /\ quotedAt' \in [Runs -> Times]
        /\ seqOf' \in [Runs -> 0..MaxAttempts]
        /\ orphan' \in [Runs -> 0..MaxAttempts]
    BY <2>1, <1>t, BoundAssumption DEF Shape, TypeOK
  <2>3. ASSUME NEW q \in Runs
        PROVE  /\ pc'[q] \in {"orphanPoll", "orphanFinalize",
                              "orphanFinalizing", "orphanReclaim"}
                    => orphan'[q] \in Seqs
               /\ pc'[q] \in {"poll", "finalize", "finalizing", "sign", "pay",
                              "reclaim"} => seqOf'[q] \in Seqs
    <3>1. CASE q = r
      BY <2>1, <3>1 DEF Shape
    <3>2. CASE q # r
      BY <2>1, <3>2 DEF Shape
    <3> QED BY <3>1, <3>2
  <2>4. ASSUME NEW t \in stray'
        PROVE  /\ t.goal \in GoalIds
               /\ t.kind = "request" => t.payBy \in Int
               /\ t.kind = "finalize" => t.seq \in Seqs
    <3>1. PICK u \in stray :
            t = IF u.kind = "request" /\ u.run = r
                  THEN [u EXCEPT !.run = NoRun] ELSE u
      BY <1>2 DEF Start
    <3>2. /\ u.goal \in GoalIds
          /\ u.kind = "request" => u.payBy \in Int
          /\ u.kind = "finalize" => u.seq \in Seqs
      BY DEF Shape
    <3> QED BY <3>1, <3>2
  <2> QED BY <2>1, <2>2, <2>3, <2>4 DEF Shape
<1>3. ASSUME NEW r \in Runs, RunStep(r) PROVE Shape'
  BY <1>3, RunShape
<1>4. ASSUME NEW t \in stray, NEW amount \in Amounts, NEW payTo \in Payees,
             StrayRequestLands(t, amount, payTo)
      PROVE  Shape'
  <2>1. UNCHANGED <<pc, goalOf, quotedAt, seqOf, orphan>> /\ stray' \subseteq stray
    BY <1>4 DEF StrayRequestLands, runVars
  <2>2. t.goal \in GoalIds
    BY DEF Shape
  <2>3. behind' \in [GoalIds -> 0..MaxAttempts]
    BY <1>4, <1>t, <2>2, OvertakesType DEF StrayRequestLands
  <2> QED BY <2>1, <2>3 DEF Shape
<1>5. ASSUME NEW t \in stray, StrayFinalizeLands(t) PROVE Shape'
  <2>1. UNCHANGED <<pc, goalOf, quotedAt, seqOf, orphan>> /\ stray' \subseteq stray
    BY <1>5 DEF StrayFinalizeLands, runVars
  <2>2. t.goal \in GoalIds
    BY DEF Shape
  <2>3. behind' \in [GoalIds -> 0..MaxAttempts]
    BY <1>5, <1>t, <2>2, OvertakesType DEF StrayFinalizeLands
  <2> QED BY <2>1, <2>3 DEF Shape
<1>6. CASE CatchUp
  <2>1. UNCHANGED <<pc, goalOf, quotedAt, seqOf, orphan, stray>>
    BY <1>6 DEF CatchUp, runVars
  <2>2. behind' \in [GoalIds -> 0..MaxAttempts]
    BY <1>6, <1>t DEF CatchUp, TypeOK
  <2> QED BY <2>1, <2>2 DEF Shape
<1>7. CASE Crash
  <2>1. /\ pc' = [r \in Runs |-> "idle"]
        /\ goalOf' = [r \in Runs |-> 1]
        /\ quotedAt' = [r \in Runs |-> 0]
        /\ seqOf' = [r \in Runs |-> 0]
        /\ orphan' = [r \in Runs |-> 0]
        /\ behind' = behind
    BY <1>7 DEF Crash
  <2>2. ASSUME NEW t \in stray'
        PROVE  /\ t.goal \in GoalIds
               /\ t.kind = "request" => t.payBy \in Int
               /\ t.kind = "finalize" => t.seq \in Seqs
    <3>1. PICK afloat \in SUBSET UNION {InFlight(r) : r \in Runs} :
            stray' = stray \cup afloat
      BY <1>7 DEF Crash
    <3>2. CASE t \in stray
      BY <3>2 DEF Shape
    <3>3. CASE t \in afloat
      <4>1. PICK r \in Runs : t \in InFlight(r)
        BY <3>3
      <4> QED BY <4>1, InFlightShape
    <3> QED BY <3>1, <3>2, <3>3
  <2>3. 1 \in GoalIds /\ 0 \in Times /\ 0 \in 0..MaxAttempts
    BY BoundAssumption, LoopAssumption DEF GoalIds, Times
  <2> QED BY <2>1, <2>2, <2>3 DEF Shape
<1> QED BY <1>1, <1>2, <1>3, <1>4, <1>5, <1>6, <1>7 DEF LoopNext

\* The vault's invariant and the loop's shape hold together for ever.
LEMMA LoopInvariant == LoopSpec => [](IInv /\ Shape)
<1>1. LoopInit => IInv /\ Shape
  BY InitIInv, InitShape DEF LoopInit
<1>2. IInv /\ Shape /\ [LoopNext]_allVars => (IInv /\ Shape)'
  <2> SUFFICES ASSUME IInv, Shape, [LoopNext]_allVars PROVE IInv' /\ Shape'
    OBVIOUS
  <2>1. CASE LoopNext
    <3>1. TypeOK /\ Structure
      BY DEF IInv, Structure
    <3>2. [Next]_vars
      BY <2>1, <3>1, ChainStep
    <3> QED BY <2>1, <3>1, <3>2, NextIInv, StepShape
  <2>2. CASE UNCHANGED allVars
    <3>1. UNCHANGED vars
      BY <2>2 DEF allVars
    <3>2. UNCHANGED <<pc, goalOf, quotedAt, seqOf, orphan, behind, stray>>
      BY <2>2 DEF allVars, loopVars, runVars
    <3>3. Shape'
      BY <3>2 DEF Shape
    <3> QED BY <3>1, <3>3, NextIInv
  <2> QED BY <2>1, <2>2
<1> QED BY <1>1, <1>2, PTL DEF LoopSpec

\* Concurrent runs, crashes, lost receipts and lagging nodes never take the
\* chain outside the behaviours of PolicyVault.
THEOREM LoopImplementsVault == LoopSpec => Spec
<1>1. LoopInit => Init
  BY DEF LoopInit
<1>2. (IInv /\ Shape) /\ [LoopNext]_allVars => [Next]_vars
  <2> SUFFICES ASSUME IInv, Shape, [LoopNext]_allVars PROVE [Next]_vars
    OBVIOUS
  <2>1. TypeOK
    BY DEF IInv, Structure
  <2>2. CASE LoopNext
    BY <2>1, <2>2, ChainStep
  <2>3. CASE UNCHANGED allVars
    BY <2>3 DEF allVars
  <2> QED BY <2>2, <2>3
<1> QED BY <1>1, <1>2, LoopInvariant, PTL DEF LoopSpec, Spec

\* So a payer loses no more than the owner's limits allow under the real loop.
THEOREM LoopKeepsCeiling == LoopSpec => []LossCeiling
BY LoopImplementsVault, CeilingHolds, PTL
-----------------------------------------------------------------------------
(* What a purchase knows of its spend, for the loop's own properties.      *)

\* Points of a purchase that has not committed a spend, and of one whose
\* payment has not been sent.
Early  == {"recover", "orphanPoll", "orphanFinalize", "orphanFinalizing",
           "orphanReclaim", "hold", "request", "requesting"}
Unpaid == {"poll", "finalize", "finalizing", "sign", "pay"}

Own(r) == <<goalOf[r], seqOf[r]>>

\* No spend is that of run r, and no request of it may still land.
Unasked(r)  == \A g \in GoalIds, s \in Seqs : requester[g][s] # r
NotAfloat(r) == \A t \in stray : t.kind = "request" => t.run # r

Reported(r) ==
  /\ outcome[r] = "paid" =>
       seqOf[r] # 0 /\ Approved(goalOf[r], seqOf[r]) /\ Own(r) \in presented
  /\ outcome[r] = "policy-rejected" =>
       /\ seqOf[r] # 0
       /\ spends[goalOf[r]][seqOf[r]].finalized
       /\ ~spends[goalOf[r]][seqOf[r]].decision
  /\ outcome[r] = "decision-unavailable" => seqOf[r] # 0
  /\ report[r] = "reclaimed" =>
       seqOf[r] # 0 /\ spends[goalOf[r]][seqOf[r]].reclaimed
  /\ report[r] = "collected" => seqOf[r] # 0 /\ Own(r) \in used

RunOK(r) ==
  /\ pc[r] \in Early => Unasked(r) /\ NotAfloat(r)
  /\ pc[r] \notin Resting => outcome[r] = "none" /\ report[r] = "none"
  /\ seqOf[r] # 0 =>
       /\ Exists(goalOf[r], seqOf[r])
       /\ requester[goalOf[r]][seqOf[r]] = r
  /\ pc[r] \in Unpaid \/ outcome[r] = "decision-unavailable" =>
       Own(r) \notin presented
  /\ pc[r] \in {"sign", "pay"} =>
       Approved(goalOf[r], seqOf[r]) /\ Own(r) \notin recovered
  /\ Reported(r)

\* What reached a vendor or was recovered is finalised, and no window outlasts
\* the vendor's hold.
Ledger ==
  /\ presented \subseteq GoalIds \X Seqs
  /\ recovered \subseteq GoalIds \X Seqs
  /\ requester \in [GoalIds -> [Seqs -> Runs \cup {NoRun}]]
  /\ holdEnd \in [GoalIds -> [Seqs -> Int]]
  /\ \A g \in GoalIds, s \in Seqs :
       <<g, s>> \in presented \cup recovered =>
         Exists(g, s) /\ spends[g][s].finalized
  /\ \A g \in GoalIds, s \in Seqs :
       Exists(g, s) => spends[g][s].validBefore <= holdEnd[g][s]
  /\ RecoveredNeverPaid

\* A request that may still land is the only one of its purchase, and nothing
\* was committed for that yet.
Requests == [kind : {"request"}, goal : GoalIds, run : Runs \cup {NoRun},
             payBy : Int, hold : Int]
Afloat ==
  /\ \A t \in stray : t.kind = "request" =>
       /\ t \in Requests
       /\ t.hold = t.payBy
       /\ t.run \in Runs => Unasked(t.run)
  /\ \A t, u \in stray :
       t.kind = "request" /\ u.kind = "request" /\ t.run \in Runs
         /\ t.run = u.run => t = u

Book ==
  /\ outcome \in [Runs -> Outcomes] /\ report \in [Runs -> Reports]
  /\ \A r \in Runs : RunOK(r)
  /\ Ledger /\ Afloat /\ OneSpendPerPurchase

\* What every step of the chain does to the records, and what every step but a
\* request does.
Keeps ==
  /\ \A g \in GoalIds, s \in Seqs : Exists(g, s) => KeepsRecord(g, s)
  /\ used \subseteq used'
NoneNew == \A g \in GoalIds, s \in Seqs : Exists(g, s)' => Exists(g, s)

LEMMA ChainKeeps ==
  ASSUME IInv, [Next]_vars
  PROVE  Keeps
BY StepKeepsRecords, UsedGrows DEF Keeps

LEMMA SameChain ==
  ASSUME UNCHANGED vars
  PROVE  Keeps /\ NoneNew
BY DEF Keeps, NoneNew, KeepsRecord, SameTuple, Exists, vars, vaultVars, tokenVars

\* Only a request makes a record.
LEMMA OthersMakeNone ==
  ASSUME IInv, NEW g \in GoalIds, NEW s \in Seqs,
         FinalizeDecision(g, s) \/ ReclaimExpired(g, s)
  PROVE  NoneNew
<1>1. \A h \in GoalIds, t \in Seqs : SameTuple(h, t)
  <2>1. CASE FinalizeDecision(g, s)
    <3>1. FinalizePost(g, s, spends[g][s].decision)
      BY <2>1, FinalizeWrites DEF IInv
    <3> QED BY <3>1 DEF FinalizePost
  <2>2. CASE ReclaimExpired(g, s)
    <3>1. ReclaimPost(g, s)
      BY <2>2, ReclaimWrites DEF IInv
    <3> QED BY <3>1 DEF ReclaimPost
  <2> QED BY <2>1, <2>2
<1> QED BY <1>1 DEF NoneNew, SameTuple, Exists

\* A run that moves on, or ends as failed, knows no more than it knew.
LEMMA KeepsRun ==
  ASSUME Shape, NEW r \in Runs, RunOK(r), Keeps,
         goalOf'[r] = goalOf[r], seqOf'[r] = seqOf[r],
         presented \subseteq presented',
         seqOf[r] # 0 /\ Own(r) \in presented' => Own(r) \in presented,
         seqOf[r] # 0 /\ pc[r] \in {"sign", "pay"} /\ Own(r) \in recovered'
           => Own(r) \in recovered,
         seqOf[r] # 0 => requester'[goalOf[r]][seqOf[r]] = requester[goalOf[r]][seqOf[r]],
         pc'[r] \in Early => pc[r] \in Early,
         pc'[r] \in Early /\ Unasked(r) /\ NotAfloat(r) => (Unasked(r) /\ NotAfloat(r))',
         pc'[r] \notin Resting =>
           /\ pc[r] \notin Resting
           /\ outcome'[r] = outcome[r] /\ report'[r] = report[r],
         pc'[r] \in Unpaid => pc[r] \in Unpaid,
         pc'[r] \in {"sign", "pay"} => pc[r] \in {"sign", "pay"},
         outcome'[r] \in {outcome[r], "failed"},
         report'[r] \in {report[r], "failed", "deferred"}
  PROVE  RunOK(r)'
<1> DEFINE g == goalOf[r]
           s == seqOf[r]
<1>1. g \in GoalIds /\ s \in 0..MaxAttempts /\ Own(r)' = Own(r)
  BY DEF Shape, Own
<1>2. CASE s = 0
  <2>1. pc'[r] \notin Unpaid
    BY <1>2 DEF Shape, Unpaid, Seqs
  <2>2. pc'[r] \notin {"sign", "pay"}
    BY <2>1 DEF Unpaid
  <2>3. /\ outcome[r] \notin {"paid", "policy-rejected", "decision-unavailable"}
        /\ report[r] \notin {"reclaimed", "collected"}
    BY <1>2 DEF RunOK, Reported
  <2>4. /\ outcome'[r] \notin {"paid", "policy-rejected", "decision-unavailable"}
        /\ report'[r] \notin {"reclaimed", "collected"}
    BY <2>3
  <2>5. pc'[r] \in Early => (Unasked(r) /\ NotAfloat(r))'
    BY DEF RunOK
  <2>6. pc'[r] \notin Resting => outcome'[r] = "none" /\ report'[r] = "none"
    BY DEF RunOK
  <2>7. Reported(r)'
    BY <2>4 DEF Reported
  <2> QED BY <1>2, <2>1, <2>2, <2>4, <2>5, <2>6, <2>7 DEF RunOK
<1>3. CASE s # 0
  <2>1. s \in Seqs /\ Exists(g, s) /\ requester[g][s] = r
    BY <1>1, <1>3, BoundAssumption DEF RunOK, Seqs
  <2>2. KeepsRecord(g, s)
    BY <1>1, <2>1 DEF Keeps
  <2>3. Exists(g, s)' /\ requester'[g][s] = r
    BY <1>3, <2>1, <2>2 DEF Exists, KeepsRecord, SameTuple
  <2>4. Approved(g, s) => Approved(g, s)'
    BY <2>2 DEF Approved, KeepsRecord
  <2>5. /\ spends[g][s].finalized => spends'[g][s].finalized
        /\ spends'[g][s].decision = spends[g][s].decision
        /\ spends[g][s].reclaimed => spends'[g][s].reclaimed
    BY <2>2 DEF KeepsRecord, SameTuple
  <2>6. Own(r) \in used => Own(r) \in used'
    BY DEF Keeps
  <2>7. pc'[r] \in Early => (Unasked(r) /\ NotAfloat(r))'
    BY DEF RunOK
  <2>8. pc'[r] \notin Resting => outcome'[r] = "none" /\ report'[r] = "none"
    BY DEF RunOK
  <2>9. pc'[r] \in Unpaid \/ outcome'[r] = "decision-unavailable" =>
          Own(r)' \notin presented'
    BY <1>1, <1>3 DEF RunOK
  <2>10. pc'[r] \in {"sign", "pay"} => Approved(g, s)' /\ Own(r)' \notin recovered'
    BY <1>1, <1>3, <2>4 DEF RunOK
  <2>11. Reported(r)'
    <3>1. outcome'[r] = "paid" => Approved(g, s)' /\ Own(r)' \in presented'
      BY <1>1, <2>4 DEF RunOK, Reported
    <3>2. outcome'[r] = "policy-rejected" =>
            spends'[g][s].finalized /\ ~spends'[g][s].decision
      BY <2>5 DEF RunOK, Reported
    <3>3. report'[r] = "reclaimed" => spends'[g][s].reclaimed
      BY <2>5 DEF RunOK, Reported
    <3>4. report'[r] = "collected" => Own(r)' \in used'
      BY <1>1, <2>6 DEF RunOK, Reported
    <3> QED BY <1>3, <3>1, <3>2, <3>3, <3>4 DEF Reported, Approved
  <2> QED BY <1>3, <2>3, <2>7, <2>8, <2>9, <2>10, <2>11
      DEF RunOK, Exists, Approved
<1> QED BY <1>2, <1>3

\* The accounts stay right in a step that only adds to the chain's knowledge.
LEMMA KeepsLedger ==
  ASSUME Ledger, Keeps, NoneNew,
         UNCHANGED <<requester, holdEnd, presented, recovered>>
  PROVE  Ledger'
<1>1. \A g \in GoalIds, s \in Seqs :
        <<g, s>> \in presented' \cup recovered' =>
          Exists(g, s)' /\ spends'[g][s].finalized
  BY DEF Ledger, Keeps, KeepsRecord, SameTuple, Exists
<1>2. \A g \in GoalIds, s \in Seqs :
        Exists(g, s)' => spends'[g][s].validBefore <= holdEnd'[g][s]
  BY DEF Ledger, Keeps, NoneNew, KeepsRecord, SameTuple
<1> QED BY <1>1, <1>2 DEF Ledger, RecoveredNeverPaid

LEMMA KeepsAfloat ==
  ASSUME Afloat, requester' = requester, stray' \subseteq stray
  PROVE  Afloat'
BY DEF Afloat, Unasked

\* One run moves, and neither the requests nor the payments change.
LEMMA OneRunMoves ==
  ASSUME Shape, Book, Keeps, NoneNew, NEW r \in Runs,
         UNCHANGED <<goalOf, seqOf, requester, holdEnd, presented, recovered>>,
         stray' \subseteq stray,
         outcome' \in [Runs -> Outcomes], report' \in [Runs -> Reports],
         \A q \in Runs \ {r} : /\ pc'[q] = pc[q] /\ outcome'[q] = outcome[q]
                               /\ report'[q] = report[q],
         RunOK(r)'
  PROVE  Book'
<1>1. \A q \in Runs : Unasked(q) /\ NotAfloat(q) => (Unasked(q) /\ NotAfloat(q))'
  BY DEF Unasked, NotAfloat
<1>2. ASSUME NEW q \in Runs \ {r} PROVE RunOK(q)'
  <2>1. RunOK(q)
    BY DEF Book
  <2> QED BY <1>1, <2>1, KeepsRun
<1>3. Ledger' /\ Afloat'
  BY KeepsLedger, KeepsAfloat DEF Book
<1>4. OneSpendPerPurchase'
  BY DEF Book, OneSpendPerPurchase
<1> QED BY <1>2, <1>3, <1>4 DEF Book

\* Nothing the runs know of changes but what the chain adds to it.
LEMMA WorldMoves ==
  ASSUME Shape, Book, Keeps, NoneNew, stray' \subseteq stray,
         UNCHANGED <<pc, goalOf, seqOf, outcome, report, presented, requester,
                     holdEnd, recovered>>
  PROVE  Book'
<1>1. \A q \in Runs : Unasked(q) /\ NotAfloat(q) => (Unasked(q) /\ NotAfloat(q))'
  BY DEF Unasked, NotAfloat
<1>2. ASSUME NEW q \in Runs PROVE RunOK(q)'
  <2>1. RunOK(q)
    BY DEF Book
  <2> QED BY <1>1, <2>1, KeepsRun
<1>3. Ledger' /\ Afloat'
  BY KeepsLedger, KeepsAfloat DEF Book
<1>4. OneSpendPerPurchase'
  BY DEF Book, OneSpendPerPurchase
<1> QED BY <1>2, <1>3, <1>4 DEF Book

\* A run goes on to a point that claims no more than the one it was at.
LEMMA Advances ==
  ASSUME Shape, Book, Keeps, NoneNew, NEW r \in Runs, NEW point, Goto(r, point),
         UNCHANGED <<goalOf, seqOf, outcome, report, requester, holdEnd,
                     presented, recovered, stray>>,
         pc[r] \notin Resting,
         point \in Early => pc[r] \in Early,
         point \in Unpaid => pc[r] \in Unpaid,
         point \in {"sign", "pay"} => pc[r] \in {"sign", "pay"}
  PROVE  Book'
<1>1. pc'[r] = point /\ \A q \in Runs \ {r} : pc'[q] = pc[q]
  BY DEF Goto, Shape
<1>2. Unasked(r) /\ NotAfloat(r) => (Unasked(r) /\ NotAfloat(r))'
  BY DEF Unasked, NotAfloat
<1>3. RunOK(r) /\ outcome' \in [Runs -> Outcomes] /\ report' \in [Runs -> Reports]
  BY DEF Book
<1>4. RunOK(r)'
  BY <1>1, <1>2, <1>3, KeepsRun
<1> QED BY <1>1, <1>3, <1>4, OneRunMoves

\* A run ends with what it has reason to report.
LEMMA Ends ==
  ASSUME Shape, NEW r \in Runs, RunOK(r), Keeps,
         pc'[r] \in {"done", "reclaim"},
         pc'[r] = "reclaim" => outcome'[r] = "none" /\ report'[r] = "none",
         goalOf'[r] = goalOf[r], seqOf'[r] = seqOf[r], requester' = requester,
         outcome'[r] = "decision-unavailable" => Own(r) \notin presented',
         Reported(r)'
  PROVE  RunOK(r)'
<1>1. pc'[r] \notin Early /\ pc'[r] \notin Unpaid /\ pc'[r] \notin {"sign", "pay"}
  BY DEF Early, Unpaid
<1>2. seqOf[r] # 0 => Exists(goalOf[r], seqOf[r])'
  <2>1. seqOf[r] # 0 => seqOf[r] \in Seqs /\ goalOf[r] \in GoalIds
    BY BoundAssumption DEF Shape, Seqs
  <2>2. seqOf[r] # 0 => SameTuple(goalOf[r], seqOf[r]) /\ Exists(goalOf[r], seqOf[r])
    BY <2>1 DEF RunOK, Keeps, KeepsRecord
  <2> QED BY <2>2 DEF Exists, SameTuple
<1>3. seqOf'[r] # 0 => requester'[goalOf'[r]][seqOf'[r]] = r
  BY DEF RunOK
<1>4. pc'[r] \notin Resting => outcome'[r] = "none" /\ report'[r] = "none"
  BY DEF Resting
<1>5. Own(r)' = Own(r)
  BY DEF Own
<1>6. seqOf'[r] # 0 => spends'[goalOf'[r]][seqOf'[r]].amount # 0
  BY <1>2 DEF Exists
<1> QED BY <1>1, <1>3, <1>4, <1>5, <1>6 DEF RunOK, Exists

LEMMA EndsBook ==
  ASSUME Shape, Book, Keeps, NoneNew, NEW r \in Runs, NEW result \in Outcomes,
         Finish(r, result), report' \in [Runs -> Reports],
         \A q \in Runs \ {r} : report'[q] = report[q],
         UNCHANGED <<goalOf, seqOf, requester, holdEnd, presented, recovered, stray>>,
         result = "decision-unavailable" => Own(r) \notin presented,
         Reported(r)'
  PROVE  Book'
<1>1. /\ pc'[r] = "done" /\ outcome'[r] = result
      /\ outcome' \in [Runs -> Outcomes]
      /\ \A q \in Runs \ {r} : pc'[q] = pc[q] /\ outcome'[q] = outcome[q]
  BY DEF Finish, Shape, Book
<1>2. RunOK(r)
  BY DEF Book
<1>3. RunOK(r)'
  BY <1>1, <1>2, Ends
<1> QED BY <1>1, <1>3, OneRunMoves

\* It ends as failed, and its reclaim as failed or put off.
LEMMA FailsBook ==
  ASSUME Shape, Book, Keeps, NoneNew, NEW r \in Runs, Finish(r, "failed"),
         NEW answer \in {"failed", "deferred"},
         report' \in {report, [report EXCEPT ![r] = answer]}, pc[r] \notin Resting,
         UNCHANGED <<goalOf, seqOf, requester, holdEnd, presented, recovered, stray>>
  PROVE  Book'
<1>1. /\ report' \in [Runs -> Reports]
      /\ \A q \in Runs \ {r} : report'[q] = report[q]
      /\ report'[r] \in {report[r], "failed", "deferred"}
      /\ report[r] = "none"
  BY DEF Book, Reports, RunOK
<1>2. outcome'[r] = "failed"
  BY DEF Finish, Book
<1>3. Reported(r)'
  BY <1>1, <1>2 DEF Reported
<1>4. "failed" \in Outcomes
  BY DEF Outcomes
<1> QED BY <1>1, <1>3, <1>4, EndsBook

\* The steps of a run that only read, wait or ask.
LEMMA QuietBook ==
  ASSUME Shape, Book, NEW r \in Runs,
         \/ LookForOrphan(r) \/ Decided(r) \/ PollTimesOut(r)
         \/ SubmitFinalize(r) \/ FinalizeReverts(r) \/ CheckHold(r)
         \/ SubmitRequest(r) \/ Signed(r) \/ SignerRefuses(r)
         \/ ReclaimDeferred(r)
  PROVE  Book'
<1>k. Keeps /\ NoneNew
  BY LocalSteps, SameChain
<1> USE DEF Early, Unpaid, Resting
<1>1. CASE LookForOrphan(r)
  <2>1. Goto(r, "hold") \/ Goto(r, "orphanPoll")
    BY <1>1 DEF LookForOrphan
  <2> QED BY <1>1, <1>k, <2>1, Advances DEF LookForOrphan, histVars
<1>2. CASE Decided(r)
  BY <1>2, <1>k, Advances DEF Decided, histVars
<1>3. CASE PollTimesOut(r)
  <2>1. UNCHANGED <<goalOf, seqOf, report, requester, holdEnd, presented,
                    recovered, stray>>
    BY <1>3 DEF PollTimesOut, histVars
  <2>2. CASE pc[r] = "orphanPoll" /\ Finish(r, "failed")
    BY <1>k, <2>1, <2>2, FailsBook
  <2>3. CASE pc[r] = "poll" /\ Finish(r, "decision-unavailable")
    <3>1. Own(r) \notin presented /\ report[r] = "none" /\ seqOf[r] # 0
      BY <2>3 DEF Book, RunOK, Shape, Seqs
    <3>2. outcome'[r] = "decision-unavailable"
      BY <2>3 DEF Finish, Book
    <3>3. Reported(r)'
      BY <2>1, <3>1, <3>2 DEF Reported
    <3>4. "decision-unavailable" \in Outcomes /\ report' \in [Runs -> Reports]
      BY <2>1 DEF Outcomes, Book
    <3> QED BY <1>k, <2>1, <2>3, <3>1, <3>3, <3>4, EndsBook
  <2> QED BY <1>3, <2>2, <2>3 DEF PollTimesOut
<1>4. CASE SubmitFinalize(r)
  BY <1>4, <1>k, Advances DEF SubmitFinalize, histVars
<1>5. CASE FinalizeReverts(r)
  BY <1>5, <1>k, FailsBook DEF FinalizeReverts, RevertedIsFailure, histVars
<1>6. CASE CheckHold(r)
  <2>1. \/ Finish(r, "failed")
        \/ Goto(r, "request") /\ UNCHANGED outcome
    BY <1>6 DEF CheckHold
  <2>2. /\ UNCHANGED <<goalOf, seqOf, report, requester, holdEnd, presented,
                       recovered, stray>>
        /\ pc[r] = "hold"
    BY <1>6 DEF CheckHold, histVars
  <2>3. CASE Finish(r, "failed")
    BY <1>k, <2>2, <2>3, FailsBook
  <2>4. CASE Goto(r, "request") /\ UNCHANGED outcome
    BY <1>k, <2>2, <2>4, Advances
  <2> QED BY <2>1, <2>3, <2>4
<1>7. CASE SubmitRequest(r)
  BY <1>7, <1>k, Advances DEF SubmitRequest, histVars
<1>8. CASE Signed(r)
  BY <1>8, <1>k, Advances DEF Signed, histVars
<1>9. CASE SignerRefuses(r)
  BY <1>9, <1>k, Advances DEF SignerRefuses, histVars
<1>10. CASE ReclaimDeferred(r)
  BY <1>10, <1>k, FailsBook DEF ReclaimDeferred, histVars
<1> QED BY <1>1, <1>2, <1>3, <1>4, <1>5, <1>6, <1>7, <1>8, <1>9, <1>10

\* Finalisations and reclaims that a run makes.
LEMMA OrphanBook ==
  ASSUME IInv, Shape, Book, Keeps, NEW r \in Runs,
         OrphanFinalized(r) \/ OrphanReclaim(r)
  PROVE  Book'
<1>0. goalOf[r] \in GoalIds /\ orphan[r] \in Seqs
  BY DEF OrphanFinalized, OrphanReclaim, Shape
<1>g. PICK g \in GoalIds, s \in Seqs : g = goalOf[r] /\ s = orphan[r]
  BY <1>0
<1>1. CASE OrphanFinalized(r)
  <2>1. g \in GoalIds /\ s \in Seqs /\ FinalizeDecision(g, s)
    BY <1>g, <1>1 DEF OrphanFinalized
  <2>2. NoneNew /\ Exists(g, s) /\ ~spends[g][s].finalized
    BY <2>1, OthersMakeNone DEF FinalizeDecision, Finalizable
  <2>3. Exists(g, s)' /\ spends'[g][s].finalized
    <3>1. FinalizePost(g, s, spends[g][s].decision)
      BY <2>1, FinalizeWrites DEF IInv
    <3> QED BY <2>2, <3>1 DEF FinalizePost, Exists, SameTuple
  <2>4. /\ UNCHANGED <<goalOf, seqOf, outcome, report, requester, holdEnd,
                       presented, stray>>
        /\ recovered' = recovered \cup {<<g, s>>}
        /\ pc[r] = "orphanFinalizing"
        /\ pc'[r] = "orphanReclaim" /\ \A q \in Runs \ {r} : pc'[q] = pc[q]
    BY <1>g, <1>1 DEF OrphanFinalized, Goto, Shape
  <2>5. ASSUME NEW q \in Runs PROVE RunOK(q)'
    <3>1. RunOK(q)
      BY DEF Book
    <3>2. Unasked(q) /\ NotAfloat(q) => (Unasked(q) /\ NotAfloat(q))'
      BY <2>4 DEF Unasked, NotAfloat
    <3>3. pc[q] \in {"sign", "pay"} => Own(q) # <<g, s>>
      BY <2>2, <3>1 DEF RunOK, Approved, Own
    <3>4. /\ pc'[q] \in Early => pc[q] \in Early
          /\ pc'[q] \notin Resting => pc[q] \notin Resting
          /\ pc'[q] \in Unpaid => pc[q] \in Unpaid
          /\ pc'[q] \in {"sign", "pay"} => pc[q] \in {"sign", "pay"}
      BY <2>4 DEF Early, Resting, Unpaid
    <3> QED BY <2>4, <3>1, <3>2, <3>3, <3>4, KeepsRun
  <2>6. Ledger'
    <3>1. /\ presented \subseteq GoalIds \X Seqs /\ recovered \subseteq GoalIds \X Seqs
          /\ recovered \cap presented = {}
          /\ \A h \in GoalIds, t \in Seqs : <<h, t>> \in presented \cup recovered =>
               Exists(h, t) /\ spends[h][t].finalized
      BY DEF Book, Ledger, RecoveredNeverPaid
    <3>2. <<g, s>> \notin presented
      BY <2>1, <2>2, <3>1
    <3>3. \A h \in GoalIds, t \in Seqs : <<h, t>> \in presented \cup recovered =>
            Exists(h, t)' /\ spends'[h][t].finalized
      BY <3>1 DEF Keeps, KeepsRecord, SameTuple, Exists
    <3>4. \A h \in GoalIds, t \in Seqs : <<h, t>> \in presented' \cup recovered' =>
            Exists(h, t)' /\ spends'[h][t].finalized
      BY <2>3, <2>4, <3>3
    <3>5. \A h \in GoalIds, t \in Seqs :
            Exists(h, t)' => spends'[h][t].validBefore <= holdEnd'[h][t]
      BY <2>2, <2>4 DEF Book, Ledger, Keeps, NoneNew, KeepsRecord, SameTuple
    <3>6. recovered' \subseteq GoalIds \X Seqs /\ recovered' \cap presented' = {}
      BY <2>1, <2>4, <3>1, <3>2
    <3> QED BY <2>4, <3>4, <3>5, <3>6 DEF Book, Ledger, RecoveredNeverPaid
  <2>7. Afloat' /\ OneSpendPerPurchase'
    BY <2>4, KeepsAfloat DEF Book, OneSpendPerPurchase
  <2> QED BY <2>4, <2>5, <2>6, <2>7 DEF Book
<1>2. CASE OrphanReclaim(r)
  <2>1. pc[r] = "orphanReclaim"
    BY <1>2 DEF OrphanReclaim
  <2>2. NoneNew
    <3>1. CASE ReclaimExpired(g, s)
      BY <3>1, OthersMakeNone
    <3>2. CASE UNCHANGED vars
      BY <3>2, SameChain
    <3> QED BY <1>g, <1>2, <3>1, <3>2 DEF OrphanReclaim
  <2>3. "hold" \notin Unpaid /\ pc[r] \in Early /\ pc[r] \notin Resting
    BY <2>1 DEF Unpaid, Early, Resting
  <2> QED BY <1>2, <2>2, <2>3, Advances DEF OrphanReclaim, histVars
<1> QED BY <1>1, <1>2

LEMMA OwnBook ==
  ASSUME IInv, Shape, Book, Keeps, NEW r \in Runs, OwnFinalized(r)
  PROVE  Book'
<1>0. goalOf[r] \in GoalIds /\ seqOf[r] \in Seqs
  BY DEF OwnFinalized, Shape
<1>g. PICK g \in GoalIds, s \in Seqs : g = goalOf[r] /\ s = seqOf[r]
  BY <1>0
<1>1. g \in GoalIds /\ s \in Seqs /\ s # 0 /\ FinalizeDecision(g, s)
  BY <1>g DEF OwnFinalized, Seqs
<1>2. NoneNew /\ Exists(g, s) /\ ~spends[g][s].finalized
  BY <1>1, OthersMakeNone DEF FinalizeDecision, Finalizable
<1>3. /\ spends'[g][s].finalized /\ SameTuple(g, s)
      /\ spends'[g][s].approved = spends[g][s].decision
  <2>1. FinalizePost(g, s, spends[g][s].decision)
    BY <1>1, FinalizeWrites DEF IInv
  <2> QED BY <1>1, <2>1 DEF FinalizePost
<1>4. /\ UNCHANGED <<goalOf, seqOf, report, requester, holdEnd, presented,
                     recovered, stray>>
      /\ pc[r] = "finalizing"
  BY DEF OwnFinalized, histVars
<1>5. RunOK(r) /\ Own(r) \notin recovered /\ Own(r)' = Own(r)
  BY <1>g, <1>1, <1>2, <1>4 DEF Book, Ledger, Own
<1>6. outcome[r] = "none" /\ report[r] = "none" /\ Own(r) \notin presented
  BY <1>4, <1>5 DEF RunOK, Resting, Unpaid
<1>7. CASE spends[g][s].decision /\ Goto(r, "sign") /\ UNCHANGED outcome
  <2>1. Approved(g, s)' /\ Exists(g, s)'
    BY <1>2, <1>3, <1>7 DEF Approved, Exists, SameTuple
  <2>2. pc'[r] = "sign" /\ \A q \in Runs \ {r} : pc'[q] = pc[q]
    BY <1>7 DEF Goto, Shape
  <2>3. requester'[g][s] = r
    BY <1>g, <1>1, <1>4, <1>5 DEF RunOK
  <2>4. /\ outcome'[r] = "none" /\ report'[r] = "none"
        /\ Own(r)' \notin presented' /\ Own(r)' \notin recovered'
    BY <1>4, <1>5, <1>6, <1>7
  <2>5. Reported(r)'
    BY <2>4 DEF Reported
  <2>6. goalOf'[r] = g /\ seqOf'[r] = s
    BY <1>g, <1>4
  <2>7. RunOK(r)'
    BY <2>1, <2>2, <2>3, <2>4, <2>5, <2>6 DEF RunOK, Early, Exists, Approved
  <2> QED BY <1>2, <1>4, <1>7, <2>2, <2>7, OneRunMoves DEF Book
<1>8. CASE ~spends[g][s].decision /\ Finish(r, "policy-rejected")
  <2>1. outcome'[r] = "policy-rejected"
    BY <1>8 DEF Finish, Book
  <2>2. /\ spends'[goalOf'[r]][seqOf'[r]].finalized
        /\ ~spends'[goalOf'[r]][seqOf'[r]].decision
        /\ seqOf'[r] # 0 /\ report'[r] = "none"
    BY <1>g, <1>1, <1>3, <1>4, <1>6, <1>8 DEF SameTuple
  <2>3. Reported(r)'
    BY <2>1, <2>2 DEF Reported
  <2>4. "policy-rejected" \in Outcomes /\ report' \in [Runs -> Reports]
    BY <1>4 DEF Outcomes, Book
  <2> QED BY <1>2, <1>4, <1>8, <2>3, <2>4, EndsBook
<1> QED BY <1>g, <1>7, <1>8 DEF OwnFinalized

LEMMA ReclaimBook ==
  ASSUME IInv, Shape, Book, Keeps, NEW r \in Runs, Reclaim(r)
  PROVE  Book'
<1> DEFINE g == goalOf[r]
           s == seqOf[r]
<1>1. g \in GoalIds /\ s \in Seqs /\ s # 0 /\ pc[r] = "reclaim"
  BY DEF Reclaim, Shape, Seqs
<1>2. /\ UNCHANGED <<goalOf, seqOf, requester, holdEnd, presented, recovered, stray>>
      /\ Finish(r, "failed")
  BY DEF Reclaim, histVars
<1>3. outcome'[r] = "failed" /\ "failed" \in Outcomes /\ Own(r)' = Own(r)
  BY <1>2 DEF Finish, Book, Outcomes, Own
<1>4. ASSUME NEW answer \in {"reclaimed", "collected"},
             report' = [report EXCEPT ![r] = answer], NoneNew,
             answer = "reclaimed" => spends'[g][s].reclaimed,
             answer = "collected" => <<g, s>> \in used'
      PROVE  Book'
  <2>1. /\ report' \in [Runs -> Reports] /\ report'[r] = answer
        /\ \A q \in Runs \ {r} : report'[q] = report[q]
    BY <1>4 DEF Book, Reports
  <2>2. Reported(r)'
    BY <1>1, <1>2, <1>3, <1>4, <2>1 DEF Reported, Own
  <2> QED BY <1>2, <1>3, <1>4, <2>1, <2>2, EndsBook
<1>5. CASE ReclaimExpired(g, s) /\ report' = [report EXCEPT ![r] = "reclaimed"]
  <2>1. NoneNew
    BY <1>1, <1>5, OthersMakeNone
  <2>2. spends'[g][s].reclaimed
    <3>1. ReclaimPost(g, s)
      BY <1>1, <1>5, ReclaimWrites DEF IInv
    <3> QED BY <3>1 DEF ReclaimPost
  <2> QED BY <1>4, <1>5, <2>1, <2>2
<1>6. CASE /\ report' = [report EXCEPT ![r] = RefusedReclaim(g, s)]
           /\ UNCHANGED vars
  <2>1. NoneNew /\ spends' = spends /\ used' = used
    BY <1>6, SameChain DEF vars, vaultVars, tokenVars
  <2>2. CASE spends[g][s].reclaimed
    BY <1>4, <1>6, <2>1, <2>2 DEF RefusedReclaim
  <2>3. CASE ~spends[g][s].reclaimed /\ <<g, s>> \in used
    BY <1>4, <1>6, <2>1, <2>3 DEF RefusedReclaim
  <2>4. CASE ~spends[g][s].reclaimed /\ <<g, s>> \notin used
    <3>1. report' = [report EXCEPT ![r] = "failed"]
      BY <1>6, <2>4 DEF RefusedReclaim
    <3> QED BY <1>1, <1>2, <2>1, <3>1, FailsBook DEF Resting
  <2> QED BY <2>2, <2>3, <2>4
<1>7. ASSUME NEW answer \in {"failed", "deferred"},
             report' = [report EXCEPT ![r] = answer], UNCHANGED vars
      PROVE  Book'
  <2>1. NoneNew
    BY <1>7, SameChain
  <2> QED BY <1>1, <1>2, <1>7, <2>1, FailsBook DEF Resting
<1> QED BY <1>5, <1>6, <1>7 DEF Reclaim

\* The payment reaches a vendor: it is the run's own, approved and not one that
\* was recovered.
LEMMA PayBook ==
  ASSUME Shape, Book, NEW r \in Runs, Pay(r)
  PROVE  Book'
<1>k. Keeps /\ NoneNew
  BY LocalSteps, SameChain
<1>1. /\ UNCHANGED <<goalOf, seqOf, report, requester, holdEnd, recovered, stray, spends>>
      /\ pc[r] = "pay"
  BY DEF Pay, histVars, vars, vaultVars
<1>2. /\ RunOK(r) /\ seqOf[r] # 0 /\ seqOf[r] \in Seqs /\ goalOf[r] \in GoalIds
      /\ outcome[r] = "none" /\ report[r] = "none"
  BY <1>1 DEF Book, RunOK, Resting, Shape, Seqs
<1>3. CASE UNCHANGED presented
  <2>2. CASE Goto(r, "reclaim") /\ UNCHANGED outcome
    BY <1>k, <1>1, <1>3, <2>2, Advances DEF Resting, Early, Unpaid
  <2>3. CASE ~(Goto(r, "reclaim") /\ UNCHANGED outcome)
    <3>1. Own(r) \in presented
      BY <1>3, <2>3 DEF Pay, Own
    <3>2. Own(r) \notin presented
      BY <1>1, <1>2 DEF RunOK, Unpaid
    <3> QED BY <3>1, <3>2
  <2> QED BY <2>2, <2>3
<1>4. CASE presented' = presented \cup {Own(r)}
  <2>1. \/ /\ \A q \in Runs \ {r} : pc'[q] = pc[q] /\ outcome'[q] = outcome[q]
           /\ outcome' \in [Runs -> Outcomes]
           /\ \/ pc'[r] = "done" /\ outcome'[r] = "paid"
              \/ pc'[r] = "reclaim" /\ outcome'[r] = "none"
        \/ UNCHANGED presented
    BY <1>2 DEF Pay, Finish, Goto, Shape, Book, Outcomes
  <2>2. CASE UNCHANGED presented
    BY <1>3, <2>2
  <2>3. CASE ~UNCHANGED presented
    <3>1. Approved(goalOf[r], seqOf[r])' /\ Own(r)' = Own(r) /\ Own(r) \in presented'
      BY <1>1, <1>2, <1>4 DEF RunOK, Approved, Own
    <3>2. Reported(r)'
      BY <1>1, <1>2, <2>1, <2>3, <3>1 DEF Reported, Approved
    <3>3. RunOK(r)'
      BY <1>k, <1>1, <1>2, <2>1, <2>3, <3>2, Ends
    <3>4. ASSUME NEW q \in Runs \ {r} PROVE RunOK(q)'
      <4>1. RunOK(q)
        BY DEF Book
      <4>2. Unasked(q) /\ NotAfloat(q) => (Unasked(q) /\ NotAfloat(q))'
        BY <1>1 DEF Unasked, NotAfloat
      <4>3. seqOf[q] # 0 => Own(q) # Own(r)
        BY <1>2, <4>1 DEF RunOK, Own
      <4> QED BY <1>k, <1>1, <1>4, <2>1, <2>3, <4>1, <4>2, <4>3, KeepsRun
    <3>5. Ledger'
      <4>1. spends[goalOf[r]][seqOf[r]].finalized /\ Exists(goalOf[r], seqOf[r])
        BY <1>1, <1>2 DEF RunOK, Approved
      <4>2. Own(r) \in GoalIds \X Seqs /\ Own(r) \notin recovered
        BY <1>1, <1>2 DEF RunOK, Own
      <4>3. \A h \in GoalIds, t \in Seqs : <<h, t>> \in presented' \cup recovered' =>
              Exists(h, t) /\ spends[h][t].finalized
        BY <1>1, <1>4, <4>1 DEF Book, Ledger, Own
      <4>4. /\ presented' \subseteq GoalIds \X Seqs
            /\ recovered' \cap presented' = {}
        BY <1>1, <1>4, <4>2 DEF Book, Ledger, RecoveredNeverPaid
      <4> QED BY <1>1, <4>3, <4>4 DEF Book, Ledger, RecoveredNeverPaid, Exists
    <3>6. Afloat' /\ OneSpendPerPurchase'
      BY <1>1, KeepsAfloat DEF Book, OneSpendPerPurchase
    <3> QED BY <1>1, <2>1, <2>3, <3>3, <3>4, <3>5, <3>6 DEF Book
  <2> QED BY <2>2, <2>3
<1> QED BY <1>3, <1>4 DEF Pay, Own

\* A request writes the next record of its goal and no other, with a window
\* that closes by the time the vendor asked for.
LEMMA RequestMakes ==
  ASSUME IInv, NEW relay \in Relays, NEW g \in GoalIds, NEW amount \in Amounts,
         NEW payTo \in Payees, NEW payBy \in Int,
         RequestSpend(relay, g, amount, payTo, payBy),
         NEW s, s = NextSeq(g)
  PROVE  /\ s \in Seqs /\ ~Exists(g, s) /\ Exists(g, s)'
         /\ spends'[g][s].validBefore <= payBy
         /\ \A h \in GoalIds, t \in Seqs :
              Exists(h, t)' => Exists(h, t) \/ <<h, t>> = <<g, s>>
<1>1. s \in Seqs
  BY NextSeqInRange DEF IInv
<1>2. /\ spends \in [GoalIds -> [Seqs -> SpendRecord]]
      /\ goals[g].seq \in Nat /\ goals[g].expiry \in Int /\ now \in Int
  BY BoundAssumption DEF IInv, Structure, TypeOK, Goal, Times
<1>3. ~Exists(g, s)
  <2>1. Exists(g, s) <=> s <= goals[g].seq
    BY <1>1 DEF IInv, Structure, StrictlySequential
  <2> QED BY <1>2, <2>1 DEF NextSeq
<1>4. PICK ok \in {TRUE, FALSE} :
        spends' = [spends EXCEPT ![g][s] =
          [payTo |-> payTo, amount |-> amount, validAfter |-> now - 1,
           validBefore |-> EndOf(g, payBy), decision |-> ok,
           finalized |-> FALSE, approved |-> FALSE, reclaimed |-> FALSE]]
  BY DEF RequestSpend, Decide
<1>5. amount # 0
  BY DataAssumption DEF RequestSpend
<1>6. /\ spends'[g][s].amount = amount
      /\ spends'[g][s].validBefore = EndOf(g, payBy)
      /\ \A h \in GoalIds, t \in Seqs :
           <<h, t>> # <<g, s>> => spends'[h][t] = spends[h][t]
  BY <1>1, <1>2, <1>4
<1>7. EndOf(g, payBy) <= payBy
  BY <1>2, BoundAssumption DEF EndOf
<1> QED BY <1>1, <1>3, <1>5, <1>6, <1>7 DEF Exists

\* The accounts take in the new spend of a purchase that had none.
LEMMA NewSpend ==
  ASSUME Shape, Book, Keeps, NEW g \in GoalIds, NEW s \in Seqs,
         NEW who \in Runs \cup {NoRun}, NEW until \in Int,
         ~Exists(g, s), spends'[g][s].validBefore <= until,
         \A h \in GoalIds, t \in Seqs :
           Exists(h, t)' => Exists(h, t) \/ <<h, t>> = <<g, s>>,
         requester' = [requester EXCEPT ![g][s] = who],
         holdEnd' = [holdEnd EXCEPT ![g][s] = until],
         UNCHANGED <<presented, recovered>>,
         stray' \subseteq stray,
         who \in Runs => Unasked(who),
         \A t \in stray' : t.kind = "request" /\ t.run \in Runs => t.run # who
  PROVE  Ledger' /\ Afloat' /\ OneSpendPerPurchase'
<1>1. /\ requester \in [GoalIds -> [Seqs -> Runs \cup {NoRun}]]
      /\ holdEnd \in [GoalIds -> [Seqs -> Int]]
  BY DEF Book, Ledger
<1>2. /\ requester' \in [GoalIds -> [Seqs -> Runs \cup {NoRun}]]
      /\ holdEnd' \in [GoalIds -> [Seqs -> Int]]
      /\ requester'[g][s] = who /\ holdEnd'[g][s] = until
      /\ \A h \in GoalIds, t \in Seqs : <<h, t>> # <<g, s>> =>
           /\ requester'[h][t] = requester[h][t]
           /\ holdEnd'[h][t] = holdEnd[h][t]
  BY <1>1
<1>3. Ledger'
  <2>1. \A h \in GoalIds, t \in Seqs : <<h, t>> \in presented' \cup recovered' =>
          Exists(h, t)' /\ spends'[h][t].finalized
    <3>1. \A h \in GoalIds, t \in Seqs : <<h, t>> \in presented \cup recovered =>
            Exists(h, t) /\ spends[h][t].finalized
      BY DEF Book, Ledger
    <3>2. \A h \in GoalIds, t \in Seqs : Exists(h, t) /\ spends[h][t].finalized =>
            Exists(h, t)' /\ spends'[h][t].finalized
      BY DEF Keeps, KeepsRecord, SameTuple, Exists
    <3> QED BY <3>1, <3>2
  <2>2. ASSUME NEW h \in GoalIds, NEW t \in Seqs, Exists(h, t)'
        PROVE  spends'[h][t].validBefore <= holdEnd'[h][t]
    <3>1. CASE <<h, t>> = <<g, s>>
      BY <1>2, <3>1
    <3>2. CASE <<h, t>> # <<g, s>>
      <4>1. Exists(h, t) /\ holdEnd'[h][t] = holdEnd[h][t]
        BY <1>2, <2>2, <3>2
      <4> QED BY <4>1 DEF Book, Ledger, Keeps, KeepsRecord, SameTuple
    <3> QED BY <3>1, <3>2
  <2> QED BY <1>2, <2>1, <2>2 DEF Book, Ledger, RecoveredNeverPaid
<1>4. Afloat'
  <2>1. \A q \in Runs : Unasked(q) /\ q # who => Unasked(q)'
    BY <1>2 DEF Unasked
  <2> QED BY <2>1 DEF Book, Afloat
<1>5. OneSpendPerPurchase'
  <2>1. \A h \in GoalIds, t \in Seqs :
          who \in Runs => requester[h][t] # who
    BY DEF Unasked
  <2> QED BY <1>2, <2>1 DEF Book, OneSpendPerPurchase
<1> QED BY <1>3, <1>4, <1>5

\* No other purchase learns of it.
LEMMA OthersUnmoved ==
  ASSUME Shape, Book, Keeps, NEW g \in GoalIds, NEW s \in Seqs,
         NEW who \in Runs \cup {NoRun}, ~Exists(g, s),
         requester' = [requester EXCEPT ![g][s] = who],
         UNCHANGED <<presented, recovered>>, stray' \subseteq stray,
         NEW q \in Runs, pc[q] \in Early => q # who,
         pc'[q] = pc[q], goalOf'[q] = goalOf[q], seqOf'[q] = seqOf[q],
         outcome'[q] = outcome[q], report'[q] = report[q]
  PROVE  RunOK(q)'
<1>1. RunOK(q) /\ requester \in [GoalIds -> [Seqs -> Runs \cup {NoRun}]]
  BY DEF Book, Ledger
<1>2. /\ requester'[g][s] = who
      /\ \A h \in GoalIds, t \in Seqs :
           <<h, t>> # <<g, s>> => requester'[h][t] = requester[h][t]
  BY <1>1
<1>3. seqOf[q] # 0 => requester'[goalOf[q]][seqOf[q]] = requester[goalOf[q]][seqOf[q]]
  <2>1. seqOf[q] # 0 => Exists(goalOf[q], seqOf[q])
    BY <1>1 DEF RunOK
  <2>2. seqOf[q] # 0 => goalOf[q] \in GoalIds /\ seqOf[q] \in Seqs
    BY BoundAssumption DEF Shape, Seqs
  <2> QED BY <1>2, <2>1, <2>2
<1>4. pc'[q] \in Early /\ Unasked(q) /\ NotAfloat(q) => (Unasked(q) /\ NotAfloat(q))'
  BY <1>2 DEF Unasked, NotAfloat
<1> QED BY <1>1, <1>3, <1>4, KeepsRun

\* The run's request is mined and it hears of it.
LEMMA RequestedBook ==
  ASSUME IInv, Shape, Book, Keeps, NEW r \in Runs, NEW amount \in Amounts,
         NEW payTo \in Payees, Requested(r, amount, payTo)
  PROVE  Book'
<1>1. PICK g \in GoalIds, s \in {NextSeq(goalOf[r])} :
        g = goalOf[r] /\ s = NextSeq(g)
  BY DEF Shape
<1>2. PayBy(r) \in Int /\ PayBy(r) = quotedAt[r] + HoldFor
  BY BoundAssumption, LoopAssumption DEF PayBy, Shape, Times
<1>3. PICK relay \in Relays : RequestSpend(relay, g, amount, payTo, PayBy(r))
  BY <1>1 DEF Requested
<1>4. /\ s \in Seqs /\ ~Exists(g, s) /\ Exists(g, s)'
      /\ spends'[g][s].validBefore <= PayBy(r)
      /\ \A h \in GoalIds, t \in Seqs :
           Exists(h, t)' => Exists(h, t) \/ <<h, t>> = <<g, s>>
  BY <1>1, <1>2, <1>3, RequestMakes
<1>5. /\ pc[r] = "requesting"
      /\ seqOf' = [seqOf EXCEPT ![r] = s]
      /\ requester' = [requester EXCEPT ![g][s] = r]
      /\ holdEnd' = [holdEnd EXCEPT ![g][s] = PayBy(r)]
      /\ Goto(r, "poll")
      /\ UNCHANGED <<goalOf, outcome, report, stray, presented, recovered>>
  BY <1>1, <1>2 DEF Requested
<1>6. Unasked(r) /\ NotAfloat(r) /\ outcome[r] = "none" /\ report[r] = "none"
  BY <1>5 DEF Book, RunOK, Early, Resting
<1>7. Ledger' /\ Afloat' /\ OneSpendPerPurchase'
  BY <1>2, <1>4, <1>5, <1>6, NewSpend DEF NotAfloat
<1>8. /\ pc'[r] = "poll" /\ seqOf'[r] = s /\ goalOf'[r] = g
      /\ \A q \in Runs \ {r} : pc'[q] = pc[q] /\ seqOf'[q] = seqOf[q]
  BY <1>1, <1>5 DEF Goto, Shape
<1>9. ASSUME NEW q \in Runs \ {r} PROVE RunOK(q)'
  <2>1. /\ pc'[q] = pc[q] /\ seqOf'[q] = seqOf[q] /\ goalOf'[q] = goalOf[q]
        /\ outcome'[q] = outcome[q] /\ report'[q] = report[q]
        /\ r \in Runs \cup {NoRun} /\ q # r /\ stray' \subseteq stray
    BY <1>5, <1>8
  <2> QED BY <1>4, <1>5, <2>1, OthersUnmoved
<1>10. RunOK(r)'
  <2>1. requester'[g][s] = r
    BY <1>4, <1>5 DEF Book, Ledger
  <2>2. <<g, s>> \notin presented'
    BY <1>4, <1>5 DEF Book, Ledger
  <2>3. outcome'[r] = "none" /\ report'[r] = "none"
    BY <1>5, <1>6
  <2>4. Reported(r)'
    BY <2>3 DEF Reported
  <2>5. "poll" \notin Early /\ "poll" \notin {"sign", "pay"}
    BY DEF Early
  <2>6. spends'[g][s].amount # 0
    BY <1>4 DEF Exists
  <2> QED BY <1>8, <2>1, <2>2, <2>3, <2>4, <2>5, <2>6 DEF RunOK, Own, Exists
<1> QED BY <1>5, <1>7, <1>9, <1>10 DEF Book

\* A transaction that nobody waits for any more is mined.
LEMMA StrayBook ==
  ASSUME IInv, Shape, Book, Keeps, NEW t \in stray,
         \/ \E amount \in Amounts, payTo \in Payees :
              StrayRequestLands(t, amount, payTo)
         \/ StrayFinalizeLands(t)
  PROVE  Book'
<1>1. ASSUME NEW amount \in Amounts, NEW payTo \in Payees,
             StrayRequestLands(t, amount, payTo)
      PROVE  Book'
  <2>1. /\ t \in Requests /\ t.hold = t.payBy /\ t.kind = "request"
        /\ t.run \in Runs => Unasked(t.run)
        /\ \A u \in stray : u.kind = "request" /\ t.run \in Runs
                              /\ t.run = u.run => t = u
    BY <1>1 DEF StrayRequestLands, Book, Afloat
  <2>2. PICK g \in GoalIds, who \in Runs \cup {NoRun}, until \in Int,
             s \in {NextSeq(t.goal)} :
          g = t.goal /\ who = t.run /\ until = t.payBy /\ s = NextSeq(g)
    BY <2>1 DEF Requests
  <2>3. PICK relay \in Relays : RequestSpend(relay, g, amount, payTo, until)
    BY <1>1, <2>2 DEF StrayRequestLands
  <2>4. /\ s \in Seqs /\ ~Exists(g, s) /\ Exists(g, s)'
        /\ spends'[g][s].validBefore <= until
        /\ \A h \in GoalIds, v \in Seqs :
             Exists(h, v)' => Exists(h, v) \/ <<h, v>> = <<g, s>>
    BY <2>2, <2>3, RequestMakes
  <2>5. /\ requester' = [requester EXCEPT ![g][s] = who]
        /\ holdEnd' = [holdEnd EXCEPT ![g][s] = until]
        /\ stray' = stray \ {t}
        /\ UNCHANGED <<pc, goalOf, seqOf, outcome, report, presented, recovered>>
    BY <1>1, <2>1, <2>2 DEF StrayRequestLands, runVars
  <2>6. /\ who \in Runs => Unasked(who)
        /\ \A u \in stray' : u.kind = "request" /\ u.run \in Runs => u.run # who
    BY <2>1, <2>2, <2>5
  <2>7. Ledger' /\ Afloat' /\ OneSpendPerPurchase'
    BY <2>4, <2>5, <2>6, NewSpend
  <2>8. ASSUME NEW q \in Runs PROVE RunOK(q)'
    <3>1. pc[q] \in Early => q # who
      BY <2>1, <2>2 DEF Book, RunOK, NotAfloat
    <3> QED BY <2>4, <2>5, <3>1, OthersUnmoved
  <2> QED BY <2>5, <2>7, <2>8 DEF Book
<1>2. CASE StrayFinalizeLands(t)
  <2>1. t.goal \in GoalIds /\ t.seq \in Seqs /\ FinalizeDecision(t.goal, t.seq)
    BY <1>2 DEF StrayFinalizeLands, Shape
  <2>2. NoneNew
    BY <2>1, OthersMakeNone
  <2>3. /\ stray' \subseteq stray
        /\ UNCHANGED <<pc, goalOf, seqOf, outcome, report, presented, requester,
                       holdEnd, recovered>>
    BY <1>2 DEF StrayFinalizeLands, runVars, histVars
  <2> QED BY <2>2, <2>3, WorldMoves
<1> QED BY <1>1, <1>2
-----------------------------------------------------------------------------
(* Purchases that fail, start over or die with the server.                  *)

\* The request a run leaves behind is its own, and its only one.
LEMMA InFlightRequest ==
  ASSUME Shape, Book, NEW r \in Runs, NEW t \in InFlight(r), t.kind = "request"
  PROVE  /\ t \in Requests /\ t.hold = t.payBy /\ t.run = r
         /\ Unasked(r) /\ NotAfloat(r)
         /\ InFlight(r) = {t}
<1>1. goalOf[r] \in GoalIds /\ PayBy(r) \in Int /\ PayBy(r) = quotedAt[r] + HoldFor
  BY BoundAssumption, LoopAssumption DEF Shape, PayBy, Times
<1>2. pc[r] = "requesting"
  BY DEF InFlight
<1>3. Unasked(r) /\ NotAfloat(r)
  BY <1>2 DEF Book, RunOK, Early
<1>4. InFlight(r) = {[kind |-> "request", goal |-> goalOf[r], run |-> r,
                      payBy |-> PayBy(r), hold |-> PayBy(r)]}
  BY <1>1, <1>2 DEF InFlight
<1>5. t = [kind |-> "request", goal |-> goalOf[r], run |-> r,
           payBy |-> PayBy(r), hold |-> PayBy(r)]
  BY <1>4
<1> QED BY <1>1, <1>3, <1>4, <1>5 DEF Requests

LEMMA MoreAfloat ==
  ASSUME Shape, Book, requester' = requester,
         stray' \subseteq stray \cup UNION {InFlight(r) : r \in Runs}
  PROVE  Afloat'
<1>1. \A q \in Runs : Unasked(q) => Unasked(q)'
  BY DEF Unasked
<1>2. ASSUME NEW t \in stray', t.kind = "request"
      PROVE  /\ t \in Requests /\ t.hold = t.payBy
             /\ t.run \in Runs => Unasked(t.run)
  <2>1. CASE t \in stray
    BY <1>2, <2>1 DEF Book, Afloat
  <2>2. ASSUME NEW r \in Runs, t \in InFlight(r)
        PROVE  t \in Requests /\ t.hold = t.payBy /\ Unasked(t.run)
    BY <1>2, <2>2, InFlightRequest
  <2> QED BY <2>1, <2>2
<1>3. ASSUME NEW t \in stray', NEW u \in stray', t.kind = "request",
             u.kind = "request", t.run \in Runs, t.run = u.run
      PROVE  t = u
  <2>1. CASE t \in stray /\ u \in stray
    BY <1>3, <2>1 DEF Book, Afloat
  <2>2. ASSUME NEW r \in Runs, t \in InFlight(r) PROVE t = u
    <3>1. t.run = r /\ NotAfloat(r) /\ InFlight(r) = {t}
      BY <1>3, <2>2, InFlightRequest
    <3>2. u \notin stray
      BY <1>3, <3>1 DEF NotAfloat
    <3>3. PICK q \in Runs : u \in InFlight(q)
      BY <3>2
    <3>4. q = r
      BY <1>3, <3>1, <3>3, InFlightRequest
    <3> QED BY <3>1, <3>3, <3>4
  <2>3. ASSUME NEW r \in Runs, u \in InFlight(r) PROVE t = u
    <3>1. u.run = r /\ NotAfloat(r) /\ InFlight(r) = {u}
      BY <1>3, <2>3, InFlightRequest
    <3>2. t \notin stray
      BY <1>3, <3>1 DEF NotAfloat
    <3>3. PICK q \in Runs : t \in InFlight(q)
      BY <3>2
    <3>4. q = r
      BY <1>3, <3>1, <3>3, InFlightRequest
    <3> QED BY <3>1, <3>3, <3>4
  <2> QED BY <2>1, <2>2, <2>3
<1> QED BY <1>1, <1>2, <1>3 DEF Afloat

\* What is left behind is nobody else's.
LEMMA OthersStayAshore ==
  ASSUME Shape, Book, NEW r \in Runs, NEW q \in Runs \ {r},
         stray' \subseteq stray \cup InFlight(r)
  PROVE  NotAfloat(q) => NotAfloat(q)'
<1>1. \A t \in InFlight(r) : t.kind = "request" => t.run = r
  BY InFlightRequest
<1> QED BY <1>1 DEF NotAfloat

LEMMA WriteFailsBook ==
  ASSUME Shape, Book, NEW r \in Runs, WriteFails(r)
  PROVE  Book'
<1>k. Keeps /\ NoneNew
  BY LocalSteps, SameChain
<1>1. /\ UNCHANGED <<goalOf, seqOf, report, requester, holdEnd, presented, recovered>>
      /\ pc[r] \notin Resting
  BY DEF WriteFails, histVars, Resting
<1>2. CASE MayRetry(r) /\ Goto(r, "request") /\ UNCHANGED outcome
  <2>1. pc[r] = "request" /\ stray' = stray
    BY <1>2 DEF WriteFails, MayRetry, InFlight
  <2> QED BY <1>k, <1>1, <1>2, <2>1, Advances DEF Early, Unpaid
<1>3. CASE Finish(r, "failed") /\ stray' = stray
  BY <1>k, <1>1, <1>3, FailsBook
<1>4. CASE Finish(r, "failed") /\ stray' = stray \cup InFlight(r)
  <2>1. /\ pc'[r] = "done" /\ outcome'[r] = "failed"
        /\ outcome' \in [Runs -> Outcomes]
        /\ \A q \in Runs \ {r} : pc'[q] = pc[q] /\ outcome'[q] = outcome[q]
    BY <1>4 DEF Finish, Shape, Book, Outcomes
  <2>2. RunOK(r)'
    <3>1. RunOK(r) /\ report'[r] = "none"
      BY <1>1 DEF Book, RunOK
    <3>2. Reported(r)'
      BY <2>1, <3>1 DEF Reported
    <3> QED BY <1>k, <1>1, <2>1, <3>1, <3>2, Ends
  <2>3. ASSUME NEW q \in Runs \ {r} PROVE RunOK(q)'
    <3>1. RunOK(q)
      BY DEF Book
    <3>2. Unasked(q) /\ NotAfloat(q) => (Unasked(q) /\ NotAfloat(q))'
      <4>1. NotAfloat(q) => NotAfloat(q)'
        BY <1>4, OthersStayAshore
      <4>2. Unasked(q) => Unasked(q)'
        BY <1>1 DEF Unasked
      <4> QED BY <4>1, <4>2
    <3> QED BY <1>k, <1>1, <2>1, <3>1, <3>2, KeepsRun
  <2>4. Ledger' /\ Afloat' /\ OneSpendPerPurchase'
    <3>1. Ledger'
      BY <1>k, <1>1, KeepsLedger DEF Book
    <3>2. Afloat'
      BY <1>1, <1>4, MoreAfloat
    <3> QED BY <1>1, <3>1, <3>2 DEF Book, OneSpendPerPurchase
  <2> QED BY <1>1, <2>1, <2>2, <2>3, <2>4 DEF Book
<1> QED BY <1>2, <1>3, <1>4 DEF WriteFails

LEMMA CrashBook ==
  ASSUME Shape, Book, Crash
  PROVE  Book'
<1>k. Keeps /\ NoneNew
  BY SameChain DEF Crash
<1>1. /\ pc' = [r \in Runs |-> "idle"] /\ seqOf' = [r \in Runs |-> 0]
      /\ outcome' = [r \in Runs |-> "none"] /\ report' = [r \in Runs |-> "none"]
      /\ UNCHANGED <<presented, requester, holdEnd, recovered>>
      /\ stray' \subseteq stray \cup UNION {InFlight(r) : r \in Runs}
  BY DEF Crash, histVars
<1>2. ASSUME NEW r \in Runs PROVE RunOK(r)'
  <2>1. pc'[r] = "idle" /\ seqOf'[r] = 0 /\ outcome'[r] = "none" /\ report'[r] = "none"
    BY <1>1
  <2>2. Reported(r)'
    BY <2>1 DEF Reported
  <2> QED BY <2>1, <2>2 DEF RunOK, Early, Unpaid
<1>3. Ledger' /\ Afloat' /\ OneSpendPerPurchase'
  <2>1. Ledger'
    BY <1>k, <1>1, KeepsLedger DEF Book
  <2>2. Afloat'
    BY <1>1, MoreAfloat
  <2> QED BY <1>1, <2>1, <2>2 DEF Book, OneSpendPerPurchase
<1>4. outcome' \in [Runs -> Outcomes] /\ report' \in [Runs -> Reports]
  BY <1>1 DEF Outcomes, Reports
<1> QED BY <1>2, <1>3, <1>4 DEF Book

\* A slot takes its next purchase: what the earlier one left is nobody's.
LEMMA StartBook ==
  ASSUME Shape, Book, NEW r \in Runs, NEW g \in GoalIds, Start(r, g)
  PROVE  Book'
<1>k. Keeps /\ NoneNew
  BY SameChain DEF Start
<1>n. NoRun \notin Runs
  BY LoopAssumption
<1>1. /\ pc'[r] = "recover" /\ seqOf'[r] = 0
      /\ outcome'[r] = "none" /\ report'[r] = "none"
      /\ \A q \in Runs \ {r} :
           /\ pc'[q] = pc[q] /\ goalOf'[q] = goalOf[q] /\ seqOf'[q] = seqOf[q]
           /\ outcome'[q] = outcome[q] /\ report'[q] = report[q]
      /\ outcome' \in [Runs -> Outcomes] /\ report' \in [Runs -> Reports]
      /\ UNCHANGED <<presented, holdEnd, recovered>>
  BY DEF Start, Goto, Shape, Book, Outcomes, Reports
<1>2. \A h \in GoalIds, s \in Seqs :
        requester'[h][s] = IF requester[h][s] = r THEN NoRun ELSE requester[h][s]
  BY DEF Start
<1>3. requester' \in [GoalIds -> [Seqs -> Runs \cup {NoRun}]]
  BY DEF Start, Book, Ledger
<1>4. ASSUME NEW t \in stray', t.kind = "request"
      PROVE  /\ t \in Requests /\ t.hold = t.payBy
             /\ t.run # r
             /\ t.run \in Runs => t \in stray
  <2>1. PICK u \in stray :
          t = IF u.kind = "request" /\ u.run = r
                THEN [u EXCEPT !.run = NoRun] ELSE u
    BY DEF Start
  <2>2. CASE u.kind = "request" /\ u.run = r
    <3>1. u \in Requests /\ u.hold = u.payBy /\ t = [u EXCEPT !.run = NoRun]
      BY <2>1, <2>2 DEF Book, Afloat
    <3> QED BY <1>n, <3>1 DEF Requests
  <2>3. CASE ~(u.kind = "request" /\ u.run = r)
    <3>1. t = u /\ t \in stray
      BY <2>1, <2>3
    <3> QED BY <1>4, <2>3, <3>1 DEF Book, Afloat
  <2> QED BY <2>2, <2>3
<1>5. RunOK(r)'
  <2>1. Unasked(r)'
    BY <1>n, <1>2 DEF Unasked
  <2>2. NotAfloat(r)'
    BY <1>4 DEF NotAfloat
  <2>3. Reported(r)'
    BY <1>1 DEF Reported
  <2> QED BY <1>1, <2>1, <2>2, <2>3 DEF RunOK, Unpaid
<1>6. ASSUME NEW q \in Runs \ {r} PROVE RunOK(q)'
  <2>1. RunOK(q)
    BY DEF Book
  <2>2. seqOf[q] # 0 => requester'[goalOf[q]][seqOf[q]] = requester[goalOf[q]][seqOf[q]]
    <3>1. seqOf[q] # 0 => requester[goalOf[q]][seqOf[q]] = q
      BY <2>1 DEF RunOK
    <3>2. seqOf[q] # 0 => goalOf[q] \in GoalIds /\ seqOf[q] \in Seqs
      BY BoundAssumption DEF Shape, Seqs
    <3> QED BY <1>2, <3>1, <3>2
  <2>3. Unasked(q) /\ NotAfloat(q) => (Unasked(q) /\ NotAfloat(q))'
    <3>1. Unasked(q) => Unasked(q)'
      BY <1>n, <1>2 DEF Unasked
    <3>2. NotAfloat(q) => NotAfloat(q)'
      BY <1>4 DEF NotAfloat
    <3> QED BY <3>1, <3>2
  <2> QED BY <1>k, <1>1, <2>1, <2>2, <2>3, KeepsRun
<1>7. Ledger'
  <2>1. \A h \in GoalIds, t \in Seqs : <<h, t>> \in presented' \cup recovered' =>
          Exists(h, t)' /\ spends'[h][t].finalized
    <3>1. \A h \in GoalIds, t \in Seqs : <<h, t>> \in presented \cup recovered =>
            Exists(h, t) /\ spends[h][t].finalized
      BY DEF Book, Ledger
    <3> QED BY <1>k, <1>1, <3>1 DEF Keeps, KeepsRecord, SameTuple, Exists
  <2>2. \A h \in GoalIds, t \in Seqs :
          Exists(h, t)' => spends'[h][t].validBefore <= holdEnd'[h][t]
    BY <1>k, <1>1 DEF Book, Ledger, Keeps, NoneNew, KeepsRecord, SameTuple
  <2> QED BY <1>1, <1>3, <2>1, <2>2 DEF Book, Ledger, RecoveredNeverPaid
<1>8. Afloat'
  <2>1. \A q \in Runs : Unasked(q) => Unasked(q)'
    BY <1>n, <1>2 DEF Unasked
  <2>2. ASSUME NEW t \in stray', NEW u \in stray', t.kind = "request",
               u.kind = "request", t.run \in Runs, t.run = u.run
        PROVE  t = u
    BY <1>4, <2>2 DEF Book, Afloat
  <2>3. ASSUME NEW t \in stray', t.kind = "request", t.run \in Runs
        PROVE  Unasked(t.run)'
    <3>1. Unasked(t.run)
      BY <1>4, <2>3 DEF Book, Afloat
    <3> QED BY <2>1, <2>3, <3>1
  <2> QED BY <1>4, <2>2, <2>3 DEF Afloat
<1>9. OneSpendPerPurchase'
  BY <1>n, <1>2 DEF Book, OneSpendPerPurchase
<1> QED BY <1>1, <1>5, <1>6, <1>7, <1>8, <1>9 DEF Book

-----------------------------------------------------------------------------
(* Every step keeps the book.                                               *)

LEMMA InitBook == LoopInit => Book
<1> SUFFICES ASSUME LoopInit PROVE Book
  OBVIOUS
<1>n. NoRun \notin Runs
  BY LoopAssumption
<1>1. \A g \in GoalIds, s \in Seqs : requester[g][s] = NoRun /\ ~Exists(g, s)
  BY DEF LoopInit, Init, Exists, NoSpend
<1>2. ASSUME NEW r \in Runs PROVE RunOK(r)
  <2>1. pc[r] = "idle" /\ seqOf[r] = 0 /\ outcome[r] = "none" /\ report[r] = "none"
    BY DEF LoopInit
  <2> QED BY <2>1 DEF RunOK, Reported, Early, Unpaid
<1>3. Ledger
  <2>1. presented = {} /\ recovered = {}
    BY DEF LoopInit
  <2>2. /\ requester \in [GoalIds -> [Seqs -> Runs \cup {NoRun}]]
        /\ holdEnd \in [GoalIds -> [Seqs -> Int]]
    BY DEF LoopInit
  <2> QED BY <1>1, <2>1, <2>2 DEF Ledger, RecoveredNeverPaid
<1>4. Afloat
  BY DEF LoopInit, Afloat
<1>5. OneSpendPerPurchase
  BY <1>n, <1>1 DEF OneSpendPerPurchase
<1>6. outcome \in [Runs -> Outcomes] /\ report \in [Runs -> Reports]
  BY DEF LoopInit, Outcomes, Reports
<1> QED BY <1>2, <1>3, <1>4, <1>5, <1>6 DEF Book

\* The owner, the vendors, the reclaim tool, the clock and the nodes.
LEMMA WorldBook ==
  ASSUME IInv, Shape, Book, Keeps,
         \/ OwnerOpens \/ (\E g \in GoalIds : OwnerCloses(g))
         \/ (\E g \in GoalIds, s \in Seqs : Collect(g, s) \/ ReclaimTool(g, s))
         \/ CatchUp \/ TimePasses
  PROVE  Book'
<1>1. /\ UNCHANGED <<pc, goalOf, seqOf, outcome, report, presented, requester,
                     holdEnd, recovered>>
      /\ stray' \subseteq stray
  <2>1. CASE CatchUp
    BY <2>1 DEF CatchUp, runVars, histVars
  <2>2. CASE ~CatchUp
    <3>1. UNCHANGED loopVars
      BY <2>2 DEF OwnerOpens, OwnerCloses, Collect, ReclaimTool, TimePasses
    <3> QED BY <3>1 DEF loopVars, runVars, histVars
  <2> QED BY <2>1, <2>2
<1>2. NoneNew
  <2>1. CASE OwnerOpens \/ (\E g \in GoalIds : OwnerCloses(g)) \/ TimePasses
    <3>1. spends' = spends
      BY <2>1 DEF OwnerOpens, OwnerCloses, TimePasses, OpenGoal, CloseGoal, Tick,
                  vaultVars
    <3> QED BY <3>1 DEF NoneNew, Exists
  <2>2. ASSUME NEW g \in GoalIds, NEW s \in Seqs, Collect(g, s) PROVE NoneNew
    <3>1. spends' = spends
      BY <2>2 DEF Collect, TransferWithAuthorization, vaultVars
    <3> QED BY <3>1 DEF NoneNew, Exists
  <2>3. ASSUME NEW g \in GoalIds, NEW s \in Seqs, ReclaimTool(g, s) PROVE NoneNew
    BY <2>3, OthersMakeNone DEF ReclaimTool
  <2>4. CASE CatchUp
    BY <2>4, SameChain DEF CatchUp
  <2> QED BY <2>1, <2>2, <2>3, <2>4
<1> QED BY <1>1, <1>2, WorldMoves

LEMMA StepBook ==
  ASSUME IInv, Shape, Book, LoopNext
  PROVE  Book'
<1>k. Keeps
  <2>1. [Next]_vars
    BY ChainStep DEF IInv, Structure
  <2> QED BY <2>1, ChainKeeps
<1>1. ASSUME NEW r \in Runs, RunStep(r) PROVE Book'
  <2>1. CASE OrphanFinalized(r) \/ OrphanReclaim(r)
    BY <1>k, <2>1, OrphanBook
  <2>2. CASE OwnFinalized(r)
    BY <1>k, <2>2, OwnBook
  <2>3. CASE Reclaim(r)
    BY <1>k, <2>3, ReclaimBook
  <2>4. CASE Pay(r)
    BY <2>4, PayBook
  <2>5. CASE \E amount \in Amounts, payTo \in Payees : Requested(r, amount, payTo)
    BY <1>k, <2>5, RequestedBook
  <2>6. CASE WriteFails(r)
    BY <2>6, WriteFailsBook
  <2> QED BY <1>1, <2>1, <2>2, <2>3, <2>4, <2>5, <2>6, QuietBook DEF RunStep
<1>2. ASSUME NEW t \in stray,
             \/ \E amount \in Amounts, payTo \in Payees :
                  StrayRequestLands(t, amount, payTo)
             \/ StrayFinalizeLands(t)
      PROVE  Book'
  BY <1>k, <1>2, StrayBook
<1>3. ASSUME NEW r \in Runs, NEW g \in GoalIds, Start(r, g) PROVE Book'
  BY <1>3, StartBook
<1>4. CASE Crash
  BY <1>4, CrashBook
<1> QED BY <1>k, <1>1, <1>2, <1>3, <1>4, WorldBook DEF LoopNext

LEMMA BookInvariant == LoopSpec => []Book
<1>1. LoopInit => Book
  BY InitBook
<1>2. IInv /\ Shape /\ Book /\ [LoopNext]_allVars => Book'
  <2> SUFFICES ASSUME IInv, Shape, Book, [LoopNext]_allVars PROVE Book'
    OBVIOUS
  <2>1. CASE LoopNext
    BY <2>1, StepBook
  <2>2. CASE UNCHANGED allVars
    <3>1. Keeps /\ NoneNew
      BY <2>2, SameChain DEF allVars
    <3>2. UNCHANGED <<pc, goalOf, seqOf, outcome, report, presented, requester,
                      holdEnd, recovered, stray>>
      BY <2>2 DEF allVars, loopVars, runVars, histVars
    <3> QED BY <3>1, <3>2, WorldMoves
  <2> QED BY <2>1, <2>2
<1> QED BY <1>1, <1>2, LoopInvariant, PTL DEF LoopSpec

\* However requests are refused, lost or land late, and whoever retries them,
\* a purchase commits at most one spend.
THEOREM OneSpendHolds == LoopSpec => []OneSpendPerPurchase
<1>1. Book => OneSpendPerPurchase
  BY DEF Book
<1> QED BY <1>1, BookInvariant, PTL

\* A spend that some run recovered is never paid, also when the run it was
\* taken from is alive and goes on.
THEOREM RecoveredHolds == LoopSpec => []RecoveredNeverPaid
<1>1. Book => RecoveredNeverPaid
  BY DEF Book, Ledger
<1> QED BY <1>1, BookInvariant, PTL

\* What a run reports of its purchase is what happened on chain.
THEOREM ReportsAreTrue == LoopSpec => []TrueReports
<1>1. Book => TrueReports
  BY DEF Book, RunOK, Reported, Own, TrueReports
<1> QED BY <1>1, BookInvariant, PTL

\* No vendor collects after its hold on the thing has ended.
THEOREM CollectsWithinHold == LoopSpec => CollectedWithinHold
<1>1. IInv /\ Shape /\ Book /\ [LoopNext]_allVars =>
        [\A g \in GoalIds, s \in Seqs :
           <<g, s>> \in used' \ used => now < holdEnd[g][s]]_allVars
  <2> SUFFICES ASSUME IInv, Shape, Book, LoopNext,
                      NEW g \in GoalIds, NEW s \in Seqs, <<g, s>> \in used' \ used
               PROVE  now < holdEnd[g][s]
    OBVIOUS
  <2>1. [Next]_vars
    BY ChainStep DEF IInv, Structure
  <2>2. TransferWithAuthorization(g, s)
    <3>1. \/ \E h \in GoalIds, t \in Seqs : TransferWithAuthorization(h, t)
          \/ used' = used
      <4>1. OpenSomeGoal \/ Tick => used' = used
        <5>1. OpenSomeGoal => UNCHANGED tokenVars
          BY DEF OpenSomeGoal, OpenGoal
        <5>2. Tick => UNCHANGED tokenVars
          BY DEF Tick
        <5> QED BY <5>1, <5>2 DEF tokenVars
      <4>2. \A caller, h : CloseGoal(caller, h) => used' = used
        BY DEF CloseGoal, tokenVars
      <4>3. \A caller, h, amount, payTo, payBy :
              RequestSpend(caller, h, amount, payTo, payBy) => used' = used
        BY DEF RequestSpend, tokenVars
      <4>4. \A h, t : FinalizeDecision(h, t) \/ ReclaimExpired(h, t) => used' = used
        BY DEF FinalizeDecision, ReclaimExpired, tokenVars
      <4>5. UNCHANGED vars => used' = used
        BY DEF vars, tokenVars
      <4> QED BY <2>1, <4>1, <4>2, <4>3, <4>4, <4>5 DEF Next
    <3>2. PICK h \in GoalIds, t \in Seqs : TransferWithAuthorization(h, t)
      BY <3>1
    <3>3. <<h, t>> = <<g, s>>
      BY <3>2 DEF TransferWithAuthorization
    <3> QED BY <3>2, <3>3
  <2>3. Exists(g, s) /\ now < spends[g][s].validBefore
    BY <2>2 DEF TransferWithAuthorization, Signable
  <2>4. spends[g][s].validBefore <= holdEnd[g][s] /\ holdEnd[g][s] \in Int
    BY <2>3 DEF Book, Ledger
  <2>5. now \in Int /\ spends[g][s].validBefore \in Int
    BY DEF IInv, Structure, TypeOK, Times, SpendRecord
  <2> QED BY <2>3, <2>4, <2>5
<1> QED BY <1>1, BookInvariant, LoopInvariant, PTL DEF LoopSpec, CollectedWithinHold
=============================================================================
