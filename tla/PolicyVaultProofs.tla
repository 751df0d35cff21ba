------------------------- MODULE PolicyVaultProofs -------------------------
(***************************************************************************)
(* Theorems about PolicyVault, for every number of goals, attempts, wallets *)
(* and amounts.  The inductive invariant is built in four layers, each      *)
(* proved on top of the ones before it:                                     *)
(*   Structure  types, one payer per goal, sequential spends, attempts      *)
(*   Records    what the flags of a spend record say about one another      *)
(*   Calls      the public call count                                       *)
(*   Accounts   the encrypted budget against the money that left the payer  *)
(***************************************************************************)
EXTENDS PolicyVault, FiniteSetTheorems, TLAPS

-----------------------------------------------------------------------------
(* Structure.                                                              *)

\* Goals are opened in order; an unopened one has no state; payers and opened
\* goals name each other; a payer without a goal has paid nothing.
GoalShape ==
  /\ \A g \in GoalIds :
       /\ Opened(g) <=> g <= goalCount
       /\ ~Opened(g) => goals[g] = NoGoal /\ granted[g].attempts = 0
                        /\ granted[g].calls = 0
       /\ Opened(g) => /\ goals[g].payer \in Payers
                       /\ payerGoal[goals[g].payer] = g
  /\ \A p \in Payers :
       /\ payerGoal[p] # 0 => /\ Opened(payerGoal[p])
                              /\ goals[payerGoal[p]].payer = p
       /\ payerGoal[p] = 0 => outflow[p] = 0

Structure ==
  TypeOK /\ GoalShape /\ StrictlySequential /\ AttemptsConserved

LEMMA InitStructure == Init => Structure
<1> SUFFICES ASSUME Init PROVE Structure
  OBVIOUS
<1> USE DataAssumption, BoundAssumption, AddressAssumption
<1>1. TypeOK
  BY DEF Init, TypeOK, GoalIds, Seqs, Times, Goal, SpendRecord, NoGoal, NoSpend
<1>2. GoalShape
  BY DEF Init, GoalShape, Opened, NoGoal, GoalIds
<1>3. StrictlySequential
  BY DEF Init, StrictlySequential, Exists, NoGoal, NoSpend, GoalIds, Seqs
<1>4. AttemptsConserved
  BY DEF Init, AttemptsConserved, NoGoal, GoalIds
<1> QED BY <1>1, <1>2, <1>3, <1>4 DEF Structure

-----------------------------------------------------------------------------
(* What each transaction writes, entry by entry: the facts about the nested *)
(* records that the invariance proofs use in place of the actions.          *)

\* Fields of a goal no transaction but OpenGoal changes.
SameIdentity(h) ==
  /\ goals'[h].owner = goals[h].owner
  /\ goals'[h].payer = goals[h].payer
  /\ granted'[h] = granted[h]
  /\ perCallCap'[h] = perCallCap[h]
  /\ allowlisted'[h] = allowlisted[h]

SameTuple(h, t) ==
  /\ spends'[h][t].payTo = spends[h][t].payTo
  /\ spends'[h][t].amount = spends[h][t].amount
  /\ spends'[h][t].validAfter = spends[h][t].validAfter
  /\ spends'[h][t].validBefore = spends[h][t].validBefore
  /\ spends'[h][t].decision = spends[h][t].decision

RequestPost(g, s, amount, payTo, ok) ==
  /\ s \in Seqs /\ s = goals[g].seq + 1
  /\ Opened(g) /\ pendingSeq[g] = 0
  /\ amount \in Nat /\ amount # 0 /\ payTo \in allowlisted[g]
  /\ ok \in BOOLEAN
  /\ ok => /\ amount <= remainingBudget[g] /\ amount <= perCallCap[g]
           /\ goals[g].callsRemaining >= 1
  /\ goals' \in [GoalIds -> Goal]
  /\ spends' \in [GoalIds -> [Seqs -> SpendRecord]]
  /\ \A h \in GoalIds :
       /\ SameIdentity(h)
       /\ goals'[h].callsRemaining = goals[h].callsRemaining
       /\ goals'[h].open = goals[h].open
       /\ goals'[h].seq = IF h = g THEN s ELSE goals[h].seq
       /\ pendingSeq'[h] = IF h = g THEN s ELSE pendingSeq[h]
       /\ attemptsRemaining'[h] = IF h = g THEN attemptsRemaining[g] - 1
                                           ELSE attemptsRemaining[h]
       /\ remainingBudget'[h] =
            IF h = g /\ ok THEN remainingBudget[g] - amount
                           ELSE remainingBudget[h]
       /\ h # g => goals'[h] = goals[h]
       /\ \A t \in Seqs :
            ~(h = g /\ t = s) => spends'[h][t] = spends[h][t]
  /\ attemptsRemaining[g] > 0
  /\ spends'[g][s].payTo = payTo
  /\ spends'[g][s].amount = amount
  /\ spends'[g][s].decision = ok
  /\ ~spends'[g][s].finalized
  /\ ~spends'[g][s].approved
  /\ ~spends'[g][s].reclaimed
  /\ pendingSeq' = [h \in GoalIds |-> pendingSeq'[h]]
  /\ attemptsRemaining' = [h \in GoalIds |-> attemptsRemaining'[h]]
  /\ remainingBudget' = [h \in GoalIds |-> remainingBudget'[h]]
  /\ UNCHANGED <<now, goalCount, perCallCap, allowlisted, payerGoal, granted,
                 used, outflow>>

LEMMA RequestWrites ==
  ASSUME Structure, NEW caller \in Relays, NEW g \in GoalIds,
         NEW amount \in Amounts, NEW payTo \in Payees, NEW payBy \in Times,
         RequestSpend(caller, g, amount, payTo, payBy)
  PROVE  RequestPost(g, goals[g].seq + 1, amount, payTo, Decide(g, amount))
<1> USE DataAssumption, BoundAssumption, AddressAssumption
<1> DEFINE s == goals[g].seq + 1
           ok == Decide(g, amount)
           new == [payTo |-> payTo, amount |-> amount, validAfter |-> now - 1,
                   validBefore |-> EndOf(g, payBy), decision |-> ok,
                   finalized |-> FALSE, approved |-> FALSE, reclaimed |-> FALSE]
<1>1. /\ attemptsRemaining[g] > 0
      /\ s \in Seqs
      /\ goals[g].seq \in Nat
  <2>1. attemptsRemaining[g] > 0
    BY DEF RequestSpend
  <2>2. /\ attemptsRemaining[g] \in Nat
        /\ goals[g].seq \in Nat
        /\ granted[g].attempts \in 0..MaxAttempts
    BY DEF Structure, TypeOK, Goal
  <2>3. attemptsRemaining[g] + goals[g].seq = granted[g].attempts
    BY DEF Structure, AttemptsConserved
  <2> QED BY <2>1, <2>2, <2>3 DEF Seqs
<1>2. /\ ok \in BOOLEAN
      /\ ok => /\ amount <= remainingBudget[g] /\ amount <= perCallCap[g]
               /\ goals[g].callsRemaining >= 1
      /\ amount \in Nat /\ amount # 0 /\ payTo \in allowlisted[g]
      /\ remainingBudget[g] \in Nat
  BY DEF Structure, TypeOK, Decide, RequestSpend
<1>3. new \in SpendRecord
  <2>1. EndOf(g, payBy) \in Int /\ now - 1 \in Int
    BY DEF EndOf, Structure, TypeOK, Goal, Times
  <2> QED BY <1>2, <2>1 DEF SpendRecord
<1>4. /\ goals' = [goals EXCEPT ![g].seq = s]
      /\ spends' = [spends EXCEPT ![g][s] = new]
      /\ pendingSeq' = [pendingSeq EXCEPT ![g] = s]
      /\ attemptsRemaining' = [attemptsRemaining EXCEPT ![g] = @ - 1]
      /\ remainingBudget' = [remainingBudget EXCEPT ![g] = @ - Debit(g, amount)]
      /\ Opened(g) /\ pendingSeq[g] = 0
      /\ UNCHANGED <<now, goalCount, perCallCap, allowlisted, payerGoal,
                     granted, used, outflow>>
  BY DEF RequestSpend, NextSeq, AttemptCost, NothingPending, tokenVars
<1>t. /\ goals \in [GoalIds -> Goal]
      /\ spends \in [GoalIds -> [Seqs -> SpendRecord]]
      /\ pendingSeq \in [GoalIds -> 0..MaxAttempts]
      /\ attemptsRemaining \in [GoalIds -> 0..MaxAttempts]
      /\ remainingBudget \in [GoalIds -> Nat]
  BY DEF Structure, TypeOK
<1>5. goals' \in [GoalIds -> Goal]
  <2>1. s \in 0..MaxAttempts
    BY <1>1 DEF Seqs
  <2>2. goals' = [goals EXCEPT ![g].seq = s] /\ goals \in [GoalIds -> Goal]
    BY <1>t, <1>4
  <2> HIDE DEF s
  <2> QED BY <2>1, <2>2 DEF Goal
<1>6. \A h \in GoalIds :
        /\ SameIdentity(h)
        /\ goals'[h].callsRemaining = goals[h].callsRemaining
        /\ goals'[h].open = goals[h].open
        /\ goals'[h].seq = IF h = g THEN s ELSE goals[h].seq
        /\ h # g => goals'[h] = goals[h]
  BY <1>t, <1>4 DEF Goal, SameIdentity
<1>7. /\ spends' \in [GoalIds -> [Seqs -> SpendRecord]]
      /\ spends'[g][s] = new
      /\ \A h \in GoalIds, t \in Seqs :
            ~(h = g /\ t = s) => spends'[h][t] = spends[h][t]
  BY <1>1, <1>3, <1>4, <1>t
<1>8. Debit(g, amount) = IF ok THEN amount ELSE 0
  BY DEF Debit
<1>9. /\ remainingBudget' = [h \in GoalIds |-> remainingBudget'[h]]
      /\ \A h \in GoalIds :
            remainingBudget'[h] =
            IF h = g /\ ok THEN remainingBudget[g] - amount
                           ELSE remainingBudget[h]
  <2>1. CASE ok
    <3>1. remainingBudget' = [remainingBudget EXCEPT ![g] = @ - amount]
      BY <2>1, <1>4, <1>8
    <3> QED BY <2>1, <3>1, <1>t
  <2>2. CASE ~ok
    <3>1. remainingBudget' = [remainingBudget EXCEPT ![g] = @ - 0]
      BY <2>2, <1>4, <1>8
    <3>2. remainingBudget' = remainingBudget
      BY <3>1, <1>t
    <3> QED BY <2>2, <3>2, <1>t
  <2> QED BY <1>2, <2>1, <2>2
<1>10. /\ pendingSeq' = [h \in GoalIds |-> pendingSeq'[h]]
       /\ attemptsRemaining' = [h \in GoalIds |-> attemptsRemaining'[h]]
       /\ \A h \in GoalIds :
            /\ pendingSeq'[h] = IF h = g THEN s ELSE pendingSeq[h]
            /\ attemptsRemaining'[h] = IF h = g THEN attemptsRemaining[g] - 1
                                           ELSE attemptsRemaining[h]
  BY <1>t, <1>4
<1> QED BY <1>1, <1>2, <1>4, <1>5, <1>6, <1>7, <1>9, <1>10 DEF RequestPost

FinalizePost(g, s, ok) ==
  /\ s \in Seqs /\ Exists(g, s) /\ ~spends[g][s].finalized
  /\ ok = spends[g][s].decision /\ ok \in BOOLEAN
  /\ ok => goals[g].callsRemaining >= 1
  /\ goals' \in [GoalIds -> Goal]
  /\ spends' \in [GoalIds -> [Seqs -> SpendRecord]]
  /\ pendingSeq' = [h \in GoalIds |-> pendingSeq'[h]]
  /\ \A h \in GoalIds :
       /\ SameIdentity(h)
       /\ goals'[h].callsRemaining =
            IF h = g /\ ok THEN goals[g].callsRemaining - 1
                           ELSE goals[h].callsRemaining
       /\ goals'[h].open = goals[h].open
       /\ goals'[h].seq = goals[h].seq
       /\ h # g => goals'[h] = goals[h]
       /\ pendingSeq'[h] = IF h = g THEN 0 ELSE pendingSeq[h]
       /\ \A t \in Seqs :
            /\ SameTuple(h, t)
            /\ ~(h = g /\ t = s) => spends'[h][t] = spends[h][t]
  /\ spends'[g][s].finalized
  /\ spends'[g][s].approved = ok
  /\ spends'[g][s].reclaimed = spends[g][s].reclaimed
  /\ UNCHANGED <<now, goalCount, perCallCap, remainingBudget, allowlisted,
                 attemptsRemaining, payerGoal, granted, used, outflow>>

\* Raising flags of a record leaves its other fields alone.
LEMMA FinalizedRecord ==
  ASSUME NEW old \in SpendRecord, NEW ok \in BOOLEAN
  PROVE  \E new \in SpendRecord :
            /\ new = [old EXCEPT !.finalized = TRUE, !.approved = ok]
            /\ new.payTo = old.payTo /\ new.amount = old.amount
            /\ new.validAfter = old.validAfter
            /\ new.validBefore = old.validBefore
            /\ new.decision = old.decision /\ new.reclaimed = old.reclaimed
            /\ new.finalized = TRUE /\ new.approved = ok
<1> DEFINE new == [old EXCEPT !.finalized = TRUE, !.approved = ok]
<1>1. new \in SpendRecord
  BY DEF SpendRecord
<1>2. /\ new.payTo = old.payTo /\ new.amount = old.amount
      /\ new.validAfter = old.validAfter
      /\ new.validBefore = old.validBefore
      /\ new.decision = old.decision /\ new.reclaimed = old.reclaimed
      /\ new.finalized = TRUE /\ new.approved = ok
  BY DEF SpendRecord
<1> WITNESS new \in SpendRecord
<1> HIDE DEF new
<1> QED BY <1>2 DEF new

LEMMA ReclaimedRecord ==
  ASSUME NEW old \in SpendRecord
  PROVE  \E new \in SpendRecord :
            /\ new = [old EXCEPT !.reclaimed = TRUE]
            /\ new.payTo = old.payTo /\ new.amount = old.amount
            /\ new.validAfter = old.validAfter
            /\ new.validBefore = old.validBefore
            /\ new.decision = old.decision /\ new.finalized = old.finalized
            /\ new.approved = old.approved /\ new.reclaimed = TRUE
<1> DEFINE new == [old EXCEPT !.reclaimed = TRUE]
<1>1. new \in SpendRecord
  BY DEF SpendRecord
<1>2. /\ new.payTo = old.payTo /\ new.amount = old.amount
      /\ new.validAfter = old.validAfter
      /\ new.validBefore = old.validBefore
      /\ new.decision = old.decision /\ new.finalized = old.finalized
      /\ new.approved = old.approved /\ new.reclaimed = TRUE
  BY DEF SpendRecord
<1> WITNESS new \in SpendRecord
<1> HIDE DEF new
<1> QED BY <1>2 DEF new

LEMMA FinalizeWrites ==
  ASSUME Structure, NEW g \in GoalIds, NEW s \in Seqs, FinalizeDecision(g, s)
  PROVE  FinalizePost(g, s, spends[g][s].decision)
<1> DEFINE ok == spends[g][s].decision
<1>t. /\ goals \in [GoalIds -> Goal]
      /\ spends \in [GoalIds -> [Seqs -> SpendRecord]]
      /\ pendingSeq \in [GoalIds -> 0..MaxAttempts]
      /\ ok \in BOOLEAN
  BY DEF Structure, TypeOK, SpendRecord
<1>1. /\ Exists(g, s) /\ ~spends[g][s].finalized
      /\ ok => goals[g].callsRemaining >= 1
      /\ goals' = [goals EXCEPT ![g].callsRemaining = IF ok THEN @ - 1 ELSE @]
      /\ spends' = [spends EXCEPT ![g][s].finalized = TRUE,
                                  ![g][s].approved = ok]
      /\ pendingSeq' = [pendingSeq EXCEPT ![g] = 0]
      /\ UNCHANGED <<now, goalCount, perCallCap, remainingBudget, allowlisted,
                     attemptsRemaining, payerGoal, granted, used, outflow>>
  BY DEF FinalizeDecision, Finalizable, tokenVars
<1>2. /\ goals' \in [GoalIds -> Goal]
      /\ \A h \in GoalIds :
           /\ SameIdentity(h)
           /\ goals'[h].callsRemaining =
                IF h = g /\ ok THEN goals[g].callsRemaining - 1
                               ELSE goals[h].callsRemaining
           /\ goals'[h].open = goals[h].open
           /\ goals'[h].seq = goals[h].seq
           /\ h # g => goals'[h] = goals[h]
  <2> HIDE DEF ok
  <2>1. CASE ok
    <3>1. goals' = [goals EXCEPT ![g].callsRemaining = @ - 1]
      BY <2>1, <1>1
    <3>2. goals[g].callsRemaining \in Nat /\ goals[g].callsRemaining - 1 \in Nat
      BY <1>t, <1>1, <2>1 DEF Goal
    <3>3. goals' \in [GoalIds -> Goal]
      BY <3>1, <3>2, <1>t DEF Goal
    <3>4. \A h \in GoalIds :
             goals'[h] = IF h = g
                         THEN [goals[h] EXCEPT !.callsRemaining = @ - 1]
                         ELSE goals[h]
      BY <3>1, <1>t
    <3> QED BY <2>1, <3>3, <3>4, <1>t, <1>1 DEF Goal, SameIdentity
  <2>2. CASE ~ok
    <3>1. goals' = [goals EXCEPT ![g].callsRemaining = @]
      BY <2>2, <1>1
    <3>2. goals' = goals
      BY <3>1, <1>t DEF Goal
    <3> QED BY <2>2, <3>2, <1>t, <1>1 DEF Goal, SameIdentity
  <2> QED BY <1>t, <2>1, <2>2
<1>3. /\ spends' \in [GoalIds -> [Seqs -> SpendRecord]]
      /\ \A h \in GoalIds, t \in Seqs :
            /\ SameTuple(h, t)
            /\ ~(h = g /\ t = s) => spends'[h][t] = spends[h][t]
      /\ spends'[g][s].finalized
      /\ spends'[g][s].approved = ok
      /\ spends'[g][s].reclaimed = spends[g][s].reclaimed
  <2> HIDE DEF ok
  <2>0. spends[g][s] \in SpendRecord
    BY <1>t
  <2>1. PICK new \in SpendRecord :
            /\ new = [spends[g][s] EXCEPT !.finalized = TRUE, !.approved = ok]
            /\ new.payTo = spends[g][s].payTo /\ new.amount = spends[g][s].amount
            /\ new.validAfter = spends[g][s].validAfter
            /\ new.validBefore = spends[g][s].validBefore
            /\ new.decision = spends[g][s].decision /\ new.reclaimed = spends[g][s].reclaimed
            /\ new.finalized = TRUE /\ new.approved = ok
    <3>1. ok \in BOOLEAN
      BY <1>t
    <3> QED BY <2>0, <3>1, FinalizedRecord
  <2>2. spends' = [spends EXCEPT ![g][s] = new]
    BY <1>t, <1>1, <2>1
  <2>3. /\ spends' \in [GoalIds -> [Seqs -> SpendRecord]]
        /\ spends'[g][s] = new
        /\ \A h \in GoalIds, t \in Seqs :
             ~(h = g /\ t = s) => spends'[h][t] = spends[h][t]
    BY <2>1, <2>2, <1>t
  <2>5. ASSUME NEW h \in GoalIds, NEW t \in Seqs PROVE SameTuple(h, t)
    BY <2>1, <2>3 DEF SameTuple
  <2> QED BY <2>1, <2>3, <2>5
<1>4. /\ pendingSeq' = [h \in GoalIds |-> pendingSeq'[h]]
      /\ \A h \in GoalIds : pendingSeq'[h] = IF h = g THEN 0 ELSE pendingSeq[h]
  BY <1>t, <1>1
<1> QED BY <1>t, <1>1, <1>2, <1>3, <1>4 DEF FinalizePost

ReclaimPost(g, s) ==
  /\ s \in Seqs /\ Opened(g) /\ Exists(g, s) /\ Approved(g, s)
  /\ ~spends[g][s].reclaimed /\ <<g, s>> \notin used
  /\ now >= spends[g][s].validBefore
  /\ goals' \in [GoalIds -> Goal]
  /\ spends' \in [GoalIds -> [Seqs -> SpendRecord]]
  /\ remainingBudget' = [h \in GoalIds |-> remainingBudget'[h]]
  /\ \A h \in GoalIds :
       /\ SameIdentity(h)
       /\ goals'[h].callsRemaining = IF h = g THEN goals[g].callsRemaining + 1
                                              ELSE goals[h].callsRemaining
       /\ goals'[h].open = goals[h].open
       /\ goals'[h].seq = goals[h].seq
       /\ h # g => goals'[h] = goals[h]
       /\ remainingBudget'[h] =
            IF h = g THEN remainingBudget[g] + spends[g][s].amount
                     ELSE remainingBudget[h]
       /\ \A t \in Seqs :
            /\ SameTuple(h, t)
            /\ ~(h = g /\ t = s) => spends'[h][t] = spends[h][t]
  /\ spends'[g][s].finalized /\ spends'[g][s].approved /\ spends'[g][s].reclaimed
  /\ UNCHANGED <<now, goalCount, perCallCap, allowlisted, pendingSeq,
                 attemptsRemaining, payerGoal, granted, used, outflow>>

LEMMA ReclaimWrites ==
  ASSUME Structure, NEW g \in GoalIds, NEW s \in Seqs, ReclaimExpired(g, s)
  PROVE  ReclaimPost(g, s)
<1>t. /\ goals \in [GoalIds -> Goal]
      /\ spends \in [GoalIds -> [Seqs -> SpendRecord]]
      /\ remainingBudget \in [GoalIds -> Nat]
  BY DEF Structure, TypeOK
<1>1. /\ Opened(g) /\ Exists(g, s) /\ Approved(g, s)
      /\ ~spends[g][s].reclaimed /\ <<g, s>> \notin used
      /\ now >= spends[g][s].validBefore
      /\ goals' = [goals EXCEPT ![g].callsRemaining = @ + 1]
      /\ spends' = [spends EXCEPT ![g][s].reclaimed = TRUE]
      /\ remainingBudget' =
           [remainingBudget EXCEPT ![g] = @ + spends[g][s].amount]
      /\ UNCHANGED <<now, goalCount, perCallCap, allowlisted, pendingSeq,
                     attemptsRemaining, payerGoal, granted, used, outflow>>
  BY DEF ReclaimExpired, Unspent, WindowClosed, tokenVars
<1>2. /\ goals' \in [GoalIds -> Goal]
      /\ \A h \in GoalIds :
           /\ SameIdentity(h)
           /\ goals'[h].callsRemaining =
                IF h = g THEN goals[g].callsRemaining + 1
                         ELSE goals[h].callsRemaining
           /\ goals'[h].open = goals[h].open
           /\ goals'[h].seq = goals[h].seq
           /\ h # g => goals'[h] = goals[h]
  <2>1. goals[g].callsRemaining \in Nat /\ goals[g].callsRemaining + 1 \in Nat
    BY <1>t DEF Goal
  <2> QED BY <2>1, <1>t, <1>1, ZenonT(60) DEF Goal, SameIdentity
<1>3. /\ spends' \in [GoalIds -> [Seqs -> SpendRecord]]
      /\ \A h \in GoalIds, t \in Seqs :
            /\ SameTuple(h, t)
            /\ ~(h = g /\ t = s) => spends'[h][t] = spends[h][t]
      /\ spends'[g][s].finalized /\ spends'[g][s].approved
      /\ spends'[g][s].reclaimed
  <2>0. spends[g][s] \in SpendRecord
    BY <1>t
  <2>1. PICK new \in SpendRecord :
            /\ new = [spends[g][s] EXCEPT !.reclaimed = TRUE]
            /\ new.payTo = spends[g][s].payTo
            /\ new.amount = spends[g][s].amount
            /\ new.validAfter = spends[g][s].validAfter
            /\ new.validBefore = spends[g][s].validBefore
            /\ new.decision = spends[g][s].decision
            /\ new.finalized = spends[g][s].finalized
            /\ new.approved = spends[g][s].approved /\ new.reclaimed = TRUE
    BY <1>t, <2>0, ReclaimedRecord
  <2>2. spends' = [spends EXCEPT ![g][s] = new]
    BY <1>t, <1>1, <2>1
  <2>3. /\ spends' \in [GoalIds -> [Seqs -> SpendRecord]]
        /\ spends'[g][s] = new
        /\ \A h \in GoalIds, t \in Seqs :
             ~(h = g /\ t = s) => spends'[h][t] = spends[h][t]
    BY <2>1, <2>2, <1>t
  <2>5. ASSUME NEW h \in GoalIds, NEW t \in Seqs PROVE SameTuple(h, t)
    BY <2>1, <2>3 DEF SameTuple
  <2> QED BY <2>1, <2>3, <2>5, <1>1 DEF Approved
<1>4. /\ remainingBudget' = [h \in GoalIds |-> remainingBudget'[h]]
      /\ \A h \in GoalIds : remainingBudget'[h] =
            IF h = g THEN remainingBudget[g] + spends[g][s].amount
                     ELSE remainingBudget[h]
  BY <1>t, <1>1
<1> QED BY <1>1, <1>2, <1>3, <1>4 DEF ReclaimPost

ClosePost(g) ==
  /\ goals' \in [GoalIds -> Goal]
  /\ \A h \in GoalIds :
       /\ SameIdentity(h)
       /\ goals'[h].callsRemaining = goals[h].callsRemaining
       /\ goals'[h].seq = goals[h].seq
       /\ h # g => goals'[h] = goals[h]
  /\ Opened(g)
  /\ UNCHANGED <<now, goalCount, perCallCap, remainingBudget, allowlisted,
                 spends, pendingSeq, attemptsRemaining, payerGoal, granted,
                 used, outflow>>

LEMMA CloseWrites ==
  ASSUME Structure, NEW caller \in Users, NEW g \in GoalIds, CloseGoal(caller, g)
  PROVE  ClosePost(g)
<1>1. goals \in [GoalIds -> Goal]
  BY DEF Structure, TypeOK
<1>2. /\ goals' = [goals EXCEPT ![g].open = FALSE]
      /\ Opened(g)
      /\ UNCHANGED <<now, goalCount, perCallCap, remainingBudget, allowlisted,
                     spends, pendingSeq, attemptsRemaining, payerGoal, granted,
                     used, outflow>>
  BY DEF CloseGoal, tokenVars
<1> QED BY <1>1, <1>2 DEF ClosePost, SameIdentity, Goal

TransferPost(g, s, payer) ==
  /\ g \in GoalIds /\ s \in Seqs
  /\ Opened(g) /\ Exists(g, s) /\ Approved(g, s) /\ <<g, s>> \notin used
  /\ now < spends[g][s].validBefore
  /\ payer = goals[g].payer /\ payer \in Payers
  /\ used' = used \cup {<<g, s>>}
  /\ outflow' \in [Payers -> Nat]
  /\ \A p \in Payers :
       outflow'[p] = IF p = payer THEN outflow[p] + spends[g][s].amount
                                  ELSE outflow[p]
  /\ UNCHANGED <<now, goalCount, goals, perCallCap, remainingBudget,
                 allowlisted, spends, pendingSeq, attemptsRemaining, payerGoal,
                 granted>>

LEMMA TransferWrites ==
  ASSUME Structure, NEW g \in GoalIds, NEW s \in Seqs,
         TransferWithAuthorization(g, s)
  PROVE  TransferPost(g, s, goals[g].payer)
<1>1. goals[g].payer \in Payers /\ Opened(g)
  BY DEF Structure, GoalShape, TransferWithAuthorization
<1>2. outflow \in [Payers -> Nat] /\ spends[g][s].amount \in Nat
  BY DEF Structure, TypeOK, SpendRecord
<1>3. outflow' = [outflow EXCEPT ![goals[g].payer] = @ + spends[g][s].amount]
  BY DEF TransferWithAuthorization
<1>4. outflow' \in [Payers -> Nat]
  BY <1>1, <1>2, <1>3
<1>5. \A p \in Payers :
        outflow'[p] = IF p = goals[g].payer THEN outflow[p] + spends[g][s].amount
                                            ELSE outflow[p]
  BY <1>1, <1>2, <1>3
<1> QED
  BY <1>1, <1>4, <1>5
  DEF TransferWithAuthorization, TransferPost, Signable, vaultVars

OpenPost(n, owner, payer, budget, calls, attempts, allowlist) ==
  /\ n = goalCount + 1 /\ n \in GoalIds /\ ~Opened(n)
  /\ payer \in Payers /\ payerGoal[payer] = 0
  /\ calls \in Seqs /\ attempts \in Seqs /\ attempts >= calls
  /\ goalCount' = n
  /\ TypeOK'
  /\ \A h \in GoalIds :
       IF h = n
       THEN /\ goals'[h].owner = owner /\ owner \in Users
            /\ goals'[h].payer = payer
            /\ goals'[h].callsRemaining = calls
            /\ goals'[h].seq = 0
            /\ attemptsRemaining'[h] = attempts
            /\ remainingBudget'[h] = budget /\ budget \in Nat
            /\ granted'[h].budget = budget
            /\ granted'[h].calls = calls
            /\ granted'[h].attempts = attempts
       ELSE /\ goals'[h] = goals[h]
            /\ attemptsRemaining'[h] = attemptsRemaining[h]
            /\ remainingBudget'[h] = remainingBudget[h]
            /\ granted'[h] = granted[h]
            /\ allowlisted'[h] = allowlisted[h]
            /\ perCallCap'[h] = perCallCap[h]
  /\ \A p \in Payers : payerGoal'[p] = IF p = payer THEN n ELSE payerGoal[p]
  /\ UNCHANGED <<now, spends, pendingSeq, used, outflow>>

LEMMA OpenWrites ==
  ASSUME Structure, NEW owner \in Users, NEW payer \in Payers,
         NEW relay \in Relays, NEW budget \in Budgets, NEW cap \in Caps,
         NEW calls \in Seqs, NEW attempts \in Seqs, NEW expiry \in Times,
         NEW allowlist \in SUBSET Payees,
         OpenGoal(owner, payer, relay, budget, cap, calls, attempts, expiry,
                  allowlist)
  PROVE  OpenPost(goalCount + 1, owner, payer, budget, calls, attempts, allowlist)
<1> USE DataAssumption, BoundAssumption, AddressAssumption
<1> DEFINE n == goalCount + 1
           goal == [owner |-> owner, payer |-> payer, relay |-> relay,
                    callsRemaining |-> calls, expiry |-> expiry, seq |-> 0,
                    open |-> TRUE]
           grant == [budget |-> budget, calls |-> calls, attempts |-> attempts]
<1>1. n \in GoalIds /\ ~Opened(n) /\ n \in 0..MaxGoals
  <2>1. goalCount \in 0..MaxGoals /\ goalCount < MaxGoals
    BY DEF Structure, TypeOK, OpenGoal
  <2>2. n \in GoalIds /\ n \in 0..MaxGoals /\ ~(n <= goalCount)
    BY <2>1 DEF GoalIds
  <2> QED BY <2>2 DEF Structure, GoalShape
<1>2. /\ goal \in Goal
      /\ grant \in [budget : Nat, calls : 0..MaxAttempts, attempts : 0..MaxAttempts]
      /\ budget \in Nat /\ cap \in Nat /\ attempts \in 0..MaxAttempts
      /\ calls \in Nat
  BY DEF Goal, Seqs
<1>3. /\ goalCount' = n
      /\ remainingBudget' = [remainingBudget EXCEPT ![n] = budget]
      /\ perCallCap' = [perCallCap EXCEPT ![n] = cap]
      /\ goals' = [goals EXCEPT ![n] = goal]
      /\ attemptsRemaining' = [attemptsRemaining EXCEPT ![n] = attempts]
      /\ payerGoal' = [payerGoal EXCEPT ![payer] = n]
      /\ allowlisted' = [allowlisted EXCEPT ![n] = allowlist]
      /\ granted' = [granted EXCEPT ![n] = grant]
      /\ payerGoal[payer] = 0
      /\ attempts >= calls
      /\ UNCHANGED <<now, spends, pendingSeq, used, outflow>>
  BY DEF OpenGoal, PayerIsFree, tokenVars
<1> HIDE DEF n
<1>4. TypeOK'
  <2>1. TypeOK
    BY DEF Structure
  <2>2. goalCount' \in 0..MaxGoals /\ goals' \in [GoalIds -> Goal]
    BY <1>1, <1>2, <1>3, <2>1 DEF TypeOK
  <2>3. /\ perCallCap' \in [GoalIds -> Nat]
        /\ remainingBudget' \in [GoalIds -> Nat]
        /\ allowlisted' \in [GoalIds -> SUBSET Payees]
    BY <1>1, <1>2, <1>3, <2>1 DEF TypeOK
  <2>4. /\ attemptsRemaining' \in [GoalIds -> 0..MaxAttempts]
        /\ payerGoal' \in [Payers -> 0..MaxGoals]
    BY <1>1, <1>2, <1>3, <2>1 DEF TypeOK
  <2>5. granted' \in [GoalIds -> [budget : Nat, calls : 0..MaxAttempts,
                                  attempts : 0..MaxAttempts]]
    BY <1>1, <1>2, <1>3, <2>1 DEF TypeOK
  <2> QED BY <1>3, <2>1, <2>2, <2>3, <2>4, <2>5 DEF TypeOK
<1>5. \A h \in GoalIds :
        /\ goals'[h] = IF h = n THEN goal ELSE goals[h]
        /\ granted'[h] = IF h = n THEN grant ELSE granted[h]
        /\ attemptsRemaining'[h] = IF h = n THEN attempts ELSE attemptsRemaining[h]
        /\ remainingBudget'[h] = IF h = n THEN budget ELSE remainingBudget[h]
        /\ h # n => /\ allowlisted'[h] = allowlisted[h]
                    /\ perCallCap'[h] = perCallCap[h]
  BY <1>1, <1>3 DEF Structure, TypeOK
<1>6. \A p \in Payers : payerGoal'[p] = IF p = payer THEN n ELSE payerGoal[p]
  BY <1>3 DEF Structure, TypeOK
<1> QED BY <1>1, <1>2, <1>3, <1>4, <1>5, <1>6 DEF OpenPost, n

-----------------------------------------------------------------------------
(* Structure is preserved by every step.                                   *)

LEMMA BoundGoal ==
  ASSUME Structure
  PROVE  \A p \in Payers : payerGoal[p] # 0 => payerGoal[p] \in GoalIds
BY BoundAssumption DEF Structure, TypeOK, GoalIds

LEMMA RequestStructure ==
  ASSUME Structure, NEW g \in GoalIds, NEW s, NEW amount, NEW payTo, NEW ok,
         RequestPost(g, s, amount, payTo, ok)
  PROVE  Structure'
<1> USE DEF RequestPost
<1>0. TypeOK /\ goals[g].seq \in Nat /\ \A h \in GoalIds : goals[h].seq \in Nat
  BY DEF Structure, TypeOK, Goal
<1>1. TypeOK'
  <2>1. remainingBudget' \in [GoalIds -> Nat]
    <3>1. \A h \in GoalIds : remainingBudget'[h] \in Nat
      BY <1>0 DEF TypeOK
    <3> QED BY <3>1
  <2>2. pendingSeq' \in [GoalIds -> 0..MaxAttempts]
    <3>1. \A h \in GoalIds : pendingSeq'[h] \in 0..MaxAttempts
      <4> SUFFICES ASSUME NEW h \in GoalIds
                   PROVE  pendingSeq'[h] \in 0..MaxAttempts
        OBVIOUS
      <4>1. pendingSeq'[h] = (IF h = g THEN s ELSE pendingSeq[h]) /\ s \in Seqs
        OBVIOUS
      <4>2. pendingSeq[h] \in 0..MaxAttempts
        BY <1>0 DEF TypeOK
      <4> HIDE DEF RequestPost
      <4> QED BY <4>1, <4>2 DEF Seqs
    <3> QED BY <3>1
  <2>3. attemptsRemaining' \in [GoalIds -> 0..MaxAttempts]
    <3>1. \A h \in GoalIds : attemptsRemaining'[h] \in 0..MaxAttempts
      <4> SUFFICES ASSUME NEW h \in GoalIds
                   PROVE  attemptsRemaining'[h] \in 0..MaxAttempts
        OBVIOUS
      <4>1. /\ attemptsRemaining'[h] = IF h = g THEN attemptsRemaining[g] - 1
                                                ELSE attemptsRemaining[h]
            /\ attemptsRemaining[g] > 0
        OBVIOUS
      <4>2. /\ attemptsRemaining[h] \in 0..MaxAttempts
            /\ attemptsRemaining[g] \in 0..MaxAttempts
        BY <1>0 DEF TypeOK
      <4> HIDE DEF RequestPost
      <4> QED BY <4>1, <4>2, BoundAssumption
    <3> QED BY <3>1
  <2> QED BY <1>0, <2>1, <2>2, <2>3 DEF TypeOK
<1>2. GoalShape'
  <2>1. \A h \in GoalIds : Opened(h)' <=> Opened(h)
    BY DEF Opened, SameIdentity
  <2>2. \A p \in Payers : payerGoal[p] # 0 => payerGoal[p] \in GoalIds
    BY BoundGoal
  <2>3. \A h \in GoalIds : ~Opened(h) => goals'[h] = goals[h]
    OBVIOUS
  <2> QED BY <1>0, <2>1, <2>2, <2>3, SMTT(30) DEF Structure, GoalShape, SameIdentity
<1>3. StrictlySequential'
  <2> SUFFICES ASSUME NEW h \in GoalIds
      PROVE  /\ \A t \in Seqs : Exists(h, t)' <=> t <= goals'[h].seq
             /\ \A t \in Seqs :
                  (Exists(h, t)' /\ ~spends'[h][t].finalized) <=> t = pendingSeq'[h]
             /\ pendingSeq'[h] \in {0, goals'[h].seq}
    BY DEF StrictlySequential, Exists
  <2>1. CASE h # g
    <3>1. /\ \A t \in Seqs : spends'[h][t] = spends[h][t]
          /\ goals'[h] = goals[h] /\ pendingSeq'[h] = pendingSeq[h]
      BY <2>1
    <3> HIDE DEF RequestPost
    <3> QED BY <3>1 DEF Structure, StrictlySequential, Exists
  <2>2. CASE h = g
    <3>1. \A t \in Seqs : /\ Exists(g, t) <=> t <= goals[g].seq
                          /\ ~(Exists(g, t) /\ ~spends[g][t].finalized)
      BY DEF Structure, StrictlySequential, Seqs
    <3>2. \A t \in Seqs : t # s =>
            /\ Exists(g, t)' <=> Exists(g, t)
            /\ spends'[g][t].finalized = spends[g][t].finalized
      BY DEF Exists
    <3>3. Exists(g, s)' /\ ~spends'[g][s].finalized
      BY DEF Exists
    <3> QED BY <2>2, <3>1, <3>2, <3>3, <1>0, SMTT(30) DEF Seqs
  <2> QED BY <2>1, <2>2
<1>4. AttemptsConserved'
  <2> SUFFICES ASSUME NEW h \in GoalIds
      PROVE  attemptsRemaining'[h] + goals'[h].seq = granted'[h].attempts
    BY DEF AttemptsConserved
  <2>1. attemptsRemaining[h] \in Nat /\ attemptsRemaining[g] \in Nat
    BY <1>0 DEF TypeOK
  <2>2. /\ attemptsRemaining[h] + goals[h].seq = granted[h].attempts
        /\ granted'[h] = granted[h]
    BY DEF Structure, AttemptsConserved, SameIdentity
  <2>3. /\ attemptsRemaining'[h] = IF h = g THEN attemptsRemaining[g] - 1
                                            ELSE attemptsRemaining[h]
        /\ goals'[h].seq = IF h = g THEN s ELSE goals[h].seq
        /\ s = goals[g].seq + 1
    OBVIOUS
  <2> HIDE DEF RequestPost
  <2> QED BY <1>0, <2>1, <2>2, <2>3
<1> QED BY <1>1, <1>2, <1>3, <1>4 DEF Structure

LEMMA FinalizeStructure ==
  ASSUME Structure, NEW g \in GoalIds, NEW s, NEW ok, FinalizePost(g, s, ok)
  PROVE  Structure'
<1> USE DEF FinalizePost
<1>0. TypeOK
  BY DEF Structure
<1>1. TypeOK'
  <2>1. ASSUME NEW h \in GoalIds PROVE pendingSeq'[h] \in 0..MaxAttempts
    <3>1. pendingSeq'[h] = IF h = g THEN 0 ELSE pendingSeq[h]
      OBVIOUS
    <3>2. pendingSeq[h] \in 0..MaxAttempts
      BY <1>0 DEF TypeOK
    <3> HIDE DEF FinalizePost
    <3> QED BY <3>1, <3>2, BoundAssumption
  <2>2. pendingSeq' \in [GoalIds -> 0..MaxAttempts]
    BY <2>1
  <2> QED BY <1>0, <2>2 DEF TypeOK
<1>2. GoalShape'
  <2>1. \A h \in GoalIds : Opened(h)' <=> Opened(h)
    BY DEF Opened, SameIdentity
  <2>2. \A p \in Payers : payerGoal[p] # 0 => payerGoal[p] \in GoalIds
    BY BoundGoal
  <2>3. Opened(g)
    BY <1>0, BoundAssumption
    DEF Structure, StrictlySequential, GoalShape, NoGoal, Seqs
  <2>4. \A h \in GoalIds : ~Opened(h) => goals'[h] = goals[h]
    BY <2>3
  <2> QED BY <1>0, <2>1, <2>2, <2>4 DEF Structure, GoalShape, SameIdentity
<1>3. StrictlySequential'
  <2> SUFFICES ASSUME NEW h \in GoalIds
      PROVE  /\ \A t \in Seqs : Exists(h, t)' <=> t <= goals'[h].seq
             /\ \A t \in Seqs :
                  (Exists(h, t)' /\ ~spends'[h][t].finalized) <=> t = pendingSeq'[h]
             /\ pendingSeq'[h] \in {0, goals'[h].seq}
    BY DEF StrictlySequential, Exists
  <2>1. \A t \in Seqs : Exists(h, t)' <=> Exists(h, t)
    BY DEF Exists, SameTuple
  <2>2. CASE h # g
    <3>1. /\ \A t \in Seqs : spends'[h][t] = spends[h][t]
          /\ goals'[h] = goals[h] /\ pendingSeq'[h] = pendingSeq[h]
      BY <2>2
    <3> HIDE DEF FinalizePost
    <3> QED BY <3>1 DEF Structure, StrictlySequential, Exists
  <2>3. CASE h = g
    <3>1. \A t \in Seqs : (Exists(g, t) /\ ~spends[g][t].finalized) <=> t = s
      BY DEF Structure, StrictlySequential
    <3>2. \A t \in Seqs : Exists(g, t) <=> t <= goals[g].seq
      BY DEF Structure, StrictlySequential
    <3>3. /\ pendingSeq'[g] = 0 /\ goals'[g].seq = goals[g].seq
          /\ spends'[g][s].finalized
          /\ \A t \in Seqs : t # s =>
                spends'[g][t].finalized = spends[g][t].finalized
      OBVIOUS
    <3> HIDE DEF FinalizePost
    <3> QED BY <2>1, <2>3, <3>1, <3>2, <3>3 DEF Seqs
  <2> QED BY <2>2, <2>3
<1>4. AttemptsConserved'
  BY DEF Structure, AttemptsConserved, SameIdentity
<1> QED BY <1>1, <1>2, <1>3, <1>4 DEF Structure

LEMMA ReclaimStructure ==
  ASSUME Structure, NEW g \in GoalIds, NEW s, ReclaimPost(g, s)
  PROVE  Structure'
<1> USE DEF ReclaimPost
<1>0. TypeOK
  BY DEF Structure
<1>1. TypeOK'
  <2>1. ASSUME NEW h \in GoalIds PROVE remainingBudget'[h] \in Nat
    <3>1. remainingBudget'[h] =
             IF h = g THEN remainingBudget[g] + spends[g][s].amount
                      ELSE remainingBudget[h]
      OBVIOUS
    <3>2. /\ remainingBudget[h] \in Nat /\ remainingBudget[g] \in Nat
          /\ spends[g][s].amount \in Nat
      BY <1>0 DEF TypeOK, SpendRecord
    <3> HIDE DEF ReclaimPost
    <3> QED BY <3>1, <3>2
  <2>2. remainingBudget' \in [GoalIds -> Nat]
    BY <2>1
  <2> QED BY <1>0, <2>2 DEF TypeOK
<1>2. GoalShape'
  <2>1. \A h \in GoalIds : Opened(h)' <=> Opened(h)
    BY DEF Opened, SameIdentity
  <2>2. \A p \in Payers : payerGoal[p] # 0 => payerGoal[p] \in GoalIds
    BY BoundGoal
  <2>3. /\ \A h \in GoalIds : ~Opened(h) => goals'[h] = goals[h]
        /\ \A h \in GoalIds : /\ goals'[h].payer = goals[h].payer
                              /\ granted'[h] = granted[h]
        /\ UNCHANGED <<goalCount, payerGoal, outflow>>
    BY DEF SameIdentity
  <2> HIDE DEF ReclaimPost
  <2> QED BY <2>1, <2>2, <2>3 DEF Structure, GoalShape
<1>3. StrictlySequential'
  <2>1. \A h \in GoalIds, t \in Seqs :
          /\ Exists(h, t)' <=> Exists(h, t)
          /\ spends'[h][t].finalized <=> spends[h][t].finalized
    BY DEF Exists, SameTuple, Approved
  <2>2. /\ pendingSeq' = pendingSeq
        /\ \A h \in GoalIds : goals'[h].seq = goals[h].seq
    OBVIOUS
  <2> HIDE DEF ReclaimPost
  <2> QED BY <2>1, <2>2 DEF Structure, StrictlySequential
<1>4. AttemptsConserved'
  BY DEF Structure, AttemptsConserved, SameIdentity
<1> QED BY <1>1, <1>2, <1>3, <1>4 DEF Structure

LEMMA TransferStructure ==
  ASSUME Structure, NEW g, NEW s, NEW payer, TransferPost(g, s, payer)
  PROVE  Structure'
<1> USE DEF TransferPost
<1>1. TypeOK'
  BY DEF Structure, TypeOK
<1>2. GoalShape'
  <2>1. payerGoal[payer] = g /\ g # 0
    BY DEF Structure, GoalShape, GoalIds
  <2>2. \A p \in Payers : p # payer => outflow'[p] = outflow[p]
    OBVIOUS
  <2> QED BY <2>1, <2>2 DEF Structure, GoalShape, Opened
<1>3. StrictlySequential' /\ AttemptsConserved'
  BY DEF Structure, StrictlySequential, AttemptsConserved, Exists
<1> QED BY <1>1, <1>2, <1>3 DEF Structure

LEMMA CloseStructure ==
  ASSUME Structure, NEW g, ClosePost(g)
  PROVE  Structure'
<1> USE DEF ClosePost
<1>1. TypeOK'
  BY DEF Structure, TypeOK
<1>2. GoalShape'
  <2>1. \A h \in GoalIds : Opened(h)' <=> Opened(h)
    BY DEF Opened, SameIdentity
  <2>2. \A p \in Payers : payerGoal[p] # 0 => payerGoal[p] \in GoalIds
    BY BoundGoal
  <2>3. \A h \in GoalIds : ~Opened(h) => goals'[h] = goals[h]
    OBVIOUS
  <2> QED BY <2>1, <2>2, <2>3 DEF Structure, GoalShape, SameIdentity
<1>3. StrictlySequential' /\ AttemptsConserved'
  BY DEF Structure, StrictlySequential, AttemptsConserved, Exists, SameIdentity
<1> QED BY <1>1, <1>2, <1>3 DEF Structure

LEMMA OpenStructure ==
  ASSUME Structure, NEW n, NEW owner, NEW payer, NEW budget, NEW calls,
         NEW attempts, NEW allowlist,
         OpenPost(n, owner, payer, budget, calls, attempts, allowlist)
  PROVE  Structure'
<1> USE DEF OpenPost
<1>0. TypeOK /\ goals[n] = NoGoal /\ owner # Nobody /\ n # 0
      /\ granted[n].attempts = 0
  BY AddressAssumption DEF Structure, GoalShape, GoalIds
<1>1. \A h \in GoalIds : Opened(h)' <=> (h = n \/ Opened(h))
  BY <1>0 DEF Opened
<1>2. GoalShape'
  <2>1. \A p \in Payers : payerGoal[p] # 0 => payerGoal[p] \in GoalIds
    BY BoundGoal
  <2>2. \A h \in GoalIds : (h = n \/ Opened(h)) <=> h <= goalCount'
    BY <1>0 DEF Structure, GoalShape, TypeOK, GoalIds
  <2>3. ASSUME NEW h \in GoalIds
        PROVE  /\ Opened(h)' <=> h <= goalCount'
               /\ ~Opened(h)' => goals'[h] = NoGoal /\ granted'[h].attempts = 0
                                /\ granted'[h].calls = 0
               /\ Opened(h)' => /\ goals'[h].payer \in Payers
                                /\ payerGoal'[goals'[h].payer] = h
    <3>1. CASE h = n
      BY <3>1, <2>2, <1>1
    <3>2. CASE h # n
      <4>1. Opened(h) => goals[h].payer # payer
        BY <3>2, <1>0 DEF Structure, GoalShape, GoalIds
      <4> QED BY <3>2, <4>1, <2>2, <1>1 DEF Structure, GoalShape
    <3> QED BY <3>1, <3>2
  <2>4. ASSUME NEW p \in Payers
        PROVE  /\ payerGoal'[p] # 0 => /\ Opened(payerGoal[p])'
                                       /\ goals'[payerGoal'[p]].payer = p
               /\ payerGoal'[p] = 0 => outflow'[p] = 0
    <3>1. CASE p = payer
      BY <3>1, <1>0, <1>1 DEF Opened
    <3>2. CASE p # payer
      <4>1. payerGoal'[p] = payerGoal[p] /\ payerGoal[p] # n
        BY <3>2 DEF Structure, GoalShape, GoalIds
      <4>2. CASE payerGoal[p] = 0
        BY <4>1, <4>2 DEF Structure, GoalShape
      <4>3. CASE payerGoal[p] # 0
        <5>1. payerGoal[p] \in GoalIds /\ Opened(payerGoal[p])
              /\ goals[payerGoal[p]].payer = p
          BY <4>3, <2>1 DEF Structure, GoalShape
        <5>2. goals'[payerGoal[p]] = goals[payerGoal[p]]
          BY <5>1, <4>1
        <5> QED BY <4>1, <4>3, <5>1, <5>2 DEF Opened
      <4> QED BY <4>2, <4>3
    <3> QED BY <3>1, <3>2
  <2> QED BY <2>3, <2>4 DEF GoalShape, Opened
<1>3. \A t \in Seqs : ~Exists(n, t)
  BY <1>0 DEF Structure, StrictlySequential, NoGoal, Seqs
<1>4. StrictlySequential'
  <2>1. pendingSeq[n] = 0
    BY <1>0 DEF Structure, StrictlySequential, NoGoal
  <2>2. \A h \in GoalIds, t \in Seqs : Exists(h, t)' <=> Exists(h, t)
    BY DEF Exists
  <2> QED BY <2>1, <2>2, <1>3, <1>0 DEF Structure, StrictlySequential, Seqs
<1>5. AttemptsConserved'
  <2> SUFFICES ASSUME NEW h \in GoalIds
      PROVE  attemptsRemaining'[h] + goals'[h].seq = granted'[h].attempts
    BY DEF AttemptsConserved
  <2>1. CASE h = n
    BY <2>1, BoundAssumption DEF Seqs
  <2>2. CASE h # n
    BY <2>2 DEF Structure, AttemptsConserved
  <2> QED BY <2>1, <2>2
<1> QED BY <1>2, <1>4, <1>5 DEF Structure

-----------------------------------------------------------------------------
(* Records: what the flags of a spend say about one another.               *)

RecordOK(g, s) ==
  /\ spends[g][s].decision =>
       /\ Exists(g, s)
       /\ spends[g][s].payTo \in allowlisted[g]
       /\ spends[g][s].amount <= perCallCap[g]
  /\ spends[g][s].finalized =>
       /\ Exists(g, s)
       /\ spends[g][s].approved = spends[g][s].decision
  /\ ~spends[g][s].finalized => ~spends[g][s].approved /\ ~spends[g][s].reclaimed
  /\ spends[g][s].reclaimed =>
       /\ spends[g][s].approved
       /\ now >= spends[g][s].validBefore
       /\ <<g, s>> \notin used
  /\ <<g, s>> \in used => Approved(g, s)

Records == \A g \in GoalIds, s \in Seqs : RecordOK(g, s)

LEMMA InitRecords == Init => Records
  BY DEF Init, Records, RecordOK, Exists, Approved, NoSpend

LEMMA RequestRecords ==
  ASSUME Structure, Records, NEW g \in GoalIds, NEW s, NEW amount, NEW payTo,
         NEW ok, RequestPost(g, s, amount, payTo, ok)
  PROVE  Records'
<1> USE DEF RequestPost
<1> SUFFICES ASSUME NEW h \in GoalIds, NEW r \in Seqs PROVE RecordOK(h, r)'
  BY DEF Records
<1>1. CASE h = g /\ r = s
  <2>1. ~Exists(g, s)
    BY DEF Structure, StrictlySequential, TypeOK, Goal
  <2>2. <<g, s>> \notin used
    BY <2>1 DEF Records, RecordOK, Approved
  <2>3. Exists(g, s)' /\ ~Approved(g, s)'
    BY DEF Exists, Approved
  <2>4. ok => payTo \in allowlisted'[g] /\ amount <= perCallCap'[g]
    OBVIOUS
  <2> QED BY <1>1, <2>2, <2>3, <2>4 DEF RecordOK
<1>2. CASE ~(h = g /\ r = s)
  <2>1. /\ spends'[h][r] = spends[h][r]
        /\ UNCHANGED <<now, used, allowlisted, perCallCap>>
    BY <1>2
  <2>2. RecordOK(h, r)
    BY DEF Records
  <2> HIDE DEF RequestPost
  <2> QED BY <2>1, <2>2 DEF RecordOK, Exists, Approved
<1> QED BY <1>1, <1>2

LEMMA FinalizeRecords ==
  ASSUME Structure, Records, NEW g \in GoalIds, NEW s, NEW ok,
         FinalizePost(g, s, ok)
  PROVE  Records'
<1> USE DEF FinalizePost
<1> SUFFICES ASSUME NEW h \in GoalIds, NEW r \in Seqs PROVE RecordOK(h, r)'
  BY DEF Records
<1>0. RecordOK(h, r) /\ UNCHANGED <<now, used, allowlisted, perCallCap>>
  BY DEF Records
<1>1. CASE h = g /\ r = s
  <2>1. /\ SameTuple(g, s) /\ spends'[g][s].finalized
        /\ spends'[g][s].approved = spends[g][s].decision
        /\ spends'[g][s].reclaimed = spends[g][s].reclaimed
        /\ ~spends[g][s].finalized /\ Exists(g, s)
    OBVIOUS
  <2> HIDE DEF FinalizePost
  <2> QED BY <1>0, <1>1, <2>1 DEF RecordOK, Exists, Approved, SameTuple
<1>2. CASE ~(h = g /\ r = s)
  <2>1. spends'[h][r] = spends[h][r]
    BY <1>2
  <2> HIDE DEF FinalizePost
  <2> QED BY <1>0, <2>1 DEF RecordOK, Exists, Approved
<1> QED BY <1>1, <1>2

LEMMA ReclaimRecords ==
  ASSUME Structure, Records, NEW g \in GoalIds, NEW s, ReclaimPost(g, s)
  PROVE  Records'
<1> USE DEF ReclaimPost
<1> SUFFICES ASSUME NEW h \in GoalIds, NEW r \in Seqs PROVE RecordOK(h, r)'
  BY DEF Records
<1>0. RecordOK(h, r) /\ UNCHANGED <<now, used, allowlisted, perCallCap>>
  BY DEF Records
<1>1. CASE h = g /\ r = s
  <2>1. /\ SameTuple(g, s) /\ spends'[g][s].finalized
        /\ spends'[g][s].approved /\ spends'[g][s].reclaimed
        /\ Approved(g, s) /\ Exists(g, s) /\ <<g, s>> \notin used
        /\ now >= spends[g][s].validBefore
    OBVIOUS
  <2>2. spends'[g][s].approved = spends[g][s].approved
    <3>1. spends \in [GoalIds -> [Seqs -> SpendRecord]]
          /\ spends' \in [GoalIds -> [Seqs -> SpendRecord]] /\ s \in Seqs
      BY DEF Structure, TypeOK
    <3>2. spends[g][s].approved \in BOOLEAN /\ spends'[g][s].approved \in BOOLEAN
      BY <3>1 DEF SpendRecord
    <3> HIDE DEF ReclaimPost
    <3> QED BY <2>1, <3>2 DEF Approved
  <2> HIDE DEF ReclaimPost
  <2> QED BY <1>0, <1>1, <2>1, <2>2 DEF RecordOK, Exists, Approved, SameTuple
<1>2. CASE ~(h = g /\ r = s)
  <2>1. spends'[h][r] = spends[h][r]
    BY <1>2
  <2> HIDE DEF ReclaimPost
  <2> QED BY <1>0, <2>1 DEF RecordOK, Exists, Approved
<1> QED BY <1>1, <1>2

LEMMA TransferRecords ==
  ASSUME Structure, Records, NEW g, NEW s, NEW payer, TransferPost(g, s, payer)
  PROVE  Records'
<1> USE DEF TransferPost
<1> SUFFICES ASSUME NEW h \in GoalIds, NEW r \in Seqs PROVE RecordOK(h, r)'
  BY DEF Records
<1>0. /\ RecordOK(h, r)
      /\ UNCHANGED <<now, spends, allowlisted, perCallCap>>
      /\ used' = used \cup {<<g, s>>}
  BY DEF Records
<1>1. CASE h = g /\ r = s
  <2>1. ~spends[g][s].reclaimed
    <3>1. spends[g][s].validBefore \in Int /\ now \in Int
      BY BoundAssumption DEF Structure, TypeOK, SpendRecord, Times
    <3> QED BY <1>0, <1>1, <3>1 DEF RecordOK
  <2> QED BY <1>0, <1>1, <2>1 DEF RecordOK, Exists, Approved
<1>2. CASE ~(h = g /\ r = s)
  <2>1. <<h, r>> \in used' <=> <<h, r>> \in used
    BY <1>0, <1>2
  <2> HIDE DEF TransferPost
  <2> QED BY <1>0, <2>1 DEF RecordOK, Exists, Approved
<1> QED BY <1>1, <1>2

LEMMA OpenRecords ==
  ASSUME Structure, Records, NEW n, NEW owner, NEW payer, NEW budget,
         NEW calls, NEW attempts, NEW allowlist,
         OpenPost(n, owner, payer, budget, calls, attempts, allowlist)
  PROVE  Records'
<1> USE DEF OpenPost
<1> SUFFICES ASSUME NEW h \in GoalIds, NEW r \in Seqs PROVE RecordOK(h, r)'
  BY DEF Records
<1>0. RecordOK(h, r) /\ UNCHANGED <<now, spends, used>>
  BY DEF Records
<1>1. CASE h = n
  <2>1. ~Exists(n, r)
    BY DEF Structure, StrictlySequential, GoalShape, NoGoal, Seqs
  <2> QED BY <1>0, <1>1, <2>1 DEF RecordOK, Exists, Approved
<1>2. CASE h # n
  BY <1>0, <1>2 DEF RecordOK, Exists, Approved
<1> QED BY <1>1, <1>2

LEMMA TickRecords ==
  ASSUME Structure, Records, Tick
  PROVE  Structure' /\ Records'
<1>1. /\ now' = now + 1 /\ now \in Int /\ now < MaxTime
      /\ UNCHANGED <<goalCount, goals, perCallCap, remainingBudget, allowlisted,
                     spends, pendingSeq, attemptsRemaining, payerGoal, granted,
                     used, outflow>>
  BY BoundAssumption DEF Tick, vaultVars, tokenVars, Structure, TypeOK, Times
<1>2. TypeOK'
  BY <1>1, BoundAssumption DEF Structure, TypeOK, Times
<1>3. Structure'
  BY <1>1, <1>2 DEF Structure, GoalShape, StrictlySequential,
     AttemptsConserved, Opened, Exists
<1>4. ASSUME NEW h \in GoalIds, NEW r \in Seqs PROVE RecordOK(h, r)'
  <2>1. RecordOK(h, r) /\ spends[h][r].validBefore \in Int
    BY DEF Records, Structure, TypeOK, SpendRecord
  <2> QED BY <1>1, <2>1 DEF RecordOK, Exists, Approved
<1> QED BY <1>3, <1>4 DEF Records

LEMMA CloseRecords ==
  ASSUME Records, NEW g, ClosePost(g)
  PROVE  Records'
BY ZenonT(60) DEF ClosePost, Records, RecordOK, Exists, Approved

-----------------------------------------------------------------------------
(* Calls: the public call count against the approved spends.               *)

Calls == CallsConserved /\ FinalizeNeverReverts

LEMMA ChargedFinite ==
  ASSUME NEW g
  PROVE  IsFiniteSet(Charged(g)) /\ Cardinality(Charged(g)) \in Nat
<1>1. IsFiniteSet(Seqs)
  BY FS_Interval, BoundAssumption DEF Seqs
<1>2. Charged(g) \subseteq Seqs
  BY DEF Charged
<1> QED BY <1>1, <1>2, FS_Subset, FS_CardinalityType

LEMMA InitCalls == Init => Calls
<1> SUFFICES ASSUME Init PROVE Calls
  OBVIOUS
<1>1. \A g \in GoalIds : Charged(g) = {}
  BY DEF Init, Charged, Approved, NoSpend
<1>2. CallsConserved
  <2>1. ASSUME NEW g \in GoalIds
        PROVE  goals[g].callsRemaining + Cardinality(Charged(g)) = granted[g].calls
    <3>1. Cardinality(Charged(g)) = 0
      BY <1>1, FS_EmptySet
    <3>2. goals[g].callsRemaining = 0 /\ granted[g].calls = 0
      BY DEF Init, NoGoal
    <3> QED BY <3>1, <3>2
  <2> QED BY <2>1 DEF CallsConserved
<1>3. FinalizeNeverReverts
  BY DEF Init, FinalizeNeverReverts, Exists, NoSpend
<1> QED BY <1>2, <1>3 DEF Calls

\* A step that changes neither a goal's charges nor its counts keeps Calls.
LEMMA SameCalls ==
  ASSUME Calls, NEW h \in GoalIds, Charged(h)' = Charged(h),
         goals'[h].callsRemaining = goals[h].callsRemaining,
         granted'[h] = granted[h]
  PROVE  goals'[h].callsRemaining + Cardinality(Charged(h)') = granted'[h].calls
BY DEF Calls, CallsConserved

LEMMA RequestCalls ==
  ASSUME Structure, Records, Calls, NEW g \in GoalIds, NEW s, NEW amount,
         NEW payTo, NEW ok, RequestPost(g, s, amount, payTo, ok)
  PROVE  Calls'
<1>1. ASSUME NEW h \in GoalIds
      PROVE  goals'[h].callsRemaining + Cardinality(Charged(h)') = granted'[h].calls
  <2>1. ~Exists(g, s)
    BY DEF RequestPost, Structure, StrictlySequential, TypeOK, Goal
  <2>2. ~Approved(g, s)
    BY <2>1 DEF RequestPost, Records, RecordOK, Approved
  <2>3. \A r \in Seqs : /\ Approved(h, r)' <=> Approved(h, r)
                        /\ Approved(h, r) =>
                             spends'[h][r].reclaimed = spends[h][r].reclaimed
    BY <2>2 DEF RequestPost, Approved
  <2>4. Charged(h)' = Charged(h)
    BY <2>3 DEF Charged
  <2> QED BY <2>4, SameCalls DEF RequestPost, SameIdentity
<1>2. FinalizeNeverReverts'
  BY SMTT(30) DEF RequestPost, Calls, FinalizeNeverReverts, Exists
<1> QED BY <1>1, <1>2 DEF Calls, CallsConserved

LEMMA FinalizeCalls ==
  ASSUME Structure, Records, Calls, NEW g \in GoalIds, NEW s, NEW ok,
         FinalizePost(g, s, ok)
  PROVE  Calls'
<1>0. s \in Seqs /\ goals[g].callsRemaining \in Nat
  BY DEF FinalizePost, Structure, TypeOK, Goal
<1>1. ASSUME NEW h \in GoalIds
      PROVE  goals'[h].callsRemaining + Cardinality(Charged(h)') = granted'[h].calls
  <2>1. \A r \in Seqs : ~(h = g /\ r = s) => spends'[h][r] = spends[h][r]
    BY DEF FinalizePost
  <2>2. ~Approved(g, s) /\ (Approved(g, s)' <=> ok) /\ ~spends'[g][s].reclaimed
    BY DEF FinalizePost, Approved, Records, RecordOK
  <2>3. CASE h = g /\ ok
    <3>1. Charged(g)' = Charged(g) \cup {s} /\ s \notin Charged(g)
      BY <2>1, <2>2, <2>3, <1>0 DEF Charged, Approved
    <3>2. Cardinality(Charged(g)') = Cardinality(Charged(g)) + 1
      BY <3>1, ChargedFinite, FS_AddElement
    <3>3. /\ goals'[g].callsRemaining = goals[g].callsRemaining - 1
          /\ granted' = granted
      BY <2>3 DEF FinalizePost
    <3>4. goals[g].callsRemaining + Cardinality(Charged(g)) = granted[g].calls
      BY DEF Calls, CallsConserved
    <3>5. Cardinality(Charged(g)) \in Nat
      BY ChargedFinite
    <3> QED BY <2>3, <3>2, <3>3, <3>4, <3>5, <1>0
  <2>4. CASE ~(h = g /\ ok)
    <3>1. Charged(h)' = Charged(h)
      BY <2>1, <2>2, <2>4 DEF Charged, Approved
    <3> QED BY <2>4, <3>1, SameCalls DEF FinalizePost, SameIdentity
  <2> QED BY <2>3, <2>4
<1>2. FinalizeNeverReverts'
  <2> SUFFICES ASSUME NEW h \in GoalIds, NEW r \in Seqs, Exists(h, r)',
                      ~spends'[h][r].finalized, spends'[h][r].decision
      PROVE  goals'[h].callsRemaining >= 1
    BY DEF FinalizeNeverReverts, Exists
  <2>1. h # g
    <3>1. \A x \in Seqs : (Exists(g, x) /\ ~spends[g][x].finalized) => x = s
      BY DEF FinalizePost, Structure, StrictlySequential
    <3> QED BY <3>1 DEF FinalizePost, Exists, SameTuple
  <2>2. goals'[h] = goals[h] /\ spends'[h][r] = spends[h][r]
    BY <2>1 DEF FinalizePost
  <2> QED BY <2>2 DEF Calls, FinalizeNeverReverts, Exists
<1> QED BY <1>1, <1>2 DEF Calls, CallsConserved

LEMMA ReclaimCalls ==
  ASSUME Structure, Records, Calls, NEW g \in GoalIds, NEW s, ReclaimPost(g, s)
  PROVE  Calls'
<1>0. s \in Seqs /\ goals[g].callsRemaining \in Nat
  BY DEF ReclaimPost, Structure, TypeOK, Goal
<1>1. ASSUME NEW h \in GoalIds
      PROVE  goals'[h].callsRemaining + Cardinality(Charged(h)') = granted'[h].calls
  <2>1. \A r \in Seqs : ~(h = g /\ r = s) => spends'[h][r] = spends[h][r]
    BY DEF ReclaimPost
  <2>2. Approved(g, s) /\ ~spends[g][s].reclaimed /\ spends'[g][s].reclaimed
    BY DEF ReclaimPost
  <2>3. CASE h = g
    <3>1. Charged(g)' = Charged(g) \ {s} /\ s \in Charged(g)
      BY <2>1, <2>2, <2>3, <1>0 DEF Charged, Approved
    <3>2. Cardinality(Charged(g)') = Cardinality(Charged(g)) - 1
      BY <3>1, ChargedFinite, FS_RemoveElement
    <3>3. /\ goals'[g].callsRemaining = goals[g].callsRemaining + 1
          /\ granted' = granted
      BY <2>3 DEF ReclaimPost
    <3>4. goals[g].callsRemaining + Cardinality(Charged(g)) = granted[g].calls
      BY DEF Calls, CallsConserved
    <3>5. Cardinality(Charged(g)) \in Nat
      BY ChargedFinite
    <3> QED BY <2>3, <3>2, <3>3, <3>4, <3>5, <1>0
  <2>4. CASE h # g
    <3>1. Charged(h)' = Charged(h)
      BY <2>1, <2>4 DEF Charged, Approved
    <3> QED BY <2>4, <3>1, SameCalls DEF ReclaimPost, SameIdentity
  <2> QED BY <2>3, <2>4
<1>2. FinalizeNeverReverts'
  <2> SUFFICES ASSUME NEW h \in GoalIds, NEW r \in Seqs, Exists(h, r)',
                      ~spends'[h][r].finalized, spends'[h][r].decision
      PROVE  goals'[h].callsRemaining >= 1
    BY DEF FinalizeNeverReverts, Exists
  <2>1. /\ Exists(h, r) /\ spends[h][r].decision
        /\ ~spends[h][r].finalized
    BY DEF ReclaimPost, Exists, SameTuple
  <2>2. goals[h].callsRemaining >= 1 /\ goals[h].callsRemaining \in Nat
    BY <2>1 DEF Calls, FinalizeNeverReverts, Structure, TypeOK, Goal
  <2>3. goals'[h].callsRemaining = IF h = g THEN goals[g].callsRemaining + 1
                                             ELSE goals[h].callsRemaining
    BY DEF ReclaimPost
  <2> QED BY <2>2, <2>3
<1> QED BY <1>1, <1>2 DEF Calls, CallsConserved

LEMMA OpenCalls ==
  ASSUME Structure, Records, Calls, NEW n, NEW owner, NEW payer, NEW budget,
         NEW calls, NEW attempts, NEW allowlist,
         OpenPost(n, owner, payer, budget, calls, attempts, allowlist)
  PROVE  Calls'
<1>0. \A r \in Seqs : ~Exists(n, r)
  BY DEF OpenPost, Structure, StrictlySequential, GoalShape, NoGoal, Seqs
<1>1. ASSUME NEW h \in GoalIds
      PROVE  goals'[h].callsRemaining + Cardinality(Charged(h)') = granted'[h].calls
  <2>1. spends' = spends
    BY DEF OpenPost
  <2>2. Charged(h)' = Charged(h)
    BY <2>1 DEF Charged, Approved
  <2>3. CASE h = n
    <3>1. Charged(n) = {}
      BY <1>0 DEF OpenPost, Records, RecordOK, Charged, Approved
    <3>2. Cardinality(Charged(h)') = 0
      BY <2>2, <2>3, <3>1, FS_EmptySet
    <3>3. /\ goals'[h].callsRemaining = calls /\ granted'[h].calls = calls
          /\ calls \in Nat
      BY <2>3 DEF OpenPost, Seqs
    <3> QED BY <3>2, <3>3
  <2>4. CASE h # n
    BY <2>2, <2>4, SameCalls DEF OpenPost
  <2> QED BY <2>3, <2>4
<1>2. FinalizeNeverReverts'
  BY <1>0 DEF OpenPost, Calls, FinalizeNeverReverts, Exists
<1> QED BY <1>1, <1>2 DEF Calls, CallsConserved

\* Transfers, closing and the clock leave every call count alone.
LEMMA OtherCalls ==
  ASSUME Calls, spends' = spends, granted' = granted,
         \A h \in GoalIds : goals'[h].callsRemaining = goals[h].callsRemaining
  PROVE  Calls'
<1>1. \A h \in GoalIds : Charged(h)' = Charged(h)
  BY DEF Charged, Approved
<1> QED BY <1>1 DEF Calls, CallsConserved, FinalizeNeverReverts, Exists

-----------------------------------------------------------------------------
(* Accounts: the encrypted budget against the money that left the payer.   *)
(* The running total of a goal's held amounts is not a variable: it is the  *)
(* witness of an existential, rebuilt after every step.                     *)

\* acc is the running total of g's held amounts, and with it the books balance.
Balanced(acc, g) ==
  /\ acc \in [0..MaxAttempts -> Nat]
  /\ IsRunningTotal(acc, g)
  /\ \A i, j \in 0..MaxAttempts : i <= j => acc[i] <= acc[j]
  /\ remainingBudget[g] + acc[MaxAttempts] + outflow[goals[g].payer]
       = granted[g].budget

Accounts == \A g \in GoalIds : Opened(g) => \E acc : Balanced(acc, g)

\* What a spend holds is a natural number.
LEMMA HeldNat ==
  ASSUME Structure, NEW g \in GoalIds, NEW s \in Seqs
  PROVE  Held(g, s) \in Nat
BY DEF Held, Structure, TypeOK, SpendRecord

\* A step that changes no held amount and none of the three totals of a goal
\* leaves it balanced by the same running total.
LEMMA SameBalance ==
  ASSUME NEW h \in GoalIds, NEW acc, Balanced(acc, h),
         \A r \in Seqs : Held(h, r)' = Held(h, r),
         remainingBudget'[h] = remainingBudget[h],
         outflow'[goals'[h].payer] = outflow[goals[h].payer],
         granted'[h] = granted[h]
  PROVE  Balanced(acc, h)'
BY DEF Balanced, IsRunningTotal

\* Adding d to the spend at s, from the running total of a goal where s held 0.
LEMMA AddToTotal ==
  ASSUME NEW h \in GoalIds, NEW acc, NEW s \in Seqs, NEW d \in Nat,
         acc \in [0..MaxAttempts -> Nat], IsRunningTotal(acc, h),
         \A i, j \in 0..MaxAttempts : i <= j => acc[i] <= acc[j],
         \A r \in Seqs : Held(h, r) \in Nat,
         \A r \in Seqs : Held(h, r)' = IF r = s THEN Held(h, s) + d ELSE Held(h, r)
  PROVE  \E new \in [0..MaxAttempts -> Nat] :
           /\ IsRunningTotal(new, h)'
           /\ \A i, j \in 0..MaxAttempts : i <= j => new[i] <= new[j]
           /\ new[MaxAttempts] = acc[MaxAttempts] + d
<1> DEFINE new == [i \in 0..MaxAttempts |-> IF i >= s THEN acc[i] + d ELSE acc[i]]
<1>0. s \in 1..MaxAttempts /\ MaxAttempts \in Nat
  BY BoundAssumption DEF Seqs
<1>1. new \in [0..MaxAttempts -> Nat]
  BY <1>0
<1>2. new[0] = 0
  BY <1>0 DEF IsRunningTotal
<1>3. ASSUME NEW r \in Seqs PROVE new[r] = new[r - 1] + Held(h, r)'
  <2>1. /\ acc[r] = acc[r - 1] + Held(h, r) /\ r \in 1..MaxAttempts
        /\ r \in 0..MaxAttempts /\ r - 1 \in 0..MaxAttempts
    BY <1>0 DEF IsRunningTotal, Seqs
  <2>2. /\ new[r] = IF r >= s THEN acc[r] + d ELSE acc[r]
        /\ new[r - 1] = IF r - 1 >= s THEN acc[r - 1] + d ELSE acc[r - 1]
    BY <2>1
  <2>3. /\ acc[r] \in Nat /\ acc[r - 1] \in Nat /\ Held(h, r) \in Nat
        /\ Held(h, r)' = IF r = s THEN Held(h, r) + d ELSE Held(h, r)
    BY <2>1
  <2> HIDE DEF new
  <2> QED BY <1>0, <2>1, <2>2, <2>3
<1>4. ASSUME NEW i \in 0..MaxAttempts, NEW j \in 0..MaxAttempts, i <= j
      PROVE  new[i] <= new[j]
  <2>1. acc[i] <= acc[j] /\ acc[i] \in Nat /\ acc[j] \in Nat
    BY <1>4
  <2>2. /\ new[i] = IF i >= s THEN acc[i] + d ELSE acc[i]
        /\ new[j] = IF j >= s THEN acc[j] + d ELSE acc[j]
    OBVIOUS
  <2> HIDE DEF new
  <2> QED BY <1>0, <1>4, <2>1, <2>2
<1>5. new[MaxAttempts] = acc[MaxAttempts] + d
  BY <1>0
<1> HIDE DEF new
<1>6. IsRunningTotal(new, h)'
  BY <1>2, <1>3 DEF IsRunningTotal
<1> QED BY <1>1, <1>4, <1>5, <1>6

\* Releasing all that the spend at s held.
LEMMA ReleaseFromTotal ==
  ASSUME NEW h \in GoalIds, NEW acc, NEW s \in Seqs, NEW d, d = Held(h, s),
         acc \in [0..MaxAttempts -> Nat], IsRunningTotal(acc, h),
         \A i, j \in 0..MaxAttempts : i <= j => acc[i] <= acc[j],
         \A r \in Seqs : Held(h, r) \in Nat,
         \A r \in Seqs : Held(h, r)' = IF r = s THEN 0 ELSE Held(h, r)
  PROVE  \E new \in [0..MaxAttempts -> Nat] :
           /\ IsRunningTotal(new, h)'
           /\ \A i, j \in 0..MaxAttempts : i <= j => new[i] <= new[j]
           /\ new[MaxAttempts] = acc[MaxAttempts] - d
<1> DEFINE new == [i \in 0..MaxAttempts |-> IF i >= s THEN acc[i] - d ELSE acc[i]]
<1>0. s \in 1..MaxAttempts /\ MaxAttempts \in Nat
  BY BoundAssumption DEF Seqs
<1>d. /\ d \in Nat
      /\ s \in 0..MaxAttempts /\ s - 1 \in 0..MaxAttempts
      /\ acc[s] = acc[s - 1] + d
  BY <1>0 DEF IsRunningTotal
<1>e. \A r \in Seqs : Held(h, r)' = IF r = s THEN 0 ELSE Held(h, r)
  OBVIOUS
<1>f. \A r \in Seqs : acc[r] = acc[r - 1] + Held(h, r) /\ (r = s => Held(h, r) = d)
  BY DEF IsRunningTotal
<1>b. ASSUME NEW i \in 0..MaxAttempts, i >= s
      PROVE  acc[i] >= d /\ acc[i] - d >= acc[s - 1] /\ acc[i] - d \in Nat
  <2>1. acc[i] \in Nat /\ acc[s] \in Nat /\ acc[s - 1] \in Nat /\ acc[s] <= acc[i]
    BY <1>b, <1>d
  <2> QED BY <1>d, <2>1
<1>1. new \in [0..MaxAttempts -> Nat]
  BY <1>0, <1>b
<1>2. new[0] = 0
  BY <1>0 DEF IsRunningTotal
<1>3. ASSUME NEW r \in Seqs PROVE new[r] = new[r - 1] + Held(h, r)'
  <2>1. /\ acc[r] = acc[r - 1] + Held(h, r) /\ r \in 1..MaxAttempts
        /\ r \in 0..MaxAttempts /\ r - 1 \in 0..MaxAttempts
    BY <1>0, <1>f DEF Seqs
  <2>2. /\ new[r] = IF r >= s THEN acc[r] - d ELSE acc[r]
        /\ new[r - 1] = IF r - 1 >= s THEN acc[r - 1] - d ELSE acc[r - 1]
    BY <2>1
  <2>3. /\ acc[r] \in Nat /\ acc[r - 1] \in Nat /\ Held(h, r) \in Nat
        /\ Held(h, r)' = IF r = s THEN 0 ELSE Held(h, r)
        /\ r = s => Held(h, r) = d
    BY <2>1, <1>e, <1>f
  <2> HIDE DEF new
  <2> QED BY <1>0, <1>d, <2>1, <2>2, <2>3, SMTT(30)
<1>4. ASSUME NEW i \in 0..MaxAttempts, NEW j \in 0..MaxAttempts, i <= j
      PROVE  new[i] <= new[j]
  <2>1. acc[i] <= acc[j] /\ acc[i] \in Nat /\ acc[j] \in Nat
    BY <1>4
  <2>2. /\ new[i] = IF i >= s THEN acc[i] - d ELSE acc[i]
        /\ new[j] = IF j >= s THEN acc[j] - d ELSE acc[j]
    OBVIOUS
  <2>3. i < s => acc[i] <= acc[s - 1] /\ acc[s - 1] \in Nat
    BY <1>0, <1>d
  <2>4. j >= s => acc[j] - d >= acc[s - 1]
    BY <1>b
  <2> HIDE DEF new
  <2> QED BY <1>0, <1>4, <1>d, <2>1, <2>2, <2>3, <2>4
<1>5. new[MaxAttempts] = acc[MaxAttempts] - d
  BY <1>0
<1> HIDE DEF new
<1>6. IsRunningTotal(new, h)'
  BY <1>2, <1>3 DEF IsRunningTotal
<1> QED BY <1>1, <1>4, <1>5, <1>6

LEMMA TotalsNat ==
  ASSUME Structure, NEW h \in GoalIds, Opened(h),
         NEW acc \in [0..MaxAttempts -> Nat]
  PROVE  /\ remainingBudget[h] \in Nat /\ outflow[goals[h].payer] \in Nat
         /\ acc[MaxAttempts] \in Nat /\ granted[h].budget \in Nat
<1>1. remainingBudget[h] \in Nat /\ granted[h].budget \in Nat
  BY DEF Structure, TypeOK
<1>2. goals[h].payer \in Payers
  BY DEF Structure, GoalShape
<1>3. outflow[goals[h].payer] \in Nat
  BY <1>2 DEF Structure, TypeOK
<1>4. acc[MaxAttempts] \in Nat
  BY BoundAssumption
<1> QED BY <1>1, <1>3, <1>4

LEMMA RequestAccounts ==
  ASSUME Structure, Records, Accounts, NEW g \in GoalIds, NEW s, NEW amount,
         NEW payTo, NEW ok, RequestPost(g, s, amount, payTo, ok)
  PROVE  Accounts'
<1> SUFFICES ASSUME NEW h \in GoalIds, Opened(h)'
             PROVE  \E acc : Balanced(acc, h)'
  BY DEF Accounts, Balanced, IsRunningTotal, Held
<1>0. Opened(h) /\ Opened(g) /\ s \in Seqs /\ amount \in Nat
  BY DEF RequestPost, Opened, SameIdentity
<1>1. PICK acc : Balanced(acc, h)
  BY <1>0 DEF Accounts
<1>2. Held(g, s) = 0
  <2>1. ~Exists(g, s)
    BY DEF RequestPost, Structure, StrictlySequential, TypeOK, Goal
  <2> QED BY <2>1, <1>0 DEF Held, Records, RecordOK
<1>3. \A r \in Seqs : ~(h = g /\ r = s) => Held(h, r)' = Held(h, r)
  BY DEF RequestPost, Held
<1>4. Held(g, s)' = IF ok THEN amount ELSE 0
  <2>1. <<g, s>> \notin used
    BY <1>0, <1>2 DEF RequestPost, Records, RecordOK, Approved, Structure,
       StrictlySequential, TypeOK, Goal, Exists
  <2> QED BY <2>1 DEF RequestPost, Held
<1>5. /\ outflow'[goals'[h].payer] = outflow[goals[h].payer]
      /\ granted'[h] = granted[h]
      /\ remainingBudget'[h] = IF h = g /\ ok THEN remainingBudget[g] - amount
                                              ELSE remainingBudget[h]
  BY DEF RequestPost, SameIdentity
<1>6. CASE h = g /\ ok
  <2>1. /\ acc \in [0..MaxAttempts -> Nat] /\ IsRunningTotal(acc, h)
        /\ \A i, j \in 0..MaxAttempts : i <= j => acc[i] <= acc[j]
        /\ remainingBudget[h] + acc[MaxAttempts] + outflow[goals[h].payer]
             = granted[h].budget
    BY <1>1 DEF Balanced
  <2>2. \A r \in Seqs :
          Held(h, r)' = IF r = s THEN Held(h, s) + amount ELSE Held(h, r)
    BY <1>0, <1>2, <1>3, <1>4, <1>6
  <2>3. \A r \in Seqs : Held(h, r) \in Nat
    BY HeldNat
  <2>4. PICK new \in [0..MaxAttempts -> Nat] :
          /\ IsRunningTotal(new, h)'
          /\ \A i, j \in 0..MaxAttempts : i <= j => new[i] <= new[j]
          /\ new[MaxAttempts] = acc[MaxAttempts] + amount
    BY <1>0, <2>1, <2>2, <2>3, AddToTotal, ZenonT(60)
  <2>5. /\ remainingBudget[h] \in Nat /\ outflow[goals[h].payer] \in Nat
        /\ acc[MaxAttempts] \in Nat /\ granted[h].budget \in Nat
    BY <1>0, <2>1, TotalsNat
  <2>6. remainingBudget'[h] + new[MaxAttempts] + outflow'[goals'[h].payer]
             = granted'[h].budget
    BY <1>0, <1>5, <1>6, <2>1, <2>4, <2>5
  <2>7. Balanced(new, h)'
    BY <2>4, <2>6 DEF Balanced
  <2> QED BY <2>7
<1>7. CASE ~(h = g /\ ok)
  <2>1. \A r \in Seqs : Held(h, r)' = Held(h, r)
    BY <1>2, <1>3, <1>4, <1>7
  <2> QED BY <1>1, <1>5, <1>7, <2>1, SameBalance
<1> QED BY <1>6, <1>7

LEMMA FinalizeAccounts ==
  ASSUME Structure, Records, Accounts, NEW g \in GoalIds, NEW s, NEW ok,
         FinalizePost(g, s, ok)
  PROVE  Accounts'
<1> SUFFICES ASSUME NEW h \in GoalIds, Opened(h)'
             PROVE  \E acc : Balanced(acc, h)'
  BY DEF Accounts, Balanced, IsRunningTotal, Held
<1>1. Opened(h)
  BY DEF FinalizePost, Opened, SameIdentity
<1>2. PICK acc : Balanced(acc, h)
  BY <1>1 DEF Accounts
<1>3. \A r \in Seqs : spends'[h][r].reclaimed = spends[h][r].reclaimed
  BY DEF FinalizePost
<1>4. \A r \in Seqs : Held(h, r)' = Held(h, r)
  BY <1>3 DEF FinalizePost, Held, SameTuple
<1> QED BY <1>2, <1>4, SameBalance DEF FinalizePost, SameIdentity

LEMMA ReclaimAccounts ==
  ASSUME Structure, Records, Accounts, NEW g \in GoalIds, NEW s,
         ReclaimPost(g, s)
  PROVE  Accounts'
<1> SUFFICES ASSUME NEW h \in GoalIds, Opened(h)'
             PROVE  \E acc : Balanced(acc, h)'
  BY DEF Accounts, Balanced, IsRunningTotal, Held
<1>0. Opened(h) /\ s \in Seqs
  BY DEF ReclaimPost, Opened, SameIdentity
<1>1. PICK acc : Balanced(acc, h)
  BY <1>0 DEF Accounts
<1>2. \A r \in Seqs : ~(h = g /\ r = s) => Held(h, r)' = Held(h, r)
  BY DEF ReclaimPost, Held
<1>3. Held(g, s) = spends[g][s].amount /\ Held(g, s)' = 0
  BY DEF ReclaimPost, Held, Approved, Records, RecordOK
<1>4. /\ outflow'[goals'[h].payer] = outflow[goals[h].payer]
      /\ granted'[h] = granted[h]
      /\ remainingBudget'[h] =
           IF h = g THEN remainingBudget[g] + spends[g][s].amount
                    ELSE remainingBudget[h]
  BY DEF ReclaimPost, SameIdentity
<1>5. CASE h = g
  <2>1. /\ acc \in [0..MaxAttempts -> Nat] /\ IsRunningTotal(acc, h)
        /\ \A i, j \in 0..MaxAttempts : i <= j => acc[i] <= acc[j]
        /\ remainingBudget[h] + acc[MaxAttempts] + outflow[goals[h].payer]
             = granted[h].budget
    BY <1>1 DEF Balanced
  <2>2. \A r \in Seqs : Held(h, r)' = IF r = s THEN 0 ELSE Held(h, r)
    BY <1>2, <1>3, <1>5
  <2>3. \A r \in Seqs : Held(h, r) \in Nat
    BY HeldNat
  <2>4. PICK d \in Nat : d = Held(h, s)
    BY <1>0, <2>3
  <2>5. PICK new \in [0..MaxAttempts -> Nat] :
          /\ IsRunningTotal(new, h)'
          /\ \A i, j \in 0..MaxAttempts : i <= j => new[i] <= new[j]
          /\ new[MaxAttempts] = acc[MaxAttempts] - d
    BY <1>0, <2>1, <2>2, <2>3, <2>4, ReleaseFromTotal, ZenonT(60)
  <2>6. /\ remainingBudget[h] \in Nat /\ outflow[goals[h].payer] \in Nat
        /\ acc[MaxAttempts] \in Nat /\ granted[h].budget \in Nat
    BY <1>0, <2>1, TotalsNat
  <2>7. remainingBudget'[h] + new[MaxAttempts] + outflow'[goals'[h].payer]
             = granted'[h].budget
    BY <1>3, <1>4, <1>5, <2>1, <2>4, <2>5, <2>6
  <2>8. Balanced(new, h)'
    BY <2>5, <2>7 DEF Balanced
  <2> QED BY <2>8
<1>6. CASE h # g
  BY <1>1, <1>2, <1>4, <1>6, SameBalance
<1> QED BY <1>5, <1>6

LEMMA TransferAccounts ==
  ASSUME Structure, Records, Accounts, NEW g, NEW s, NEW payer,
         TransferPost(g, s, payer)
  PROVE  Accounts'
<1> SUFFICES ASSUME NEW h \in GoalIds, Opened(h)'
             PROVE  \E acc : Balanced(acc, h)'
  BY DEF Accounts, Balanced, IsRunningTotal, Held
<1>0. Opened(h) /\ s \in Seqs /\ g \in GoalIds
  BY DEF TransferPost, Opened
<1>1. PICK acc : Balanced(acc, h)
  BY <1>0 DEF Accounts
<1>2. \A r \in Seqs : ~(h = g /\ r = s) => Held(h, r)' = Held(h, r)
  BY DEF TransferPost, Held
<1>3. Held(g, s) = spends[g][s].amount /\ Held(g, s)' = 0
  <2>1. ~spends[g][s].reclaimed
    <3>1. /\ spends[g][s].reclaimed => now >= spends[g][s].validBefore
          /\ now < spends[g][s].validBefore
      BY <1>0 DEF TransferPost, Records, RecordOK
    <3>2. spends[g][s].validBefore \in Int /\ now \in Int
      BY <1>0, BoundAssumption DEF Structure, TypeOK, SpendRecord, Times
    <3> QED BY <3>1, <3>2
  <2>2. spends[g][s].decision
    BY <1>0 DEF TransferPost, Approved, Records, RecordOK
  <2> QED BY <2>1, <2>2 DEF TransferPost, Held
<1>4. goals' = goals /\ granted' = granted /\ remainingBudget' = remainingBudget
  BY DEF TransferPost
<1>5. /\ goals[h].payer \in Payers
      /\ h = g <=> goals[h].payer = payer
  BY <1>0 DEF TransferPost, Structure, GoalShape
<1>6. outflow'[goals[h].payer] =
        IF h = g THEN outflow[goals[h].payer] + spends[g][s].amount
                 ELSE outflow[goals[h].payer]
  BY <1>5 DEF TransferPost
<1>7. CASE h = g
  <2>1. /\ acc \in [0..MaxAttempts -> Nat] /\ IsRunningTotal(acc, h)
        /\ \A i, j \in 0..MaxAttempts : i <= j => acc[i] <= acc[j]
        /\ remainingBudget[h] + acc[MaxAttempts] + outflow[goals[h].payer]
             = granted[h].budget
    BY <1>1 DEF Balanced
  <2>2. \A r \in Seqs : Held(h, r)' = IF r = s THEN 0 ELSE Held(h, r)
    BY <1>2, <1>3, <1>7
  <2>3. \A r \in Seqs : Held(h, r) \in Nat
    BY HeldNat
  <2>4. PICK d \in Nat : d = Held(h, s)
    BY <1>0, <2>3
  <2>5. PICK new \in [0..MaxAttempts -> Nat] :
          /\ IsRunningTotal(new, h)'
          /\ \A i, j \in 0..MaxAttempts : i <= j => new[i] <= new[j]
          /\ new[MaxAttempts] = acc[MaxAttempts] - d
    BY <1>0, <2>1, <2>2, <2>3, <2>4, ReleaseFromTotal, ZenonT(60)
  <2>6. /\ remainingBudget[h] \in Nat /\ outflow[goals[h].payer] \in Nat
        /\ acc[MaxAttempts] \in Nat /\ granted[h].budget \in Nat
    BY <1>0, <2>1, TotalsNat
  <2>7. remainingBudget'[h] + new[MaxAttempts] + outflow'[goals'[h].payer]
             = granted'[h].budget
    <3>1. outflow'[goals'[h].payer] = outflow[goals[h].payer] + d
      BY <1>3, <1>4, <1>6, <1>7, <2>4
    <3>2. remainingBudget'[h] = remainingBudget[h] /\ granted'[h].budget = granted[h].budget
      BY <1>4
    <3>3. new[MaxAttempts] = acc[MaxAttempts] - d
      BY <2>5
    <3>4. remainingBudget[h] + acc[MaxAttempts] + outflow[goals[h].payer]
            = granted[h].budget
      BY <2>1
    <3>5. d \in Nat
      BY <2>4
    <3> QED BY <2>6, <3>1, <3>2, <3>3, <3>4, <3>5
  <2>8. Balanced(new, h)'
    BY <2>5, <2>7 DEF Balanced
  <2> QED BY <2>8
<1>8. CASE h # g
  BY <1>1, <1>2, <1>4, <1>6, <1>8, SameBalance
<1> QED BY <1>7, <1>8

LEMMA OpenAccounts ==
  ASSUME Structure, Records, Accounts, NEW n, NEW owner, NEW payer, NEW budget,
         NEW calls, NEW attempts, NEW allowlist,
         OpenPost(n, owner, payer, budget, calls, attempts, allowlist)
  PROVE  Accounts'
<1> SUFFICES ASSUME NEW h \in GoalIds, Opened(h)'
             PROVE  \E acc : Balanced(acc, h)'
  BY DEF Accounts, Balanced, IsRunningTotal, Held
<1>1. \A r \in Seqs : Held(h, r)' = Held(h, r)
  BY DEF OpenPost, Held
<1>2. CASE h = n
  <2> DEFINE zero == [i \in 0..MaxAttempts |-> 0]
  <2>1. \A r \in Seqs : Held(h, r) = 0
    BY <1>2 DEF OpenPost, Held, Structure, StrictlySequential, GoalShape,
       NoGoal, Seqs, Records, RecordOK
  <2>2. IsRunningTotal(zero, h)'
    BY <1>1, <2>1, BoundAssumption DEF IsRunningTotal, Seqs
  <2>3. outflow'[goals'[h].payer] = 0
    BY <1>2 DEF OpenPost, Structure, GoalShape
  <2>4. remainingBudget'[h] + zero[MaxAttempts] + outflow'[goals'[h].payer]
          = granted'[h].budget
    BY <1>2, <2>3, BoundAssumption DEF OpenPost
  <2>5. /\ zero \in [0..MaxAttempts -> Nat]
        /\ \A i, j \in 0..MaxAttempts : i <= j => zero[i] <= zero[j]
    OBVIOUS
  <2> HIDE DEF zero
  <2>6. Balanced(zero, h)'
    BY <2>2, <2>4, <2>5 DEF Balanced
  <2> QED BY <2>6
<1>3. CASE h # n
  <2>1. Opened(h) /\ goals'[h] = goals[h]
    BY <1>3 DEF OpenPost, Opened
  <2>2. PICK acc : Balanced(acc, h)
    BY <2>1 DEF Accounts
  <2> QED BY <1>1, <1>3, <2>1, <2>2, SameBalance DEF OpenPost
<1> QED BY <1>2, <1>3

\* Closing and the clock move nothing.
LEMMA OtherAccounts ==
  ASSUME Accounts, spends' = spends, granted' = granted, used' = used,
         outflow' = outflow, remainingBudget' = remainingBudget,
         \A h \in GoalIds : /\ goals'[h].owner = goals[h].owner
                            /\ goals'[h].payer = goals[h].payer
  PROVE  Accounts'
<1> SUFFICES ASSUME NEW h \in GoalIds, Opened(h)'
             PROVE  \E acc : Balanced(acc, h)'
  BY DEF Accounts, Balanced, IsRunningTotal, Held
<1>1. PICK acc : Balanced(acc, h)
  BY DEF Accounts, Opened
<1>2. \A r \in Seqs : Held(h, r)' = Held(h, r)
  BY DEF Held
<1> QED BY <1>1, <1>2, SameBalance

-----------------------------------------------------------------------------
(* The inductive invariant and the theorems.                               *)

IInv == Structure /\ Records /\ Calls /\ Accounts

LEMMA InitIInv == Init => IInv
<1> SUFFICES ASSUME Init PROVE IInv
  OBVIOUS
<1>1. Accounts
  BY AddressAssumption DEF Init, Accounts, Opened, NoGoal
<1> QED BY <1>1, InitStructure, InitRecords, InitCalls DEF IInv

LEMMA NextIInv == IInv /\ [Next]_vars => IInv'
<1> SUFFICES ASSUME IInv, [Next]_vars PROVE IInv'
  OBVIOUS
<1> USE DEF IInv
<1>1. CASE OpenSomeGoal
  <2>1. PICK owner \in Users, payer \in Payers, relay \in Relays,
             budget \in Budgets, cap \in Caps, calls \in Seqs,
             attempts \in Seqs, expiry \in Times, allowlist \in SUBSET Payees :
          OpenGoal(owner, payer, relay, budget, cap, calls, attempts, expiry,
                   allowlist)
    BY <1>1 DEF OpenSomeGoal
  <2>2. OpenPost(goalCount + 1, owner, payer, budget, calls, attempts, allowlist)
    BY <2>1, OpenWrites
  <2> QED BY <2>2, OpenStructure, OpenRecords, OpenCalls, OpenAccounts
<1>2. ASSUME NEW caller \in Users, NEW g \in GoalIds, CloseGoal(caller, g)
      PROVE  IInv'
  <2>1. ClosePost(g)
    BY <1>2, CloseWrites
  <2>2. Structure' /\ Records'
    BY <2>1, CloseStructure, CloseRecords
  <2>3. Calls' /\ Accounts'
    BY <2>1, OtherCalls, OtherAccounts DEF ClosePost, SameIdentity
  <2> QED BY <2>2, <2>3
<1>3. ASSUME NEW caller \in Relays, NEW g \in GoalIds, NEW amount \in Amounts,
             NEW payTo \in Payees, NEW payBy \in Times,
             RequestSpend(caller, g, amount, payTo, payBy)
      PROVE  IInv'
  <2>1. RequestPost(g, goals[g].seq + 1, amount, payTo, Decide(g, amount))
    BY <1>3, RequestWrites
  <2> QED BY <2>1, RequestStructure, RequestRecords, RequestCalls, RequestAccounts
<1>4. ASSUME NEW g \in GoalIds, NEW s \in Seqs, FinalizeDecision(g, s)
      PROVE  IInv'
  <2>1. FinalizePost(g, s, spends[g][s].decision)
    BY <1>4, FinalizeWrites
  <2> QED BY <2>1, FinalizeStructure, FinalizeRecords, FinalizeCalls, FinalizeAccounts
<1>5. ASSUME NEW g \in GoalIds, NEW s \in Seqs, ReclaimExpired(g, s)
      PROVE  IInv'
  <2>1. ReclaimPost(g, s)
    BY <1>5, ReclaimWrites
  <2> QED BY <2>1, ReclaimStructure, ReclaimRecords, ReclaimCalls, ReclaimAccounts
<1>6. ASSUME NEW g \in GoalIds, NEW s \in Seqs, TransferWithAuthorization(g, s)
      PROVE  IInv'
  <2>1. TransferPost(g, s, goals[g].payer)
    BY <1>6, TransferWrites
  <2>2. Calls'
    BY <2>1, OtherCalls DEF TransferPost
  <2> QED BY <2>1, <2>2, TransferStructure, TransferRecords, TransferAccounts
<1>7. CASE Tick
  <2>1. UNCHANGED <<vaultVars, tokenVars>>
    BY <1>7 DEF Tick
  <2>2. Calls' /\ Accounts'
    BY <2>1, OtherCalls, OtherAccounts DEF vaultVars, tokenVars
  <2> QED BY <1>7, <2>2, TickRecords
<1>8. CASE UNCHANGED vars
  <2>1. UNCHANGED <<now, goalCount, goals, perCallCap, remainingBudget,
                    allowlisted, spends, pendingSeq, attemptsRemaining,
                    payerGoal, granted, used, outflow>>
    BY <1>8 DEF vars, vaultVars, tokenVars
  <2>2. Structure' /\ Records'
    BY <2>1 DEF Structure, TypeOK, GoalShape, StrictlySequential,
       AttemptsConserved, Opened, Exists, Records, RecordOK, Approved
  <2>3. Calls' /\ Accounts'
    BY <2>1, OtherCalls, OtherAccounts
  <2> QED BY <2>2, <2>3
<1> QED BY <1>1, <1>2, <1>3, <1>4, <1>5, <1>6, <1>7, <1>8 DEF Next

LEMMA SpecIInv == Spec => []IInv
BY InitIInv, NextIInv, PTL DEF Spec

\* Every variable keeps its type in every run of the contract.
THEOREM TypeCorrect == Spec => []TypeOK
<1>1. IInv => TypeOK
  BY DEF IInv, Structure
<1> QED BY <1>1, SpecIInv, PTL

\* At most one spend of a goal is undecided and pendingSeq names it.
THEOREM SequentialCorrect == Spec => []StrictlySequential
<1>1. IInv => StrictlySequential
  BY DEF IInv, Structure
<1> QED BY <1>1, SpecIInv, PTL

\* The relay gets at most maxAttempts answers about the encrypted limits.
THEOREM AttemptsCorrect == Spec => []AttemptsConserved
<1>1. IInv => AttemptsConserved
  BY DEF IInv, Structure
<1> QED BY <1>1, SpecIInv, PTL

\* No amount is both given back to the budget and paid to a vendor.
THEOREM ReclaimSafe == Spec => []NeverReturnedAndPaid
<1>1. IInv => NeverReturnedAndPaid
  BY DEF IInv, Records, RecordOK, NeverReturnedAndPaid
<1> QED BY <1>1, SpecIInv, PTL

\* Whatever is paid was approved, within the cap, to an allowlisted payee.
THEOREM PaymentsWithinPolicy == Spec => []PaidWithinPolicy
<1>1. ASSUME IInv, NEW g \in GoalIds, NEW s \in Seqs, <<g, s>> \in used
      PROVE  /\ Approved(g, s)
             /\ spends[g][s].payTo \in allowlisted[g]
             /\ spends[g][s].amount <= perCallCap[g]
  <2>1. RecordOK(g, s)
    BY <1>1 DEF IInv, Records
  <2> QED BY <1>1, <2>1 DEF RecordOK, Approved
<1>2. IInv => PaidWithinPolicy
  BY <1>1 DEF PaidWithinPolicy
<1> QED BY <1>2, SpecIInv, PTL

\* The public call count never drifts from the approved spends.
THEOREM CallsCorrect == Spec => []CallsConserved
<1>1. IInv => CallsConserved
  BY DEF IInv, Calls
<1> QED BY <1>1, SpecIInv, PTL

\* The checked decrement of finalizeDecision never reverts.
THEOREM NeverWedged == Spec => []FinalizeNeverReverts
<1>1. IInv => FinalizeNeverReverts
  BY DEF IInv, Calls
<1> QED BY <1>1, SpecIInv, PTL

\* Budget left, held amounts and payments add up to the granted budget.
THEOREM BudgetCorrect == Spec => []BudgetConserved
<1>1. ASSUME IInv, NEW g \in GoalIds, Opened(g)
      PROVE  \E acc \in [0..MaxAttempts -> 0..granted[g].budget] :
               /\ IsRunningTotal(acc, g)
               /\ remainingBudget[g] + acc[MaxAttempts] + outflow[goals[g].payer]
                    = granted[g].budget
  <2>1. PICK acc : Balanced(acc, g)
    BY <1>1 DEF IInv, Accounts
  <2>2. /\ remainingBudget[g] \in Nat /\ outflow[goals[g].payer] \in Nat
        /\ acc[MaxAttempts] \in Nat /\ granted[g].budget \in Nat
    BY <1>1, <2>1, TotalsNat DEF IInv, Balanced
  <2>3. ASSUME NEW i \in 0..MaxAttempts PROVE acc[i] \in 0..granted[g].budget
    <3>1. acc[i] \in Nat /\ acc[i] <= acc[MaxAttempts]
      BY <2>1, BoundAssumption DEF Balanced
    <3>2. remainingBudget[g] + acc[MaxAttempts] + outflow[goals[g].payer]
            = granted[g].budget
      BY <2>1 DEF Balanced
    <3> QED BY <2>2, <3>1, <3>2
  <2>4. acc \in [0..MaxAttempts -> 0..granted[g].budget]
    BY <2>1, <2>3 DEF Balanced
  <2> QED BY <2>1, <2>4 DEF Balanced
<1>2. IInv => BudgetConserved
  BY <1>1 DEF BudgetConserved
<1> QED BY <1>2, SpecIInv, PTL

-----------------------------------------------------------------------------
(* The ceiling: a fifth layer, on top of the inductive invariant.           *)

\* The spends of the goal the token has executed.
Paid(g) == {s \in Seqs : <<g, s>> \in used}

PaidWithinCaps ==
  \A p \in Payers : payerGoal[p] # 0 =>
    outflow[p] <= perCallCap[payerGoal[p]] * Cardinality(Paid(payerGoal[p]))

LEMMA PaidFinite ==
  ASSUME NEW g
  PROVE  IsFiniteSet(Paid(g)) /\ Cardinality(Paid(g)) \in Nat
<1>1. IsFiniteSet(Seqs)
  BY FS_Interval, BoundAssumption DEF Seqs
<1>2. Paid(g) \subseteq Seqs
  BY DEF Paid
<1> QED BY <1>1, <1>2, FS_Subset, FS_CardinalityType

LEMMA OneMoreCall ==
  ASSUME NEW cap \in Nat, NEW n \in Nat, NEW total \in Nat, NEW amount \in Nat,
         total <= cap * n, amount <= cap
  PROVE  total + amount <= cap * (n + 1)
<1>1. cap * (n + 1) = cap * n + cap
  OBVIOUS
<1>2. cap * n \in Nat
  OBVIOUS
<1> QED BY <1>1, <1>2

LEMMA MoreCallsMoreMoney ==
  ASSUME NEW cap \in Nat, NEW m \in Nat, NEW n \in Nat, m <= n
  PROVE  cap * m <= cap * n
<1>1. PICK d \in Nat : n = m + d
  <2>1. n - m \in Nat /\ n = m + (n - m)
    OBVIOUS
  <2> QED BY <2>1
<1>2. cap * n = cap * m + cap * d
  BY <1>1
<1>3. cap * m \in Nat /\ cap * d \in Nat
  OBVIOUS
<1> QED BY <1>2, <1>3

LEMMA InitPaid == Init => PaidWithinCaps
  BY DEF Init, PaidWithinCaps

LEMMA TransferPaid ==
  ASSUME IInv, PaidWithinCaps, NEW g, NEW s, NEW payer, TransferPost(g, s, payer)
  PROVE  PaidWithinCaps'
<1> SUFFICES ASSUME NEW p \in Payers, NEW h, h = payerGoal[p], h # 0
             PROVE  outflow'[p] <= perCallCap[h] * Cardinality(Paid(h)')
  BY DEF PaidWithinCaps, TransferPost, Paid
<1>1. /\ h \in GoalIds /\ Opened(h) /\ goals[h].payer = p
      /\ g \in GoalIds /\ s \in Seqs /\ Opened(g) /\ payerGoal[payer] = g
      /\ outflow[p] <= perCallCap[h] * Cardinality(Paid(h))
      /\ payer = goals[g].payer
  <2>1. payerGoal[p] \in 0..MaxGoals
    BY DEF IInv, Structure, TypeOK
  <2>2. payerGoal[p] \in GoalIds
    BY <2>1, BoundAssumption DEF GoalIds
  <2> QED BY <2>2 DEF IInv, Structure, GoalShape, PaidWithinCaps, TransferPost
<1>2. outflow[p] \in Nat /\ perCallCap[h] \in Nat /\ spends[g][s].amount \in Nat
  BY <1>1 DEF IInv, Structure, TypeOK, SpendRecord
<1>3. CASE p = payer
  <2>1. h = g
    BY <1>1, <1>3
  <2>2. Paid(g)' = Paid(g) \cup {s} /\ s \notin Paid(g)
    BY <1>1 DEF TransferPost, Paid
  <2>3. Cardinality(Paid(g)') = Cardinality(Paid(g)) + 1
    BY <2>2, PaidFinite, FS_AddElement
  <2>4. spends[g][s].amount <= perCallCap[g]
    BY <1>1 DEF IInv, Records, RecordOK, TransferPost, Approved
  <2>5. outflow'[p] = outflow[p] + spends[g][s].amount
    BY <1>3 DEF TransferPost
  <2>6. Cardinality(Paid(g)) \in Nat
    BY PaidFinite
  <2>7. outflow[p] + spends[g][s].amount
          <= perCallCap[g] * (Cardinality(Paid(g)) + 1)
    BY <1>1, <1>2, <2>1, <2>4, <2>6, OneMoreCall
  <2> QED BY <1>1, <2>1, <2>3, <2>5, <2>7
<1>4. CASE p # payer
  <2>1. h # g
    BY <1>1, <1>4
  <2>2. Paid(h)' = Paid(h)
    BY <2>1 DEF TransferPost, Paid
  <2>3. outflow'[p] = outflow[p]
    BY <1>4 DEF TransferPost
  <2> QED BY <1>1, <2>2, <2>3
<1> QED BY <1>3, <1>4

LEMMA OpenPaid ==
  ASSUME IInv, PaidWithinCaps, NEW n, NEW owner, NEW payer, NEW budget,
         NEW calls, NEW attempts, NEW allowlist,
         OpenPost(n, owner, payer, budget, calls, attempts, allowlist)
  PROVE  PaidWithinCaps'
<1> SUFFICES ASSUME NEW p \in Payers, payerGoal'[p] # 0
             PROVE  outflow[p] <= perCallCap'[payerGoal'[p]]
                                     * Cardinality(Paid(payerGoal'[p]))
  BY DEF PaidWithinCaps, OpenPost, Paid
<1>1. CASE p = payer
  <2>1. outflow[p] = 0
    BY <1>1 DEF OpenPost, IInv, Structure, GoalShape
  <2>2. payerGoal'[p] = n /\ n \in GoalIds /\ perCallCap'[n] \in Nat
    BY <1>1 DEF OpenPost, TypeOK
  <2>3. Cardinality(Paid(n)) \in Nat
    BY PaidFinite
  <2>4. perCallCap'[n] * Cardinality(Paid(n)) \in Nat
    BY <2>2, <2>3
  <2> QED BY <2>1, <2>2, <2>4
<1>2. CASE p # payer
  <2>1. payerGoal'[p] = payerGoal[p]
    BY <1>2 DEF OpenPost
  <2>2. payerGoal[p] \in 0..MaxGoals
    BY DEF IInv, Structure, TypeOK
  <2>3. payerGoal[p] \in GoalIds /\ Opened(payerGoal[p])
    BY <2>1, <2>2, BoundAssumption DEF GoalIds, IInv, Structure, GoalShape
  <2>4. perCallCap'[payerGoal[p]] = perCallCap[payerGoal[p]]
    BY <2>3 DEF OpenPost
  <2> QED BY <2>1, <2>4 DEF PaidWithinCaps
<1> QED BY <1>1, <1>2

LEMMA NextPaid == IInv /\ PaidWithinCaps /\ [Next]_vars => PaidWithinCaps'
<1> SUFFICES ASSUME IInv, PaidWithinCaps, [Next]_vars PROVE PaidWithinCaps'
  OBVIOUS
<1>1. CASE OpenSomeGoal
  <2>1. PICK owner \in Users, payer \in Payers, relay \in Relays,
             budget \in Budgets, cap \in Caps, calls \in Seqs,
             attempts \in Seqs, expiry \in Times, allowlist \in SUBSET Payees :
          OpenGoal(owner, payer, relay, budget, cap, calls, attempts, expiry,
                   allowlist)
    BY <1>1 DEF OpenSomeGoal
  <2>2. OpenPost(goalCount + 1, owner, payer, budget, calls, attempts, allowlist)
    BY <2>1, OpenWrites DEF IInv
  <2> QED BY <2>2, OpenPaid
<1>2. ASSUME NEW g \in GoalIds, NEW s \in Seqs, TransferWithAuthorization(g, s)
      PROVE  PaidWithinCaps'
  <2>1. TransferPost(g, s, goals[g].payer)
    BY <1>2, TransferWrites DEF IInv
  <2> QED BY <2>1, TransferPaid
<1>3. CASE UNCHANGED <<outflow, used, payerGoal, perCallCap>>
  BY <1>3 DEF PaidWithinCaps, Paid
<1> QED BY <1>1, <1>2, <1>3, ZenonT(60)
  DEF Next, CloseGoal, RequestSpend, FinalizeDecision, ReclaimExpired, Tick,
      vars, vaultVars, tokenVars

\* Whatever the relay, the vendor and the order of events, a payer loses no
\* more than its goal's budget and no more than the cap times the calls.
THEOREM CeilingHolds == Spec => []LossCeiling
<1>1. Spec => [](IInv /\ PaidWithinCaps)
  BY InitIInv, NextIInv, InitPaid, NextPaid, PTL DEF Spec
<1>2. ASSUME IInv, PaidWithinCaps, NEW p \in Payers
      PROVE  IF payerGoal[p] = 0 THEN outflow[p] = 0
             ELSE /\ outflow[p] <= granted[payerGoal[p]].budget
                  /\ outflow[p] <= perCallCap[payerGoal[p]]
                                     * granted[payerGoal[p]].calls
  <2>1. CASE payerGoal[p] = 0
    BY <1>2, <2>1 DEF IInv, Structure, GoalShape
  <2>2. CASE payerGoal[p] # 0
    <3> DEFINE g == payerGoal[p]
    <3>1. payerGoal[p] \in 0..MaxGoals
      BY <1>2 DEF IInv, Structure, TypeOK
    <3>2. g \in GoalIds /\ Opened(g) /\ goals[g].payer = p
      BY <1>2, <2>2, <3>1, BoundAssumption
      DEF GoalIds, IInv, Structure, GoalShape
    <3>3. outflow[p] <= perCallCap[g] * Cardinality(Paid(g))
      BY <1>2, <2>2 DEF PaidWithinCaps
    <3> HIDE DEF g
    <3>4. outflow[p] <= granted[g].budget
      <4>1. PICK acc : Balanced(acc, g)
        BY <1>2, <3>2 DEF IInv, Accounts
      <4>2. acc \in [0..MaxAttempts -> Nat]
        BY <4>1 DEF Balanced
      <4>3. remainingBudget[g] + acc[MaxAttempts] + outflow[p] = granted[g].budget
        BY <3>2, <4>1 DEF Balanced
      <4>4. /\ remainingBudget[g] \in Nat /\ outflow[p] \in Nat
            /\ acc[MaxAttempts] \in Nat /\ granted[g].budget \in Nat
        BY <1>2, <3>2, <4>2, TotalsNat DEF IInv
      <4> QED BY <4>3, <4>4
    <3>5. Cardinality(Paid(g)) <= granted[g].calls
      <4>1. Paid(g) \subseteq Charged(g)
        BY <1>2, <3>2 DEF Paid, Charged, IInv, Records, RecordOK
      <4>2. Cardinality(Paid(g)) <= Cardinality(Charged(g))
        BY <4>1, ChargedFinite, FS_Subset
      <4>3. goals[g].callsRemaining + Cardinality(Charged(g)) = granted[g].calls
        BY <1>2, <3>2 DEF IInv, Calls, CallsConserved
      <4>4. /\ goals[g].callsRemaining \in Nat
            /\ Cardinality(Charged(g)) \in Nat /\ Cardinality(Paid(g)) \in Nat
        BY <1>2, <3>2, ChargedFinite, PaidFinite
        DEF IInv, Structure, TypeOK, Goal
      <4> QED BY <4>2, <4>3, <4>4
    <3>6. /\ perCallCap[g] \in Nat /\ granted[g].calls \in Nat
          /\ outflow[p] \in Nat /\ Cardinality(Paid(g)) \in Nat
      BY <1>2, <3>2, PaidFinite, BoundAssumption DEF IInv, Structure, TypeOK
    <3>7. perCallCap[g] * Cardinality(Paid(g)) <= perCallCap[g] * granted[g].calls
      BY <3>5, <3>6, MoreCallsMoreMoney
    <3>8. /\ perCallCap[g] * Cardinality(Paid(g)) \in Nat
          /\ perCallCap[g] * granted[g].calls \in Nat
      BY <3>6
    <3>9. outflow[p] <= perCallCap[g] * granted[g].calls
      BY <3>3, <3>6, <3>7, <3>8
    <3> QED BY <2>2, <3>4, <3>9 DEF g
  <2> QED BY <2>1, <2>2
<1>3. IInv /\ PaidWithinCaps => LossCeiling
  BY <1>2 DEF LossCeiling
<1> QED BY <1>1, <1>3, PTL

-----------------------------------------------------------------------------
(* The two action properties.                                              *)

\* What a step may do to one spend record that exists.
KeepsRecord(h, t) ==
  /\ SameTuple(h, t)
  /\ spends[h][t].finalized => spends'[h][t].finalized
  /\ spends[h][t].approved => spends'[h][t].approved
  /\ spends[h][t].reclaimed => spends'[h][t].reclaimed

LEMMA UntouchedRecord ==
  ASSUME NEW h, NEW t, spends'[h][t] = spends[h][t]
  PROVE  KeepsRecord(h, t)
BY DEF KeepsRecord, SameTuple

\* A record that keeps its tuple and stays reclaimed when it was holds nothing
\* that it did not hold before.
LEMMA KeptHoldsNoMore ==
  ASSUME NEW h, NEW t, KeepsRecord(h, t), used \subseteq used'
  PROVE  Held(h, t)' > 0 => Held(h, t) > 0
BY DEF KeepsRecord, SameTuple, Held

\* Only three transactions write spend records.
LEMMA RecordWriters ==
  ASSUME [Next]_vars, ~UNCHANGED spends
  PROVE  \/ \E caller \in Relays, g \in GoalIds, amount \in Amounts,
               payTo \in Payees, payBy \in Times :
              RequestSpend(caller, g, amount, payTo, payBy)
         \/ \E g \in GoalIds, s \in Seqs :
              FinalizeDecision(g, s) \/ ReclaimExpired(g, s)
<1>1. OpenSomeGoal => UNCHANGED spends
  BY DEF OpenSomeGoal, OpenGoal
<1>2. ASSUME NEW caller \in Users, NEW g \in GoalIds, CloseGoal(caller, g)
      PROVE  UNCHANGED spends
  BY <1>2 DEF CloseGoal
<1>3. ASSUME NEW g \in GoalIds, NEW s \in Seqs, TransferWithAuthorization(g, s)
      PROVE  UNCHANGED spends
  BY <1>3 DEF TransferWithAuthorization, vaultVars
<1>4. Tick => UNCHANGED spends
  BY DEF Tick, vaultVars
<1>5. UNCHANGED vars => UNCHANGED spends
  BY DEF vars, vaultVars
<1> QED BY <1>1, <1>2, <1>3, <1>4, <1>5 DEF Next

LEMMA StepKeepsRecords ==
  ASSUME IInv, [Next]_vars, NEW h \in GoalIds, NEW t \in Seqs, Exists(h, t)
  PROVE  KeepsRecord(h, t)
<1>1. CASE UNCHANGED spends
  BY <1>1, UntouchedRecord
<1>2. ASSUME NEW caller \in Relays, NEW g \in GoalIds, NEW amount \in Amounts,
             NEW payTo \in Payees, NEW payBy \in Times,
             RequestSpend(caller, g, amount, payTo, payBy)
      PROVE  KeepsRecord(h, t)
  <2>1. RequestPost(g, goals[g].seq + 1, amount, payTo, Decide(g, amount))
    BY <1>2, RequestWrites DEF IInv
  <2>2. t <= goals[h].seq
    BY DEF IInv, Structure, StrictlySequential
  <2>3. goals[h].seq \in Nat /\ t \in Nat
    BY DEF IInv, Structure, TypeOK, Goal, Seqs
  <2>4. ~(h = g /\ t = goals[g].seq + 1)
    BY <2>2, <2>3
  <2>5. spends'[h][t] = spends[h][t]
    BY <2>1, <2>4 DEF RequestPost
  <2> QED BY <2>5, UntouchedRecord
<1>3. ASSUME NEW g \in GoalIds, NEW s \in Seqs, FinalizeDecision(g, s)
      PROVE  KeepsRecord(h, t)
  <2>1. FinalizePost(g, s, spends[g][s].decision)
    BY <1>3, FinalizeWrites DEF IInv
  <2>2. CASE h = g /\ t = s
    <3>1. ~spends[g][s].finalized
      BY <1>3 DEF FinalizeDecision, Finalizable
    <3>2. ~spends[g][s].approved /\ ~spends[g][s].reclaimed
      BY <1>3, <3>1 DEF IInv, Records, RecordOK, Approved, FinalizeDecision
    <3> QED BY <2>1, <2>2, <3>1, <3>2 DEF FinalizePost, KeepsRecord
  <2>3. CASE ~(h = g /\ t = s)
    BY <2>1, <2>3, UntouchedRecord DEF FinalizePost
  <2> QED BY <2>2, <2>3
<1>4. ASSUME NEW g \in GoalIds, NEW s \in Seqs, ReclaimExpired(g, s)
      PROVE  KeepsRecord(h, t)
  <2>1. ReclaimPost(g, s)
    BY <1>4, ReclaimWrites DEF IInv
  <2>2. CASE h = g /\ t = s
    BY <2>1, <2>2 DEF ReclaimPost, KeepsRecord
  <2>3. CASE ~(h = g /\ t = s)
    BY <2>1, <2>3, UntouchedRecord DEF ReclaimPost
  <2> QED BY <2>2, <2>3
<1> QED BY <1>1, <1>2, <1>3, <1>4, RecordWriters

\* A written record is evidence: its tuple and decision never change and its
\* flags are only ever raised, whatever transaction comes.
THEOREM RecordsFrozen == Spec => FrozenOnceWritten
<1>1. ASSUME IInv, [Next]_vars PROVE RecordsStay
  <2> SUFFICES ASSUME NEW g \in GoalIds, NEW s \in Seqs, Exists(g, s)
               PROVE  /\ \A f \in {"payTo", "amount", "validAfter",
                                   "validBefore", "decision"} :
                            spends'[g][s][f] = spends[g][s][f]
                      /\ \A f \in {"finalized", "approved", "reclaimed"} :
                            spends[g][s][f] => spends'[g][s][f]
    BY DEF RecordsStay
  <2>1. KeepsRecord(g, s)
    BY <1>1, StepKeepsRecords
  <2> DEFINE old == spends[g][s]
             new == spends'[g][s]
  <2>2. /\ new["payTo"] = old["payTo"] /\ new["amount"] = old["amount"]
        /\ new["validAfter"] = old["validAfter"]
        /\ new["validBefore"] = old["validBefore"]
        /\ new["decision"] = old["decision"]
        /\ old["finalized"] => new["finalized"]
        /\ old["approved"] => new["approved"]
        /\ old["reclaimed"] => new["reclaimed"]
    BY <2>1 DEF KeepsRecord, SameTuple
  <2> HIDE DEF old, new
  <2>3. \A f \in {"payTo", "amount", "validAfter", "validBefore", "decision"} :
          new[f] = old[f]
    BY <2>2
  <2>4. \A f \in {"finalized", "approved", "reclaimed"} : old[f] => new[f]
    BY <2>2
  <2> QED BY <2>3, <2>4 DEF old, new
<1>2. IInv /\ [Next]_vars => RecordsStay
  BY <1>1
<1>3. Spec => [][Next]_vars
  BY PTL DEF Spec
<1> QED BY <1>2, <1>3, SpecIInv, PTL DEF FrozenOnceWritten

LEMMA StepKeepsClosed ==
  ASSUME IInv, [Next]_vars, NEW h \in GoalIds, Opened(h), ~goals[h].open
  PROVE  ~goals'[h].open
<1>0. goals \in [GoalIds -> Goal]
  BY DEF IInv, Structure, TypeOK
<1>1. CASE UNCHANGED goals
  BY <1>1
<1>2. CASE OpenSomeGoal
  <2>1. PICK owner \in Users, payer \in Payers, relay \in Relays,
             budget \in Budgets, cap \in Caps, calls \in Seqs,
             attempts \in Seqs, expiry \in Times, allowlist \in SUBSET Payees :
          OpenGoal(owner, payer, relay, budget, cap, calls, attempts, expiry,
                   allowlist)
    BY <1>2 DEF OpenSomeGoal
  <2>2. OpenPost(goalCount + 1, owner, payer, budget, calls, attempts, allowlist)
    BY <2>1, OpenWrites DEF IInv
  <2> QED BY <2>2 DEF OpenPost
<1>3. ASSUME NEW caller \in Users, NEW g \in GoalIds, CloseGoal(caller, g)
      PROVE  ~goals'[h].open
  BY <1>0, <1>3 DEF CloseGoal, Goal
<1>4. ASSUME NEW caller \in Relays, NEW g \in GoalIds, NEW amount \in Amounts,
             NEW payTo \in Payees, NEW payBy \in Times,
             RequestSpend(caller, g, amount, payTo, payBy)
      PROVE  ~goals'[h].open
  <2>1. RequestPost(g, goals[g].seq + 1, amount, payTo, Decide(g, amount))
    BY <1>4, RequestWrites DEF IInv
  <2> QED BY <2>1 DEF RequestPost
<1>5. ASSUME NEW g \in GoalIds, NEW s \in Seqs, FinalizeDecision(g, s)
      PROVE  ~goals'[h].open
  <2>1. FinalizePost(g, s, spends[g][s].decision)
    BY <1>5, FinalizeWrites DEF IInv
  <2> QED BY <2>1 DEF FinalizePost
<1>6. ASSUME NEW g \in GoalIds, NEW s \in Seqs, ReclaimExpired(g, s)
      PROVE  ~goals'[h].open
  <2>1. ReclaimPost(g, s)
    BY <1>6, ReclaimWrites DEF IInv
  <2> QED BY <2>1 DEF ReclaimPost
<1> QED BY <1>1, <1>2, <1>3, <1>4, <1>5, <1>6
  DEF Next, TransferWithAuthorization, Tick, vars, vaultVars, tokenVars

LEMMA UsedGrows ==
  ASSUME [Next]_vars
  PROVE  used \subseteq used'
<1>1. ASSUME NEW g \in GoalIds, NEW s \in Seqs, TransferWithAuthorization(g, s)
      PROVE  used \subseteq used'
  BY <1>1 DEF TransferWithAuthorization
<1>2. ASSUME NEW caller \in Relays, NEW g \in GoalIds, NEW amount \in Amounts,
             NEW payTo \in Payees, NEW payBy \in Times,
             RequestSpend(caller, g, amount, payTo, payBy)
      PROVE  used' = used
  BY <1>2 DEF RequestSpend, tokenVars
<1>3. ASSUME NEW g \in GoalIds, NEW s \in Seqs,
             FinalizeDecision(g, s) \/ ReclaimExpired(g, s)
      PROVE  used' = used
  BY <1>3 DEF FinalizeDecision, ReclaimExpired, tokenVars
<1>4. ASSUME NEW caller \in Users, NEW g \in GoalIds, CloseGoal(caller, g)
      PROVE  used' = used
  BY <1>4 DEF CloseGoal, tokenVars
<1>5. OpenSomeGoal => used' = used
  BY DEF OpenSomeGoal, OpenGoal, tokenVars
<1>6. Tick \/ UNCHANGED vars => used' = used
  BY DEF Tick, vars, tokenVars
<1> QED BY <1>1, <1>2, <1>3, <1>4, <1>5, <1>6 DEF Next

\* A record that does not exist yet in a closed goal is not written.
LEMMA ClosedWritesNothing ==
  ASSUME IInv, [Next]_vars, NEW h \in GoalIds, Opened(h), ~goals[h].open,
         NEW t \in Seqs, ~Exists(h, t)
  PROVE  spends'[h][t].amount = 0
<1>1. spends[h][t].amount = 0
  BY DEF Exists
<1>2. CASE UNCHANGED spends
  BY <1>1, <1>2
<1>3. ASSUME NEW caller \in Relays, NEW g \in GoalIds, NEW amount \in Amounts,
             NEW payTo \in Payees, NEW payBy \in Times,
             RequestSpend(caller, g, amount, payTo, payBy)
      PROVE  spends'[h][t].amount = 0
  <2>1. RequestPost(g, goals[g].seq + 1, amount, payTo, Decide(g, amount))
    BY <1>3, RequestWrites DEF IInv
  <2>2. h # g
    BY <1>3 DEF RequestSpend, TakesRequests
  <2> QED BY <1>1, <2>1, <2>2 DEF RequestPost
<1>4. ASSUME NEW g \in GoalIds, NEW s \in Seqs, FinalizeDecision(g, s)
      PROVE  spends'[h][t].amount = 0
  <2>1. FinalizePost(g, s, spends[g][s].decision)
    BY <1>4, FinalizeWrites DEF IInv
  <2> QED BY <1>1, <2>1 DEF FinalizePost, SameTuple
<1>5. ASSUME NEW g \in GoalIds, NEW s \in Seqs, ReclaimExpired(g, s)
      PROVE  spends'[h][t].amount = 0
  <2>1. ReclaimPost(g, s)
    BY <1>5, ReclaimWrites DEF IInv
  <2>2. SameTuple(h, t)
    BY <2>1 DEF ReclaimPost
  <2> QED BY <1>1, <2>2 DEF SameTuple
<1> QED BY <1>2, <1>3, <1>4, <1>5, RecordWriters

\* Once the owner has closed a goal, what it can still cost only goes down.
THEOREM ClosingCaps == Spec => ClosedOnlyShrinks
<1>1. ASSUME IInv, [Next]_vars PROVE ExposureShrinks
  <2> SUFFICES ASSUME NEW g \in GoalIds, Opened(g), ~goals[g].open
               PROVE  ~goals'[g].open /\ Exposure(g)' \subseteq Exposure(g)
    BY DEF ExposureShrinks
  <2>1. ~goals'[g].open
    BY <1>1, StepKeepsClosed
  <2>2. ASSUME NEW s \in Seqs, Held(g, s)' > 0 PROVE Held(g, s) > 0
    <3>1. CASE Exists(g, s)
      <4>1. KeepsRecord(g, s) /\ used \subseteq used'
        BY <1>1, <3>1, StepKeepsRecords, UsedGrows
      <4> QED BY <2>2, <4>1, KeptHoldsNoMore
    <3>2. CASE ~Exists(g, s)
      <4>1. spends'[g][s].amount = 0
        BY <1>1, <3>2, ClosedWritesNothing
      <4>2. Held(g, s)' = 0
        BY <4>1 DEF Held
      <4> QED BY <2>2, <4>2
    <3> QED BY <3>1, <3>2
  <2> QED BY <2>1, <2>2 DEF Exposure
<1>2. IInv /\ [Next]_vars => ExposureShrinks
  BY <1>1
<1>3. Spec => [][Next]_vars
  BY PTL DEF Spec
<1> QED BY <1>2, <1>3, SpecIInv, PTL DEF ClosedOnlyShrinks
-----------------------------------------------------------------------------
(* The vault and the token implement SpendLifecycle, for every number of   *)
(* goals, attempts, wallets and amounts.  Under the inductive invariant    *)
(* each transaction is one step of the life of a spend, or of none.        *)

\* What the abstract state depends on: which fields of which goal and spend.
LEMMA SameLife ==
  ASSUME NEW g \in GoalIds, NEW s \in Seqs,
         spends'[g][s] = spends[g][s],
         <<g, s>> \in used' <=> <<g, s>> \in used
  PROVE  LifeOf(g, s)' = LifeOf(g, s)
BY DEF LifeOf, Became, Exists

LEMMA SameGoals ==
  ASSUME \A g \in GoalIds : /\ goals'[g].owner = goals[g].owner
                            /\ goals'[g].open = goals[g].open
  PROVE  LifeGranted' = LifeGranted /\ LifeClosed' = LifeClosed
BY DEF LifeGranted, LifeClosed, Opened

LEMMA SamePaid ==
  ASSUME \A g \in GoalIds : /\ goals'[g].owner = goals[g].owner
                            /\ goals'[g].payer = goals[g].payer,
         outflow' = outflow
  PROVE  LifePaid' = LifePaid
BY DEF LifePaid, Opened

LEMMA SameLives ==
  ASSUME spends' = spends, used' = used
  PROVE  Lives' = Lives
<1>1. \A g \in GoalIds, s \in Seqs : LifeOf(g, s)' = LifeOf(g, s)
  BY SameLife
<1> QED BY <1>1 DEF Lives

\* One spend changes, and the others stay what they are.
LEMMA OneLife ==
  ASSUME NEW g \in GoalIds, NEW s \in Seqs, NEW spend,
         LifeOf(g, s)' = spend,
         \A h \in GoalIds, t \in Seqs :
           ~(h = g /\ t = s) => LifeOf(h, t)' = LifeOf(h, t)
  PROVE  Lives' = [Lives EXCEPT ![g][s] = spend]
<1> DEFINE after(h) == [t \in Seqs |-> LifeOf(h, t)']
           before(h) == [t \in Seqs |-> LifeOf(h, t)]
<1>1. after(g) = [before(g) EXCEPT ![s] = spend]
  OBVIOUS
<1>2. \A h \in GoalIds : h # g => after(h) = before(h)
  OBVIOUS
<1>3. Lives' = [h \in GoalIds |-> after(h)] /\ Lives = [h \in GoalIds |-> before(h)]
  BY DEF Lives
<1> HIDE DEF after, before
<1>4. Lives[g] = before(g)
  BY <1>3
<1>5. [Lives EXCEPT ![g][s] = spend] = [Lives EXCEPT ![g] = [before(g) EXCEPT ![s] = spend]]
  BY <1>4
<1> QED BY <1>1, <1>2, <1>3, <1>5

LEMMA LifeInits == Init => Lifecycle!LifeInit
<1> SUFFICES ASSUME Init PROVE Lifecycle!LifeInit
  OBVIOUS
<1>1. \A g \in GoalIds : Opened(g) = FALSE
  BY DEF Init, Opened, NoGoal
<1>2. LifeGranted = [g \in GoalIds |-> FALSE] /\ LifeClosed = [g \in GoalIds |-> FALSE]
  BY <1>1, Zenon DEF LifeGranted, LifeClosed
<1>3. LifePaid = [g \in GoalIds |-> 0]
  BY <1>1 DEF LifePaid
<1>4. \A g \in GoalIds, s \in Seqs : LifeOf(g, s) = Lifecycle!NotAsked
  BY DEF Init, LifeOf, Became, Exists, NoSpend, Lifecycle!NotAsked
<1>5. Lives = [g \in GoalIds |-> [s \in Seqs |-> Lifecycle!NotAsked]]
  BY <1>4 DEF Lives
<1> QED BY <1>2, <1>3, <1>5 DEF Lifecycle!LifeInit, Init

LEMMA OpenGrants ==
  ASSUME IInv, OpenSomeGoal
  PROVE  \E g \in GoalIds, amount \in Budgets : Lifecycle!Grant(g, amount)
<1>1. PICK owner \in Users, payer \in Payers, relay \in Relays,
           budget \in Budgets, cap \in Caps, calls \in Seqs,
           attempts \in Seqs, expiry \in Times, allowlist \in SUBSET Payees :
        OpenGoal(owner, payer, relay, budget, cap, calls, attempts, expiry,
                 allowlist)
  BY DEF OpenSomeGoal
<1> DEFINE g == goalCount + 1
<1>2. OpenPost(g, owner, payer, budget, calls, attempts, allowlist)
  BY <1>1, OpenWrites DEF IInv
<1>3. g \in GoalIds /\ ~Opened(g)
  BY <1>2 DEF OpenPost
<1>t. /\ goals \in [GoalIds -> Goal] /\ remainingBudget \in [GoalIds -> Nat]
      /\ outflow \in [Payers -> Nat]
  BY DEF IInv, Structure, TypeOK
<1>4. /\ goals' = [goals EXCEPT ![g] =
            [owner |-> owner, payer |-> payer, relay |-> relay,
             callsRemaining |-> calls, expiry |-> expiry, seq |-> 0, open |-> TRUE]]
      /\ remainingBudget' = [remainingBudget EXCEPT ![g] = budget]
      /\ UNCHANGED <<now, spends, used, outflow>>
  BY <1>1 DEF OpenGoal, tokenVars
<1> HIDE DEF g
<1>5. /\ goals'[g].owner = owner /\ goals'[g].payer = payer /\ goals'[g].open
      /\ \A h \in GoalIds : h # g => goals'[h] = goals[h]
  BY <1>3, <1>4, <1>t
<1>6. owner # Nobody /\ outflow[payer] = 0
  <2>1. payerGoal[payer] = 0
    BY <1>2 DEF OpenPost
  <2> QED BY <2>1, AddressAssumption DEF IInv, Structure, GoalShape
<1>7. LifeGranted' = [LifeGranted EXCEPT ![g] = TRUE]
  BY <1>3, <1>5, <1>6 DEF LifeGranted, Opened
<1>8. LifeClosed' = LifeClosed
  BY <1>3, <1>5, <1>6 DEF LifeClosed, Opened
<1>9. LifePaid' = LifePaid
  BY <1>3, <1>4, <1>5, <1>6 DEF LifePaid, Opened
<1>10. Lives' = Lives
  BY <1>4, SameLives
<1>11. ~LifeGranted[g]
  BY <1>3 DEF LifeGranted
<1> QED BY <1>3, <1>4, <1>7, <1>8, <1>9, <1>10, <1>11 DEF Lifecycle!Grant

LEMMA CloseCloses ==
  ASSUME IInv, NEW caller \in Users, NEW g \in GoalIds, CloseGoal(caller, g)
  PROVE  Lifecycle!Close(g)
<1>1. ClosePost(g)
  BY CloseWrites DEF IInv
<1>2. goals \in [GoalIds -> Goal] /\ goals' = [goals EXCEPT ![g].open = FALSE]
  BY DEF CloseGoal, IInv, Structure, TypeOK
<1>3. /\ ~goals'[g].open
      /\ \A h \in GoalIds : /\ goals'[h].owner = goals[h].owner
                            /\ goals'[h].payer = goals[h].payer
                            /\ h # g => goals'[h].open = goals[h].open
  BY <1>2 DEF Goal
<1>4. Opened(g) /\ UNCHANGED <<now, remainingBudget, spends, used, outflow>>
  BY <1>1 DEF ClosePost
<1>5. LifeGranted' = LifeGranted
  BY <1>3 DEF LifeGranted, Opened
<1>6. LifeClosed' = [LifeClosed EXCEPT ![g] = TRUE]
  BY <1>3, <1>4 DEF LifeClosed, Opened
<1>7. LifePaid' = LifePaid /\ Lives' = Lives
  BY <1>3, <1>4, SamePaid, SameLives
<1>8. LifeGranted[g]
  BY <1>4 DEF LifeGranted
<1> QED BY <1>4, <1>5, <1>6, <1>7, <1>8 DEF Lifecycle!Close

\* The record that requestSpend writes, and what it is in the life of a spend.
Written(g, s, payTo, amount, after, until, ok) ==
  spends' = [spends EXCEPT ![g][s] =
    [payTo |-> payTo, amount |-> amount, validAfter |-> after,
     validBefore |-> until, decision |-> ok,
     finalized |-> FALSE, approved |-> FALSE, reclaimed |-> FALSE]]

Asked(g, s, payTo, amount, until, ok) ==
  Lives' = [Lives EXCEPT ![g][s] =
    [state |-> "asked", payTo |-> payTo, amount |-> amount, until |-> until,
     within |-> ok]]

LEMMA AskedLife ==
  ASSUME NEW g \in GoalIds, NEW s \in Seqs, NEW payTo, NEW amount, amount # 0,
         NEW after, NEW until, NEW ok,
         spends \in [GoalIds -> [Seqs -> SpendRecord]], used' = used,
         Written(g, s, payTo, amount, after, until, ok)
  PROVE  Asked(g, s, payTo, amount, until, ok)
<1>1. /\ spends'[g][s] =
           [payTo |-> payTo, amount |-> amount, validAfter |-> after,
            validBefore |-> until, decision |-> ok,
            finalized |-> FALSE, approved |-> FALSE, reclaimed |-> FALSE]
      /\ \A h \in GoalIds, t \in Seqs :
           ~(h = g /\ t = s) => spends'[h][t] = spends[h][t]
  BY DEF Written
<1>2. Became(g, s)' = "asked"
  BY <1>1 DEF Became, Exists
<1>3. LifeOf(g, s)' = [state |-> "asked", payTo |-> payTo, amount |-> amount,
                       until |-> until, within |-> ok]
  BY <1>1, <1>2 DEF LifeOf
<1>4. \A h \in GoalIds, t \in Seqs :
        ~(h = g /\ t = s) => LifeOf(h, t)' = LifeOf(h, t)
  BY <1>1, SameLife
<1> QED BY <1>3, <1>4, OneLife DEF Asked

LEMMA RequestAsks ==
  ASSUME IInv, NEW caller \in Relays, NEW g \in GoalIds, NEW amount \in Amounts,
         NEW payTo \in Payees, NEW payBy \in Times,
         RequestSpend(caller, g, amount, payTo, payBy)
  PROVE  \E s \in Seqs, until \in Times, within \in BOOLEAN :
           Lifecycle!Ask(g, s, payTo, amount, until, within)
<1> DEFINE s == goals[g].seq + 1
           ok == Decide(g, amount)
           until == EndOf(g, payBy)
<1>1. RequestPost(g, s, amount, payTo, ok)
  BY RequestWrites DEF IInv
<1>t. /\ spends \in [GoalIds -> [Seqs -> SpendRecord]] /\ now \in Times
      /\ goals \in [GoalIds -> Goal] /\ goals[g].seq \in Nat
      /\ remainingBudget \in [GoalIds -> Nat]
  BY DEF IInv, Structure, TypeOK, Goal
<1>2. s \in Seqs /\ ok \in BOOLEAN /\ amount \in Nat /\ amount # 0
  BY <1>1 DEF RequestPost
<1>3. until \in Times /\ now < until
  <2>1. /\ payBy > now /\ goals[g].expiry > now /\ goals[g].expiry \in Times
        /\ Window \in Nat \ {0}
    BY <1>t, BoundAssumption DEF RequestSpend, TakesRequests, Goal, Times
  <2>2. now + Window > now /\ now + Window \in Nat
    BY <2>1, <1>t DEF Times
  <2>3. \/ until = payBy
        \/ until = goals[g].expiry
        \/ until = now + Window /\ ~(goals[g].expiry < now + Window)
    BY DEF EndOf
  <2> QED BY <2>1, <2>2, <2>3, <1>t, BoundAssumption DEF Times
<1>4. Written(g, s, payTo, amount, now - 1, until, ok)
  BY DEF RequestSpend, NextSeq, Written
<1>5. /\ Opened(g) /\ goals[g].open /\ pendingSeq[g] = 0
      /\ UNCHANGED <<now, used, outflow>>
  BY DEF RequestSpend, TakesRequests, NothingPending, tokenVars
<1>6. \A h \in GoalIds : /\ goals'[h].owner = goals[h].owner
                         /\ goals'[h].payer = goals[h].payer
                         /\ goals'[h].open = goals[h].open
  BY <1>1 DEF RequestPost, SameIdentity
<1>7. remainingBudget' =
        [remainingBudget EXCEPT ![g] = IF ok THEN @ - amount ELSE @]
  <2>1. /\ remainingBudget' = [h \in GoalIds |-> remainingBudget'[h]]
        /\ \A h \in GoalIds :
             remainingBudget'[h] = IF h = g /\ ok THEN remainingBudget[g] - amount
                                                  ELSE remainingBudget[h]
    BY <1>1 DEF RequestPost
  <2> HIDE DEF ok
  <2> QED BY <2>1, <1>t
<1>8. ok => amount <= remainingBudget[g]
  BY <1>1 DEF RequestPost
<1>9. Asked(g, s, payTo, amount, until, ok)
  <2> HIDE DEF s, ok, until
  <2> QED BY <1>2, <1>4, <1>5, <1>t, AskedLife
<1>10. /\ \A t \in Seqs : Lives[g][t].state = "none" <=> t >= s
       /\ \A t \in Seqs : Lives[g][t].state # "asked"
  <2>1. \A t \in Seqs : /\ Exists(g, t) <=> t <= goals[g].seq
                        /\ ~(Exists(g, t) /\ ~spends[g][t].finalized)
    BY <1>5 DEF IInv, Structure, StrictlySequential, Seqs
  <2>2. \A t \in Seqs : Lives[g][t].state = Became(g, t)
    BY DEF Lives, LifeOf
  <2>3. \A t \in Seqs : /\ Became(g, t) = "none" <=> ~Exists(g, t)
                        /\ Became(g, t) # "asked"
    BY <2>1 DEF Became
  <2>4. \A t \in Seqs : t <= goals[g].seq <=> ~(t >= s)
    BY <1>t DEF Seqs
  <2> QED BY <2>1, <2>2, <2>3, <2>4
<1>11. /\ LifeGranted' = LifeGranted /\ LifeClosed' = LifeClosed
       /\ LifePaid' = LifePaid
       /\ LifeGranted[g] /\ ~LifeClosed[g]
  BY <1>5, <1>6, SameGoals, SamePaid DEF LifeGranted, LifeClosed
<1> HIDE DEF s, ok, until
<1>12. Lifecycle!Ask(g, s, payTo, amount, until, ok)
  BY <1>3, <1>5, <1>7, <1>8, <1>9, <1>10, <1>11 DEF Lifecycle!Ask, Asked
<1> QED BY <1>2, <1>3, <1>12

LEMMA FinalizeDecides ==
  ASSUME IInv, NEW g \in GoalIds, NEW s \in Seqs, FinalizeDecision(g, s)
  PROVE  Lifecycle!Decide(g, s)
<1> DEFINE ok == spends[g][s].decision
           becomes == IF LifeOf(g, s).within THEN "approved" ELSE "rejected"
<1>1. FinalizePost(g, s, ok)
  BY FinalizeWrites DEF IInv
<1>2. <<g, s>> \notin used /\ ~spends[g][s].reclaimed
  BY <1>1 DEF FinalizePost, IInv, Records, RecordOK, Approved
<1>3. /\ LifeOf(g, s).state = "asked" /\ LifeOf(g, s).within = ok
      /\ LifeOf(g, s)' = [LifeOf(g, s) EXCEPT !.state = becomes]
  <2>1. /\ Exists(g, s) /\ ~spends[g][s].finalized /\ SameTuple(g, s)
        /\ spends'[g][s].finalized /\ spends'[g][s].approved = ok
        /\ ~spends'[g][s].reclaimed /\ used' = used /\ ok \in BOOLEAN
    BY <1>1, <1>2 DEF FinalizePost
  <2>2. Became(g, s) = "asked"
    BY <2>1 DEF Became
  <2>3. Became(g, s)' = IF ok THEN "approved" ELSE "rejected"
    BY <1>2, <2>1 DEF Became, Exists, SameTuple
  <2>4. LifeOf(g, s).within = ok
    BY DEF LifeOf
  <2> HIDE DEF ok
  <2> QED BY <2>1, <2>2, <2>3, <2>4 DEF LifeOf, SameTuple
<1>4. \A h \in GoalIds, t \in Seqs :
        ~(h = g /\ t = s) => LifeOf(h, t)' = LifeOf(h, t)
  BY <1>1, SameLife DEF FinalizePost
<1>5. Lives' = [Lives EXCEPT ![g][s] = [LifeOf(g, s) EXCEPT !.state = becomes]]
  BY <1>3, <1>4, OneLife
<1>6. /\ LifeGranted' = LifeGranted /\ LifeClosed' = LifeClosed
      /\ LifePaid' = LifePaid /\ UNCHANGED <<now, remainingBudget>>
  BY <1>1, SameGoals, SamePaid DEF FinalizePost, SameIdentity
<1>7. Lives[g][s] = LifeOf(g, s)
  BY DEF Lives
<1>8. Lifecycle!Becomes(g, s, becomes)
  BY <1>5, <1>7 DEF Lifecycle!Becomes
<1> QED BY <1>3, <1>6, <1>7, <1>8 DEF Lifecycle!Decide

LEMMA TransferPays ==
  ASSUME IInv, NEW g \in GoalIds, NEW s \in Seqs, TransferWithAuthorization(g, s)
  PROVE  Lifecycle!Pay(g, s)
<1>1. TransferPost(g, s, goals[g].payer)
  BY TransferWrites DEF IInv
<1>2. ~spends[g][s].reclaimed
  <2>1. now < spends[g][s].validBefore /\ spends[g][s].validBefore \in Int /\ now \in Int
    BY <1>1 DEF TransferPost, IInv, Structure, TypeOK, SpendRecord, Times
  <2>2. RecordOK(g, s)
    BY DEF IInv, Records
  <2> QED BY <2>1, <2>2 DEF RecordOK
<1>3. /\ LifeOf(g, s).state = "approved" /\ now < LifeOf(g, s).until
      /\ LifeOf(g, s).amount = spends[g][s].amount
      /\ LifeOf(g, s)' = [LifeOf(g, s) EXCEPT !.state = "paid"]
  <2>1. /\ Exists(g, s) /\ spends[g][s].finalized /\ spends[g][s].approved
        /\ now < spends[g][s].validBefore /\ <<g, s>> \notin used
        /\ spends' = spends /\ used' = used \cup {<<g, s>>}
    BY <1>1 DEF TransferPost, Approved
  <2>2. Became(g, s) = "approved" /\ Became(g, s)' = "paid"
    BY <1>2, <2>1 DEF Became, Exists
  <2> QED BY <2>1, <2>2 DEF LifeOf
<1>4. \A h \in GoalIds, t \in Seqs :
        ~(h = g /\ t = s) => LifeOf(h, t)' = LifeOf(h, t)
  BY <1>1, SameLife DEF TransferPost
<1>5. Lives' = [Lives EXCEPT ![g][s] = [LifeOf(g, s) EXCEPT !.state = "paid"]]
  BY <1>3, <1>4, OneLife
<1>6. Lives[g][s] = LifeOf(g, s)
  BY DEF Lives
<1>7. Lifecycle!Becomes(g, s, "paid")
  BY <1>5, <1>6 DEF Lifecycle!Becomes
<1>8. LifePaid' = [LifePaid EXCEPT ![g] = @ + Lives[g][s].amount]
  <2>1. goals' = goals /\ Opened(g)
    BY <1>1 DEF TransferPost
  <2>2. \A h \in GoalIds : Opened(h) =>
          /\ goals[h].payer \in Payers
          /\ h # g => goals[h].payer # goals[g].payer
    BY <2>1 DEF IInv, Structure, GoalShape
  <2>3. \A h \in GoalIds : Opened(h) =>
          outflow'[goals[h].payer] = IF h = g THEN outflow[goals[h].payer] + Lives[g][s].amount
                                              ELSE outflow[goals[h].payer]
    BY <1>1, <1>3, <1>6, <2>2 DEF TransferPost
  <2> QED BY <2>1, <2>3 DEF LifePaid, Opened
<1>9. LifeGranted' = LifeGranted /\ LifeClosed' = LifeClosed
  BY <1>1, SameGoals DEF TransferPost
<1>10. UNCHANGED <<now, remainingBudget>>
  BY <1>1 DEF TransferPost
<1> QED BY <1>3, <1>6, <1>7, <1>8, <1>9, <1>10 DEF Lifecycle!Pay

LEMMA ReclaimReturns ==
  ASSUME IInv, NEW g \in GoalIds, NEW s \in Seqs, ReclaimExpired(g, s)
  PROVE  Lifecycle!Return(g, s)
<1>1. ReclaimPost(g, s)
  BY ReclaimWrites DEF IInv
<1>2. /\ Exists(g, s) /\ Approved(g, s) /\ ~spends[g][s].reclaimed
      /\ <<g, s>> \notin used /\ now >= spends[g][s].validBefore
  BY DEF ReclaimExpired, Unspent, WindowClosed
<1>3. /\ LifeOf(g, s).state = "approved" /\ now >= LifeOf(g, s).until
      /\ LifeOf(g, s).amount = spends[g][s].amount
      /\ LifeOf(g, s)' = [LifeOf(g, s) EXCEPT !.state = "returned"]
  <2>1. SameTuple(g, s) /\ spends[g][s].finalized /\ spends[g][s].approved
    BY <1>1, <1>2 DEF ReclaimPost, Approved
  <2>2. /\ spends'[g][s].finalized /\ spends'[g][s].approved
        /\ spends'[g][s].reclaimed /\ used' = used
    BY <1>1 DEF ReclaimPost
  <2>3. Became(g, s) = "approved" /\ Became(g, s)' = "returned"
    BY <1>2, <2>1, <2>2 DEF Became, Exists, SameTuple
  <2> QED BY <1>2, <2>1, <2>3 DEF LifeOf, SameTuple
<1>4. \A h \in GoalIds, t \in Seqs :
        ~(h = g /\ t = s) => LifeOf(h, t)' = LifeOf(h, t)
  BY <1>1, SameLife DEF ReclaimPost
<1>5. Lives' = [Lives EXCEPT ![g][s] = [LifeOf(g, s) EXCEPT !.state = "returned"]]
  BY <1>3, <1>4, OneLife
<1>6. Lives[g][s] = LifeOf(g, s)
  BY DEF Lives
<1>7. Lifecycle!Becomes(g, s, "returned")
  BY <1>5, <1>6 DEF Lifecycle!Becomes
<1>8. remainingBudget' = [remainingBudget EXCEPT ![g] = @ + Lives[g][s].amount]
  BY <1>3, <1>6 DEF ReclaimExpired
<1>9. /\ LifeGranted' = LifeGranted /\ LifeClosed' = LifeClosed
      /\ LifePaid' = LifePaid /\ UNCHANGED now
  BY <1>1, SameGoals, SamePaid DEF ReclaimPost, SameIdentity
<1> QED BY <1>3, <1>6, <1>7, <1>8, <1>9 DEF Lifecycle!Return

\* Every transaction is a step of a spend's life, or leaves it alone.
LEMMA StepIsLifeStep ==
  ASSUME IInv, [Next]_vars
  PROVE  [Lifecycle!LifeStep]_(Lifecycle!lifeVars)
<1>1. ASSUME OpenSomeGoal PROVE Lifecycle!LifeStep
  BY <1>1, OpenGrants DEF Lifecycle!LifeStep
<1>2. ASSUME NEW caller \in Users, NEW g \in GoalIds, CloseGoal(caller, g)
      PROVE  Lifecycle!LifeStep
  BY <1>2, CloseCloses DEF Lifecycle!LifeStep
<1>3. ASSUME NEW caller \in Relays, NEW g \in GoalIds, NEW amount \in Amounts,
             NEW payTo \in Payees, NEW payBy \in Times,
             RequestSpend(caller, g, amount, payTo, payBy)
      PROVE  Lifecycle!LifeStep
  BY <1>3, RequestAsks DEF Lifecycle!LifeStep
<1>4. ASSUME NEW g \in GoalIds, NEW s \in Seqs,
             \/ FinalizeDecision(g, s)
             \/ ReclaimExpired(g, s)
             \/ TransferWithAuthorization(g, s)
      PROVE  Lifecycle!LifeStep
  BY <1>4, FinalizeDecides, ReclaimReturns, TransferPays DEF Lifecycle!LifeStep
<1>5. ASSUME Tick PROVE Lifecycle!LifeStep
  <2>1. /\ now' = now + 1
        /\ UNCHANGED <<goals, remainingBudget, spends, used, outflow>>
    BY <1>5 DEF Tick, vaultVars, tokenVars
  <2>2. UNCHANGED <<LifeGranted, LifeClosed, LifePaid, Lives>>
    BY <2>1, SameGoals, SamePaid, SameLives
  <2> QED BY <2>1, <2>2 DEF Lifecycle!LifeStep, Lifecycle!Passes
<1>6. ASSUME UNCHANGED vars PROVE UNCHANGED Lifecycle!lifeVars
  <2>1. UNCHANGED <<now, goals, remainingBudget, spends, used, outflow>>
    BY <1>6 DEF vars, vaultVars, tokenVars
  <2>2. UNCHANGED <<LifeGranted, LifeClosed, LifePaid, Lives>>
    BY <2>1, SameGoals, SamePaid, SameLives
  <2> QED BY <2>1, <2>2 DEF Lifecycle!lifeVars
<1> QED BY <1>1, <1>2, <1>3, <1>4, <1>5, <1>6 DEF Next

\* The vault and the token implement the life of a spend, whatever the relay,
\* the payers and the clock do.
THEOREM LifecycleImplemented == Spec => ImplementsLifecycle
<1>1. IInv /\ [Next]_vars => [Lifecycle!LifeStep]_(Lifecycle!lifeVars)
  BY StepIsLifeStep
<1>2. Spec => [][Next]_vars /\ Init
  BY PTL DEF Spec
<1> QED BY <1>1, <1>2, LifeInits, SpecIInv, PTL DEF ImplementsLifecycle, Lifecycle!LifeSpec
=============================================================================
