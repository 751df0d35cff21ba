--------------------------- MODULE ConsoleProofs ---------------------------
(***************************************************************************)
(* What the console shows of the money, for any number of goals, payers,   *)
(* reloads, runs and sweeps at once.  The invariant says which of the page,*)
(* the operation in hand and the sweeps speak of the same goal (Returning),*)
(* what the vault keeps of it (Settled) and what the run that the page     *)
(* hears may still add to it (Collected).  The second half is about the    *)
(* budget that the console sets and the prices measured against it.        *)
(***************************************************************************)
EXTENDS Console, Budget, TLAPS

Shape ==
  /\ DOMAIN page = {"payer", "goal", "funded", "closed", "returned", "spent", "dialog"}
  /\ act = [name |-> act.name, point |-> act.point, goal |-> act.goal,
            payer |-> act.payer, asked |-> act.asked]
  /\ job = [r \in Runs |-> job[r]]
  /\ \A r \in Runs :
       job[r] = [point |-> job[r].point, goal |-> job[r].goal, session |-> job[r].session]
  /\ sweeps = [s \in Sweepers |-> sweeps[s]]
  /\ \A s \in Sweepers :
       sweeps[s] = [point |-> sweeps[s].point, goal |-> sweeps[s].goal,
                    amount |-> sweeps[s].amount]
  /\ goals = [g \in Ids |-> goals[g]]
  /\ \A g \in Ids :
       goals[g] = [owner |-> goals[g].owner, payer |-> goals[g].payer,
                   open |-> goals[g].open]

\* The run whose stream the page reads is one of this page load, and what it
\* has collected is in left before the page shows it, whatever others collect.
Collected ==
  /\ left \in Nat /\ page.spent \in Nat /\ reloads \in Nat
  /\ page.spent <= left
  /\ At("run", "stream") =>
       /\ act.asked \in Runs
       /\ job[act.asked].session = reloads
       /\ live /\ job[act.asked].point = "settled" => page.spent + Price <= left

Exists(g) == g \in Ids /\ Known(g)

\* What was swept went to the goal's owner, who stays the same, and a sweep is
\* submitted only after its goal was closed, which it stays.
Settled ==
  /\ \A w \in swept : Exists(w.goal) /\ w.to = goals[w.goal].owner
  /\ \A s \in Sweepers :
       /\ sweeps[s].point # "idle" => Exists(sweeps[s].goal)
       /\ sweeps[s].point = "submit" => ~goals[sweeps[s].goal].open

\* From the click on "Return" to the sweep's answer the page shows the goal
\* that the operation is about; and it keeps that goal once money is returned.
Returning ==
  /\ page.goal # 0 => Exists(page.goal)
  /\ page.dialog => page.returned = 0 /\ act.name # "return"
  /\ act.name = "open" => page.returned = 0
  /\ act.name = "return" =>
       /\ act.goal = page.goal /\ act.goal # 0
       /\ act.point = "wait" => /\ act.asked \in Posts
                                /\ sweeps[act.asked].goal = act.goal
  /\ page.returned # 0 =>
       /\ page.goal # 0 /\ ~goals[page.goal].open
       /\ \E w \in swept : w.goal = page.goal /\ w.amount = page.returned

ConsoleInv == Shape /\ Collected /\ Settled /\ Returning /\ RecoveredIsMoved

-----------------------------------------------------------------------------
(* The page alone changes, or the operation in hand.                       *)

LEMMA ShowsIs ==
  ASSUME Shape, NEW fields, Shows(fields)
  PROVE  /\ DOMAIN page' = {"payer", "goal", "funded", "closed", "returned", "spent", "dialog"}
         /\ \A f \in DOMAIN page : page'[f] = IF f \in DOMAIN fields THEN fields[f] ELSE page[f]
BY DEF Shape, Shows

\* What the invariant says of the goals, the sweeps and the runs is kept by a
\* step that changes none of them.
LEMMA PageStep ==
  ASSUME ConsoleInv, UNCHANGED <<goals, swept, job, left, sweeps, recovered, live, reloads>>,
         page'.spent = page.spent,
         DOMAIN page' = {"payer", "goal", "funded", "closed", "returned", "spent", "dialog"},
         act' = [name |-> act'.name, point |-> act'.point, goal |-> act'.goal,
                 payer |-> act'.payer, asked |-> act'.asked],
         act' = act \/ act'.point # "stream",
         Returning'
  PROVE  ConsoleInv'
BY DEF ConsoleInv, Shape, Collected, At, Exists, Known, Settled, RecoveredIsMoved

LEMMA OpenDialogKeeps == ConsoleInv /\ OpenDialog => ConsoleInv'
<1> SUFFICES ASSUME ConsoleInv, OpenDialog PROVE ConsoleInv'
  OBVIOUS
<1>1. /\ page.goal = 0 /\ Shows([dialog |-> TRUE]) /\ Shape /\ Returning
      /\ UNCHANGED <<goals, swept, job, left, sweeps, recovered, live, reloads, act>>
  BY DEF OpenDialog, chainVars, serverVars, ConsoleInv
<1>2. /\ DOMAIN page' = {"payer", "goal", "funded", "closed", "returned", "spent", "dialog"}
      /\ page'.goal = page.goal /\ page'.returned = page.returned /\ page'.spent = page.spent
  BY <1>1, ShowsIs DEF Shape
<1>3. page.returned = 0 /\ act.name # "return"
  BY <1>1 DEF Returning
<1>4. Returning'
  BY <1>1, <1>2, <1>3 DEF Returning, Exists, Known
<1> QED BY <1>1, <1>2, <1>4, PageStep DEF Shape

LEMMA CloseDialogKeeps == ConsoleInv /\ CloseDialog => ConsoleInv'
<1> SUFFICES ASSUME ConsoleInv, CloseDialog PROVE ConsoleInv'
  OBVIOUS
<1>1. /\ page.dialog /\ Shows([dialog |-> FALSE]) /\ Shape /\ Returning
      /\ UNCHANGED <<goals, swept, job, left, sweeps, recovered, live, reloads, act>>
  BY DEF CloseDialog, chainVars, serverVars, ConsoleInv
<1>2. /\ DOMAIN page' = {"payer", "goal", "funded", "closed", "returned", "spent", "dialog"}
      /\ page'.goal = page.goal /\ page'.returned = page.returned /\ page'.spent = page.spent
  BY <1>1, ShowsIs DEF Shape
<1>3. Returning'
  BY <1>1, <1>2 DEF Returning, Exists, Known
<1> QED BY <1>1, <1>2, <1>3, PageStep DEF Shape

LEMMA ResumeKeeps == ASSUME NEW g, Exists(g), ConsoleInv, Resume(g) PROVE ConsoleInv'
<1>1. /\ page.dialog /\ Shows([goal |-> g, dialog |-> FALSE]) /\ Shape /\ Returning
      /\ UNCHANGED <<goals, swept, job, left, sweeps, recovered, live, reloads, act>>
  BY DEF Resume, chainVars, serverVars, ConsoleInv
<1>2. /\ DOMAIN page' = {"payer", "goal", "funded", "closed", "returned", "spent", "dialog"}
      /\ page'.returned = page.returned /\ page'.spent = page.spent
      /\ page'.dialog = FALSE /\ page'.goal = g
  BY <1>1, ShowsIs DEF Shape
<1>3. Returning'
  BY <1>1, <1>2 DEF Returning, Exists, Known
<1> QED BY <1>1, <1>2, <1>3, PageStep DEF Shape

LEMMA ClickKeeps == ASSUME NEW name \in Operations, ConsoleInv, Click(name) PROVE ConsoleInv'
<1>1. /\ act = Free /\ Offered(name) /\ Shape /\ Returning
      /\ Shows(IF name = "open" THEN [dialog |-> FALSE] ELSE <<>>)
      /\ UNCHANGED <<goals, swept, job, left, sweeps, recovered, live, reloads>>
  BY DEF Click, chainVars, serverVars, ConsoleInv
<1>2. /\ DOMAIN page' = {"payer", "goal", "funded", "closed", "returned", "spent", "dialog"}
      /\ page'.returned = page.returned /\ page'.spent = page.spent /\ page'.goal = page.goal
      /\ page'.dialog = IF name = "open" THEN FALSE ELSE page.dialog
  <2>1. PICK fields : fields = IF name = "open" THEN [dialog |-> FALSE] ELSE <<>>
    OBVIOUS
  <2>2. Shows(fields)
    BY <1>1, <2>1
  <2>3. /\ name = "open" => DOMAIN fields = {"dialog"} /\ fields["dialog"] = FALSE
        /\ name # "open" => DOMAIN fields = {}
    BY <2>1
  <2>4. /\ DOMAIN page' = {"payer", "goal", "funded", "closed", "returned", "spent", "dialog"}
        /\ \A f \in DOMAIN page : page'[f] = IF f \in DOMAIN fields THEN fields[f] ELSE page[f]
    BY <1>1, <2>2, ShowsIs
  <2>5. DOMAIN page = {"payer", "goal", "funded", "closed", "returned", "spent", "dialog"}
    BY <1>1 DEF Shape
  <2> QED BY <2>3, <2>4, <2>5
<1>3. /\ act' = [name |-> act'.name, point |-> act'.point, goal |-> act'.goal,
                 payer |-> act'.payer, asked |-> act'.asked]
      /\ act'.name = name /\ act'.point = "start"
      /\ name \in {"return", "run"} => act'.goal = page.goal
  BY DEF Click, Free
<1>4. CASE name = "return"
  <2>1. ~page.dialog /\ page.goal # 0 /\ page.returned = 0
    BY <1>1, <1>4 DEF Offered
  <2> QED BY <1>1, <1>2, <1>3, <1>4, <2>1, PageStep DEF Returning, Exists, Known
<1>5. CASE name = "open"
  <2>1. page.dialog
    BY <1>1, <1>5 DEF Offered
  <2> QED BY <1>1, <1>2, <1>3, <1>5, <2>1, PageStep DEF Returning, Exists, Known
<1>6. CASE name \notin {"return", "open"}
  <2>1. Returning'
    BY <1>1, <1>2, <1>3, <1>6 DEF Returning, Exists, Known
  <2> QED BY <1>1, <1>2, <1>3, <2>1, PageStep
<1> QED BY <1>4, <1>5, <1>6

\* An operation that did its work, or threw, is free; the page shows it or not.
LEMMA DoneIs ==
  ASSUME Shape, NEW fields, Done(fields)
  PROVE  /\ act' = Free
         /\ DOMAIN page' = {"payer", "goal", "funded", "closed", "returned", "spent", "dialog"}
         /\ \/ \A f \in DOMAIN page : page'[f] = IF f \in DOMAIN fields THEN fields[f] ELSE page[f]
            \/ page' = page
BY ShowsIs DEF Done, Shape

LEMMA FreeShape ==
  /\ Free = [name |-> Free.name, point |-> Free.point, goal |-> Free.goal,
             payer |-> Free.payer, asked |-> Free.asked]
  /\ Free.name = "free" /\ Free.point = "start"
BY DEF Free

LEMMA ThrowKeeps == ConsoleInv /\ Throw => ConsoleInv'
<1> SUFFICES ASSUME ConsoleInv, Throw PROVE ConsoleInv'
  OBVIOUS
<1>1. /\ act' = Free /\ Shape /\ Returning /\ page' = page
      /\ UNCHANGED <<goals, swept, job, left, sweeps, recovered, live, reloads>>
  BY DEF Throw, chainVars, serverVars, ConsoleInv
<1>2. Returning'
  BY <1>1, FreeShape DEF Returning, Exists, Known
<1> QED BY <1>1, <1>2, FreeShape, PageStep DEF Shape

LEMMA MintKeeps == ConsoleInv /\ Mint => ConsoleInv'
<1> SUFFICES ASSUME ConsoleInv, Mint PROVE ConsoleInv'
  OBVIOUS
<1>1. /\ Done([payer |-> minted']) /\ Shape /\ Returning
      /\ UNCHANGED <<goals, swept, job, left, sweeps, recovered, live, reloads>>
  BY DEF Mint, chainVars, serverVars, ConsoleInv
<1>2. /\ act' = Free
      /\ DOMAIN page' = {"payer", "goal", "funded", "closed", "returned", "spent", "dialog"}
      /\ page'.goal = page.goal /\ page'.returned = page.returned /\ page'.spent = page.spent
      /\ page'.dialog = page.dialog
  BY <1>1, DoneIs DEF Shape
<1>3. Returning'
  BY <1>1, <1>2, FreeShape DEF Returning, Exists, Known
<1> QED BY <1>1, <1>2, <1>3, FreeShape, PageStep DEF Shape

LEMMA FundKeeps == ConsoleInv /\ Fund => ConsoleInv'
<1> SUFFICES ASSUME ConsoleInv, Fund PROVE ConsoleInv'
  OBVIOUS
<1>1. /\ Done([funded |-> TRUE]) /\ Shape /\ Returning
      /\ UNCHANGED <<goals, swept, job, left, sweeps, recovered, live, reloads>>
  BY DEF Fund, serverVars, ConsoleInv
<1>2. /\ act' = Free
      /\ DOMAIN page' = {"payer", "goal", "funded", "closed", "returned", "spent", "dialog"}
      /\ page'.goal = page.goal /\ page'.returned = page.returned /\ page'.spent = page.spent
      /\ page'.dialog = page.dialog
  BY <1>1, DoneIs DEF Shape
<1>3. Returning'
  BY <1>1, <1>2, FreeShape DEF Returning, Exists, Known
<1> QED BY <1>1, <1>2, <1>3, FreeShape, PageStep DEF Shape

-----------------------------------------------------------------------------
(* The vault and the orchestrator.                                         *)

\* What happens to goals and sweeps: goals are opened and closed, sweeps of
\* known goals begin, move on and end, and each is submitted for a closed goal.
GoalsStep ==
  /\ goals' = [g \in Ids |-> goals'[g]]
  /\ \A g \in Ids :
       /\ goals'[g] = [owner |-> goals'[g].owner, payer |-> goals'[g].payer,
                       open |-> goals'[g].open]
       /\ Known(g) => /\ goals'[g] # NoGoal /\ goals'[g].owner = goals[g].owner
                      /\ ~goals[g].open => ~goals'[g].open

LEMMA SameGoals == ASSUME Shape, goals' = goals PROVE GoalsStep
BY DEF Shape, GoalsStep, Known

LEMMA GoalsKeep ==
  ASSUME Settled, GoalsStep, sweeps' = sweeps, swept' = swept
  PROVE  Settled'
BY DEF Settled, GoalsStep, Exists, Known

\* A page that shows money as returned keeps doing so.
LEMMA ReturnedKeep ==
  ASSUME Returning, GoalsStep, swept \subseteq swept', page'.goal = page.goal,
         page'.returned = page.returned, page'.returned # 0
  PROVE  /\ page'.goal # 0 /\ ~goals'[page'.goal].open
         /\ \E w \in swept' : w.goal = page'.goal /\ w.amount = page'.returned
<1>1. page.goal # 0 /\ Exists(page.goal) /\ ~goals[page.goal].open
  BY DEF Returning
<1>2. PICK w \in swept : w.goal = page.goal /\ w.amount = page.returned
  BY DEF Returning
<1> QED BY <1>1, <1>2 DEF GoalsStep, Exists, Known

LEMMA ClosedGoals ==
  ASSUME NEW g, Exists(g), NEW caller \in Accounts, CloseBy(caller, g), Shape
  PROVE  GoalsStep
<1>1. CASE goals[g].owner = caller
  <2>1. goals' = [goals EXCEPT ![g].open = FALSE]
    BY <1>1 DEF CloseBy
  <2>2. goals' = [h \in Ids |-> IF h = g THEN [goals[g] EXCEPT !.open = FALSE] ELSE goals[h]]
    BY <2>1 DEF Shape
  <2>3. PICK n : n = [owner |-> goals[g].owner, payer |-> goals[g].payer, open |-> FALSE]
    OBVIOUS
  <2>4. [goals[g] EXCEPT !.open = FALSE] = n
    <3>1. PICK o, p, q : goals[g] = [owner |-> o, payer |-> p, open |-> q]
      BY DEF Shape, Exists
    <3>2. goals[g].owner = o /\ goals[g].payer = p
      BY <3>1
    <3>3. n = [owner |-> o, payer |-> p, open |-> FALSE]
      BY <2>3, <3>2
    <3>4. [goals[g] EXCEPT !.open = FALSE] = [owner |-> o, payer |-> p, open |-> FALSE]
      <4>1. PICK f : f = FALSE
        OBVIOUS
      <4>2. [goals[g] EXCEPT !.open = f] = [owner |-> o, payer |-> p, open |-> f]
        BY <3>1
      <4> QED BY <4>1, <4>2, Zenon
    <3> QED BY <3>3, <3>4
  <2>5. n.owner # "nobody" /\ n.owner = goals[g].owner /\ n.open = FALSE
        /\ n = [owner |-> n.owner, payer |-> n.payer, open |-> n.open]
    BY <1>1, <2>3 DEF Accounts
  <2>6. n # NoGoal
    BY <2>5 DEF NoGoal
  <2>7. goals' = [h \in Ids |-> IF h = g THEN n ELSE goals[h]]
    BY <2>2, <2>4
  <2>8. goals' = [h \in Ids |-> goals'[h]] /\ \A h \in Ids : goals'[h] = IF h = g THEN n ELSE goals[h]
    BY <2>7
  <2> QED BY <2>5, <2>6, <2>8 DEF GoalsStep, Shape, Known
<1>2. CASE goals[g].owner # caller
  BY <1>2, SameGoals DEF CloseBy
<1> QED BY <1>1, <1>2

LEMMA OpenKeeps == ConsoleInv /\ Open => ConsoleInv'
<1> SUFFICES ASSUME ConsoleInv, Open PROVE ConsoleInv'
  OBVIOUS
<1>1. PICK g \in Ids :
        /\ ~Known(g)
        /\ goals' = [goals EXCEPT ![g] = [owner |-> "me", payer |-> act.payer, open |-> TRUE]]
        /\ Done([goal |-> g])
  BY DEF Open
<1>2. /\ act.name = "open" /\ Shape /\ Returning /\ Settled /\ Collected /\ RecoveredIsMoved
      /\ UNCHANGED <<swept, job, left, sweeps, recovered, live, reloads>>
  BY DEF Open, At, serverVars, ConsoleInv
<1>3. PICK n : n = [owner |-> "me", payer |-> act.payer, open |-> TRUE]
  OBVIOUS
<1>4. GoalsStep
  <2>1. n = [owner |-> n.owner, payer |-> n.payer, open |-> n.open] /\ n # NoGoal
    BY <1>3 DEF NoGoal
  <2>2. /\ goals' = [h \in Ids |-> goals'[h]]
        /\ \A h \in Ids : goals'[h] = IF h = g THEN n ELSE goals[h]
    BY <1>1, <1>2, <1>3 DEF Shape
  <2> QED BY <1>1, <1>2, <2>1, <2>2 DEF GoalsStep, Shape, Known
<1>5. /\ act' = Free
      /\ DOMAIN page' = {"payer", "goal", "funded", "closed", "returned", "spent", "dialog"}
      /\ page'.returned = page.returned /\ page'.spent = page.spent
      /\ page'.dialog = page.dialog
  BY <1>1, <1>2, DoneIs DEF Shape
<1>6. Returning'
  <2>1. page'.returned = 0 /\ act'.name = "free"
    BY <1>2, <1>5, FreeShape DEF Returning
  <2>2. /\ page.goal # 0 => page.goal \in Ids /\ goals'[page.goal] # NoGoal
        /\ goals'[g] # NoGoal
    <3>1. goals'[g] = n /\ n # NoGoal
      BY <1>1, <1>2, <1>3 DEF Shape, NoGoal
    <3> QED BY <1>2, <1>4, <3>1 DEF Returning, GoalsStep, Exists, Known
  <2>3. page'.goal \in {page.goal, g}
    BY <1>1, <1>2, DoneIs DEF Shape
  <2> QED BY <2>1, <2>2, <2>3 DEF Returning, Exists, Known
<1>7. Settled'
  BY <1>2, <1>4, GoalsKeep
<1>8. Shape'
  BY <1>2, <1>4, <1>5, FreeShape DEF Shape, GoalsStep
<1>9. Collected' /\ RecoveredIsMoved'
  BY <1>2, <1>5, FreeShape DEF Collected, At, RecoveredIsMoved
<1> QED BY <1>6, <1>7, <1>8, <1>9 DEF ConsoleInv

LEMMA ReturnClosesKeeps == ConsoleInv /\ ReturnCloses => ConsoleInv'
<1> SUFFICES ASSUME ConsoleInv, ReturnCloses PROVE ConsoleInv'
  OBVIOUS
<1>1. /\ act.name = "return" /\ Known(act.goal) /\ Shape /\ Returning /\ Settled /\ Collected
      /\ RecoveredIsMoved
      /\ UNCHANGED <<swept, job, left, sweeps, recovered, live, reloads>>
  BY DEF ReturnCloses, At, serverVars, ConsoleInv
<1>2. \/ act' = [act EXCEPT !.point = "post"] /\ Shows([closed |-> TRUE])
      \/ act' = Free /\ UNCHANGED page
  BY DEF ReturnCloses
<1>3. Exists(act.goal)
  BY <1>1 DEF Returning
<1>4. GoalsStep
  BY <1>1, <1>3, ClosedGoals, SameGoals DEF ReturnCloses, Accounts
<1>5. /\ DOMAIN page' = {"payer", "goal", "funded", "closed", "returned", "spent", "dialog"}
      /\ page'.goal = page.goal /\ page'.returned = page.returned /\ page'.spent = page.spent
      /\ page'.dialog = page.dialog
  <2>1. CASE Shows([closed |-> TRUE])
    BY <1>1, <2>1, ShowsIs DEF Shape
  <2> QED BY <1>1, <1>2, <2>1 DEF Shape
<1>6. /\ act' = [name |-> act'.name, point |-> act'.point, goal |-> act'.goal,
                 payer |-> act'.payer, asked |-> act'.asked]
      /\ \/ act'.name = "return" /\ act'.goal = act.goal /\ act'.point = "post"
         \/ act'.name = "free"
  <2>1. CASE act' = [act EXCEPT !.point = "post"]
    <3>1. act' = [name |-> act.name, point |-> "post", goal |-> act.goal,
                  payer |-> act.payer, asked |-> act.asked]
      BY <1>1, <2>1 DEF Shape
    <3> QED BY <1>1, <3>1
  <2> QED BY <1>2, <2>1, FreeShape
<1>7. Returning'
  <2>1. page'.goal # 0 => Exists(page.goal)' /\ page'.goal = page.goal
    BY <1>1, <1>4, <1>5 DEF Returning, Exists, GoalsStep, Known
  <2>2. ~page'.dialog
    BY <1>1, <1>5 DEF Returning
  <2>3. act'.name = "return" =>
          act'.goal = page'.goal /\ act'.goal # 0 /\ act'.point # "wait"
    BY <1>1, <1>5, <1>6 DEF Returning
  <2>4. act'.name # "open"
    BY <1>6
  <2>5. page'.returned # 0 =>
          /\ page'.goal # 0 /\ ~goals'[page'.goal].open
          /\ \E w \in swept' : w.goal = page'.goal /\ w.amount = page'.returned
    BY <1>1, <1>4, <1>5, ReturnedKeep
  <2>6. (page.goal # 0 => Exists(page.goal))'
    BY <1>5, <2>1 DEF Exists, Known
  <2> QED BY <2>2, <2>3, <2>4, <2>5, <2>6 DEF Returning
<1>8. Settled'
  BY <1>1, <1>4, GoalsKeep
<1>9. Shape'
  BY <1>1, <1>4, <1>5, <1>6 DEF Shape, GoalsStep
<1>10. Collected' /\ RecoveredIsMoved'
  BY <1>1, <1>5, <1>6 DEF Collected, At, RecoveredIsMoved
<1> QED BY <1>7, <1>8, <1>9, <1>10 DEF ConsoleInv

\* What the operation in hand and the page say stays true when goals or a sweep move on.
LEMMA ReturningKeeps ==
  ASSUME Returning, GoalsStep, swept \subseteq swept', page' = page, act' = act,
         \A s \in Posts : act.name = "return" /\ act.point = "wait" /\ act.asked = s =>
                         sweeps'[s].goal = sweeps[s].goal
  PROVE  Returning'
<1>1. page.goal # 0 => page.goal \in Ids /\ goals'[page.goal] # NoGoal
  BY DEF Returning, GoalsStep, Exists, Known
<1>2. page'.returned # 0 =>
        /\ page'.goal # 0 /\ ~goals'[page'.goal].open
        /\ \E w \in swept' : w.goal = page'.goal /\ w.amount = page'.returned
  BY ReturnedKeep
<1> QED BY <1>1, <1>2 DEF Returning, Exists, Known

LEMMA OtherClosesKeeps == ConsoleInv /\ OtherCloses => ConsoleInv'
<1> SUFFICES ASSUME ConsoleInv, OtherCloses PROVE ConsoleInv'
  OBVIOUS
<1>1. PICK g \in Ids : goals[g].owner = "other" /\ CloseBy("other", g)
  BY DEF OtherCloses
<1>2. /\ Shape /\ Returning /\ Settled /\ Collected /\ RecoveredIsMoved
      /\ UNCHANGED <<swept, job, left, sweeps, recovered, live, reloads, page, act>>
  BY DEF OtherCloses, serverVars, ConsoleInv
<1>3. Exists(g)
  BY <1>1 DEF Exists, Known, NoGoal
<1>4. GoalsStep
  BY <1>1, <1>2, <1>3, ClosedGoals DEF Accounts
<1>5. Returning'
  BY <1>2, <1>4, ReturningKeeps
<1>6. Settled'
  BY <1>2, <1>4, GoalsKeep
<1>7. Shape'
  BY <1>2, <1>4 DEF Shape, GoalsStep
<1>8. Collected' /\ RecoveredIsMoved'
  BY <1>2 DEF Collected, At, RecoveredIsMoved
<1> QED BY <1>5, <1>6, <1>7, <1>8 DEF ConsoleInv

-----------------------------------------------------------------------------
(* Runs.                                                                   *)

IsRun(x) == x = [point |-> x.point, goal |-> x.goal, session |-> x.session]

\* The run r becomes x, which is all that changes but the page with its
\* operation, and what was collected.
LEMMA RunBecomes ==
  ASSUME ConsoleInv, UNCHANGED <<goals, swept, sweeps, recovered>>,
         DOMAIN page' = {"payer", "goal", "funded", "closed", "returned", "spent", "dialog"},
         act' = [name |-> act'.name, point |-> act'.point, goal |-> act'.goal,
                 payer |-> act'.payer, asked |-> act'.asked],
         NEW r \in Runs, NEW x, IsRun(x), job' = [job EXCEPT ![r] = x],
         Collected', Returning'
  PROVE  ConsoleInv'
<1>1. job' = [o \in Runs |-> job'[o]] /\ \A o \in Runs : job'[o] = IF o = r THEN x ELSE job[o]
  BY DEF ConsoleInv, Shape
<1>2. Shape'
  BY <1>1 DEF ConsoleInv, Shape, IsRun
<1> QED BY <1>2 DEF ConsoleInv, Exists, Known, Settled, RecoveredIsMoved

RunAt(r, to) == [job EXCEPT ![r].point = to]

\* A run that moves on keeps its goal and the page load it belongs to.
LEMMA RunMoves ==
  ASSUME Shape, NEW r \in Runs, NEW to, job' = RunAt(r, to)
  PROVE  \E x : /\ IsRun(x) /\ x.point = to /\ x.session = job[r].session
                /\ job' = [job EXCEPT ![r] = x]
                /\ \A o \in Runs : job'[o] = IF o = r THEN x ELSE job[o]
<1>1. PICK e : e = job[r]
  OBVIOUS
<1>2. PICK p, g, n : e = [point |-> p, goal |-> g, session |-> n] /\ n = job[r].session
  <2>1. e = [point |-> e.point, goal |-> e.goal, session |-> e.session]
          /\ e.session = job[r].session
    BY <1>1 DEF Shape
  <2> QED BY <2>1
<1>3. PICK x : x = [e EXCEPT !.point = to]
  OBVIOUS
<1>4. x = [point |-> to, goal |-> g, session |-> n]
  BY <1>2, <1>3
<1>5. IsRun(x) /\ x.point = to /\ x.session = job[r].session
  BY <1>2, <1>4 DEF IsRun
<1>6. job' = [job EXCEPT ![r] = x]
  BY <1>1, <1>3 DEF RunAt
<1>7. \A o \in Runs : job'[o] = IF o = r THEN x ELSE job[o]
  BY <1>6 DEF Shape
<1> QED BY <1>5, <1>6, <1>7

LEMMA ReloadKeeps == ConsoleInv /\ Reload => ConsoleInv'
<1> SUFFICES ASSUME ConsoleInv, Reload PROVE ConsoleInv'
  OBVIOUS
<1>1. /\ page' = Blank /\ act' = Free /\ left' = 0 /\ reloads' = reloads + 1
      /\ UNCHANGED <<goals, swept, sweeps, recovered, job>> /\ Shape /\ Collected
  BY DEF Reload, chainVars, ConsoleInv
<1>2. /\ DOMAIN page' = {"payer", "goal", "funded", "closed", "returned", "spent", "dialog"}
      /\ page'.goal = 0 /\ page'.returned = 0 /\ page'.spent = 0
  BY <1>1 DEF Blank
<1>3. Collected'
  BY <1>1, <1>2, FreeShape DEF Collected, At
<1>4. Returning'
  BY <1>1, <1>2, FreeShape DEF Returning
<1>5. Shape'
  BY <1>1, <1>2, FreeShape DEF Shape
<1> QED BY <1>1, <1>3, <1>4, <1>5 DEF ConsoleInv, Exists, Known, Settled, RecoveredIsMoved

LEMMA NewRun ==
  ASSUME NEW p, NEW g, NEW n
  PROVE  [NoJob EXCEPT !.point = p, !.goal = g, !.session = n] =
           [point |-> p, goal |-> g, session |-> n]
<1>1. PICK i, z, y : NoJob = [point |-> i, goal |-> z, session |-> y]
  BY DEF NoJob
<1>2. PICK f : f = [NoJob EXCEPT !.point = p, !.goal = g, !.session = n]
  OBVIOUS
<1>3. f = [point |-> p, goal |-> g, session |-> n]
  BY <1>1, <1>2
<1> QED BY <1>2, <1>3

LEMMA RunStartsKeeps == ASSUME NEW r \in Runs, ConsoleInv, RunStarts(r) PROVE ConsoleInv'
<1>1. /\ act.name = "run" /\ act' = [act EXCEPT !.point = "stream", !.asked = r]
      /\ job' = [job EXCEPT ![r] =
           [NoJob EXCEPT !.point = "begun", !.goal = act.goal, !.session = reloads]]
      /\ UNCHANGED <<goals, swept, sweeps, recovered, page, left, live, reloads>>
      /\ Shape /\ Collected /\ Returning
  BY DEF RunStarts, At, chainVars, ConsoleInv
<1>2. act' = [name |-> act.name, point |-> "stream", goal |-> act.goal,
              payer |-> act.payer, asked |-> r]
  BY <1>1 DEF Shape
<1>3. PICK x : x = [point |-> "begun", goal |-> act.goal, session |-> reloads]
  OBVIOUS
<1>4. job' = [job EXCEPT ![r] = x]
  BY <1>1, <1>3, NewRun, Zenon
<1>5. IsRun(x) /\ x.point = "begun" /\ x.session = reloads
  BY <1>3 DEF IsRun
<1>6. job'[r] = x /\ act'.asked = r
  BY <1>1, <1>2, <1>4 DEF Shape
<1>7. Collected'
  BY <1>1, <1>5, <1>6 DEF Collected
<1>8. Returning'
  BY <1>1, <1>2 DEF Returning, Exists, Known
<1> QED BY <1>1, <1>2, <1>4, <1>5, <1>7, <1>8, RunBecomes DEF Shape

\* A run moves on, short of its settlement.
LEMMA JobMovesKeeps ==
  ASSUME NEW r \in Runs, ConsoleInv, JobRequests(r) \/ JobSigns(r) PROVE ConsoleInv'
<1>1. PICK to \in {"pending", "signed"} : job' = RunAt(r, to)
  BY DEF JobRequests, JobSigns, RunAt
<1>2. /\ UNCHANGED <<goals, swept, sweeps, recovered, page, act, left, live, reloads>>
      /\ Shape /\ Collected /\ Returning
  BY DEF JobRequests, JobSigns, chainVars, ConsoleInv
<1>3. PICK x : /\ IsRun(x) /\ x.point = to /\ x.session = job[r].session
               /\ job' = [job EXCEPT ![r] = x]
               /\ \A o \in Runs : job'[o] = IF o = r THEN x ELSE job[o]
  BY <1>1, <1>2, RunMoves
<1>4. Collected'
  BY <1>1, <1>2, <1>3 DEF Collected, At
<1>5. Returning'
  BY <1>2 DEF Returning, Exists, Known
<1> QED BY <1>2, <1>3, <1>4, <1>5, RunBecomes DEF Shape

LEMMA SettlesKeeps == ASSUME NEW r \in Runs, ConsoleInv, Settles(r) PROVE ConsoleInv'
<1>1. /\ left' = IF live /\ job[r].session = reloads THEN left + Price ELSE left
      /\ job' = RunAt(r, "settled")
      /\ UNCHANGED <<goals, swept, sweeps, recovered, page, act, live, reloads>>
      /\ Shape /\ Collected /\ Returning
  BY DEF Settles, RunAt, ConsoleInv
<1>2. PICK x : /\ IsRun(x) /\ x.point = "settled" /\ x.session = job[r].session
               /\ job' = [job EXCEPT ![r] = x]
               /\ \A o \in Runs : job'[o] = IF o = r THEN x ELSE job[o]
  BY <1>1, RunMoves
<1>3. Collected'
  <2>1. left \in Nat /\ left' \in Nat /\ page.spent \in Nat /\ page.spent <= left
          /\ left <= left' /\ reloads \in Nat
    BY <1>1 DEF Collected, Price
  <2>2. ASSUME At("run", "stream")
        PROVE  /\ act.asked \in Runs /\ job'[act.asked].session = reloads
               /\ live /\ job'[act.asked].point = "settled" => page.spent + Price <= left'
    <3>1. CASE act.asked = r
      BY <1>1, <1>2, <2>1, <2>2, <3>1 DEF Collected, Price
    <3>2. CASE act.asked # r
      BY <1>1, <1>2, <2>1, <2>2, <3>2 DEF Collected, Price
    <3> QED BY <3>1, <3>2
  <2> QED BY <1>1, <2>1, <2>2 DEF Collected, At
<1>4. Returning'
  BY <1>1 DEF Returning, Exists, Known
<1> QED BY <1>1, <1>2, <1>3, <1>4, RunBecomes DEF Shape

LEMMA JobEndsKeeps == ASSUME NEW r \in Runs, ConsoleInv, JobEnds(r) PROVE ConsoleInv'
<1>1. /\ job' = [job EXCEPT ![r] = JobOver]
      /\ UNCHANGED <<goals, swept, sweeps, recovered, left, live, reloads>>
      /\ Shape /\ Collected /\ Returning
  BY DEF JobEnds, chainVars, ConsoleInv
<1>2. IsRun(JobOver)
  BY DEF IsRun, JobOver
<1>3. CASE At("run", "stream") /\ act.asked = r
  <2>1. /\ act' = Free
        /\ \/ /\ live /\ job[r].point = "settled"
              /\ Shows([spent |-> page.spent + Price])
           \/ UNCHANGED page
    BY <1>3 DEF JobEnds, CountedOver, Streamed, CountsAsSpent, Settlement
  <2>2. /\ DOMAIN page' = {"payer", "goal", "funded", "closed", "returned", "spent", "dialog"}
        /\ page'.goal = page.goal /\ page'.returned = page.returned /\ page'.dialog = page.dialog
        /\ \/ live /\ job[r].point = "settled" /\ page'.spent = page.spent + Price
           \/ page'.spent = page.spent
    <3>1. CASE live /\ job[r].point = "settled" /\ Shows([spent |-> page.spent + Price])
      BY <1>1, <3>1, ShowsIs DEF Shape
    <3>2. CASE UNCHANGED page
      BY <1>1, <3>2 DEF Shape
    <3> QED BY <2>1, <3>1, <3>2
  <2>3. Collected'
    BY <1>1, <1>3, <2>1, <2>2, FreeShape DEF Collected, At, Price
  <2>4. Returning'
    BY <1>1, <2>1, <2>2, FreeShape DEF Returning, Exists, Known
  <2> QED BY <1>1, <1>2, <2>1, <2>2, <2>3, <2>4, FreeShape, RunBecomes
<1>4. CASE ~(At("run", "stream") /\ act.asked = r)
  <2>1. UNCHANGED <<act, page>>
    BY <1>4 DEF JobEnds
  <2>2. \A o \in Runs : o # r => job'[o] = job[o]
    BY <1>1 DEF Shape
  <2>3. Collected'
    BY <1>1, <1>4, <2>1, <2>2 DEF Collected, At
  <2>4. Returning'
    BY <1>1, <2>1 DEF Returning, Exists, Known
  <2> QED BY <1>1, <1>2, <2>1, <2>3, <2>4, RunBecomes DEF Shape
<1> QED BY <1>3, <1>4

-----------------------------------------------------------------------------
(* Sweeps.                                                                 *)

IsSweep(x) == x = [point |-> x.point, goal |-> x.goal, amount |-> x.amount]

\* The sweep of s becomes x, and the goals and the vault's record of sweeps may
\* change with it.
LEMMA SweepBecomes ==
  ASSUME ConsoleInv, GoalsStep, NEW s \in Sweepers, NEW x, IsSweep(x),
         sweeps' = [sweeps EXCEPT ![s] = x],
         x.point # "idle" => Exists(x.goal),
         x.point = "submit" => ~goals'[x.goal].open,
         \A w \in swept' \ swept : Exists(w.goal) /\ w.to = goals[w.goal].owner,
         page' = page \/ DOMAIN page' =
           {"payer", "goal", "funded", "closed", "returned", "spent", "dialog"},
         act' = [name |-> act'.name, point |-> act'.point, goal |-> act'.goal,
                 payer |-> act'.payer, asked |-> act'.asked],
         act' = act \/ act'.name # "run",
         UNCHANGED <<job, left, live, reloads>>, page'.spent = page.spent,
         Returning', RecoveredIsMoved'
  PROVE  ConsoleInv'
<1>1. Shape /\ Collected /\ Settled
  BY DEF ConsoleInv
<1>2. /\ sweeps' = [o \in Sweepers |-> sweeps'[o]]
      /\ \A o \in Sweepers : sweeps'[o] = IF o = s THEN x ELSE sweeps[o]
  BY <1>1 DEF Shape
<1>3. \A g : Exists(g) => /\ g \in Ids /\ goals'[g] # NoGoal /\ goals'[g].owner = goals[g].owner
                          /\ ~goals[g].open => ~goals'[g].open
  BY DEF GoalsStep, Exists, Known
<1>4. Shape'
  BY <1>1, <1>2 DEF Shape, GoalsStep, IsSweep
<1>5. Settled'
  <2>1. ASSUME NEW w \in swept'
        PROVE  w.goal \in Ids /\ goals'[w.goal] # NoGoal /\ w.to = goals'[w.goal].owner
    <3>1. Exists(w.goal) /\ w.to = goals[w.goal].owner
      BY <1>1 DEF Settled
    <3> QED BY <1>3, <3>1
  <2>2. ASSUME NEW o \in Sweepers
        PROVE  /\ sweeps'[o].point # "idle" =>
                    sweeps'[o].goal \in Ids /\ goals'[sweeps'[o].goal] # NoGoal
               /\ sweeps'[o].point = "submit" => ~goals'[sweeps'[o].goal].open
    <3>1. CASE o = s
      BY <1>2, <1>3, <3>1
    <3>2. CASE o # s
      <4>1. /\ sweeps[o].point # "idle" => Exists(sweeps[o].goal)
            /\ sweeps[o].point = "submit" => ~goals[sweeps[o].goal].open
        BY <1>1 DEF Settled
      <4> QED BY <1>2, <1>3, <3>2, <4>1
    <3> QED BY <3>1, <3>2
  <2> QED BY <2>1, <2>2 DEF Settled, Exists, Known
<1>6. Collected'
  BY <1>1 DEF Collected, At
<1> QED BY <1>4, <1>5, <1>6 DEF ConsoleInv

\* The page hears of a sweep: it shows what was returned, or nothing.
LEMMA ConcludesIs ==
  ASSUME Shape, NEW s \in Sweepers, NEW result, Concludes(s, result)
  PROVE  /\ DOMAIN page' = {"payer", "goal", "funded", "closed", "returned", "spent", "dialog"}
         /\ page'.goal = page.goal /\ page'.spent = page.spent /\ page'.dialog = page.dialog
         /\ act' = [name |-> act'.name, point |-> act'.point, goal |-> act'.goal,
                    payer |-> act'.payer, asked |-> act'.asked]
         /\ \/ act' = act /\ page' = page /\ ~(At("return", "wait") /\ act.asked = s)
            \/ /\ act'.name = "free" /\ At("return", "wait") /\ act.asked = s
               /\ \/ page'.returned = page.returned
                  \/ IsSettled(result) /\ page'.returned = sweeps[s].amount
<1>1. CASE At("return", "wait") /\ act.asked = s
  <2>1. CASE IsSettled(result)
    <3>1. act' = Free /\ Shows([returned |-> sweeps[s].amount])
      BY <1>1, <2>1 DEF Concludes
    <3> QED BY <1>1, <2>1, <3>1, ShowsIs, FreeShape DEF Shape
  <2>2. CASE ~IsSettled(result)
    <3>1. act' = Free /\ UNCHANGED page
      BY <1>1, <2>2 DEF Concludes
    <3> QED BY <1>1, <3>1, FreeShape DEF Shape
  <2> QED BY <2>1, <2>2
<1>2. CASE ~(At("return", "wait") /\ act.asked = s)
  <2>1. UNCHANGED <<act, page>>
    BY <1>2 DEF Concludes
  <2> QED BY <1>2, <2>1 DEF Shape
<1> QED BY <1>1, <1>2

LEMMA ChangedSweep ==
  ASSUME NEW e, NEW f, NEW p, NEW g, NEW a, NEW b, NEW c,
         e = [point |-> a, goal |-> b, amount |-> c]
  PROVE  /\ f = [e EXCEPT !.point = p, !.goal = g] => f = [point |-> p, goal |-> g, amount |-> c]
         /\ f = [e EXCEPT !.point = p, !.amount = g] => f = [point |-> p, goal |-> b, amount |-> g]
OBVIOUS

LEMMA NewSweep ==
  ASSUME NEW p, NEW g
  PROVE  [NoSweep EXCEPT !.point = p, !.goal = g] = [point |-> p, goal |-> g, amount |-> 0]
<1>1. PICK f : f = [NoSweep EXCEPT !.point = p, !.goal = g]
  OBVIOUS
<1>2. PICK i, z, y : NoSweep = [point |-> i, goal |-> z, amount |-> y] /\ y = 0
  BY DEF NoSweep
<1>3. f = [point |-> p, goal |-> g, amount |-> y]
  BY <1>1, <1>2, ChangedSweep
<1> QED BY <1>1, <1>2, <1>3

LEMMA ReturnPostsKeeps ==
  ASSUME NEW s \in Posts, ConsoleInv, ReturnPosts(s)
  PROVE  ConsoleInv'
<1>1. /\ act.name = "return" /\ act' = [act EXCEPT !.point = "wait", !.asked = s]
      /\ sweeps' = [sweeps EXCEPT ![s] = [NoSweep EXCEPT !.point = "ask", !.goal = act.goal]]
      /\ UNCHANGED <<goals, swept, job, left, recovered, live, reloads, page>>
      /\ Shape /\ Returning /\ RecoveredIsMoved
  BY DEF ReturnPosts, At, chainVars, ConsoleInv
<1>2. PICK x : x = [point |-> "ask", goal |-> act.goal, amount |-> 0]
  OBVIOUS
<1>3. sweeps' = [sweeps EXCEPT ![s] = x] /\ s \in Sweepers
  BY <1>1, <1>2, NewSweep, Zenon DEF Sweepers
<1>4. IsSweep(x) /\ x.point = "ask" /\ x.goal = act.goal
  BY <1>2 DEF IsSweep
<1>5. act' = [name |-> act.name, point |-> "wait", goal |-> act.goal,
              payer |-> act.payer, asked |-> s]
  BY <1>1 DEF Shape
<1>6. sweeps'[s] = x
  BY <1>1, <1>3 DEF Shape
<1>7. Returning'
  BY <1>1, <1>4, <1>5, <1>6 DEF Returning, Exists, Known
<1>8. Exists(act.goal)
  BY <1>1 DEF Returning
<1>9. GoalsStep
  BY <1>1, SameGoals
<1>10. RecoveredIsMoved'
  BY <1>1 DEF RecoveredIsMoved
<1>11. \A w \in swept' \ swept : Exists(w.goal) /\ w.to = goals[w.goal].owner
  BY <1>1
<1> QED BY <1>1, <1>3, <1>4, <1>5, <1>7, <1>8, <1>9, <1>10, <1>11, SweepBecomes

LEMMA ToolPlansKeeps ==
  ASSUME NEW g \in Ids, ConsoleInv, ToolPlans(g)
  PROVE  ConsoleInv'
<1>1. PICK to \in {"close", "ask"} :
        sweeps' = [sweeps EXCEPT !["tool"] = [NoSweep EXCEPT !.point = to, !.goal = g]]
  BY DEF ToolPlans
<1>2. /\ Known(g) /\ UNCHANGED <<goals, swept, job, left, recovered, live, reloads, page, act>>
      /\ Shape /\ Returning /\ RecoveredIsMoved
  BY DEF ToolPlans, chainVars, ConsoleInv
<1>3. PICK x : x = [point |-> to, goal |-> g, amount |-> 0]
  OBVIOUS
<1>4. sweeps' = [sweeps EXCEPT !["tool"] = x] /\ "tool" \in Sweepers
  BY <1>1, <1>3, NewSweep, Zenon DEF Sweepers
<1>5. IsSweep(x) /\ x.point = to /\ x.goal = g
  BY <1>3 DEF IsSweep
<1>6. GoalsStep
  BY <1>2, SameGoals
<1>7. \A s \in Posts : sweeps'[s] = sweeps[s]
  BY <1>2, <1>4, ConsoleAssumption DEF Shape, Sweepers
<1>8. Returning'
  BY <1>2, <1>6, <1>7, ReturningKeeps
<1>9. RecoveredIsMoved'
  BY <1>2 DEF RecoveredIsMoved
<1>10. act' = [name |-> act'.name, point |-> act'.point, goal |-> act'.goal,
               payer |-> act'.payer, asked |-> act'.asked]
  BY <1>2 DEF Shape
<1>11. \A w \in swept' \ swept : Exists(w.goal) /\ w.to = goals[w.goal].owner
  BY <1>2
<1>12. Exists(x.goal) /\ x.point # "submit"
  BY <1>1, <1>2, <1>5 DEF Exists
<1> QED BY <1>2, <1>4, <1>5, <1>6, <1>8, <1>9, <1>10, <1>11, <1>12, SweepBecomes

LEMMA ToolClosesKeeps ==
  ASSUME ConsoleInv, ToolCloses
  PROVE  ConsoleInv'
<1>1. /\ sweeps["tool"].point = "close" /\ CloseBy("me", sweeps["tool"].goal)
      /\ sweeps' = [sweeps EXCEPT !["tool"].point = "ask"]
      /\ UNCHANGED <<swept, job, left, recovered, live, reloads, page, act>>
      /\ Shape /\ Returning /\ RecoveredIsMoved /\ Settled /\ "tool" \in Sweepers
  BY DEF ToolCloses, ConsoleInv, Sweepers
<1>2. PICK x : x = [point |-> "ask", goal |-> sweeps["tool"].goal, amount |-> sweeps["tool"].amount]
  OBVIOUS
<1>3. sweeps' = [sweeps EXCEPT !["tool"] = x]
  <2>1. [sweeps["tool"] EXCEPT !.point = "ask"] = x
    <3>1. PICK p, g, a : sweeps["tool"] = [point |-> p, goal |-> g, amount |-> a]
      BY <1>1 DEF Shape
    <3>2. x = [point |-> "ask", goal |-> g, amount |-> a]
      BY <1>2, <3>1
    <3> QED BY <3>1, <3>2
  <2> QED BY <1>1, <2>1
<1>4. IsSweep(x) /\ x.point = "ask" /\ x.goal = sweeps["tool"].goal
  BY <1>2 DEF IsSweep
<1>5. Exists(x.goal)
  BY <1>1, <1>4 DEF Settled
<1>6. GoalsStep
  BY <1>1, <1>4, <1>5, ClosedGoals DEF Accounts
<1>7. \A s \in Posts : sweeps'[s] = sweeps[s]
  BY <1>1, <1>3, ConsoleAssumption DEF Shape, Sweepers
<1>8. Returning'
  BY <1>1, <1>6, <1>7, ReturningKeeps
<1>9. RecoveredIsMoved'
  BY <1>1 DEF RecoveredIsMoved
<1>10. act' = [name |-> act'.name, point |-> act'.point, goal |-> act'.goal,
               payer |-> act'.payer, asked |-> act'.asked]
  BY <1>1 DEF Shape
<1>11. \A w \in swept' \ swept : Exists(w.goal) /\ w.to = goals[w.goal].owner
  BY <1>1
<1> QED BY <1>1, <1>3, <1>4, <1>5, <1>6, <1>8, <1>9, <1>10, <1>11, SweepBecomes

LEMMA AuthorizedKeeps ==
  ASSUME NEW s \in Sweepers, ConsoleInv, Authorized(s)
  PROVE  ConsoleInv'
<1>1. PICK g : g = sweeps[s].goal
  OBVIOUS
<1>2. PICK amount : sweeps' = [sweeps EXCEPT ![s].point = "submit", ![s].amount = amount]
  BY DEF Authorized
<1>3. /\ sweeps[s].point = "ask" /\ ~goals[g].open
      /\ UNCHANGED <<goals, swept, job, left, recovered, live, reloads, page, act>>
      /\ Shape /\ Returning /\ RecoveredIsMoved /\ Settled
  BY <1>1 DEF Authorized, chainVars, ConsoleInv
<1>4. PICK x : x = [point |-> "submit", goal |-> g, amount |-> amount]
  OBVIOUS
<1>5. sweeps' = [sweeps EXCEPT ![s] = x]
  <2>1. [sweeps[s] EXCEPT !.point = "submit", !.amount = amount] = x
    <3>1. PICK e, to : e = sweeps[s] /\ to = "submit"
      OBVIOUS
    <3>2. PICK p, q, a : e = [point |-> p, goal |-> q, amount |-> a] /\ q = g
      <4>1. e = [point |-> e.point, goal |-> e.goal, amount |-> e.amount] /\ e.goal = g
        BY <1>1, <1>3, <3>1 DEF Shape
      <4> QED BY <4>1
    <3>3. PICK f : f = [e EXCEPT !.point = to, !.amount = amount]
      OBVIOUS
    <3>4. f = [point |-> to, goal |-> g, amount |-> amount]
      BY <3>2, <3>3
    <3> QED BY <1>4, <3>1, <3>3, <3>4, Zenon
  <2> QED BY <1>2, <1>3, <2>1 DEF Shape
<1>6. IsSweep(x) /\ x.point = "submit" /\ x.goal = g
  BY <1>4 DEF IsSweep
<1>7. Exists(g)
  BY <1>1, <1>3 DEF Settled
<1>8. GoalsStep
  BY <1>3, SameGoals
<1>9. \A o \in Sweepers : sweeps'[o].goal = sweeps[o].goal
  BY <1>1, <1>3, <1>5, <1>6 DEF Shape
<1>10. Returning'
  BY <1>3, <1>8, <1>9, ReturningKeeps DEF Sweepers
<1>11. RecoveredIsMoved'
  BY <1>3 DEF RecoveredIsMoved
<1>12. act' = [name |-> act'.name, point |-> act'.point, goal |-> act'.goal,
               payer |-> act'.payer, asked |-> act'.asked]
  BY <1>3 DEF Shape
<1>13. \A w \in swept' \ swept : Exists(w.goal) /\ w.to = goals[w.goal].owner
  BY <1>3
<1> QED BY <1>3, <1>5, <1>6, <1>7, <1>8, <1>10, <1>11, <1>12, <1>13, SweepBecomes

LEMMA ConcludeKeeps ==
  ASSUME ConsoleInv, NEW s \in Sweepers, NEW result, Concludes(s, result),
         UNCHANGED <<goals, job, left, live, reloads>>, swept \subseteq swept',
         \A w \in swept' \ swept : Exists(w.goal) /\ w.to = goals[w.goal].owner,
         IsSettled(result) =>
           /\ sweeps[s].point = "submit"
           /\ \E w \in swept' : w.goal = sweeps[s].goal /\ w.amount = sweeps[s].amount,
         IsRecovered(result) =>
           \E w \in swept' : w.goal = sweeps[s].goal /\ w.amount = sweeps[s].amount
                              /\ w.by = Submitter(s)
  PROVE  ConsoleInv'
<1>1. Shape /\ Returning /\ RecoveredIsMoved /\ Settled
  BY DEF ConsoleInv
<1>2. GoalsStep
  BY <1>1, SameGoals
<1>3. sweeps' = [sweeps EXCEPT ![s] = NoSweep]
  BY DEF Concludes
<1>4. IsSweep(NoSweep) /\ NoSweep.point = "idle"
  BY DEF IsSweep, NoSweep
<1>5. /\ DOMAIN page' = {"payer", "goal", "funded", "closed", "returned", "spent", "dialog"}
      /\ page'.goal = page.goal /\ page'.spent = page.spent /\ page'.dialog = page.dialog
      /\ act' = [name |-> act'.name, point |-> act'.point, goal |-> act'.goal,
                 payer |-> act'.payer, asked |-> act'.asked]
      /\ \/ act' = act /\ page' = page /\ ~(At("return", "wait") /\ act.asked = s)
         \/ /\ act'.name = "free" /\ At("return", "wait") /\ act.asked = s
            /\ \/ page'.returned = page.returned
               \/ IsSettled(result) /\ page'.returned = sweeps[s].amount
  BY <1>1, ConcludesIs
<1>6. Returning'
  <2>1. CASE act' = act /\ page' = page /\ ~(At("return", "wait") /\ act.asked = s)
    <3>1. \A o \in Posts : act.name = "return" /\ act.point = "wait" /\ act.asked = o =>
                           sweeps'[o].goal = sweeps[o].goal
      BY <1>1, <1>3, <2>1 DEF At, Shape, Sweepers
    <3> QED BY <1>1, <1>2, <2>1, <3>1, ReturningKeeps
  <2>2. CASE /\ act'.name = "free" /\ At("return", "wait") /\ act.asked = s
             /\ \/ page'.returned = page.returned
                \/ IsSettled(result) /\ page'.returned = sweeps[s].amount
    <3>1. /\ page.goal # 0 /\ page.goal = sweeps[s].goal /\ ~page'.dialog
          /\ Exists(page.goal)
      BY <1>1, <1>5, <2>2 DEF Returning, At
    <3>2. page'.goal \in Ids /\ goals'[page'.goal] # NoGoal
      BY <1>5, <3>1 DEF Exists, Known
    <3>3. CASE page'.returned = page.returned
      <4>1. page'.returned # 0 =>
              /\ page'.goal # 0 /\ ~goals'[page'.goal].open
              /\ \E w \in swept' : w.goal = page'.goal /\ w.amount = page'.returned
        BY <1>1, <1>2, <1>5, <3>3, ReturnedKeep
      <4> QED BY <2>2, <3>1, <3>2, <4>1 DEF Returning, Exists, Known
    <3>4. CASE IsSettled(result) /\ page'.returned = sweeps[s].amount
      <4>1. /\ page'.goal # 0 /\ ~goals'[page'.goal].open
            /\ \E w \in swept' : w.goal = page'.goal /\ w.amount = page'.returned
        BY <1>1, <1>5, <3>1, <3>4 DEF Settled
      <4> QED BY <2>2, <3>1, <3>2, <4>1 DEF Returning, Exists, Known
    <3> QED BY <2>2, <3>3, <3>4
  <2> QED BY <1>5, <2>1, <2>2
<1>7. RecoveredIsMoved'
  <2>1. recovered' = IF s = "tool" /\ IsRecovered(result)
          THEN recovered \cup {[goal |-> sweeps[s].goal, amount |-> sweeps[s].amount]}
          ELSE recovered
    BY DEF Concludes
  <2>2. ASSUME NEW r \in recovered
        PROVE  \E w \in swept' : w.goal = r.goal /\ w.amount = r.amount /\ w.by = "tool"
    BY <1>1 DEF RecoveredIsMoved
  <2>3. CASE s = "tool" /\ IsRecovered(result)
    <3>1. PICK w \in swept' : w.goal = sweeps[s].goal /\ w.amount = sweeps[s].amount /\ w.by = "tool"
      BY <2>3 DEF Submitter
    <3>2. PICK n : n = [goal |-> sweeps[s].goal, amount |-> sweeps[s].amount]
      OBVIOUS
    <3>3. w.goal = n.goal /\ w.amount = n.amount
      BY <3>1, <3>2
    <3>4. recovered' = recovered \cup {n}
      BY <2>1, <2>3, <3>2
    <3> QED BY <2>2, <3>1, <3>3, <3>4 DEF RecoveredIsMoved
  <2>4. CASE ~(s = "tool" /\ IsRecovered(result))
    BY <2>1, <2>2, <2>4 DEF RecoveredIsMoved
  <2> QED BY <2>3, <2>4
<1> QED BY <1>2, <1>3, <1>4, <1>5, <1>6, <1>7, SweepBecomes

LEMMA SubmitsKeeps ==
  ASSUME NEW s \in Sweepers, ConsoleInv, Submits(s)
  PROVE  ConsoleInv'
<1>1. /\ sweeps[s].point = "submit" /\ UNCHANGED <<goals, job, left, live, reloads>>
      /\ Settled
  BY DEF Submits, ConsoleInv
<1>2. ASSUME NEW result, Transfers(s), Concludes(s, result) PROVE ConsoleInv'
  <2>1. PICK w : w = [goal |-> sweeps[s].goal, amount |-> sweeps[s].amount,
                      to |-> goals[sweeps[s].goal].owner, by |-> Submitter(s)]
    OBVIOUS
  <2>2. swept' = swept \cup {w}
    BY <1>2, <2>1 DEF Transfers
  <2>3. /\ w.goal = sweeps[s].goal /\ w.amount = sweeps[s].amount
        /\ w.to = goals[sweeps[s].goal].owner /\ w.by = Submitter(s)
    BY <2>1
  <2>4. Exists(sweeps[s].goal)
    BY <1>1 DEF Settled
  <2>5. \A v \in swept' \ swept : Exists(v.goal) /\ v.to = goals[v.goal].owner
    BY <2>2, <2>3, <2>4
  <2>6. w \in swept' /\ swept \subseteq swept'
    BY <2>2
  <2> QED BY <1>1, <1>2, <2>3, <2>5, <2>6, ConcludeKeeps
<1>3. ASSUME Consumed(s), Concludes(s, "already"), UNCHANGED swept PROVE ConsoleInv'
  <2>1. \E w \in swept' : w.goal = sweeps[s].goal /\ w.amount = sweeps[s].amount
    BY <1>3 DEF Consumed
  <2>2. swept \subseteq swept' /\ \A v \in swept' \ swept : Exists(v.goal) /\ v.to = goals[v.goal].owner
    BY <1>3
  <2>3. ~IsRecovered("already")
    BY DEF IsRecovered
  <2> QED BY <1>1, <1>3, <2>1, <2>2, <2>3, ConcludeKeeps
<1> QED BY <1>2, <1>3 DEF Submits

LEMMA SweepFailsKeeps ==
  ASSUME NEW s \in Sweepers, ConsoleInv, SweepFails(s)
  PROVE  ConsoleInv'
<1>1. Concludes(s, "failed") /\ UNCHANGED <<goals, swept, job, left, live, reloads>>
  BY DEF SweepFails, chainVars
<1>2. ~IsRecovered("failed") /\ ~IsSettled("failed")
  BY DEF IsRecovered, IsSettled
<1>3. swept \subseteq swept' /\ \A v \in swept' \ swept : Exists(v.goal) /\ v.to = goals[v.goal].owner
  BY <1>1
<1> QED BY <1>1, <1>2, <1>3, ConcludeKeeps

-----------------------------------------------------------------------------
(* The invariant and the properties.                                       *)

LEMMA InitConsoleInv == ConsoleInit => ConsoleInv
<1> SUFFICES ASSUME ConsoleInit PROVE ConsoleInv
  OBVIOUS
<1>1. /\ page = Blank /\ act = Free /\ job = [r \in Runs |-> NoJob] /\ swept = {} /\ recovered = {}
      /\ left = 0 /\ reloads = 0 /\ sweeps = [s \in Sweepers |-> NoSweep]
  BY DEF ConsoleInit
<1>2. PICK owner \in OldOwners :
        goals = [g \in Ids |-> IF g = 1
                  THEN [owner |-> owner, payer |-> 0, open |-> TRUE] ELSE NoGoal]
  BY DEF ConsoleInit
<1>3. /\ DOMAIN page = {"payer", "goal", "funded", "closed", "returned", "spent", "dialog"}
      /\ page.goal = 0 /\ page.returned = 0 /\ page.spent = 0 /\ page.dialog = FALSE
  BY <1>1 DEF Blank
<1>4. /\ job = [r \in Runs |-> job[r]]
      /\ \A r \in Runs : job[r] = NoJob /\ IsRun(NoJob)
  BY <1>1 DEF IsRun, NoJob
<1>5. \A s \in Sweepers : sweeps[s] = NoSweep
  BY <1>1
<1>6. NoSweep = [point |-> NoSweep.point, goal |-> NoSweep.goal, amount |-> NoSweep.amount]
      /\ NoSweep.point = "idle"
  BY DEF NoSweep
<1>7. \A g \in Ids : goals[g] = [owner |-> goals[g].owner, payer |-> goals[g].payer,
                                open |-> goals[g].open]
  BY <1>2 DEF NoGoal
<1>8. Shape
  BY <1>1, <1>2, <1>3, <1>4, <1>5, <1>6, <1>7, FreeShape DEF Shape, IsRun
<1>9. Collected
  BY <1>1, <1>3, FreeShape DEF Collected, At
<1>10. Settled
  BY <1>1, <1>5, <1>6 DEF Settled
<1>11. Returning
  BY <1>1, <1>3, FreeShape DEF Returning
<1>12. RecoveredIsMoved
  BY <1>1 DEF RecoveredIsMoved
<1> QED BY <1>8, <1>9, <1>10, <1>11, <1>12 DEF ConsoleInv

LEMMA NextConsoleInv == ConsoleInv /\ [ConsoleNext]_consoleVars => ConsoleInv'
<1> SUFFICES ASSUME ConsoleInv, [ConsoleNext]_consoleVars PROVE ConsoleInv'
  OBVIOUS
<1>1. CASE UNCHANGED consoleVars
  BY <1>1 DEF consoleVars, ConsoleInv, Shape, Collected, At, Settled, Returning, Exists, Known,
              RecoveredIsMoved
<1>2. CASE \/ OpenDialog \/ CloseDialog \/ (\E g \in {h \in Ids : Known(h)} : Resume(g))
           \/ (\E name \in Operations : Click(name)) \/ Throw
  BY <1>2, OpenDialogKeeps, CloseDialogKeeps, ResumeKeeps, ClickKeeps, ThrowKeeps DEF Exists
<1>3. CASE Mint \/ Open \/ Fund \/ ReturnCloses \/ (\E s \in Posts : ReturnPosts(s)) \/ Reload
  BY <1>3, MintKeeps, OpenKeeps, FundKeeps, ReturnClosesKeeps, ReturnPostsKeeps, ReloadKeeps
<1>4. CASE OtherCloses \/ \E r \in Runs : \/ RunStarts(r) \/ JobRequests(r) \/ JobSigns(r)
                                         \/ Settles(r) \/ JobEnds(r)
  BY <1>4, OtherClosesKeeps, RunStartsKeeps, JobMovesKeeps, SettlesKeeps, JobEndsKeeps
<1>5. CASE (\E g \in Ids : ToolPlans(g)) \/ ToolCloses
  BY <1>5, ToolPlansKeeps, ToolClosesKeeps
<1>6. CASE \E s \in Sweepers : Authorized(s) \/ Submits(s) \/ SweepFails(s)
  BY <1>6, AuthorizedKeeps, SubmitsKeeps, SweepFailsKeeps
<1> QED BY <1>1, <1>2, <1>3, <1>4, <1>5, <1>6 DEF ConsoleNext

\* ConsoleInv holds of the page, the server and the chain in every state.
THEOREM ConsoleInvariant == ConsoleSpec => []ConsoleInv
BY InitConsoleInv, NextConsoleInv, PTL DEF ConsoleSpec

\* However many runs overlap, of this page load and of earlier ones, the page
\* never shows more as spent than those of this page load have collected
\* (App.tsx: "only a real settlement counts").
THEOREM SpentIsCollected == ConsoleSpec => []SpentWasCollected
<1>1. ConsoleInv => SpentWasCollected
  BY DEF ConsoleInv, Collected, SpentWasCollected
<1> QED BY <1>1, ConsoleInvariant, PTL

\* What the page shows as returned went to the owner of the goal it shows,
\* which is closed, however late or often the sweep was asked for.
THEOREM ReturnedIsHome == ConsoleSpec => []ReturnedWentHome
<1>1. ConsoleInv => ReturnedWentHome
  <2> SUFFICES ASSUME ConsoleInv, page.returned > 0 PROVE ReturnedWentHome
    BY DEF ReturnedWentHome
  <2>1. page.returned # 0
    OBVIOUS
  <2>2. ~goals[page.goal].open
    BY <2>1 DEF ConsoleInv, Returning
  <2>3. PICK w \in swept : w.goal = page.goal /\ w.amount = page.returned
    BY <2>1 DEF ConsoleInv, Returning
  <2>4. w.to = goals[w.goal].owner
    BY DEF ConsoleInv, Settled
  <2> QED BY <2>2, <2>3, <2>4 DEF ReturnedWentHome
<1> QED BY <1>1, ConsoleInvariant, PTL

\* The sweep tool counts as recovered only what its own transactions moved.
THEOREM RecoveredWasMoved == ConsoleSpec => []RecoveredIsMoved
BY ConsoleInvariant, PTL DEF ConsoleInv

-----------------------------------------------------------------------------
(* The budget, for any amounts that are typed, sent and however many runs. *)
(* The invariant keeps the account of a goal (Kept): what is left and what *)
(* was bought add up to the budget, and the payer holds what is left as    *)
(* soon as it was sent the budget.  While an approved payment is on its    *)
(* way, that is still so of the account without it (Restored).               *)

BudgetRange == MinBudget..MaxBudget

Account == [grant: Nat, left: Int, calls: Int, attempts: Int, balance: Int, sent: Nat,
            bought: [Resources -> Nat]]

Kept(a) ==
  /\ a \in Account
  /\ a.grant \in BudgetRange
  /\ a.calls = CallsAtFirst - (a.bought["market-data"] + a.bought["bulk-archive"]
                               + a.bought["compliance-audit"])
  /\ a.bought["premium-feed"] = 0
  /\ a.left <= a.grant
  /\ a.bought["compliance-audit"] = 0 =>
       a.left + a.bought["market-data"] + 12 * a.bought["bulk-archive"] = a.grant
  /\ a.balance - a.left >= a.sent - a.grant
  /\ a.sent > 0 => a.sent >= MinBudget + FundingHeadroom

BudgetTypes ==
  /\ field \in [draft: Int, budget: BudgetRange]
  /\ console \in [goal: GoalNames \cup {"none"}, openedHere: BOOLEAN, dialog: BOOLEAN,
                  funded: BOOLEAN]
  /\ task \in [name: {"free", "opening", "running"}, budget: Int]
  /\ task.name = "opening" => task.budget \in BudgetRange
  /\ grants \in [GoalNames -> Account]
  /\ purchase \in [point: {"none", "asked", "taken", "quoted", "approved", "ended"},
                   goal: GoalNames, which: Resources, ask: Int, label: Int, shown: Int,
                   amount: Int]

GrantsKept == \A g \in GoalNames : IsOpened(g) => Kept(grants[g])

\* The purchase is of a goal that exists, at the price that its button said.
Priced ==
  purchase.point # "none" =>
    /\ IsOpened(purchase.goal)
    /\ purchase.shown \in BudgetRange
    /\ purchase.ask = PriceFor(purchase.which, purchase.shown)
    /\ purchase.label = RequestedPrice(purchase.which, purchase.shown)
    /\ purchase.point \in {"quoted", "approved"} => purchase.amount = purchase.label
    /\ purchase.point = "approved" =>
         Kept(Restored(grants[purchase.goal], purchase.which, purchase.amount))

Decided ==
  decision.goal # "none" =>
    /\ decision.which \in Resources
    /\ decision.shown \in BudgetRange
    /\ decision.label = RequestedPrice(decision.which, decision.shown)
    /\ decision.amount = decision.label
    /\ Kept(decision.before)
    /\ decision.approved = Within(decision.before, decision.amount)

BudgetInv ==
  /\ BudgetTypes
  /\ console.goal # "none" => IsOpened(console.goal)
  /\ GrantsKept /\ Priced /\ Decided

\* The amounts of the console and the catalog.
LEMMA Amounts ==
  /\ MinBudget = 30 /\ MaxBudget = 400 /\ FundingHeadroom = 10
  /\ PerCallCap = 600 /\ CallsAtFirst = 5 /\ OverchargeMargin = 5
  /\ MaxPriceAtomic = 10000 /\ DefaultBudget = 30
BY DEF MinBudget, MaxBudget, FundingHeadroom, PerCallCap, CallsAtFirst, OverchargeMargin,
       MaxPriceAtomic, DefaultBudget

LEMMA Prices ==
  /\ Resources = {"market-data", "bulk-archive", "compliance-audit", "premium-feed"}
  /\ PriceAtomic["market-data"] = 1 /\ PriceAtomic["bulk-archive"] = 12
  /\ PriceAtomic["compliance-audit"] = 35 /\ PriceAtomic["premium-feed"] = 500
BY DEF Resources, PriceAtomic

\* Only the overcharging vendor is told what to ask, and it asks for it.
LEMMA Requested ==
  ASSUME NEW r \in Resources, NEW shown \in BudgetRange
  PROVE  /\ PriceFor(r, shown) \in Int
         /\ r = "compliance-audit" => RequestedPrice(r, shown) = shown + OverchargeMargin
         /\ r # "compliance-audit" => RequestedPrice(r, shown) = PriceAtomic[r]
         /\ RequestedPrice(r, shown) \in 1..PerCallCap
         /\ RouteAmount(r, PriceFor(r, shown)) = RequestedPrice(r, shown)
<1>1. shown \in Int /\ 30 <= shown /\ shown <= 400
  BY Amounts DEF BudgetRange
<1>2. CASE r = "compliance-audit"
  <2>1. PriceFor(r, shown) = shown + OverchargeMargin
    BY <1>2, Amounts DEF PriceFor, Overcharges
  <2>2. RequestedPrice(r, shown) = shown + OverchargeMargin
    BY <1>1, <2>1, Amounts DEF RequestedPrice, NoPrice
  <2>3. RouteAmount(r, shown + OverchargeMargin) = shown + OverchargeMargin
    BY <1>1, <1>2, Amounts DEF RouteAmount, OverridePrice, Overcharges, NoPrice
  <2> QED BY <1>1, <1>2, <2>1, <2>2, <2>3, Amounts
<1>3. CASE r # "compliance-audit"
  <2>1. PriceFor(r, shown) = NoPrice /\ NoPrice = -1
    BY <1>3 DEF PriceFor, Overcharges, NoPrice
  <2>2. RequestedPrice(r, shown) = PriceAtomic[r]
    BY <2>1 DEF RequestedPrice
  <2>3. RouteAmount(r, PriceFor(r, shown)) = PriceAtomic[r]
    BY <1>3 DEF RouteAmount, OverridePrice, Overcharges
  <2> QED BY <1>3, <2>1, <2>2, <2>3, Prices, Amounts
<1> QED BY <1>2, <1>3

LEMMA Clamped ==
  ASSUME NEW amount \in Int PROVE Clamp(amount) \in BudgetRange
BY Amounts DEF Clamp, BudgetRange

LEMMA OpenedIsKept ==
  ASSUME NEW budget \in BudgetRange
  PROVE  Kept(Opened(budget)) /\ Opened(budget).grant = budget
<1>1. PICK none : none = [r \in Resources |-> 0]
  OBVIOUS
<1>2. PICK a, new : a = Opened(budget) /\ new = NotOpened
  OBVIOUS
<1>3. a = [grant |-> budget, left |-> budget, calls |-> 5, attempts |-> 10,
           balance |-> 0, sent |-> 0, bought |-> none]
  <2>1. new = [grant |-> 0, left |-> 0, calls |-> 0, attempts |-> 0, balance |-> 0,
               sent |-> 0, bought |-> none]
    BY <1>1, <1>2 DEF NotOpened
  <2>2. a = [new EXCEPT !.grant = budget, !.left = budget, !.calls = 5, !.attempts = 10]
    BY <1>2, Amounts DEF Opened, MaxAttempts
  <2> QED BY <2>1, <2>2
<1>4. none \in [Resources -> Nat] /\ \A r \in Resources : none[r] = 0
  BY <1>1
<1>5. budget \in Nat
  BY Amounts DEF BudgetRange
<1>6. a \in Account
  BY <1>3, <1>4, <1>5 DEF Account
<1> QED BY <1>2, <1>3, <1>4, <1>5, <1>6, Prices, Amounts DEF Kept

\* What a payer is sent it holds beside what it held.
LEMMA SentIsKept ==
  ASSUME NEW a, Kept(a), NEW amount \in Nat, amount >= MinBudget + FundingHeadroom
  PROVE  Kept(Credited(a, amount))
<1> PICK b : b = Credited(a, amount)
  OBVIOUS
<1>1. /\ a \in Account /\ a.balance \in Int /\ a.sent \in Nat /\ a.left \in Int
      /\ a.grant \in Nat
  BY DEF Kept, Account
<1>2. b = [grant |-> a.grant, left |-> a.left, calls |-> a.calls, attempts |-> a.attempts,
           balance |-> a.balance + amount, sent |-> a.sent + amount, bought |-> a.bought]
  BY <1>1 DEF Account, Credited
<1>3. a.calls \in Int /\ a.attempts \in Int /\ a.bought \in [Resources -> Nat]
  BY <1>1 DEF Account
<1>4. /\ b \in Account
      /\ b.grant = a.grant /\ b.left = a.left /\ b.calls = a.calls /\ b.bought = a.bought
      /\ b.balance = a.balance + amount /\ b.sent = a.sent + amount
  BY <1>1, <1>2, <1>3 DEF Account
<1>5. MinBudget + FundingHeadroom \in Nat
  BY Amounts
<1>6. b.balance - b.left >= b.sent - b.grant
  BY <1>1, <1>4 DEF Kept
<1>7. b.sent >= MinBudget + FundingHeadroom
  BY <1>1, <1>4, <1>5
<1> QED BY <1>4, <1>6, <1>7 DEF Kept

\* One account changes and stays in order.
LEMMA GrantStep ==
  ASSUME BudgetInv, NEW g \in GoalNames, NEW a, Kept(a), grants' = [grants EXCEPT ![g] = a]
  PROVE  /\ grants' \in [GoalNames -> Account] /\ GrantsKept'
         /\ \A h \in GoalNames : IsOpened(h) => IsOpened(h)'
         /\ IsOpened(g)'
         /\ grants'[g] = a /\ \A h \in GoalNames : h # g => grants'[h] = grants[h]
<1>1. grants \in [GoalNames -> Account]
  BY DEF BudgetInv, BudgetTypes
<1>2. a \in Account /\ a.grant > 0
  BY Amounts DEF Kept, BudgetRange
<1>3. grants'[g] = a /\ \A h \in GoalNames : h # g => grants'[h] = grants[h]
  BY <1>1
<1>4. grants' \in [GoalNames -> Account]
  BY <1>1, <1>2
<1>5. \A h \in GoalNames : IsOpened(h) => IsOpened(h)'
  BY <1>2, <1>3 DEF IsOpened
<1>6. IsOpened(g)'
  BY <1>2, <1>3 DEF IsOpened
<1>7. GrantsKept'
  <2> SUFFICES ASSUME NEW h \in GoalNames, IsOpened(h)' PROVE Kept(grants'[h])
    BY DEF GrantsKept
  <2>1. CASE h = g
    BY <1>3, <2>1
  <2>2. CASE h # g
    BY <1>3, <2>2 DEF IsOpened, BudgetInv, GrantsKept
  <2> QED BY <2>1, <2>2
<1> QED BY <1>3, <1>4, <1>5, <1>6, <1>7

-----------------------------------------------------------------------------
(* The page alone changes.                                                 *)

LEMMA FieldStep ==
  ASSUME BudgetInv, UNCHANGED Chain,
         field' \in [draft: Int, budget: BudgetRange],
         console' \in [goal: GoalNames \cup {"none"}, openedHere: BOOLEAN, dialog: BOOLEAN,
                       funded: BOOLEAN],
         task' \in [name: {"free", "opening", "running"}, budget: Int],
         task'.name = "opening" => task'.budget \in BudgetRange,
         console'.goal # "none" => IsOpened(console'.goal)
  PROVE  BudgetInv'
<1>1. UNCHANGED <<grants, purchase, decision>>
  BY DEF Chain
<1>2. BudgetTypes'
  BY <1>1 DEF BudgetInv, BudgetTypes
<1>3. \A g : IsOpened(g)' <=> IsOpened(g)
  BY <1>1 DEF IsOpened
<1>4. GrantsKept'
  BY <1>1, <1>3 DEF BudgetInv, GrantsKept
<1>5. Priced'
  BY <1>1, <1>3 DEF BudgetInv, Priced
<1>6. Decided'
  BY <1>1 DEF BudgetInv, Decided
<1>7. (console.goal # "none" => IsOpened(console.goal))'
  BY <1>1 DEF IsOpened
<1> QED BY <1>2, <1>4, <1>5, <1>6, <1>7 DEF BudgetInv

LEMMA BudgetPageKeeps ==
  ASSUME BudgetInv,
         \/ \E text \in Nat \cup {Unreadable} : Type(text)
         \/ Blur \/ OpenSetup \/ CloseSetup
         \/ \E g \in GoalNames : ResumeGoal(g)
         \/ Encrypt \/ Throws
  PROVE  BudgetInv'
<1>1. /\ field \in [draft: Int, budget: BudgetRange]
      /\ console \in [goal: GoalNames \cup {"none"}, openedHere: BOOLEAN, dialog: BOOLEAN,
                      funded: BOOLEAN]
      /\ task \in [name: {"free", "opening", "running"}, budget: Int]
      /\ task.name = "opening" => task.budget \in BudgetRange
      /\ console.goal # "none" => IsOpened(console.goal)
  BY DEF BudgetInv, BudgetTypes
<1>2. ASSUME NEW text \in Nat \cup {Unreadable}, Type(text) PROVE BudgetInv'
  <2>1. text \in Int /\ (text # Unreadable => Clamp(text) \in BudgetRange)
    BY Clamped DEF Unreadable
  <2>2. field' \in [draft: Int, budget: BudgetRange]
    BY <1>1, <1>2, <2>1 DEF Type
  <2>3. UNCHANGED <<console, task, Chain>>
    BY <1>2 DEF Type
  <2> QED BY <1>1, <2>2, <2>3, FieldStep
<1>3. CASE Blur
  <2>1. PICK text : text = IF field.draft = Unreadable THEN DefaultBudget ELSE field.draft
    OBVIOUS
  <2>2. Clamp(text) \in BudgetRange /\ Clamp(text) \in Int
    BY <1>1, <2>1, Amounts, Clamped DEF BudgetRange
  <2>3. field' = [draft |-> Clamp(text), budget |-> Clamp(text)]
    BY <1>3, <2>1 DEF Blur
  <2>4. field' \in [draft: Int, budget: BudgetRange]
    BY <2>2, <2>3
  <2>5. UNCHANGED <<console, task, Chain>>
    BY <1>3 DEF Blur
  <2> QED BY <1>1, <2>4, <2>5, FieldStep
<1>4. CASE OpenSetup \/ CloseSetup
  <2>1. PICK dialog \in BOOLEAN : console' = [console EXCEPT !.dialog = dialog]
    BY <1>4 DEF OpenSetup, CloseSetup
  <2>2. UNCHANGED <<field, task, Chain>>
    BY <1>4 DEF OpenSetup, CloseSetup
  <2> QED BY <1>1, <2>1, <2>2, FieldStep
<1>5. ASSUME NEW g \in GoalNames, ResumeGoal(g) PROVE BudgetInv'
  <2>1. PICK dialog \in BOOLEAN : console' = [console EXCEPT !.goal = g, !.dialog = dialog]
    BY <1>5 DEF ResumeGoal
  <2>2. UNCHANGED <<field, task, Chain>> /\ IsOpened(g)
    BY <1>5 DEF ResumeGoal
  <2> QED BY <1>1, <2>1, <2>2, FieldStep
<1>6. CASE Encrypt
  <2>1. PICK dialog \in BOOLEAN : console' = [console EXCEPT !.dialog = dialog]
    BY <1>6 DEF Encrypt
  <2>2. task' = [name |-> "opening", budget |-> field.budget] /\ UNCHANGED <<field, Chain>>
    BY <1>6 DEF Encrypt
  <2>3. field.budget \in BudgetRange /\ field.budget \in Int
    BY <1>1, Amounts DEF BudgetRange
  <2> QED BY <1>1, <2>1, <2>2, <2>3, FieldStep
<1>7. CASE Throws
  <2>1. task' = [name |-> "free", budget |-> 0] /\ UNCHANGED <<field, console, Chain>>
    BY <1>7 DEF Throws, NoTask
  <2> QED BY <1>1, <2>1, FieldStep
<1> QED BY <1>2, <1>3, <1>4, <1>5, <1>6, <1>7

-----------------------------------------------------------------------------
(* Opening and funding.                                                    *)

LEMMA OpenGoalKeeps == ASSUME BudgetInv, OpenGoal PROVE BudgetInv'
<1>1. /\ task.budget \in BudgetRange /\ ~IsOpened("mine")
      /\ grants' = [grants EXCEPT !["mine"] = Opened(task.budget)]
      /\ task' = [name |-> "free", budget |-> 0]
      /\ UNCHANGED <<field, purchase, decision>>
  BY DEF OpenGoal, BudgetInv, BudgetTypes, NoTask
<1>2. PICK a : a = Opened(task.budget)
  OBVIOUS
<1>3. Kept(a) /\ "mine" \in GoalNames /\ grants' = [grants EXCEPT !["mine"] = a]
  BY <1>1, <1>2, OpenedIsKept DEF GoalNames
<1>4. /\ grants' \in [GoalNames -> Account] /\ GrantsKept'
      /\ \A h \in GoalNames : IsOpened(h) => IsOpened(h)'
      /\ IsOpened("mine")'
      /\ \A h \in GoalNames : h # "mine" => grants'[h] = grants[h]
  BY <1>3, GrantStep
<1>5. /\ console' \in [goal: GoalNames \cup {"none"}, openedHere: BOOLEAN, dialog: BOOLEAN,
                       funded: BOOLEAN]
      /\ console'.goal \in {console.goal, "mine"}
  BY DEF OpenGoal, BudgetInv, BudgetTypes, GoalNames
<1>6. console'.goal # "none" => grants'[console'.goal].grant > 0
  <2> SUFFICES ASSUME NEW h, h = console'.goal, h # "none" PROVE grants'[h].grant > 0
    OBVIOUS
  <2>1. CASE h = "mine"
    BY <1>4, <2>1 DEF IsOpened
  <2>2. CASE h = console.goal
    <3>1. h \in GoalNames /\ IsOpened(h)
      BY <2>2 DEF BudgetInv, BudgetTypes
    <3> QED BY <1>4, <3>1 DEF IsOpened
  <2> QED BY <1>5, <2>1, <2>2
<1>7. Priced'
  <2>1. purchase.point # "none" => /\ IsOpened(purchase.goal) /\ purchase.goal \in GoalNames
                                   /\ purchase.goal # "mine"
    BY <1>1 DEF BudgetInv, BudgetTypes, Priced
  <2>2. purchase.point # "none" => grants'[purchase.goal] = grants[purchase.goal]
    BY <1>4, <2>1
  <2> QED BY <1>1, <2>2 DEF BudgetInv, Priced, IsOpened
<1>8. BudgetTypes'
  BY <1>1, <1>4, <1>5 DEF BudgetInv, BudgetTypes
<1>9. Decided'
  BY <1>1 DEF BudgetInv, Decided
<1>10. (console.goal # "none" => IsOpened(console.goal))'
  BY <1>6 DEF IsOpened
<1> QED BY <1>4, <1>7, <1>8, <1>9, <1>10 DEF BudgetInv

\* What is sent to the payer while a payment is on its way changes nothing of
\* what reclaiming it restores.
LEMMA RestoredAndSent ==
  ASSUME NEW a \in Account, NEW r \in Resources, NEW price \in Int, NEW amount \in Nat
  PROVE  Restored(Credited(a, amount), r, price) = Credited(Restored(a, r, price), amount)
<1>1. PICK bought : bought = Counted(a.bought, r, -1)
  OBVIOUS
<1>2. PICK b : b = Credited(a, amount)
  OBVIOUS
<1>3. b = [a EXCEPT !.balance = @ + amount, !.sent = @ + amount]
  BY <1>2 DEF Credited
<1>4. b.bought = a.bought
  BY <1>3 DEF Account
<1>5. PICK c : c = Restored(a, r, price)
  OBVIOUS
<1>6. c = [a EXCEPT !.left = @ + price, !.calls = @ + 1, !.bought = bought]
  BY <1>1, <1>5 DEF Restored
<1>7. PICK d : d = Restored(b, r, price)
  OBVIOUS
<1>8. d = [b EXCEPT !.left = @ + price, !.calls = @ + 1, !.bought = bought]
  BY <1>1, <1>4, <1>7 DEF Restored
<1>9. PICK f : f = Credited(c, amount)
  OBVIOUS
<1>10. f = [c EXCEPT !.balance = @ + amount, !.sent = @ + amount]
  BY <1>9 DEF Credited
<1>11. d = f
  BY <1>3, <1>6, <1>8, <1>10 DEF Account
<1> QED BY <1>2, <1>5, <1>7, <1>9, <1>11

LEMMA FundPayerKeeps == ASSUME BudgetInv, FundPayer PROVE BudgetInv'
<1>1. /\ UNCHANGED <<field, task, purchase, decision>>
      /\ console.goal # "none" => console.goal \in GoalNames /\ IsOpened(console.goal)
      /\ grants \in [GoalNames -> Account]
  BY DEF FundPayer, BudgetInv, BudgetTypes
<1>2. /\ console' \in [goal: GoalNames \cup {"none"}, openedHere: BOOLEAN, dialog: BOOLEAN,
                       funded: BOOLEAN]
      /\ console'.goal = console.goal
  <2>1. PICK funded \in BOOLEAN : console' = [console EXCEPT !.funded = funded]
    <3>1. CASE UNCHANGED console
      <4>1. console' = [console EXCEPT !.funded = console.funded] /\ console.funded \in BOOLEAN
        BY <3>1 DEF BudgetInv, BudgetTypes
      <4> QED BY <4>1
    <3>2. CASE ~UNCHANGED console
      BY <3>2 DEF FundPayer
    <3> QED BY <3>1, <3>2
  <2> QED BY <2>1 DEF BudgetInv, BudgetTypes
<1>3. CASE UNCHANGED grants
  <2>1. UNCHANGED Chain
    BY <1>1, <1>3 DEF Chain
  <2> QED BY <1>1, <1>2, <2>1, FieldStep DEF BudgetInv, BudgetTypes
<1>4. CASE ~UNCHANGED grants
  <2>1. PICK amount : amount = FundingFor(field.budget)
    OBVIOUS
  <2>2. IsOpened("mine") /\ grants' = [grants EXCEPT !["mine"] = Credited(@, amount)]
    BY <1>4, <2>1 DEF FundPayer
  <2>3. amount \in Nat /\ amount >= MinBudget + FundingHeadroom
    BY <2>1, Amounts DEF BudgetInv, BudgetTypes, BudgetRange, FundingFor
  <2>4. PICK old : old = grants["mine"]
    OBVIOUS
  <2>5. PICK new : new = Credited(old, amount)
    OBVIOUS
  <2>6. "mine" \in GoalNames /\ grants' = [grants EXCEPT !["mine"] = new]
    BY <2>2, <2>4, <2>5 DEF GoalNames
  <2>7. Kept(old) /\ old \in Account
    BY <2>2, <2>4, <2>6 DEF BudgetInv, GrantsKept, Kept
  <2>8. Kept(new)
    BY <2>3, <2>5, <2>7, SentIsKept
  <2>9. /\ grants' \in [GoalNames -> Account] /\ GrantsKept'
        /\ \A h \in GoalNames : IsOpened(h) => IsOpened(h)'
        /\ grants'["mine"] = new
        /\ \A h \in GoalNames : h # "mine" => grants'[h] = grants[h]
    BY <2>6, <2>8, GrantStep
  <2>10. (console.goal # "none" => IsOpened(console.goal))'
    <3>1. console.goal # "none" => grants'[console.goal].grant > 0
      BY <1>1, <2>9 DEF IsOpened
    <3> QED BY <1>2, <3>1 DEF IsOpened
  <2>11. Priced'
    <3> SUFFICES ASSUME purchase.point # "none" PROVE Priced'
      BY <1>1 DEF Priced
    <3>1. purchase.goal \in GoalNames /\ IsOpened(purchase.goal) /\ purchase.which \in Resources
          /\ purchase.amount \in Int
      BY DEF BudgetInv, BudgetTypes, Priced
    <3>2. grants'[purchase.goal].grant > 0
      BY <2>9, <3>1 DEF IsOpened
    <3>3. purchase.point = "approved" =>
            Kept(Restored(grants'[purchase.goal], purchase.which, purchase.amount))
      <4> SUFFICES ASSUME purchase.point = "approved"
                   PROVE  Kept(Restored(grants'[purchase.goal], purchase.which, purchase.amount))
        OBVIOUS
      <4>1. Kept(Restored(grants[purchase.goal], purchase.which, purchase.amount))
        BY DEF BudgetInv, Priced
      <4>2. CASE purchase.goal = "mine"
        <5>1. PICK restored : restored = Restored(old, purchase.which, purchase.amount)
          OBVIOUS
        <5>2. Restored(new, purchase.which, purchase.amount) =
                Credited(restored, amount)
          BY <2>3, <2>5, <2>7, <3>1, <5>1, RestoredAndSent
        <5>3. Kept(restored)
          BY <2>4, <4>1, <4>2, <5>1
        <5>4. Kept(Restored(new, purchase.which, purchase.amount))
          BY <2>3, <5>2, <5>3, SentIsKept
        <5> QED BY <2>9, <4>2, <5>4
      <4>3. CASE purchase.goal # "mine"
        BY <2>9, <3>1, <4>1, <4>3
      <4> QED BY <4>2, <4>3
    <3> QED BY <1>1, <3>2, <3>3 DEF BudgetInv, Priced, IsOpened
  <2>12. BudgetTypes'
    BY <1>1, <1>2, <2>9 DEF BudgetInv, BudgetTypes
  <2>13. Decided'
    BY <1>1 DEF BudgetInv, Decided
  <2> QED BY <2>9, <2>10, <2>11, <2>12, <2>13 DEF BudgetInv
<1> QED BY <1>3, <1>4

-----------------------------------------------------------------------------
(* A purchase.                                                             *)

\* The purchase alone changes, or the page is freed.
LEMMA PurchaseStep ==
  ASSUME BudgetInv, UNCHANGED <<field, console, grants, decision>>,
         task' \in [name: {"free", "opening", "running"}, budget: Int],
         task'.name = "opening" => task'.budget \in BudgetRange,
         purchase' \in [point: {"none", "asked", "taken", "quoted", "approved", "ended"},
                        goal: GoalNames, which: Resources, ask: Int, label: Int, shown: Int,
                        amount: Int],
         Priced'
  PROVE  BudgetInv'
BY DEF BudgetInv, BudgetTypes, GrantsKept, IsOpened, Decided

LEMMA BuyKeeps == ASSUME NEW r \in Resources, BudgetInv, Buy(r) PROVE BudgetInv'
<1>1. PICK shown : shown = field.budget
  OBVIOUS
<1>2. /\ console.goal # "none"
      /\ task' = [name |-> "running", budget |-> shown]
      /\ purchase' = [point |-> "asked", goal |-> console.goal, which |-> r,
                      ask |-> PriceFor(r, shown), label |-> RequestedPrice(r, shown),
                      shown |-> shown, amount |-> 0]
      /\ UNCHANGED <<field, console, grants, decision>>
  BY <1>1 DEF Buy
<1>3. shown \in BudgetRange /\ shown \in Int
  BY <1>1, Amounts DEF BudgetInv, BudgetTypes, BudgetRange
<1>4. console.goal \in GoalNames /\ IsOpened(console.goal)
  BY <1>2 DEF BudgetInv, BudgetTypes
<1>5. PriceFor(r, shown) \in Int /\ RequestedPrice(r, shown) \in Int
  BY <1>3, Requested, Amounts
<1>6. purchase' \in [point: {"none", "asked", "taken", "quoted", "approved", "ended"},
                     goal: GoalNames, which: Resources, ask: Int, label: Int, shown: Int,
                     amount: Int]
  BY <1>2, <1>3, <1>4, <1>5
<1>7. Priced'
  BY <1>2, <1>3, <1>4 DEF Priced, IsOpened
<1>8. task' \in [name: {"free", "opening", "running"}, budget: Int] /\ task'.name # "opening"
  BY <1>2, <1>3
<1> QED BY <1>2, <1>6, <1>7, <1>8, PurchaseStep

LEMMA TakeRunKeeps == ASSUME BudgetInv, TakeRun PROVE BudgetInv'
<1>1. /\ purchase.point = "asked" /\ purchase' = [purchase EXCEPT !.point = "taken"]
      /\ UNCHANGED <<field, console, task, grants, decision>>
  BY DEF TakeRun
<1>2. purchase' \in [point: {"none", "asked", "taken", "quoted", "approved", "ended"},
                     goal: GoalNames, which: Resources, ask: Int, label: Int, shown: Int,
                     amount: Int]
  BY <1>1 DEF BudgetInv, BudgetTypes
<1>3. Priced'
  BY <1>1, <1>2 DEF BudgetInv, BudgetTypes, Priced, IsOpened
<1> QED BY <1>1, <1>2, <1>3, PurchaseStep DEF BudgetInv, BudgetTypes

LEMMA QuoteKeeps == ASSUME BudgetInv, Quote PROVE BudgetInv'
<1>1. PICK amount : amount = RouteAmount(purchase.which, purchase.ask)
  OBVIOUS
<1>2. /\ purchase.point = "taken"
      /\ purchase' = [purchase EXCEPT !.point = "quoted", !.amount = amount]
      /\ UNCHANGED <<field, console, task, grants, decision>>
  BY <1>1 DEF Quote
<1>3. amount = purchase.label /\ amount \in Int
  <2>1. /\ purchase.which \in Resources /\ purchase.shown \in BudgetRange
        /\ purchase.ask = PriceFor(purchase.which, purchase.shown)
        /\ purchase.label = RequestedPrice(purchase.which, purchase.shown)
        /\ purchase.label \in Int
    BY <1>2 DEF BudgetInv, BudgetTypes, Priced
  <2> QED BY <1>1, <2>1, Requested
<1>4. purchase' \in [point: {"none", "asked", "taken", "quoted", "approved", "ended"},
                     goal: GoalNames, which: Resources, ask: Int, label: Int, shown: Int,
                     amount: Int]
  BY <1>2, <1>3 DEF BudgetInv, BudgetTypes
<1>5. Priced'
  BY <1>2, <1>3, <1>4 DEF BudgetInv, BudgetTypes, Priced, IsOpened
<1> QED BY <1>2, <1>4, <1>5, PurchaseStep DEF BudgetInv, BudgetTypes

LEMMA RunEndsKeeps == ASSUME BudgetInv, RunEnds PROVE BudgetInv'
<1>1. /\ purchase' = [point |-> "none", goal |-> "mine", which |-> "market-data",
                      ask |-> -1, label |-> 0, shown |-> 0, amount |-> 0]
      /\ task' = [name |-> "free", budget |-> 0] \/ task' = task
      /\ UNCHANGED <<field, console, grants, decision>>
  BY DEF RunEnds, NoPurchase, NoPrice, NoTask
<1>2. purchase' \in [point: {"none", "asked", "taken", "quoted", "approved", "ended"},
                     goal: GoalNames, which: Resources, ask: Int, label: Int, shown: Int,
                     amount: Int]
  BY <1>1, Prices DEF GoalNames
<1>3. Priced'
  BY <1>1 DEF Priced
<1> QED BY <1>1, <1>2, <1>3, PurchaseStep DEF BudgetInv, BudgetTypes

LEMMA AttemptedIsKept == ASSUME NEW a, Kept(a) PROVE Kept(Attempted(a))
<1>1. a \in Account
  BY DEF Kept
<1>2. PICK b : b = Attempted(a)
  OBVIOUS
<1>3. b = [grant |-> a.grant, left |-> a.left, calls |-> a.calls, attempts |-> a.attempts - 1,
           balance |-> a.balance, sent |-> a.sent, bought |-> a.bought]
  BY <1>1, <1>2 DEF Account, Attempted
<1>4. b \in Account
  BY <1>1, <1>3 DEF Account
<1> QED BY <1>2, <1>3, <1>4 DEF Kept

LEMMA CountedIs ==
  ASSUME NEW bought \in [Resources -> Nat], NEW r \in Resources, NEW n \in {-1, 1}
  PROVE  /\ Counted(bought, r, n)[r] = bought[r] + n
         /\ \A s \in Resources : s # r => Counted(bought, r, n)[s] = bought[s]
         /\ Counted(bought, r, n) \in [Resources -> Int]
         /\ n = 1 => Counted(bought, r, n) \in [Resources -> Nat]
BY DEF Counted

\* Reclaiming undoes a debit.
LEMMA RestoredDebited ==
  ASSUME NEW a \in Account, NEW r \in Resources, NEW price \in Int
  PROVE  Restored(Debited(a, r, price), r, price) = a
<1>1. PICK bought : bought = Counted(a.bought, r, 1)
  OBVIOUS
<1>2. PICK b : b = Debited(a, r, price)
  OBVIOUS
<1>3. b = [grant |-> a.grant, left |-> a.left - price, calls |-> a.calls - 1,
           attempts |-> a.attempts, balance |-> a.balance, sent |-> a.sent, bought |-> bought]
  BY <1>1, <1>2 DEF Account, Debited
<1>4. a.bought \in [Resources -> Nat] /\ a.left \in Int /\ a.calls \in Int
  BY DEF Account
<1>5. Counted(bought, r, -1) = a.bought
  BY <1>1, <1>4 DEF Counted
<1>6. PICK c : c = Restored(b, r, price)
  OBVIOUS
<1>7. c = [b EXCEPT !.left = @ + price, !.calls = @ + 1, !.bought = a.bought]
  BY <1>3, <1>5, <1>6 DEF Restored
<1>8. a.left - price + price = a.left /\ a.calls - 1 + 1 = a.calls
  BY <1>4
<1>9. c = [grant |-> a.grant, left |-> a.left, calls |-> a.calls, attempts |-> a.attempts,
           balance |-> a.balance, sent |-> a.sent, bought |-> a.bought]
  BY <1>3, <1>7, <1>8
<1>10. c = a
  BY <1>9 DEF Account
<1> QED BY <1>2, <1>6, <1>10

\* What the vault approves at the price on the button keeps the account; the
\* resource that asks for more than any budget is not among it.
LEMMA DebitedIsKept ==
  ASSUME NEW a, Kept(a), NEW r \in Resources, NEW shown \in BudgetRange,
         NEW price, price = RequestedPrice(r, shown), Within(a, price)
  PROVE  Kept(Debited(a, r, price))
<1>1. a \in Account /\ a.left \in Int /\ a.calls \in Int /\ a.bought \in [Resources -> Nat]
  BY DEF Kept, Account
<1>2. PICK bought : bought = Counted(a.bought, r, 1)
  OBVIOUS
<1>3. /\ bought[r] = a.bought[r] + 1
      /\ \A s \in Resources : s # r => bought[s] = a.bought[s]
      /\ bought \in [Resources -> Nat]
  BY <1>1, <1>2, CountedIs
<1>4. price \in Nat /\ 1 <= price
  <2>1. price \in 1..PerCallCap
    BY Requested
  <2> QED BY <2>1, Amounts
<1>5. PICK b : b = Debited(a, r, price)
  OBVIOUS
<1>6. b = [grant |-> a.grant, left |-> a.left - price, calls |-> a.calls - 1,
           attempts |-> a.attempts, balance |-> a.balance, sent |-> a.sent, bought |-> bought]
  BY <1>1, <1>2, <1>5 DEF Account, Debited
<1>7. b \in Account
  BY <1>1, <1>3, <1>4, <1>6 DEF Account
<1>8. /\ a.left >= price /\ a.left <= a.grant /\ a.grant \in Nat /\ a.grant <= 400
      /\ a.balance \in Int /\ a.sent \in Nat
  <2>1. a.grant \in 30..400
    BY Amounts DEF Kept, BudgetRange
  <2>2. a.left >= price
    BY DEF Within
  <2>3. a.left <= a.grant
    BY DEF Kept
  <2>4. a.balance \in Int /\ a.sent \in Nat
    BY <1>1 DEF Account
  <2> QED BY <2>1, <2>2, <2>3, <2>4
<1>9. r # "premium-feed"
  <2> SUFFICES ASSUME r = "premium-feed" PROVE FALSE
    OBVIOUS
  <2>1. RequestedPrice(r, shown) = PriceAtomic[r]
    BY Requested
  <2>2. price = 500
    BY <2>1, Prices
  <2> QED BY <1>1, <1>8, <2>2
<1>10. b.bought["premium-feed"] = 0
  BY <1>3, <1>6, <1>9, Prices DEF Kept
<1>11. b.calls = CallsAtFirst - (b.bought["market-data"] + b.bought["bulk-archive"]
                                 + b.bought["compliance-audit"])
  <2>1. a.calls = 5 - (a.bought["market-data"] + a.bought["bulk-archive"]
                       + a.bought["compliance-audit"])
    BY Amounts DEF Kept
  <2>2. /\ a.bought["market-data"] \in Nat /\ a.bought["bulk-archive"] \in Nat
        /\ a.bought["compliance-audit"] \in Nat
    BY <1>1, Prices
  <2>3. CASE r = "market-data"
    BY <1>3, <1>6, <2>1, <2>2, <2>3, Prices, Amounts
  <2>4. CASE r = "bulk-archive"
    BY <1>3, <1>6, <2>1, <2>2, <2>4, Prices, Amounts
  <2>5. CASE r = "compliance-audit"
    BY <1>3, <1>6, <2>1, <2>2, <2>5, Prices, Amounts
  <2> QED BY <1>9, <2>3, <2>4, <2>5, Prices
<1>12. b.bought["compliance-audit"] = 0 =>
         b.left + b.bought["market-data"] + 12 * b.bought["bulk-archive"] = b.grant
  <2> SUFFICES ASSUME b.bought["compliance-audit"] = 0
               PROVE  b.left + b.bought["market-data"] + 12 * b.bought["bulk-archive"] = b.grant
    OBVIOUS
  <2>1. /\ a.bought["market-data"] \in Nat /\ a.bought["bulk-archive"] \in Nat
        /\ a.bought["compliance-audit"] \in Nat
    BY <1>1, Prices
  <2>2. r # "compliance-audit" /\ a.bought["compliance-audit"] = 0
    BY <1>3, <1>6, <2>1, Prices
  <2>3. a.left + a.bought["market-data"] + 12 * a.bought["bulk-archive"] = a.grant
    BY <2>2 DEF Kept
  <2>4. CASE r = "market-data"
    <3>1. price = 1
      BY <2>4, Requested, Prices
    <3> QED BY <1>1, <1>3, <1>6, <1>8, <2>1, <2>3, <2>4, <3>1, Prices
  <2>5. CASE r = "bulk-archive"
    <3>1. price = 12
      BY <2>5, Requested, Prices
    <3> QED BY <1>1, <1>3, <1>6, <1>8, <2>1, <2>3, <2>5, <3>1, Prices
  <2> QED BY <1>9, <2>2, <2>4, <2>5, Prices
<1>13. b.left <= b.grant /\ b.balance - b.left >= b.sent - b.grant
  BY <1>1, <1>4, <1>6, <1>8 DEF Kept
<1>14. b.grant \in BudgetRange /\ (b.sent > 0 => b.sent >= MinBudget + FundingHeadroom)
  BY <1>6 DEF Kept, BudgetRange
<1> QED BY <1>5, <1>7, <1>10, <1>11, <1>12, <1>13, <1>14 DEF Kept

\* A payment that is collected leaves the account as it would be had it not been
\* approved, but for the money that was spent.
LEMMA PaidIsKept ==
  ASSUME NEW a, Kept(a), NEW r \in Resources, NEW price \in Int, Kept(Restored(a, r, price))
  PROVE  Kept(Paid(a, price))
<1>1. /\ a \in Account /\ a.left \in Int /\ a.balance \in Int /\ a.sent \in Nat
      /\ a.grant \in Nat
  BY DEF Kept, Account
<1>2. PICK b : b = Restored(a, r, price)
  OBVIOUS
<1>3. b.left = a.left + price /\ b.balance = a.balance /\ b.sent = a.sent /\ b.grant = a.grant
  <2>1. PICK bought : bought = Counted(a.bought, r, -1)
    OBVIOUS
  <2>2. b = [a EXCEPT !.left = @ + price, !.calls = @ + 1, !.bought = bought]
    BY <1>2, <2>1 DEF Restored
  <2> QED BY <1>1, <2>2 DEF Account
<1>4. b.balance - b.left >= b.sent - b.grant
  BY <1>2 DEF Kept
<1>5. PICK c : c = Paid(a, price)
  OBVIOUS
<1>6. c = [grant |-> a.grant, left |-> a.left, calls |-> a.calls, attempts |-> a.attempts,
           balance |-> a.balance - price, sent |-> a.sent, bought |-> a.bought]
  BY <1>1, <1>5 DEF Account, Paid
<1>7. c \in Account
  BY <1>1, <1>6 DEF Account
<1>8. c.balance - c.left >= c.sent - c.grant
  BY <1>1, <1>3, <1>4, <1>6
<1> QED BY <1>5, <1>6, <1>7, <1>8 DEF Kept

LEMMA DecideKeeps == ASSUME BudgetInv, Decide PROVE BudgetInv'
<1>1. PICK g, r, price : g = purchase.goal /\ r = purchase.which /\ price = purchase.amount
  OBVIOUS
<1>2. PICK old : old = grants[g]
  OBVIOUS
<1>3. PICK asked : asked = Attempted(old)
  OBVIOUS
<1>4. PICK new : new = IF Within(old, price) THEN Debited(asked, r, price) ELSE asked
  OBVIOUS
<1>5. /\ purchase.point = "quoted"
      /\ grants' = [grants EXCEPT ![g] = new]
      /\ decision' = [goal |-> g, which |-> r, label |-> purchase.label,
                      shown |-> purchase.shown, amount |-> price,
                      approved |-> Within(old, price), before |-> old]
      /\ purchase' = [purchase EXCEPT !.point = IF Within(old, price) THEN "approved" ELSE "ended"]
      /\ UNCHANGED <<field, console, task>>
  BY <1>1, <1>2, <1>3, <1>4 DEF Decide
<1>6. /\ g \in GoalNames /\ r \in Resources /\ purchase.shown \in BudgetRange /\ IsOpened(g)
      /\ price = RequestedPrice(r, purchase.shown) /\ price = purchase.label
      /\ purchase.ask = PriceFor(r, purchase.shown) /\ price \in Int
  BY <1>1, <1>5 DEF BudgetInv, BudgetTypes, Priced
<1>7. Kept(old) /\ Kept(asked) /\ asked \in Account
  <2>1. Kept(old)
    BY <1>2, <1>6 DEF BudgetInv, GrantsKept
  <2>2. Kept(asked)
    BY <1>3, <2>1, AttemptedIsKept
  <2> QED BY <2>1, <2>2 DEF Kept
<1>8. Within(old, price) => Within(asked, price)
  BY <1>3, <1>7 DEF Within, Attempted, Kept, Account
<1>9. Kept(new) /\ (Within(old, price) => Kept(Restored(new, r, price)))
  <2>1. CASE Within(old, price)
    <3>1. new = Debited(asked, r, price)
      BY <1>4, <2>1
    <3>2. Kept(Debited(asked, r, price))
      BY <1>6, <1>7, <1>8, <2>1, DebitedIsKept
    <3>3. Restored(new, r, price) = asked
      BY <1>6, <1>7, <3>1, RestoredDebited
    <3> QED BY <1>7, <3>1, <3>2, <3>3
  <2>2. CASE ~Within(old, price)
    BY <1>4, <1>7, <2>2
  <2> QED BY <2>1, <2>2
<1>10. /\ grants' \in [GoalNames -> Account] /\ GrantsKept'
       /\ \A h \in GoalNames : IsOpened(h) => IsOpened(h)'
       /\ IsOpened(g)' /\ grants'[g] = new
  BY <1>5, <1>6, <1>9, GrantStep
<1>11. PICK point : point = IF Within(old, price) THEN "approved" ELSE "ended"
  OBVIOUS
<1>12. purchase' = [purchase EXCEPT !.point = point] /\ point \in {"approved", "ended"}
  BY <1>5, <1>11
<1>13. /\ purchase'.point = point /\ purchase'.goal = g /\ purchase'.which = r
       /\ purchase'.amount = price /\ purchase'.label = purchase.label
       /\ purchase'.shown = purchase.shown /\ purchase'.ask = purchase.ask
  BY <1>1, <1>12 DEF BudgetInv, BudgetTypes
<1>14. Priced'
  <2>1. point = "approved" => Kept(Restored(grants'[g], r, price))
    BY <1>9, <1>10, <1>11
  <2>2. grants'[g].grant > 0
    BY <1>10 DEF IsOpened
  <2> QED BY <1>6, <1>13, <2>1, <2>2 DEF Priced, IsOpened
<1>15. BudgetTypes'
  BY <1>5, <1>10, <1>12 DEF BudgetInv, BudgetTypes
<1>16. Decided'
  BY <1>5, <1>6, <1>7 DEF Decided
<1>17. (console.goal # "none" => IsOpened(console.goal))'
  <2>1. console.goal # "none" => console.goal \in GoalNames /\ IsOpened(console.goal)
    BY DEF BudgetInv, BudgetTypes
  <2> QED BY <1>5, <1>10, <2>1 DEF IsOpened
<1> QED BY <1>10, <1>14, <1>15, <1>16, <1>17 DEF BudgetInv

LEMMA PaymentEndsKeeps == ASSUME BudgetInv, Collect \/ Reclaim PROVE BudgetInv'
<1>1. PICK g, r, price : g = purchase.goal /\ r = purchase.which /\ price = purchase.amount
  OBVIOUS
<1>2. PICK old : old = grants[g]
  OBVIOUS
<1>3. /\ purchase.point = "approved" /\ purchase' = [purchase EXCEPT !.point = "ended"]
      /\ UNCHANGED <<field, console, task, decision>>
  BY DEF Collect, Reclaim
<1>4. PICK new \in {Paid(old, price), Restored(old, r, price)} :
        grants' = [grants EXCEPT ![g] = new]
  <2>1. CASE Collect
    BY <1>1, <1>2, <2>1 DEF Collect
  <2>2. CASE Reclaim
    BY <1>1, <1>2, <2>2 DEF Reclaim
  <2> QED BY <2>1, <2>2
<1>5. /\ g \in GoalNames /\ r \in Resources /\ price \in Int /\ IsOpened(g)
      /\ Kept(Restored(old, r, price))
  BY <1>1, <1>2, <1>3 DEF BudgetInv, BudgetTypes, Priced
<1>6. Kept(old)
  BY <1>2, <1>5 DEF BudgetInv, GrantsKept
<1>7. Kept(new)
  BY <1>4, <1>5, <1>6, PaidIsKept
<1>8. /\ grants' \in [GoalNames -> Account] /\ GrantsKept'
      /\ \A h \in GoalNames : IsOpened(h) => IsOpened(h)'
  BY <1>4, <1>5, <1>7, GrantStep
<1>9. BudgetTypes'
  BY <1>3, <1>8 DEF BudgetInv, BudgetTypes
<1>10. Priced'
  <2>1. purchase'.point = "ended" /\ purchase' = [purchase EXCEPT !.point = "ended"]
    BY <1>3 DEF BudgetInv, BudgetTypes
  <2>2. grants'[purchase.goal].grant > 0
    BY <1>1, <1>5, <1>8 DEF IsOpened
  <2> QED BY <1>3, <2>1, <2>2 DEF BudgetInv, BudgetTypes, Priced, IsOpened
<1>11. Decided'
  BY <1>3 DEF BudgetInv, Decided
<1>12. (console.goal # "none" => IsOpened(console.goal))'
  <2>1. console.goal # "none" => console.goal \in GoalNames /\ IsOpened(console.goal)
    BY DEF BudgetInv, BudgetTypes
  <2> QED BY <1>3, <1>8, <2>1 DEF IsOpened
<1> QED BY <1>8, <1>9, <1>10, <1>11, <1>12 DEF BudgetInv

LEMMA InitBudgetInv == BudgetInit => BudgetInv
<1> SUFFICES ASSUME BudgetInit PROVE BudgetInv
  OBVIOUS
<1>1. PICK budget \in {Clamp(a) : a \in Nat} :
        grants = [g \in GoalNames |-> IF g = "earlier"
                    THEN Credited(Opened(budget), FundingFor(budget)) ELSE NotOpened]
  BY DEF BudgetInit
<1>2. budget \in BudgetRange
  BY Clamped
<1>3. PICK funding : funding = FundingFor(budget)
  OBVIOUS
<1>4. funding \in Nat /\ funding >= MinBudget + FundingHeadroom
  BY <1>2, <1>3, Amounts DEF BudgetRange, FundingFor
<1>5. PICK funded : funded = Credited(Opened(budget), funding)
  OBVIOUS
<1>6. Kept(funded)
  BY <1>2, <1>4, <1>5, OpenedIsKept, SentIsKept
<1>7. grants = [g \in GoalNames |-> IF g = "earlier" THEN funded ELSE NotOpened]
  BY <1>1, <1>3, <1>5
<1>8. NotOpened \in Account /\ NotOpened.grant = 0
  BY DEF NotOpened, Account
<1>9. grants \in [GoalNames -> Account]
  BY <1>6, <1>7, <1>8 DEF Kept
<1>10. GrantsKept
  BY <1>6, <1>7, <1>8 DEF GrantsKept, IsOpened
<1>11. /\ field = [draft |-> 30, budget |-> 30]
       /\ console = [goal |-> "none", openedHere |-> FALSE, dialog |-> FALSE, funded |-> FALSE]
       /\ task = [name |-> "free", budget |-> 0]
       /\ purchase = [point |-> "none", goal |-> "mine", which |-> "market-data",
                      ask |-> -1, label |-> 0, shown |-> 0, amount |-> 0]
       /\ decision.goal = "none"
  BY Amounts DEF BudgetInit, NoTask, NoPurchase, NoPrice, NoDecision
<1>12. BudgetTypes
  BY <1>9, <1>11, Prices, Amounts DEF BudgetTypes, GoalNames, BudgetRange
<1>13. Priced /\ Decided /\ console.goal = "none"
  BY <1>11 DEF Priced, Decided
<1> QED BY <1>10, <1>12, <1>13 DEF BudgetInv

LEMMA NextBudgetInv == BudgetInv /\ [BudgetNext]_budgetVars => BudgetInv'
<1> SUFFICES ASSUME BudgetInv, [BudgetNext]_budgetVars PROVE BudgetInv'
  OBVIOUS
<1>1. CASE UNCHANGED budgetVars
  <2>1. UNCHANGED <<field, console, task, Chain>>
    BY <1>1 DEF budgetVars, Chain
  <2> QED BY <2>1, FieldStep DEF BudgetInv, BudgetTypes
<1>2. CASE \/ \E text \in Nat \cup {Unreadable} : Type(text)
           \/ Blur \/ OpenSetup \/ CloseSetup
           \/ \E g \in GoalNames : ResumeGoal(g)
           \/ Encrypt \/ Throws
  BY <1>2, BudgetPageKeeps
<1>3. CASE OpenGoal \/ FundPayer
  BY <1>3, OpenGoalKeeps, FundPayerKeeps
<1>4. CASE (\E r \in Resources : Buy(r)) \/ TakeRun \/ Quote \/ RunEnds
  BY <1>4, BuyKeeps, TakeRunKeeps, QuoteKeeps, RunEndsKeeps
<1>5. CASE Decide \/ Collect \/ Reclaim
  BY <1>5, DecideKeeps, PaymentEndsKeeps
<1> QED BY <1>1, <1>2, <1>3, <1>4, <1>5 DEF BudgetNext

\* BudgetInv holds of the field, the accounts and the purchase in every state.
THEOREM BudgetInvariant == BudgetSpec => []BudgetInv
BY InitBudgetInv, NextBudgetInv, PTL DEF BudgetSpec

\* Both honest resources can be bought on the goal that the page opened,
\* whatever was typed for its budget (App.tsx, MIN_BUDGET).
THEOREM HonestResourcesSettle == BudgetSpec => []HonestSettles
<1>1. BudgetInv => HonestSettles
  <2> SUFFICES ASSUME BudgetInv, decision.goal = "mine", decision.which \in Honest,
                      decision.before.bought[decision.which] = 0,
                      \A r \in Resources :
                        decision.before.bought[r] <= IF r \in Honest THEN 1 ELSE 0
               PROVE  /\ decision.approved
                      /\ decision.before.sent > 0 => decision.before.balance >= decision.amount
    BY DEF HonestSettles
  <2>1. PICK a, r, price : a = decision.before /\ r = decision.which /\ price = decision.amount
    OBVIOUS
  <2>2. /\ Kept(a) /\ r \in Resources /\ decision.shown \in BudgetRange
        /\ price = RequestedPrice(r, decision.shown)
        /\ decision.approved = Within(a, price)
    BY <2>1 DEF BudgetInv, Decided
  <2>3. r \in {"market-data", "bulk-archive"} /\ a.bought[r] = 0
    BY <2>1 DEF Honest
  <2>4. price = PriceAtomic[r]
    BY <2>2, <2>3, Requested
  <2>5. /\ price \in {1, 12}
        /\ r = "market-data" => price = 1
        /\ r = "bulk-archive" => price = 12
    BY <2>3, <2>4, Prices
  <2>6. PICK m, b, c : /\ m = a.bought["market-data"] /\ b = a.bought["bulk-archive"]
                       /\ c = a.bought["compliance-audit"]
    OBVIOUS
  <2>7. m \in Nat /\ b \in Nat /\ c \in Nat
    BY <2>2, <2>6, Prices DEF Kept, Account
  <2>8. m <= 1 /\ b <= 1 /\ c <= 0
    BY <2>1, <2>6, Prices DEF Honest
  <2>9. c = 0
    BY <2>7, <2>8
  <2>10. (r = "market-data" => m = 0) /\ (r = "bulk-archive" => b = 0)
    BY <2>3, <2>6
  <2>11. /\ a.left \in Int /\ a.grant \in Nat /\ a.balance \in Int /\ a.sent \in Nat
         /\ a.calls \in Int
    BY <2>2 DEF Kept, Account
  <2>12. a.calls = 5 - (m + b + c) /\ a.left + m + 12 * b = a.grant /\ a.grant >= 30
    BY <2>2, <2>6, <2>9, Amounts DEF Kept, BudgetRange
  <2>13. a.calls >= 1 /\ a.left >= price /\ a.left >= a.grant - 13
    BY <2>3, <2>5, <2>7, <2>8, <2>9, <2>10, <2>11, <2>12
  <2>14. Within(a, price)
    BY <2>5, <2>13, Amounts DEF Within
  <2>15. a.sent > 0 => a.balance >= price
    <3>1. a.balance - a.left >= a.sent - a.grant /\ (a.sent > 0 => a.sent >= 40)
      BY <2>2, Amounts DEF Kept
    <3> QED BY <2>5, <2>11, <2>13, <3>1
  <2> QED BY <2>1, <2>2, <2>14, <2>15
<1> QED BY <1>1, BudgetInvariant, PTL

\* A hostile resource is refused because of the confidential budget, and is
\* only ever approved where the page knew of a smaller one than the goal has.
THEOREM HostileIsMeasured == BudgetSpec => []HostileMeetsTheBudget
<1>1. BudgetInv => HostileMeetsTheBudget
  <2> SUFFICES ASSUME BudgetInv, decision.goal # "none", decision.which \notin Honest
               PROVE  /\ decision.amount <= PerCallCap
                      /\ decision.approved => /\ Overcharges(decision.which)
                                              /\ decision.shown < decision.before.grant
                      /\ ~decision.approved /\ decision.before.calls > 0 =>
                           decision.amount > decision.before.left
    BY DEF HostileMeetsTheBudget
  <2>1. PICK a, r, price, shown :
          /\ a = decision.before /\ r = decision.which /\ price = decision.amount
          /\ shown = decision.shown
    OBVIOUS
  <2>2. /\ Kept(a) /\ r \in Resources /\ shown \in BudgetRange
        /\ price = RequestedPrice(r, shown)
        /\ decision.approved = Within(a, price)
    BY <2>1 DEF BudgetInv, Decided
  <2>3. price \in 1..PerCallCap
    BY <2>2, Requested
  <2>4. r \in {"compliance-audit", "premium-feed"}
    BY <2>1, <2>2, Prices DEF Honest
  <2>5. /\ a.left \in Int /\ a.calls \in Int /\ a.grant \in 30..400 /\ a.left <= a.grant
    BY <2>2, Amounts DEF Kept, Account, BudgetRange
  <2>6. shown \in Int
    BY <2>2, Amounts DEF BudgetRange
  <2>7. r = "premium-feed" => price = 500
    BY <2>2, Requested, Prices
  <2>8. r = "compliance-audit" => price = shown + 5
    BY <2>2, Requested, Amounts
  <2>9. price \in Int /\ price <= PerCallCap /\ PerCallCap = 600
    BY <2>3, Amounts
  <2>10. Within(a, price) => /\ r = "compliance-audit"
                             /\ shown < a.grant
    <3> SUFFICES ASSUME Within(a, price) PROVE r = "compliance-audit" /\ shown < a.grant
      OBVIOUS
    <3>1. a.left >= price
      BY DEF Within
    <3>2. price <= 400
      BY <2>5, <2>9, <3>1
    <3> QED BY <2>4, <2>5, <2>6, <2>7, <2>8, <2>9, <3>1, <3>2
  <2>11. ~Within(a, price) /\ a.calls > 0 => price > a.left
    BY <2>5, <2>9 DEF Within
  <2> QED BY <2>1, <2>2, <2>9, <2>10, <2>11 DEF Overcharges
<1> QED BY <1>1, BudgetInvariant, PTL

\* A payer that was sent the budget can pay for whatever is approved, after any
\* purchases, refusals and reclaims (App.tsx, FUNDING_HEADROOM).
THEOREM FundsLast == BudgetSpec => []FundsOutlastBudget
<1>1. BudgetInv => FundsOutlastBudget
  <2> SUFFICES ASSUME BudgetInv, decision.goal # "none", decision.approved,
                      decision.before.sent >= decision.before.grant
               PROVE  decision.before.balance >= decision.amount
    BY DEF FundsOutlastBudget
  <2>1. PICK a, price : a = decision.before /\ price = decision.amount
    OBVIOUS
  <2>2. Kept(a) /\ Within(a, price) /\ price \in Int
    <3>1. /\ Kept(a) /\ decision.approved = Within(a, price)
          /\ decision.which \in Resources /\ decision.shown \in BudgetRange
          /\ price = RequestedPrice(decision.which, decision.shown)
      BY <2>1 DEF BudgetInv, Decided
    <3>2. price \in 1..PerCallCap
      BY <3>1, Requested
    <3> QED BY <3>1, <3>2, Amounts
  <2>3. /\ a.left \in Int /\ a.grant \in Nat /\ a.balance \in Int /\ a.sent \in Nat
        /\ a.balance - a.left >= a.sent - a.grant /\ a.left >= price
    BY <2>2 DEF Kept, Account, Within
  <2> QED BY <2>1, <2>2, <2>3
<1> QED BY <1>1, BudgetInvariant, PTL

\* The price on the button is the one that the vault decides on.
THEOREM BilledWasShown == BudgetSpec => []BilledAsShown
<1>1. BudgetInv => BilledAsShown
  BY DEF BudgetInv, Decided, BilledAsShown
<1> QED BY <1>1, BudgetInvariant, PTL
=============================================================================
