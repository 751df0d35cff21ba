--------------------------- MODULE SpendLifecycle ---------------------------
(***************************************************************************)
(* What the vault and the token promise together about a spend, without    *)
(* records, flags, nonces or counters.  A goal is granted an amount once   *)
(* and may be closed.  Spends of it are asked for one at a time, on terms  *)
(* that never change, and each holds its amount from then on if it is      *)
(* within policy.  An approved spend ends in one of two ways: paid before  *)
(* its window closes or, no earlier than that, returned.  PolicyVault      *)
(* implements this.                                                        *)
(***************************************************************************)
EXTENDS Integers

CONSTANTS
  Goals,   \* the accounts
  Seqs,    \* numbers of the spends of a goal
  Grants,  \* amounts a goal may be granted
  Payees,
  Amounts, \* amounts that may be asked for
  Ends,    \* when a window may close
  Nobody   \* stands for no payee

VARIABLES
  clock,
  granted, \* goal -> whether its owner has granted it an amount
  closed,  \* goal -> whether its owner has closed it
  free,    \* goal -> what is neither held nor paid
  paid,    \* goal -> what has been paid
  life     \* goal -> number -> the spend

lifeVars == <<clock, granted, closed, free, paid, life>>

NotAsked == [state |-> "none", payTo |-> Nobody, amount |-> 0, until |-> 0,
             within |-> FALSE]

LifeInit ==
  /\ clock = 1
  /\ granted = [g \in Goals |-> FALSE]
  /\ closed = [g \in Goals |-> FALSE]
  /\ free = [g \in Goals |-> 0]
  /\ paid = [g \in Goals |-> 0]
  /\ life = [g \in Goals |-> [s \in Seqs |-> NotAsked]]

Grant(g, amount) ==
  /\ ~granted[g]
  /\ granted' = [granted EXCEPT ![g] = TRUE]
  /\ free' = [free EXCEPT ![g] = amount]
  /\ UNCHANGED <<clock, closed, paid, life>>

Close(g) ==
  /\ granted[g]
  /\ closed' = [closed EXCEPT ![g] = TRUE]
  /\ UNCHANGED <<clock, granted, free, paid, life>>

\* The first number that is not taken, while no other spend is undecided.  A
\* spend within policy holds its amount from here on.
Ask(g, s, payTo, amount, until, within) ==
  /\ granted[g] /\ ~closed[g]
  /\ \A t \in Seqs : life[g][t].state = "none" <=> t >= s
  /\ \A t \in Seqs : life[g][t].state # "asked"
  /\ clock < until
  /\ within => amount <= free[g]
  /\ life' = [life EXCEPT ![g][s] =
       [state |-> "asked", payTo |-> payTo, amount |-> amount, until |-> until,
        within |-> within]]
  /\ free' = [free EXCEPT ![g] = IF within THEN @ - amount ELSE @]
  /\ UNCHANGED <<clock, granted, closed, paid>>

Becomes(g, s, state) == life' = [life EXCEPT ![g][s].state = state]

Decide(g, s) ==
  /\ life[g][s].state = "asked"
  /\ Becomes(g, s, IF life[g][s].within THEN "approved" ELSE "rejected")
  /\ UNCHANGED <<clock, granted, closed, free, paid>>

Pay(g, s) ==
  /\ life[g][s].state = "approved"
  /\ clock < life[g][s].until
  /\ Becomes(g, s, "paid")
  /\ paid' = [paid EXCEPT ![g] = @ + life[g][s].amount]
  /\ UNCHANGED <<clock, granted, closed, free>>

Return(g, s) ==
  /\ life[g][s].state = "approved"
  /\ clock >= life[g][s].until
  /\ Becomes(g, s, "returned")
  /\ free' = [free EXCEPT ![g] = @ + life[g][s].amount]
  /\ UNCHANGED <<clock, granted, closed, paid>>

Passes == clock' = clock + 1 /\ UNCHANGED <<granted, closed, free, paid, life>>

LifeStep ==
  \/ \E g \in Goals, amount \in Grants : Grant(g, amount)
  \/ \E g \in Goals : Close(g)
  \/ \E g \in Goals, s \in Seqs, payTo \in Payees, amount \in Amounts,
        until \in Ends, within \in BOOLEAN : Ask(g, s, payTo, amount, until, within)
  \/ \E g \in Goals, s \in Seqs : Decide(g, s) \/ Pay(g, s) \/ Return(g, s)
  \/ Passes

LifeSpec == LifeInit /\ [][LifeStep]_lifeVars
=============================================================================
