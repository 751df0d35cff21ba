--------------------------- MODULE PurchaseProofs ---------------------------
(***************************************************************************)
(* What buying keeps for any number of concurrent purchases, attempts and  *)
(* restarts, and for every vendor and every reply of a model.  The         *)
(* invariant adds to the two properties when a purchase may have a result  *)
(* (Unfinished) and when somebody has decided about it (Undecided).        *)
(***************************************************************************)
EXTENDS Purchase, TLAPS

\* Where nobody has been asked yet whether to buy.
Early == {"new", "first", "first backoff", "considering"}

\* Which functions of the purchases the actions update.
Domains ==
  /\ DOMAIN step = Calls /\ step = [c \in Calls |-> step[c]]
  /\ DOMAIN outcome = Calls /\ outcome = [c \in Calls |-> outcome[c]]
  /\ DOMAIN source = Calls /\ source = [c \in Calls |-> source[c]]
  /\ DOMAIN reply = Calls /\ reply = [c \in Calls |-> reply[c]]

Unfinished == \A c \in Calls : step[c] # "done" => outcome[c] = Pending

Undecided == \A c \in Calls : step[c] \in Early => source[c] = "none"

IInv == Domains /\ Unfinished /\ Undecided /\ SettlementIsOwn /\ SourceIsTrue

LEMMA InitIInv == PurchaseInit => IInv
<1> SUFFICES ASSUME PurchaseInit PROVE IInv
  OBVIOUS
<1>1. Domains /\ Unfinished /\ Undecided
  BY DEF PurchaseInit, Domains, Unfinished, Undecided
<1>2. SettlementIsOwn
  BY DEF PurchaseInit, SettlementIsOwn, Pending
<1>3. SourceIsTrue
  BY DEF PurchaseInit, SourceIsTrue, Pending
<1> QED BY <1>1, <1>2, <1>3 DEF IInv

-----------------------------------------------------------------------------
(* One purchase moves.                                                     *)

\* What a step of purchase c does to the others: nothing.
OnlyMoves(c) ==
  /\ Domains'
  /\ \A d \in Calls \ {c} : /\ step'[d] = step[d] /\ outcome'[d] = outcome[d]
                            /\ source'[d] = source[d] /\ reply'[d] = reply[d]
  /\ collected \subseteq collected'
  /\ live' = live /\ settings' = settings

\* What remains to be shown of the purchase that moved.
OwnInv(c) ==
  /\ step[c] # "done" => outcome[c] = Pending
  /\ step[c] \in Early => source[c] = "none"
  /\ outcome[c].settlement # NoSettlement =>
       /\ outcome[c].settlement.of = c
       /\ ~outcome[c].settlement.simulated => c \in collected
  /\ source[c] = "llm" =>
       /\ reply[c].fault = "none" /\ Body(reply[c].wraps) \subseteq {"fence"}
       /\ reply[c].proceed <=> outcome[c].kind # "declined"
  /\ source[c] = "scripted" => ~Configured
  /\ outcome[c].kind = "declined" => source[c] = "llm"

LEMMA EachOwn ==
  ASSUME IInv, NEW c \in Calls
  PROVE  OwnInv(c)
<1>1. /\ step[c] # "done" => outcome[c] = Pending
      /\ step[c] \in Early => source[c] = "none"
  BY DEF IInv, Unfinished, Undecided
<1>2. outcome[c].settlement # NoSettlement =>
        /\ outcome[c].settlement.of = c
        /\ ~outcome[c].settlement.simulated => c \in collected
  BY DEF IInv, SettlementIsOwn
<1>3. /\ source[c] = "llm" =>
           /\ reply[c].fault = "none" /\ Body(reply[c].wraps) \subseteq {"fence"}
           /\ reply[c].proceed <=> outcome[c].kind # "declined"
      /\ source[c] = "scripted" => ~Configured
      /\ outcome[c].kind = "declined" => source[c] = "llm"
  BY DEF IInv, SourceIsTrue
<1> QED BY <1>1, <1>2, <1>3 DEF OwnInv

LEMMA FromPoints ==
  ASSUME Domains', \A c \in Calls : OwnInv(c)'
  PROVE  IInv'
<1>1. Unfinished' /\ Undecided'
  BY DEF OwnInv, Unfinished, Undecided
<1>2. SettlementIsOwn'
  BY DEF OwnInv, SettlementIsOwn
<1>3. SourceIsTrue'
  BY DEF OwnInv, SourceIsTrue
<1> QED BY <1>1, <1>2, <1>3 DEF IInv

LEMMA OneMoves ==
  ASSUME IInv, NEW c \in Calls, OnlyMoves(c), OwnInv(c)'
  PROVE  IInv'
<1>1. ASSUME NEW d \in Calls, d # c PROVE OwnInv(d)'
  <2>1. OwnInv(d)
    BY EachOwn
  <2>2. /\ step'[d] = step[d] /\ outcome'[d] = outcome[d]
        /\ source'[d] = source[d] /\ reply'[d] = reply[d]
        /\ collected \subseteq collected' /\ settings' = settings
    BY <1>1 DEF OnlyMoves
  <2> QED BY <2>1, <2>2 DEF OwnInv, Configured
<1>2. \A d \in Calls : OwnInv(d)'
  BY <1>1
<1>3. Domains'
  BY DEF OnlyMoves
<1> QED BY <1>2, <1>3, FromPoints

-----------------------------------------------------------------------------
(* The steps.                                                              *)

\* A purchase that has not ended has neither a settlement nor a refusal.
LEMMA StillPending ==
  ASSUME IInv, NEW c \in Calls, step[c] # "done"
  PROVE  /\ OwnInv(c) /\ outcome[c] = Pending
         /\ outcome[c].kind # "declined"
         /\ source[c] = "llm" => reply[c].proceed
<1>1. OwnInv(c)
  BY EachOwn
<1>2. outcome[c] = Pending
  BY <1>1 DEF OwnInv
<1> QED BY <1>1, <1>2 DEF OwnInv, Pending

\* It goes on, with the same decision.
LEMMA GoesOnward ==
  ASSUME IInv, NEW c \in Calls, step[c] # "done", NEW to,
         step[c] \in Early \/ to \notin Early,
         to # "done", Goes(c, to), UNCHANGED <<outcome, reply, source, live, settings>>,
         collected \subseteq collected'
  PROVE  IInv'
<1>1. Domains
  BY DEF IInv
<1>2. OnlyMoves(c) /\ step'[c] = to
  BY <1>1 DEF OnlyMoves, Domains, Goes
<1>3. OwnInv(c) /\ outcome[c] = Pending /\ c \in Calls
  BY StillPending
<1>4. OwnInv(c)'
  BY <1>2, <1>3 DEF OwnInv, Configured, Pending
<1> QED BY <1>2, <1>4, OneMoves

\* It ends with a result that is not a refusal of the agent.
LEMMA EndsWell ==
  ASSUME IInv, NEW c \in Calls, step[c] # "done", NEW result,
         Ends(c, result), UNCHANGED <<reply, source, live, settings>>,
         collected \subseteq collected', result.kind # "declined",
         result.settlement # NoSettlement =>
           /\ result.settlement.of = c
           /\ ~result.settlement.simulated => c \in collected'
  PROVE  IInv'
<1>1. Domains
  BY DEF IInv
<1>2. OnlyMoves(c) /\ step'[c] = "done" /\ outcome'[c] = result
  BY <1>1 DEF OnlyMoves, Domains, Ends, Goes
<1>3. OwnInv(c) /\ outcome[c] = Pending /\ (source[c] = "llm" => reply[c].proceed)
      /\ source'[c] = source[c] /\ reply'[c] = reply[c] /\ settings' = settings
  BY StillPending
<1>4. outcome[c].kind # "declined"
  BY StillPending
<1>5. OwnInv(c)'
  BY <1>2, <1>3, <1>4 DEF OwnInv, Configured, Early
<1> QED BY <1>2, <1>5, OneMoves

\* It ends without any settlement.
LEMMA EndsPlain ==
  ASSUME IInv, NEW c \in Calls, step[c] # "done", NEW kind,
         Ends(c, Result(kind)), kind # "declined",
         UNCHANGED <<reply, source, live, settings>>,
         collected \subseteq collected'
  PROVE  IInv'
<1>1. Result(kind).kind = kind /\ Result(kind).settlement = NoSettlement
  BY DEF Result
<1> QED BY <1>1, EndsWell

LEMMA Backoffs ==
  /\ Backoff["first"] = "first backoff" /\ Backoff["paying"] = "paying backoff"
  /\ DOMAIN Backoff = {"first", "paying"}
BY DEF Backoff

LEMMA RetryStep ==
  ASSUME IInv, NEW c \in Calls, step[c] \in {"first", "paying"}, Retry(c),
         UNCHANGED <<reply, source, live, settings>>, collected \subseteq collected'
  PROVE  IInv'
<1>1. CASE attempt[c] = MaxAttempts
  <2>1. Ends(c, Result("failed"))
    BY <1>1 DEF Retry
  <2> QED BY <2>1, EndsPlain
<1>2. CASE attempt[c] # MaxAttempts
  <2>1. Goes(c, Backoff[step[c]]) /\ UNCHANGED outcome
    BY <1>2 DEF Retry
  <2>2. CASE step[c] = "first"
    <3>1. Goes(c, "first backoff")
      BY <2>1, <2>2, Backoffs
    <3> QED BY <2>1, <2>2, <3>1, GoesOnward DEF Early
  <2>3. CASE step[c] = "paying"
    <3>1. Goes(c, "paying backoff")
      BY <2>1, <2>3, Backoffs
    <3>2. "paying backoff" \notin Early /\ "paying backoff" # "done"
      BY DEF Early
    <3> QED BY <2>1, <2>3, <3>1, <3>2, GoesOnward
  <2> QED BY <2>2, <2>3
<1> QED BY <1>1, <1>2

LEMMA RequestStep ==
  ASSUME IInv, NEW c \in Calls, Request(c) PROVE IInv'
<1>1. PICK fresh \in BOOLEAN : Fetch(c, FALSE, fresh, "new", "first")
  BY DEF Request
<1>2. step[c] = "new" /\ collected' = collected
      /\ UNCHANGED <<reply, source, live, settings>>
  BY <1>1 DEF Fetch, Decided, Given
<1>3. CASE ReadsCache(FALSE, fresh) /\ cache # NoBody
  <2>1. Ends(c, Result("free"))
    BY <1>1, <1>3 DEF Fetch, Result
  <2> QED BY <1>2, <2>1, EndsPlain
<1>4. CASE ~(ReadsCache(FALSE, fresh) /\ cache # NoBody)
  <2>1. Goes(c, "first") /\ UNCHANGED outcome
    BY <1>1, <1>4 DEF Fetch
  <2> QED BY <1>2, <2>1, GoesOnward DEF Early
<1> QED BY <1>3, <1>4

\* A request that carries a payment never reads the cache.
LEMMA PayStep ==
  ASSUME IInv, NEW c \in Calls, Pay(c) PROVE IInv'
<1>1. ~ReadsCache(TRUE, FALSE)
  BY DEF ReadsCache
<1>2. /\ step[c] = "signed" /\ Goes(c, "paying") /\ collected' = collected
      /\ UNCHANGED <<outcome, reply, source, live, settings>>
  BY <1>1 DEF Pay, Fetch, Decided, Given
<1>3. "paying" \notin Early
  BY DEF Early
<1> QED BY <1>2, <1>3, GoesOnward

LEMMA WakeStep ==
  ASSUME IInv, NEW c \in Calls, Wake(c) PROVE IInv'
<1>1. /\ collected' = collected
      /\ UNCHANGED <<outcome, reply, source, live, settings>>
  BY DEF Wake, Decided, Given
<1>2. \/ step[c] = "first backoff" /\ Goes(c, "first")
      \/ step[c] = "paying backoff" /\ Goes(c, "paying")
  BY Backoffs DEF Wake
<1>3. "paying" \notin Early /\ "first backoff" \in Early
  BY DEF Early
<1> QED BY <1>1, <1>2, <1>3, GoesOnward

LEMMA FirstAnswerStep ==
  ASSUME IInv, NEW c \in Calls, FirstAnswer(c) PROVE IInv'
<1>1. /\ step[c] = "first" /\ collected' = collected
      /\ UNCHANGED <<reply, source, live, settings>>
  BY DEF FirstAnswer, Decided, Given
<1>2. CASE Retry(c)
  BY <1>1, <1>2, RetryStep
<1>3. CASE GiveUp(c)
  BY <1>1, <1>3, EndsPlain DEF GiveUp
<1>4. CASE Deliver(c, "free", NoSettlement)
  <2>1. Ends(c, Result("free"))
    BY <1>4 DEF Deliver, Result
  <2> QED BY <1>1, <2>1, EndsPlain
<1>5. CASE Goes(c, "considering") /\ UNCHANGED <<attempt, outcome, cache>>
  BY <1>1, <1>5, GoesOnward DEF Early
<1> QED BY <1>2, <1>3, <1>4, <1>5 DEF FirstAnswer

LEMMA AuthorizeStep ==
  ASSUME IInv, NEW c \in Calls, Authorize(c) PROVE IInv'
<1>1. /\ step[c] = "deciding" /\ collected' = collected
      /\ UNCHANGED <<reply, source, live, settings>>
  BY DEF Authorize, Decided, Given
<1>2. CASE Goes(c, "signed") /\ UNCHANGED outcome
  <2>1. "signed" \notin Early
    BY DEF Early
  <2> QED BY <1>1, <1>2, <2>1, GoesOnward
<1>3. CASE Ends(c, Result("failed"))
  BY <1>1, <1>3, EndsPlain
<1> QED BY <1>2, <1>3 DEF Authorize

\* The vendor's answer, or its loss: what it settled is this purchase's.
LEMMA PaidAnswerStep ==
  ASSUME IInv, NEW c \in Calls, PaidAnswer(c) PROVE IInv'
<1>1. /\ step[c] = "paying" /\ collected \subseteq collected'
      /\ UNCHANGED <<reply, source, live, settings>>
  BY DEF PaidAnswer, Decided, Given
<1>2. CASE Retry(c)
  BY <1>1, <1>2, RetryStep
<1>3. CASE GiveUp(c)
  BY <1>1, <1>3, EndsPlain DEF GiveUp
<1>4. CASE Deliver(c, "paid", NoSettlement)
  <2>1. Ends(c, Result("paid"))
    BY <1>4 DEF Deliver, Result
  <2> QED BY <1>1, <2>1, EndsPlain
<1>5. ASSUME Deliver(c, "paid", Settlement(c)),
             collected' = IF live THEN collected \cup {c} ELSE collected
      PROVE  IInv'
  <2> DEFINE result == [kind |-> "paid", settlement |-> Settlement(c)]
  <2>1. Ends(c, result)
    BY <1>5 DEF Deliver
  <2>2. /\ result.kind = "paid" /\ result.settlement.of = c
        /\ result.settlement.simulated = ~live
    BY DEF Settlement
  <2>3. ~result.settlement.simulated => c \in collected'
    BY <1>5, <2>2
  <2> HIDE DEF result
  <2> QED BY <1>1, <2>1, <2>2, <2>3, EndsWell
<1> QED BY <1>2, <1>3, <1>4, <1>5 DEF PaidAnswer

\* The agent decides, and its decision is the one that is followed.
LEMMA ConsiderStep ==
  ASSUME IInv, NEW c \in Calls, Consider(c) PROVE IInv'
<1>1. /\ step[c] = "considering" /\ collected' = collected
      /\ UNCHANGED <<live, settings>>
  BY DEF Consider, Given
<1>2. Domains /\ OwnInv(c) /\ outcome[c] = Pending
  BY <1>1, StillPending DEF IInv
<1>3. CASE Scripted(c)
  <2>1. /\ ~Configured /\ source' = [source EXCEPT ![c] = "scripted"]
        /\ Goes(c, "deciding") /\ UNCHANGED <<outcome, reply>>
    BY <1>3 DEF Scripted, Conclude, ScriptedProceeds
  <2>2. OnlyMoves(c) /\ step'[c] = "deciding" /\ source'[c] = "scripted"
    BY <1>1, <1>2, <2>1 DEF OnlyMoves, Domains, Goes
  <2>3. OwnInv(c)'
    BY <1>1, <1>2, <2>1, <2>2 DEF OwnInv, Early, Configured, Pending
  <2> QED BY <2>2, <2>3, OneMoves
<1>4. CASE AskModel(c)
  <2>1. PICK r \in Replies :
          /\ reply' = [reply EXCEPT ![c] = r]
          /\ IF IsDecision(r)
               THEN Conclude(c, "llm", r.proceed)
               ELSE Conclude(c, "scripted-fallback", ScriptedProceeds)
    BY <1>4 DEF AskModel
  <2>2. CASE IsDecision(r) /\ ~r.proceed
    <3>1. /\ source' = [source EXCEPT ![c] = "llm"]
          /\ Ends(c, Result("declined"))
      BY <2>1, <2>2 DEF Conclude
    <3>2. /\ OnlyMoves(c) /\ step'[c] = "done" /\ source'[c] = "llm"
          /\ reply'[c] = r /\ outcome'[c] = Result("declined")
      BY <1>1, <1>2, <2>1, <3>1 DEF OnlyMoves, Domains, Ends, Goes
    <3>3. OwnInv(c)'
      BY <2>2, <3>2 DEF OwnInv, Early, Result, IsDecision
    <3> QED BY <3>2, <3>3, OneMoves
  <2>3. CASE IsDecision(r) /\ r.proceed
    <3>1. /\ source' = [source EXCEPT ![c] = "llm"]
          /\ Goes(c, "deciding") /\ UNCHANGED outcome
      BY <2>1, <2>3 DEF Conclude
    <3>2. /\ OnlyMoves(c) /\ step'[c] = "deciding" /\ source'[c] = "llm"
          /\ reply'[c] = r /\ outcome'[c] = Pending
      BY <1>1, <1>2, <2>1, <3>1 DEF OnlyMoves, Domains, Goes
    <3>3. OwnInv(c)'
      BY <2>3, <3>2 DEF OwnInv, Early, Pending, IsDecision
    <3> QED BY <3>2, <3>3, OneMoves
  <2>4. CASE ~IsDecision(r)
    <3>1. /\ source' = [source EXCEPT ![c] = "scripted-fallback"]
          /\ Goes(c, "deciding") /\ UNCHANGED outcome
      BY <2>1, <2>4 DEF Conclude, ScriptedProceeds
    <3>2. /\ OnlyMoves(c) /\ step'[c] = "deciding"
          /\ source'[c] = "scripted-fallback" /\ outcome'[c] = Pending
      BY <1>1, <1>2, <2>1, <3>1 DEF OnlyMoves, Domains, Goes
    <3>3. OwnInv(c)'
      BY <3>2 DEF OwnInv, Early, Pending
    <3> QED BY <3>2, <3>3, OneMoves
  <2> QED BY <2>2, <2>3, <2>4
<1> QED BY <1>3, <1>4 DEF Consider

\* A restart ends what was in hand, and nothing else.
LEMMA RestartStep ==
  ASSUME IInv, Restart PROVE IInv'
<1>1. /\ step' = [c \in Calls |-> IF step[c] \in {"new", "done"} THEN step[c] ELSE "cut"]
      /\ UNCHANGED <<outcome, reply, source, collected, settings>>
  BY DEF Restart, Decided
<1>2. Domains'
  BY <1>1 DEF IInv, Domains
<1>3. ASSUME NEW c \in Calls PROVE OwnInv(c)'
  <2>1. OwnInv(c)
    BY EachOwn
  <2>2. step'[c] = step[c] \/ (step'[c] = "cut" /\ step[c] # "done")
    BY <1>1
  <2>3. "cut" \notin Early
    BY DEF Early
  <2> QED BY <1>1, <2>1, <2>2, <2>3 DEF OwnInv, Configured
<1>4. \A c \in Calls : OwnInv(c)'
  BY <1>3
<1> QED BY <1>2, <1>4, FromPoints

LEMMA NextIInv == IInv /\ [PurchaseNext]_purchaseVars => IInv'
<1> SUFFICES ASSUME IInv, [PurchaseNext]_purchaseVars PROVE IInv'
  OBVIOUS
<1>1. ASSUME NEW c \in Calls, PurchaseStep(c) PROVE IInv'
  BY <1>1, RequestStep, FirstAnswerStep, ConsiderStep, AuthorizeStep, PayStep,
     PaidAnswerStep, WakeStep DEF PurchaseStep
<1>2. CASE Expire \/ UNCHANGED purchaseVars
  BY <1>2 DEF Expire, purchaseVars, Decided, Given, IInv, Domains, Unfinished,
       Undecided, SettlementIsOwn, SourceIsTrue, Configured
<1>3. CASE Restart
  BY <1>3, RestartStep
<1> QED BY <1>1, <1>2, <1>3 DEF PurchaseNext

LEMMA SpecIInv == PurchaseSpec => []IInv
BY InitIInv, NextIInv, PTL DEF PurchaseSpec

-----------------------------------------------------------------------------
(* The theorems.                                                           *)

\* For any number of purchases, attempts and restarts: what a purchase reports
\* as its settlement is its own and, unless marked as simulated, moved money.
THEOREM OwnSettlements == PurchaseSpec => []SettlementIsOwn
<1>1. IInv => SettlementIsOwn
  BY DEF IInv
<1> QED BY SpecIInv, <1>1, PTL

\* Whatever a model sends and whenever the gateway fails: the run names the one
\* who decided, and only a model declines.
THEOREM SourcesAreTrue == PurchaseSpec => []SourceIsTrue
<1>1. IInv => SourceIsTrue
  BY DEF IInv
<1> QED BY SpecIInv, <1>1, PTL
=============================================================================
