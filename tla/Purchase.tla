------------------------------ MODULE Purchase ------------------------------
(***************************************************************************)
(* Buying over HTTP: X402Client asks for a resource, reads the 402, asks   *)
(* again with a payment, retries what the network loses and keeps what it  *)
(* was served in a cache that all calls of the process share; the agent    *)
(* (agent/*.ts) decides in between, with a model behind a gateway or with  *)
(* the scripted stand-in; the vendor (mock-api) delivers once its          *)
(* facilitator says that the payment is settled.                           *)
(*                                                                         *)
(* The vault, the signer and the facilitator have modules of their own:    *)
(* here a spend is approved or not, and a settlement happens or not.       *)
(***************************************************************************)
EXTENDS Integers, Sequences, SequencesExt

CONSTANTS
  Calls,       \* purchases of one resource, in one process
  MaxAttempts, \* RetryPolicy.maxAttempts
  MaxRestarts  \* bound: restarts of the orchestrator

ASSUME AttemptsAssumption == MaxAttempts \in Nat \ {0}

VARIABLES
  step,      \* call -> where fetchPaid is
  attempt,   \* call -> attempt of the fetchResource it waits for
  reply,     \* call -> what the model replied, or NoReply
  source,    \* call -> who decided, as the run reports it
  outcome,   \* call -> the result
  cache,     \* the cached 200 of the resource, or NoBody
  collected, \* calls whose payment was settled on chain
  live,      \* the vendor has a facilitator (HandlerOptions.gateway)
  settings,  \* what is configured of the model
  restarts

purchaseVars == <<step, attempt, reply, source, outcome, cache, collected, live,
                  settings, restarts>>

Settings == {"apiKey", "model", "baseUrl"}

NoReply == [fault |-> "not asked", wraps |-> {}, proceed |-> FALSE]
Faults  == {"unreachable", "status", "no message"}
\* How the object asked for may be wrapped: reasoning in a field of its own or
\* in the text, a fence, prose around it.
Wraps   == {{}, {"fence"}, {"think"}, {"field"}, {"field", "think"}, {"prose"}}
Replies == [fault : {"none"}, wraps : Wraps, proceed : BOOLEAN]
             \cup [fault : Faults, wraps : {{}}, proceed : {FALSE}]

\* A settlement as X-PAYMENT-RESPONSE carries it: the call whose authorization
\* it is about, and whether the vendor only simulated it.
NoSettlement == [of |-> "nobody", simulated |-> FALSE]
Settlement(c) == [of |-> c, simulated |-> ~live]

NoBody == [kind |-> "absent", settlement |-> NoSettlement]
Pending == [kind |-> "pending", settlement |-> NoSettlement]
Result(kind) == [kind |-> kind, settlement |-> NoSettlement]

PurchaseInit ==
  /\ step = [c \in Calls |-> "new"]
  /\ attempt = [c \in Calls |-> 0]
  /\ reply = [c \in Calls |-> NoReply]
  /\ source = [c \in Calls |-> "none"]
  /\ outcome = [c \in Calls |-> Pending]
  /\ cache = NoBody
  /\ collected = {}
  /\ live \in BOOLEAN
  /\ settings \in {Settings} \cup {Settings \ {s} : s \in Settings}
  /\ restarts = 0

Goes(c, to) == step' = [step EXCEPT ![c] = to]
Ends(c, result) == Goes(c, "done") /\ outcome' = [outcome EXCEPT ![c] = result]

Decided == <<reply, source>>
Given   == <<live, settings, restarts>>

-----------------------------------------------------------------------------
(* fetchResource.                                                          *)

\* Fault: the cache answers a request that carries a payment.
CacheUnlessFresh(paying, fresh) == ~fresh

\* "A request carrying it bypasses the cache read", and so does a purchase
\* that its caller says is a new one.
ReadsCache(paying, fresh) == ~paying /\ ~fresh

\* Fault: an attempt that failed is not counted.
SameAttempt(n) == n

NextAttempt(n) == n + 1

\* fetchResource begins: from the cache, or with a first attempt.
Fetch(c, paying, fresh, from, to) ==
  /\ step[c] = from
  /\ IF ReadsCache(paying, fresh) /\ cache # NoBody
       THEN /\ Ends(c, [kind |-> IF paying THEN "paid" ELSE "free",
                        settlement |-> IF paying THEN cache.settlement ELSE NoSettlement])
            /\ UNCHANGED attempt
       ELSE /\ Goes(c, to)
            /\ attempt' = [attempt EXCEPT ![c] = 1]
            /\ UNCHANGED outcome
  /\ UNCHANGED <<cache, collected, Decided, Given>>

Request(c) == \E fresh \in BOOLEAN : Fetch(c, FALSE, fresh, "new", "first")

Pay(c) == Fetch(c, TRUE, FALSE, "signed", "paying")

Backoff == [first |-> "first backoff", paying |-> "paying backoff"]

\* A lost request or answer, or a 5xx: again, up to maxAttempts.
Retry(c) ==
  /\ IF attempt[c] = MaxAttempts THEN Ends(c, Result("failed"))
                                 ELSE Goes(c, Backoff[step[c]]) /\ UNCHANGED outcome
  /\ UNCHANGED <<attempt, cache>>

\* The delay before the next attempt is over.
Wake(c) ==
  /\ \E s \in DOMAIN Backoff : step[c] = Backoff[s] /\ Goes(c, s)
  /\ attempt' = [attempt EXCEPT ![c] = NextAttempt(@)]
  /\ UNCHANGED <<outcome, cache, collected, Decided, Given>>

\* Any other 4xx, a body that is not JSON, a 402 that does not parse.
GiveUp(c) == Ends(c, Result("failed")) /\ UNCHANGED <<attempt, cache>>

\* A 200 with a JSON body is kept, also in place of an older one.
Deliver(c, kind, settlement) ==
  /\ Ends(c, [kind |-> kind, settlement |-> settlement])
  /\ cache' = [kind |-> "body", settlement |-> settlement]
  /\ UNCHANGED attempt

-----------------------------------------------------------------------------
(* The 402.                                                                *)

\* accepts[]: an entry is in our network and asset, in another, or malformed.
Offers == SeqOf({"ours", "other", "malformed"}, 2)

\* parsePaymentRequired: one bad entry, or none at all, rejects the whole 402.
Parses(offers) == offers # <<>> /\ "malformed" \notin ToSet(offers)

\* selectTerms: an entry that matches our own configuration.
HasTerms(offers) == "ours" \in ToSet(offers)

\* The answer to a first request, from any vendor.
FirstAnswer(c) ==
  /\ step[c] = "first"
  /\ \/ Retry(c)
     \/ GiveUp(c)
     \/ Deliver(c, "free", NoSettlement)
     \/ \E offers \in Offers :
          IF Parses(offers) /\ HasTerms(offers)
            THEN Goes(c, "considering") /\ UNCHANGED <<attempt, outcome, cache>>
            ELSE GiveUp(c)
  /\ UNCHANGED <<collected, Decided, Given>>

-----------------------------------------------------------------------------
(* The agent.                                                              *)

Configured == settings = Settings

\* extractReasoning: the reasoning is taken from its own field if there is
\* one, and only else out of the text.
Body(wraps) == IF "field" \in wraps THEN wraps \ {"field"} ELSE wraps \ {"think"}

\* Fault: a reply that is not the object asked for is a decision all the same.
AnyReply(r) == r.fault = "none"

\* parseDecision: the object alone, or in a fence; anything else throws, and
\* FallbackAgent then asks the stand-in.
IsDecision(r) == r.fault = "none" /\ Body(r.wraps) \subseteq {"fence"}

\* ScriptedAgent: proceeds, whatever the description says.
ScriptedProceeds == TRUE

\* consider, then the purchase goes on or is declined.
Conclude(c, who, proceed) ==
  /\ source' = [source EXCEPT ![c] = who]
  /\ IF proceed THEN Goes(c, "deciding") /\ UNCHANGED outcome
                ELSE Ends(c, Result("declined"))

Scripted(c) ==
  /\ ~Configured
  /\ Conclude(c, "scripted", ScriptedProceeds)
  /\ UNCHANGED reply

AskModel(c) ==
  /\ Configured
  /\ \E r \in Replies :
       /\ reply' = [reply EXCEPT ![c] = r]
       /\ IF IsDecision(r)
            THEN Conclude(c, "llm", r.proceed)
            ELSE Conclude(c, "scripted-fallback", ScriptedProceeds)

Consider(c) ==
  /\ step[c] = "considering"
  /\ Scripted(c) \/ AskModel(c)
  /\ UNCHANGED <<attempt, cache, collected, Given>>

\* The vault and the signer: an authorization, or the end of the run.
Authorize(c) ==
  /\ step[c] = "deciding"
  /\ \/ Goes(c, "signed") /\ UNCHANGED outcome
     \/ Ends(c, Result("failed"))
  /\ UNCHANGED <<attempt, cache, collected, Decided, Given>>

-----------------------------------------------------------------------------
(* The vendor.                                                             *)

\* handleRequest with a payment, and what of its answer arrives.  Without a
\* facilitator the settlement is simulated; with one it fails, with or without
\* having happened, or succeeds, also when it had happened before.
PaidAnswer(c) ==
  /\ step[c] = "paying"
  /\ \/ /\ collected' = collected
        /\ Retry(c)                                \* the request is lost
           \/ GiveUp(c)                            \* a 402 again, or another 4xx
     \/ /\ collected' = IF live THEN collected \cup {c} ELSE collected
        /\ \/ Deliver(c, "paid", Settlement(c))
           \/ Deliver(c, "paid", NoSettlement)     \* no header, or unreadable
           \/ GiveUp(c)                            \* 402 again, body unreadable
           \/ Retry(c)                             \* the answer is lost
  /\ UNCHANGED <<Decided, Given>>

\* ttlMs, where it is set.
Expire ==
  /\ cache # NoBody
  /\ cache' = NoBody
  /\ UNCHANGED <<step, attempt, outcome, collected, Decided, Given>>

\* The process ends: its calls and its cache are gone.
Restart ==
  /\ restarts < MaxRestarts
  /\ restarts' = restarts + 1
  /\ cache' = NoBody
  /\ step' = [c \in Calls |-> IF step[c] \in {"new", "done"} THEN step[c] ELSE "cut"]
  /\ UNCHANGED <<attempt, outcome, collected, Decided, live, settings>>

PurchaseStep(c) ==
  \/ Request(c) \/ FirstAnswer(c) \/ Consider(c) \/ Authorize(c) \/ Pay(c)
  \/ PaidAnswer(c) \/ Wake(c)

PurchaseNext == (\E c \in Calls : PurchaseStep(c)) \/ Expire \/ Restart

\* Every request is answered, or its connection breaks.  (Neither the client
\* nor the agent has a timeout of its own.)
PurchaseFairness == \A c \in Calls :
  WF_purchaseVars(FirstAnswer(c) \/ Consider(c) \/ Authorize(c) \/ Pay(c) \/ PaidAnswer(c)
                   \/ Wake(c))

PurchaseSpec == PurchaseInit /\ [][PurchaseNext]_purchaseVars /\ PurchaseFairness

-----------------------------------------------------------------------------
(* Properties.                                                             *)

\* Every variable keeps its type.
PurchaseTypeOK ==
  /\ step \in [Calls -> {"new", "first", "considering", "deciding", "signed", "paying",
                         "first backoff", "paying backoff", "done", "cut"}]
  /\ attempt \in [Calls -> 0..MaxAttempts]
  /\ reply \in [Calls -> Replies \cup {NoReply}]
  /\ source \in [Calls -> {"none", "llm", "scripted", "scripted-fallback"}]
  /\ collected \subseteq Calls
  /\ settings \subseteq Settings
  /\ restarts \in 0..MaxRestarts

\* A purchase reports only its own settlement, and a settlement that is not
\* marked as simulated moved money: also when another purchase of the same
\* resource ends in between, and when the first answer to the payment was lost.
SettlementIsOwn ==
  \A c \in Calls :
    LET s == outcome[c].settlement IN
    s # NoSettlement =>
      /\ s.of = c
      /\ ~s.simulated => c \in collected

\* What the run says of who decided is so: "llm" only where the model sent a
\* decision, which then is the one that was followed; and a purchase that was
\* declined was declined by the model, not by a failure to reach it.
SourceIsTrue ==
  \A c \in Calls :
    /\ source[c] = "llm" =>
         /\ reply[c].fault = "none" /\ Body(reply[c].wraps) \subseteq {"fence"}
         /\ reply[c].proceed <=> outcome[c].kind # "declined"
    /\ source[c] = "scripted" => ~Configured
    /\ outcome[c].kind = "declined" => source[c] = "llm"

\* A purchase that began ends, however many answers are lost.
PurchaseEnds ==
  \A c \in Calls : step[c] = "first" ~> step[c] \in {"done", "cut"}
=============================================================================
