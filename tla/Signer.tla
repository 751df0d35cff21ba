------------------------------- MODULE Signer -------------------------------
(***************************************************************************)
(* The signing service (services/signer/src: http.ts, service.ts, vault.ts,*)
(* enclave-limit.ts), the rate limiter it shares with the other services   *)
(* (packages/shared/src/node/guard.ts), and its two callers in the         *)
(* orchestrator: authorizeWithRetry, which wants the authorization of an   *)
(* approved spend, and askSignerToSweep, which wants a closed goal's       *)
(* balance back.                                                           *)
(*                                                                         *)
(* The service keeps no record of a spend.  Every request reads the vault  *)
(* through an RPC endpoint that balances its load, so each read may be     *)
(* answered by a node that is some blocks behind, and two reads of one     *)
(* request by different nodes.  A block is a tick of the clock; what a     *)
(* node at height h shows of an event is whether it happened by h.         *)
(***************************************************************************)
EXTENDS Integers, FiniteSets

CONSTANTS
  Lag,          \* how many blocks a node may be behind
  Valid,        \* AUTHORIZATION_WINDOW, in ticks
  Period,       \* WINDOW_MS of every limiter, in ticks: a tick is a second
  EdgeMax,      \* SIGN_LIMIT and MINT_LIMIT: a caller's requests in a window
  EnclaveMax,   \* EnclaveLimits: the enclave's calls in a window
  TableBound,   \* addresses the limiter's table holds before it is cleared
  SignTries,    \* signerRetries of authorizeWithRetry
  MaxWait,      \* its longest wait between two of them
  SweepTries,   \* attempts of askSignerToSweep
  SweepWait,    \* its wait between two of them
  MaxTime,      \* bound: the last block
  MaxStray      \* bound: requests of other callers, and restarts, together

ASSUME SignerAssumption ==
  /\ {Lag, Valid, Period, EdgeMax, EnclaveMax, TableBound, SignTries,
      MaxWait, SweepTries, SweepWait, MaxTime} \subseteq Nat \ {0}
  /\ MaxStray \in Nat
  \* 12 attempts of at most 10 s outlast a window, with one wait between them
  \* cut short to a second; 8 of 2.5 s outlast a node.
  /\ (SignTries - 2) * MaxWait + 1 >= Period
  /\ (SweepTries - 1) * SweepWait > Lag

Times   == 0..MaxTime
Ages    == 0..Period - 1    \* a: this tick and the a before it
Clients == {"caller", "stray"}
Sources == {"orchestrator", "other"}   \* clientKey: the address it is seen from
Routes  == {"sign", "sweep", "mint"}
Edge(route) == IF route = "mint" THEN "mint" ELSE "sign"  \* /sweeps shares it
Operation(route) == IF route = "mint" THEN "mint" ELSE "derive"

VARIABLES
  now,        \* the latest block; the services' clocks agree with it
  chain,      \* the block of each event the service reads about, 0: not yet
  verdict,    \* the covalidators' answer, public once it is finalised
  up,         \* FALSE while boot has failed: every route answers 503
  edge,       \* limiter -> source -> its window
  enclave,    \* operation -> the window of RateLimitedKeyStore
  request,    \* client -> what the service has in hand for it
  caller,     \* "loop" or "sweeper": which of the two retry loops is watched
  client,     \* its state
  stray,      \* requests of other callers, and restarts, so far
  released,   \* the authorizations signed so far
  admitted,   \* history: source -> age -> requests that SIGN_LIMIT let through
              \* in that time, since its table was last empty
  called      \* history: age -> keys derived in that time, since the process began

chainVars   == <<now, chain, verdict>>
limitVars   == <<edge, enclave, admitted, called>>
serviceVars == <<up, request, released>>
callerVars  == <<caller, client, stray>>
signerVars  == <<chainVars, limitVars, serviceVars, callerVars>>

Events  == {"requested", "finalized", "closed"}
NoEntry == [count |-> 0, until |-> 0]
NoRequests == [k \in Sources |-> [a \in Ages |-> 0]]
Free    == [route |-> "none", since |-> 0]
NotAsked == [state |-> "new", tries |-> 0, wake |-> 0, first |-> 0,
             limited |-> TRUE, answer |-> 0, uniform |-> TRUE]

SignerInit ==
  /\ now = 1
  /\ chain = [e \in Events |-> 0]
  /\ verdict \in BOOLEAN
  /\ up = FALSE
  /\ edge = [l \in {"sign", "mint"} |-> [k \in Sources |-> NoEntry]]
  /\ enclave = [o \in {"derive", "mint"} |-> NoEntry]
  /\ request = [c \in Clients |-> Free]
  /\ caller \in {"loop", "sweeper"}
  /\ client = NotAsked
  /\ stray = 0
  /\ released = {}
  /\ admitted = NoRequests
  /\ called = [a \in Ages |-> 0]

-----------------------------------------------------------------------------
(* RateLimiter: a fixed window per key, in a table of bounded size.        *)

\* allow: a new window is opened when the key has none or its own has ended.
Ended(entry) == entry = NoEntry \/ now >= entry.until

\* Fault: requests are counted and let through.
OnlyCounted(entry, max) == TRUE

Allowed(entry, max) == Ended(entry) \/ entry.count < max

Counted(entry) == IF Ended(entry) THEN [count |-> 1, until |-> now + Period]
                                  ELSE [entry EXCEPT !.count = @ + 1]

\* "Bounded so a churn of source addresses cannot grow the map forever."
IsCleared(table, k) ==
  Ended(table[k]) /\ Cardinality({j \in Sources : table[j] # NoEntry}) > TableBound

Recorded(table, k) ==
  [j \in Sources |-> IF j = k THEN Counted(table[k])
                     ELSE IF IsCleared(table, k) THEN NoEntry ELSE table[j]]

\* The histories: one more in this tick, and a tick later.
OneMore(count) == [a \in Ages |-> count[a] + 1]
Older(count)   == [a \in Ages |-> IF a = 0 THEN 0 ELSE count[a - 1]]

\* retryAfterSeconds: of a window that has not ended.
RetryAfter(entry) == entry.until - now

-----------------------------------------------------------------------------
(* What a request reads.                                                   *)

\* A read is answered by a node that is at most Lag blocks behind, at any time
\* while the request is in hand.
Heights(c) == {h \in Times : request[c].since - Lag <= h /\ h <= now}

Shows(h, e) == chain[e] # 0 /\ chain[e] <= h

\* What a read that depends on event e may answer.
Reads(c, e) == {Shows(h, e) : h \in Heights(c)}

\* spend: five reads, each answered by a node of its own.  A node that does not
\* know the record shows the empty one: amount, window and terms are zero.
SpendReads(c) ==
  [exists : Reads(c, "requested"), window : Reads(c, "requested"),
   terms : Reads(c, "requested"), finalized : Reads(c, "finalized"),
   approved : {seen /\ verdict : seen \in Reads(c, "finalized")}]

\* The five answers could have come from one node at one height.
IsUniform(c, spend) ==
  \E h \in Heights(c) :
    /\ Shows(h, "requested") = spend.exists
    /\ spend.exists = spend.window /\ spend.exists = spend.terms
    /\ Shows(h, "finalized") = spend.finalized
    /\ spend.approved = (spend.finalized /\ verdict)

Until(spend) == IF spend.window THEN chain["requested"] + Valid ELSE 0

\* Fault: the window that was read is not compared with the clock.
WithoutClock(spend) ==
  CASE ~spend.exists -> 404
    [] spend.exists /\ ~spend.finalized -> 425
    [] spend.exists /\ spend.finalized /\ ~spend.approved -> 403
    [] OTHER -> 0

\* Fault: the decision is looked at before whether it is there.
DecisionFirst(spend) ==
  CASE ~spend.exists -> 404
    [] spend.exists /\ ~spend.approved -> 403
    [] spend.approved /\ ~spend.finalized -> 425
    [] spend.approved /\ spend.finalized /\ Until(spend) <= now -> 410
    [] OTHER -> 0

\* sign, up to the key: the first check that fails, 0 when all of them pass.
\* The chain, the asset and the domain are taken to be the configured ones.
Refusal(spend) ==
  CASE ~spend.exists -> 404
    [] spend.exists /\ ~spend.finalized -> 425
    [] spend.finalized /\ spend.exists /\ ~spend.approved -> 403
    [] spend.finalized /\ spend.exists /\ spend.approved
         /\ Until(spend) <= now -> 410
    [] OTHER -> 0

-----------------------------------------------------------------------------
(* The two callers in the orchestrator.                                    *)

\* Fault: what the signer asked for is taken as it is.
ShortWait(seconds) == 0

\* authorizeWithRetry: at least a second, at most MaxWait.
Wait(seconds) ==
  IF seconds < 1 THEN 1 ELSE IF seconds > MaxWait THEN MaxWait ELSE seconds

\* Fault: every refusal of a sweep is final.
NeverAgain(code) == FALSE

\* askSignerToSweep repeats the refusal that a node behind can cause.
IsStaleOpen(code) == code = 409

Repeats(code) ==
  IF caller = "loop" THEN code \in {425, 429} /\ client.tries < SignTries
                     ELSE IsStaleOpen(code) /\ client.tries < SweepTries

Pause(code, seconds) ==
  IF caller = "sweeper" THEN SweepWait
  ELSE Wait(IF code = 429 THEN seconds ELSE 0)

\* Answers: the HTTP status, 0 when none came.  "still open" is the 409.
\* A caller that has given the request up hears nothing.
Hear(c, code, seconds, uniform) ==
  client' = IF c = "stray" \/ client.state # "asked" THEN client
            ELSE [client EXCEPT
                    !.state = IF Repeats(code) THEN "waiting" ELSE "done",
                    !.wake = IF Repeats(code) THEN now + Pause(code, seconds) ELSE 0,
                    !.limited = @ /\ code = 429,
                    !.answer = code, !.uniform = uniform]

\* The loop asks for the spend it has finalised as approved, the sweeper for
\* the goal whose closeGoal is mined.
Ask ==
  /\ client.state \in {"new", "waiting"}
  /\ now >= client.wake
  /\ IF caller = "loop" THEN chain["finalized"] # 0 /\ verdict
                        ELSE chain["closed"] # 0
  /\ client' = [client EXCEPT !.state = "asked", !.tries = @ + 1, !.wake = 0,
                  !.first = IF client.tries = 0 THEN now ELSE @]
  /\ UNCHANGED <<chainVars, limitVars, serviceVars, caller, stray>>

\* The request or its answer is lost: the signer is unreachable, which is final.
Unreachable ==
  /\ client.state = "asked"
  /\ client' = [client EXCEPT !.state = "done", !.answer = 0]
  /\ UNCHANGED <<chainVars, limitVars, serviceVars, caller, stray>>

-----------------------------------------------------------------------------
(* The service.                                                            *)

\* What the caller sends; others, behind the same address or not, send what
\* they like.
Sends(c, k, route, parses) ==
  /\ UNCHANGED caller
  /\ IF c = "stray" THEN stray < MaxStray /\ stray' = stray + 1
     ELSE /\ client.state = "asked" /\ parses /\ k = "orchestrator"
          /\ route = (IF caller = "loop" THEN "sign" ELSE "sweep")
          /\ UNCHANGED stray

\* createBootFailureServer: every route answers that boot failed.
Down ==
  /\ ~up
  /\ client.state = "asked"
  /\ Hear("caller", 503, 0, TRUE)
  /\ UNCHANGED <<chainVars, limitVars, serviceVars, caller, stray>>

\* rejected: the limiter of the route counts the request before it is read, and
\* a refusal asks for a whole window of patience.
Arrive(c, k, route, parses) ==
  LET l == Edge(route)  entry == edge[l][k] IN
  /\ up
  /\ request[c] = Free
  /\ parses \/ route # "mint"
  /\ Sends(c, k, route, parses)
  /\ edge' = [edge EXCEPT ![l] = Recorded(@, k)]
  /\ LET table == IF l = "sign" /\ IsCleared(edge[l], k) THEN NoRequests ELSE admitted
     IN IF Allowed(entry, EdgeMax)
        THEN /\ admitted' = IF l = "sign" THEN [table EXCEPT ![k] = OneMore(@)]
                            ELSE table
             /\ request' = IF parses
                  THEN [request EXCEPT ![c] = [route |-> route, since |-> now]]
                  ELSE request
             /\ UNCHANGED client
        ELSE /\ Hear(c, 429, Period, TRUE)
             /\ UNCHANGED <<admitted, request>>
  /\ UNCHANGED <<chainVars, enclave, called, up, released>>

Finish(c, code, seconds, uniform) ==
  /\ request' = [request EXCEPT ![c] = Free]
  /\ Hear(c, code, seconds, uniform)
  /\ UNCHANGED <<chainVars, edge, admitted, up, caller, stray>>

\* Fault: the enclave's budget is charged before the record is looked at.
ChargedAnyway(code) == TRUE

\* "Reaching this line at all already costs an approved, finalized spend".
IsCharged(code) == code = 0

\* The limit in front of the enclave, one window for all callers; a call over
\* it throws, and is answered 429 with the seconds left.  then: what a key that
\* was derived, or minted, is used for.
Enclave(c, code, uniform, then) ==
  LET o == Operation(request[c].route)  entry == enclave[o] IN
  /\ enclave' = IF IsCharged(code) THEN [enclave EXCEPT ![o] = Counted(@)]
                ELSE enclave
  /\ IF code # 0
       THEN /\ Finish(c, code, 0, uniform)
            /\ UNCHANGED <<called, released>>
       ELSE IF ~Allowed(entry, EnclaveMax)
       THEN /\ Finish(c, 429, RetryAfter(entry), TRUE)
            /\ UNCHANGED <<called, released>>
       ELSE /\ called' = IF o = "derive" THEN OneMore(called) ELSE called
            /\ then

Mint(c) ==
  /\ request[c].route = "mint"
  /\ Enclave(c, 0, TRUE, Finish(c, 201, 0, TRUE) /\ UNCHANGED released)

\* sign: the tuple is the record's, whoever asks for it.
Sign(c) ==
  /\ request[c].route = "sign"
  /\ \E spend \in SpendReads(c) :
       Enclave(c, Refusal(spend), IsUniform(c, spend),
         /\ released' = released \cup
              {[route |-> "sign", until |-> Until(spend)]}
         /\ Finish(c, 200, 0, TRUE))

\* sweep: a closed goal, then the key, then the whole balance.  Its window is
\* the clock's, and no property tells two of them apart; what the payer holds
\* is Settlement's subject, here it is something or nothing.
Sweep(c) ==
  /\ request[c].route = "sweep"
  /\ \E closed \in Reads(c, "closed"), empty \in BOOLEAN :
       Enclave(c, IF closed THEN 0 ELSE 409, TRUE,
         IF empty THEN Finish(c, 410, 0, TRUE) /\ UNCHANGED released
         ELSE /\ released' = released \cup
                   {[route |-> "sweep", until |-> 0]}
              /\ Finish(c, 200, 0, TRUE))

\* The container ends and starts again; the limiters are in its memory.
Restart ==
  /\ up
  /\ stray < MaxStray
  /\ stray' = stray + 1
  /\ up' = FALSE
  /\ edge' = [l \in DOMAIN edge |-> [k \in Sources |-> NoEntry]]
  /\ enclave' = [o \in DOMAIN enclave |-> NoEntry]
  /\ request' = [c \in Clients |-> Free]
  /\ admitted' = NoRequests
  /\ called' = [a \in Ages |-> 0]
  /\ UNCHANGED <<chainVars, released, caller, client>>

Boot ==
  /\ ~up
  /\ up' = TRUE
  /\ UNCHANGED <<chainVars, limitVars, request, released, callerVars>>

-----------------------------------------------------------------------------
(* The chain.                                                              *)

\* The vault, as far as the service reads it: a spend is requested while the
\* goal is open and finalised in a later block, whether it is still open or not.
Possible(e) ==
  /\ chain[e] = 0
  /\ CASE e = "requested" -> chain["closed"] = 0
       [] e = "finalized" -> chain["requested"] # 0 /\ chain["requested"] < now
       [] OTHER           -> TRUE

Mined(e) ==
  /\ Possible(e)
  /\ chain' = [chain EXCEPT ![e] = now]
  /\ UNCHANGED <<now, verdict, limitVars, serviceVars, callerVars>>

Tick ==
  /\ now < MaxTime
  /\ now' = now + 1
  /\ admitted' = [k \in Sources |-> Older(admitted[k])]
  /\ called' = Older(called)
  /\ UNCHANGED <<chain, verdict, edge, enclave, serviceVars, callerVars>>

SignerNext ==
  \/ Ask \/ Unreachable \/ Down
  \/ \E c \in Clients, k \in Sources, route \in Routes, parses \in BOOLEAN :
       Arrive(c, k, route, parses)
  \/ \E c \in Clients : Mint(c) \/ Sign(c) \/ Sweep(c)
  \/ Restart \/ Boot
  \/ \E e \in Events : Mined(e)
  \/ Tick

SignerSpec == SignerInit /\ [][SignerNext]_signerVars

-----------------------------------------------------------------------------
(* Properties.                                                             *)

\* Every variable keeps its type.
SignerTypeOK ==
  /\ now \in Times
  /\ chain \in [Events -> Times]
  /\ verdict \in BOOLEAN /\ up \in BOOLEAN
  /\ stray \in 0..MaxStray
  /\ edge \in [{"sign", "mint"} -> [Sources -> [count : Nat, until : Nat]]]
  /\ enclave \in [{"derive", "mint"} -> [count : Nat, until : Nat]]
  /\ request \in [Clients -> [route : Routes \cup {"none"}, since : Times]]
  /\ caller \in {"loop", "sweeper"}
  /\ client \in
       [state : {"new", "asked", "waiting", "done"}, tries : Nat, wake : Nat,
        first : Times, limited : BOOLEAN, uniform : BOOLEAN,
        answer : {0, 200, 201, 403, 404, 409, 410, 425, 429, 503}]
  /\ released \subseteq [route : Routes, until : Nat]
  /\ admitted \in [Sources -> [Ages -> Nat]]
  /\ called \in [Ages -> Nat]

\* However far behind and however different the nodes that answer are, the
\* signature of a spend is over the window the vault froze, of a spend that is
\* finalised as approved; and a sweep's over a closed goal.
ReleasedIsFrozen ==
  \A a \in released :
    IF a.route = "sign"
      THEN /\ chain["finalized"] # 0 /\ verdict
           /\ a.until = chain["requested"] + Valid
      ELSE chain["closed"] # 0

\* "A fixed window can pass up to 2x the limit across a boundary" (guard.ts):
\* and never more in a window's time, for one caller at the edge and for all of
\* them at the enclave, while the table that counts them is kept.
RateIsBounded ==
  /\ \A k \in Sources, a \in Ages : admitted[k][a] <= 2 * EdgeMax
  /\ \A a \in Ages : called[a] <= 2 * EnclaveMax

\* authorizeWithRetry: "several shorter waits land on the reset just as
\* surely".  It gives a spend up over a limit only when a whole window has
\* passed since it first asked, and so after more than one refused it.
GivenUpAfterAWindow ==
  caller = "loop" /\ client.state = "done" /\ client.answer = 429 /\ client.limited
    => now >= client.first + Period

\* askSignerToSweep: a goal that is closed is not reported as still open.
ClosedIsSeen ==
  caller = "sweeper" /\ client.state = "done" => client.answer # 409

\* The signer tells the loop "never" for the spend it asks for, before that
\* spend's window is over, only when its reads came from different blocks: a
\* view that is merely old says "wait", or that there is no such spend.
FalseNeverIsTorn ==
  caller = "loop" /\ client.state = "done" /\ client.uniform
      /\ client.answer \in {403, 410}
    => now >= chain["requested"] + Valid

\* A request that the chain gives no reason for uses up none of the budget the
\* enclave keeps for signing (enclave-limit.ts, on charging before the lookup,
\* which names the finalized spend; a sweep is charged for a closed goal).
DeriveCostsARecord ==
  [][enclave'["derive"].count > enclave["derive"].count
       => (chain["finalized"] # 0 /\ verdict) \/ chain["closed"] # 0]_signerVars
=============================================================================
