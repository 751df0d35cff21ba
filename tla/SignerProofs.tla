---------------------------- MODULE SignerProofs ----------------------------
(***************************************************************************)
(* What the signer and its two callers keep, however far behind the nodes  *)
(* are, for any windows, limits and numbers of tries.  The invariant says  *)
(* what the chain's events are (Chain), what the loop or the sweeper knows *)
(* when it asks (Asking), which request of theirs is in hand (InHand) and  *)
(* how long the sweeper has waited by its n-th try (Patience).  On top of  *)
(* it, what the limiters' windows let through (Windows) and how long the   *)
(* loop has waited by its n-th try (LoopWaits).  The key store follows, in *)
(* an invariant of its own.                                                *)
(***************************************************************************)
EXTENDS Signer, KeyStore, TLAPS

Chain ==
  /\ now \in Nat /\ now >= 1
  /\ chain \in [Events -> Nat]
  /\ \A e \in Events : chain[e] <= now
  /\ chain["finalized"] # 0 => chain["requested"] # 0

Budget == enclave \in [{"derive", "mint"} -> [count : Nat, until : Nat]]

CallerTypes ==
  /\ up \in BOOLEAN
  /\ request \in [Clients -> [route : Routes \cup {"none"}, since : Nat]]
  /\ caller \in {"loop", "sweeper"}
  /\ client = [state |-> client.state, tries |-> client.tries, wake |-> client.wake,
                first |-> client.first, limited |-> client.limited,
                answer |-> client.answer, uniform |-> client.uniform]
  /\ client.state \in {"new", "asked", "waiting", "done"}
  /\ client.tries \in Nat /\ client.wake \in Int /\ client.answer \in Nat

\* What was seen on chain before the first request.
Asking ==
  client.state # "new" =>
    IF caller = "loop" THEN chain["finalized"] # 0 /\ verdict
                       ELSE chain["closed"] # 0

InHand ==
  /\ ~up => request["caller"].route = "none"
  /\ client.state \in {"new", "waiting"} => request["caller"].route = "none"
  /\ request["caller"].route # "none" =>
       request["caller"].route = IF caller = "loop" THEN "sign" ELSE "sweep"
  /\ request["caller"].since <= now

\* The n-th try is made n - 1 waits after the closing was mined, or later.
Since(n) == chain["closed"] + (n - 1) * SweepWait

Patience ==
  caller = "sweeper" =>
    /\ client.state = "new" => client.tries = 0
    /\ client.state = "waiting" =>
         /\ client.tries >= 1 /\ client.tries < SweepTries
         /\ client.wake >= Since(client.tries + 1)
    /\ client.state = "asked" =>
         /\ client.tries >= 1 /\ client.tries <= SweepTries
         /\ now >= Since(client.tries)
         /\ request["caller"].route # "none" =>
              request["caller"].since >= Since(client.tries)

CallerInv ==
  /\ CallerTypes /\ Asking /\ InHand /\ Patience
  /\ ClosedIsSeen /\ FalseNeverIsTorn

IInv == Chain /\ Budget /\ CallerInv /\ ReleasedIsFrozen

LEMMA Bounds ==
  /\ Lag \in Nat /\ Valid \in Nat /\ Period \in Nat \ {0}
  /\ SweepTries \in Nat \ {0} /\ SweepWait \in Nat \ {0}
  /\ MaxWait \in Nat \ {0} /\ SignTries \in Nat \ {0}
  /\ (SweepTries - 1) * SweepWait > Lag
BY SignerAssumption

LEMMA InitIInv == SignerInit => IInv
<1> SUFFICES ASSUME SignerInit PROVE IInv
  OBVIOUS
<1>1. Chain
  BY DEF SignerInit, Chain, Events
<1>2. Budget
  BY DEF SignerInit, Budget, NoEntry
<1>3. CallerTypes
  <2>1. /\ client = NotAsked /\ up \in BOOLEAN /\ caller \in {"loop", "sweeper"}
        /\ request = [c \in Clients |-> Free]
    BY DEF SignerInit
  <2>2. Free \in [route : Routes \cup {"none"}, since : Nat]
    BY DEF Free
  <2>3. request \in [Clients -> [route : Routes \cup {"none"}, since : Nat]]
    BY <2>1, <2>2
  <2>4. /\ client = [state |-> client.state, tries |-> client.tries, wake |-> client.wake,
                     first |-> client.first, limited |-> client.limited,
                     answer |-> client.answer, uniform |-> client.uniform]
        /\ client.state \in {"new", "asked", "waiting", "done"}
        /\ client.tries \in Nat /\ client.wake \in Int /\ client.answer \in Nat
    BY <2>1 DEF NotAsked
  <2> QED BY <2>1, <2>3, <2>4 DEF CallerTypes
<1>4. Asking /\ InHand /\ Patience
  BY <1>1 DEF SignerInit, Asking, InHand, Patience, Free, NotAsked, Clients, Chain
<1>5. ClosedIsSeen /\ FalseNeverIsTorn
  BY DEF SignerInit, ClosedIsSeen, FalseNeverIsTorn, NotAsked
<1>6. ReleasedIsFrozen
  BY DEF SignerInit, ReleasedIsFrozen
<1> QED BY <1>1, <1>2, <1>3, <1>4, <1>5, <1>6 DEF IInv, CallerInv

-----------------------------------------------------------------------------
(* What the caller hears.                                                  *)

LEMMA PauseIsNat ==
  ASSUME NEW code \in Nat, NEW seconds \in Int
  PROVE  Pause(code, seconds) \in Nat
BY Bounds DEF Pause, Wait

\* A request of another client, or one the caller has given up.
LEMMA Unheard ==
  ASSUME IInv, Chain', UNCHANGED <<chain, verdict, caller, client, up, now>>,
         request' \in [Clients -> [route : Routes \cup {"none"}, since : Nat]],
         \/ request'["caller"] = request["caller"]
         \/ request'["caller"].route = "none" /\ request'["caller"].since <= now
  PROVE  CallerInv'
<1>1. CallerTypes'
  BY DEF IInv, CallerInv, CallerTypes
<1>2. Asking' /\ ClosedIsSeen' /\ FalseNeverIsTorn'
  BY DEF IInv, CallerInv, Asking, ClosedIsSeen, FalseNeverIsTorn
<1>3. InHand'
  BY DEF IInv, CallerInv, InHand
<1>4. Patience'
  BY DEF IInv, CallerInv, Patience, Since
<1> QED BY <1>1, <1>2, <1>3, <1>4 DEF CallerInv

\* What is left of the caller once it has heard an answer.
Heard(c, code, seconds) ==
  IF c = "stray" \/ client.state # "asked" THEN client' = client
  ELSE /\ client' = [state |-> client'.state, tries |-> client'.tries,
                     wake |-> client'.wake, first |-> client'.first,
                     limited |-> client'.limited, answer |-> client'.answer,
                     uniform |-> client'.uniform]
       /\ client'.state = IF Repeats(code) THEN "waiting" ELSE "done"
       /\ client'.wake = IF Repeats(code) THEN now + Pause(code, seconds) ELSE 0
       /\ client'.tries = client.tries /\ client'.answer = code
       /\ client'.first = client.first
       /\ client'.limited => client.limited /\ code = 429

LEMMA HearIs ==
  ASSUME CallerTypes, NEW c, NEW code, NEW seconds, NEW uniform,
         Hear(c, code, seconds, uniform)
  PROVE  Heard(c, code, seconds)
<1>1. CASE c = "stray" \/ client.state # "asked"
  BY <1>1 DEF Hear, Heard
<1>2. CASE ~(c = "stray" \/ client.state # "asked")
  <2>1. client' = [state |-> IF Repeats(code) THEN "waiting" ELSE "done",
                   tries |-> client.tries,
                   wake |-> IF Repeats(code) THEN now + Pause(code, seconds) ELSE 0,
                   first |-> client.first, limited |-> client.limited /\ code = 429,
                   answer |-> code, uniform |-> uniform]
    BY <1>2 DEF Hear, CallerTypes
  <2> QED BY <1>2, <2>1 DEF Heard
<1> QED BY <1>1, <1>2

LEMMA HearTrue ==
  ASSUME CallerTypes, NEW c, NEW code, NEW seconds,
         Hear(c, code, seconds, TRUE)
  PROVE  Heard(c, code, seconds)
<1>1. CASE c = "stray" \/ client.state # "asked"
  BY <1>1 DEF Hear, Heard
<1>2. CASE ~(c = "stray" \/ client.state # "asked")
  <2>1. client' = [state |-> IF Repeats(code) THEN "waiting" ELSE "done",
                   tries |-> client.tries,
                   wake |-> IF Repeats(code) THEN now + Pause(code, seconds) ELSE 0,
                   first |-> client.first, limited |-> client.limited /\ code = 429,
                   answer |-> code, uniform |-> TRUE]
    BY <1>2 DEF Hear, CallerTypes
  <2> QED BY <1>2, <2>1 DEF Heard
<1> QED BY <1>1, <1>2

\* An answer that is neither of the two that the properties are about, or one
\* that is true.
LEMMA Answered ==
  ASSUME IInv, NEW code \in Nat, NEW seconds \in Int, Heard("caller", code, seconds),
         UNCHANGED <<chain, verdict, caller, up, now>>,
         request' \in [Clients -> [route : Routes \cup {"none"}, since : Nat]],
         request'["caller"].route = "none", request'["caller"].since <= now,
         client.state = "asked" /\ caller = "sweeper" /\ code = 409
           => client.tries < SweepTries,
         client.state = "asked" /\ caller = "loop" /\ code \in {403, 410}
             /\ client'.uniform
           => now >= chain["requested"] + Valid
  PROVE  CallerInv'
<1>1. CASE client.state # "asked"
  <2>1. client' = client
    BY <1>1 DEF Heard
  <2> QED BY <2>1, Unheard DEF IInv, Chain
<1>2. CASE client.state = "asked"
  <2> DEFINE again == Repeats(code)
             wake  == IF again THEN now + Pause(code, seconds) ELSE 0
  <2>1. /\ client' = [state |-> client'.state, tries |-> client'.tries,
                      wake |-> client'.wake, first |-> client'.first,
                      limited |-> client'.limited, answer |-> client'.answer,
                      uniform |-> client'.uniform]
        /\ client'.state = IF again THEN "waiting" ELSE "done"
        /\ client'.wake = wake
        /\ client'.tries = client.tries /\ client'.answer = code
    BY <1>2 DEF Heard
  <2>2. wake \in Int
    BY PauseIsNat DEF IInv, Chain
  <2>3. CallerTypes
    BY DEF IInv, CallerInv
  <2>4. CallerTypes'
    <3> HIDE DEF again, wake
    <3>1. (IF again THEN "waiting" ELSE "done") \in {"new", "asked", "waiting", "done"}
      OBVIOUS
    <3> QED BY <2>1, <2>2, <2>3, <3>1 DEF CallerTypes
  <2>6. Asking'
    BY <1>2, <2>1 DEF IInv, CallerInv, Asking
  <2>7. InHand'
    BY DEF InHand
  <2>8. caller = "sweeper" /\ again =>
          /\ client.tries < SweepTries /\ wake = now + SweepWait
    BY DEF Repeats, Pause
  <2>9. Patience'
    <3> SUFFICES ASSUME caller = "sweeper" PROVE Patience'
      BY DEF Patience
    <3>1. /\ client.tries >= 1 /\ client.tries <= SweepTries
          /\ now >= Since(client.tries) /\ client.tries \in Nat
      BY <1>2, <2>3 DEF IInv, CallerInv, Patience, CallerTypes
    <3>2. /\ now \in Nat /\ chain["closed"] \in Nat /\ SweepWait \in Nat
      BY Bounds DEF IInv, Chain, Events
    <3>3. Since(client.tries + 1) = Since(client.tries) + SweepWait
      BY <3>1, <3>2 DEF Since
    <3>4. Since(client.tries) \in Int
      BY <3>1, <3>2 DEF Since
    <3>5. again => client'.wake >= Since(client.tries + 1)
      <4> HIDE DEF again, wake
      <4> QED BY <2>1, <2>8, <3>1, <3>2, <3>3, <3>4
    <3>6. (Since(client.tries + 1))' = Since(client.tries + 1)
      BY <2>1 DEF Since
    <3> HIDE DEF again, wake
    <3> QED BY <2>1, <2>8, <3>1, <3>5, <3>6 DEF Patience
  <2>10. ClosedIsSeen'
    BY <1>2, <2>1 DEF ClosedIsSeen, Repeats, IsStaleOpen
  <2>11. FalseNeverIsTorn'
    <3> HIDE DEF again, wake
    <3> QED BY <1>2, <2>1 DEF FalseNeverIsTorn
  <2> QED BY <2>4, <2>6, <2>7, <2>9, <2>10, <2>11 DEF CallerInv
<1> QED BY <1>1, <1>2

\* What must be known of an answer that the properties are about.
StillTries(c, code) ==
  c = "caller" /\ client.state = "asked" /\ caller = "sweeper" /\ code = 409
    => client.tries < SweepTries

TrueNever(c, code) ==
  c = "caller" /\ client.state = "asked" /\ caller = "loop" /\ code \in {403, 410}
      /\ client'.uniform
    => now >= chain["requested"] + Valid

Frees(c) == request' = [request EXCEPT ![c] = Free]

\* The service is done with a request, of whichever client.
LEMMA Finished ==
  ASSUME IInv, NEW c \in Clients, NEW code \in Nat, NEW seconds \in Int,
         Frees(c), Heard(c, code, seconds),
         UNCHANGED <<chain, verdict, caller, up, now>>,
         StillTries(c, code), TrueNever(c, code)
  PROVE  CallerInv' /\ Chain'
<1>2. Chain'
  BY DEF IInv, Chain
<1>3. /\ request' \in [Clients -> [route : Routes \cup {"none"}, since : Nat]]
      /\ c = "caller" => /\ request'["caller"].route = "none"
                         /\ request'["caller"].since = 0
      /\ c # "caller" => request'["caller"] = request["caller"]
  BY DEF Frees, IInv, CallerInv, CallerTypes, Free, Clients
<1>4. CASE c = "caller"
  <2>1. 0 <= now
    BY DEF IInv, Chain
  <2> QED BY <1>2, <1>3, <1>4, <2>1, Answered DEF StillTries, TrueNever
<1>5. CASE c = "stray"
  <2>1. client' = client
    BY <1>5 DEF Heard
  <2> QED BY <1>2, <1>3, <1>5, <2>1, Unheard
<1> QED BY <1>4, <1>5, <1>2 DEF Clients

-----------------------------------------------------------------------------
(* The steps.                                                              *)

LEMMA AskStep == ASSUME IInv, Ask PROVE IInv'
<1>1. /\ UNCHANGED <<now, chain, verdict, enclave, up, request, released, caller>>
      /\ client.state \in {"new", "waiting"} /\ now >= client.wake
      /\ IF caller = "loop" THEN chain["finalized"] # 0 /\ verdict
                            ELSE chain["closed"] # 0
      /\ client' = [client EXCEPT !.state = "asked", !.tries = @ + 1, !.wake = 0,
                     !.first = IF client.tries = 0 THEN now ELSE @]
  BY DEF Ask, chainVars, limitVars, serviceVars
<1>2. CallerTypes
  BY DEF IInv, CallerInv
<1>3. client' = [state |-> "asked", tries |-> client.tries + 1, wake |-> 0,
                 first |-> IF client.tries = 0 THEN now ELSE client.first,
                 limited |-> client.limited, answer |-> client.answer,
                 uniform |-> client.uniform]
  BY <1>1, <1>2 DEF CallerTypes
<1>4. client'.state = "asked" /\ client'.tries = client.tries + 1
  BY <1>3
<1>9. CallerTypes'
  <2>1. client' = [state |-> client'.state, tries |-> client'.tries,
                   wake |-> client'.wake, first |-> client'.first,
                   limited |-> client'.limited, answer |-> client'.answer,
                   uniform |-> client'.uniform]
    BY <1>3
  <2>2. client'.wake = 0 /\ client'.answer = client.answer
    BY <1>3
  <2>3. client.tries \in Nat /\ client.answer \in Nat
    BY <1>2 DEF CallerTypes
  <2> QED BY <1>1, <1>2, <1>4, <2>1, <2>2, <2>3 DEF CallerTypes
<1>5. Chain' /\ Budget' /\ ReleasedIsFrozen' /\ Asking'
  BY <1>1, <1>4 DEF IInv, Chain, Budget, ReleasedIsFrozen, Asking
<1>6. InHand'
  BY <1>1, <1>4 DEF IInv, CallerInv, InHand
<1>7. Patience'
  <2> SUFFICES ASSUME caller = "sweeper" PROVE Patience'
    BY <1>1 DEF Patience
  <2>1. /\ request["caller"].route = "none" /\ chain["closed"] # 0
        /\ chain["closed"] <= now /\ chain["closed"] \in Nat /\ now \in Nat
    BY <1>1 DEF IInv, CallerInv, InHand, Chain, Events
  <2>2. CASE client.state = "new"
    <3>1. client'.tries = 1
      BY <1>4, <2>2 DEF IInv, CallerInv, Patience
    <3>2. (Since(client.tries))' = chain["closed"]
      BY <1>1, <2>1, <3>1, Bounds DEF Since
    <3> QED BY <1>1, <1>4, <2>1, <3>1, <3>2, Bounds DEF Patience
  <2>3. CASE client.state = "waiting"
    <3>1. /\ client.tries >= 1 /\ client.tries < SweepTries
          /\ client.wake >= Since(client.tries + 1) /\ client.tries \in Nat
      BY <1>2, <2>3 DEF IInv, CallerInv, Patience, CallerTypes
    <3>2. (Since(client.tries))' = Since(client.tries + 1)
      BY <1>1, <1>4 DEF Since
    <3>3. Since(client.tries + 1) \in Int /\ client.wake \in Int
      BY <1>2, <2>1, <3>1, Bounds DEF Since, CallerTypes
    <3>4. now >= Since(client.tries + 1)
      BY <1>1, <2>1, <3>1, <3>3
    <3> QED BY <1>1, <1>4, <2>1, <3>1, <3>2, <3>4, Bounds DEF Patience
  <2> QED BY <1>1, <2>2, <2>3
<1>8. ClosedIsSeen' /\ FalseNeverIsTorn'
  BY <1>4 DEF ClosedIsSeen, FalseNeverIsTorn
<1> QED BY <1>5, <1>6, <1>7, <1>8, <1>9 DEF IInv, CallerInv

LEMMA UnreachableStep == ASSUME IInv, Unreachable PROVE IInv'
<1>1. /\ UNCHANGED <<now, chain, verdict, enclave, up, request, released, caller>>
      /\ client.state = "asked"
      /\ client' = [client EXCEPT !.state = "done", !.answer = 0]
  BY DEF Unreachable, chainVars, limitVars, serviceVars
<1>2. CallerTypes
  BY DEF IInv, CallerInv
<1>3. CallerTypes'
  BY <1>1, <1>2 DEF CallerTypes
<1>4. client'.state = "done" /\ client'.answer = 0
  BY <1>1, <1>2 DEF CallerTypes
<1>5. Chain' /\ Budget' /\ ReleasedIsFrozen' /\ Asking'
  BY <1>1, <1>4 DEF IInv, CallerInv, Chain, Budget, ReleasedIsFrozen, Asking
<1>6. InHand' /\ Patience'
  BY <1>1, <1>4 DEF IInv, CallerInv, InHand, Patience
<1>7. ClosedIsSeen' /\ FalseNeverIsTorn'
  BY <1>4 DEF ClosedIsSeen, FalseNeverIsTorn
<1> QED BY <1>3, <1>5, <1>6, <1>7 DEF IInv, CallerInv

\* Nothing but the caller and the request changed.
LEMMA RestOfIInv ==
  ASSUME IInv, CallerInv', Chain',
         UNCHANGED <<now, chain, verdict, enclave, released>>
  PROVE  IInv'
BY DEF IInv, Budget, ReleasedIsFrozen

LEMMA DownStep == ASSUME IInv, Down PROVE IInv'
<1>1. /\ UNCHANGED <<now, chain, verdict, enclave, up, request, released, caller>>
      /\ ~up /\ Hear("caller", 503, 0, TRUE)
  BY DEF Down, chainVars, limitVars, serviceVars
<1>2. request["caller"].route = "none"
  BY <1>1 DEF IInv, CallerInv, InHand
<1>3. CallerTypes /\ Chain'
  BY <1>1 DEF IInv, CallerInv, Chain
<1>4. CallerInv'
  <2>1. /\ request' \in [Clients -> [route : Routes \cup {"none"}, since : Nat]]
        /\ request'["caller"].route = "none" /\ request'["caller"].since <= now
    BY <1>1, <1>2, <1>3 DEF CallerTypes, IInv, CallerInv, InHand
  <2>2. Heard("caller", 503, 0)
    BY <1>1, <1>3, HearTrue
  <2> QED BY <1>1, <2>1, <2>2, Answered
<1> QED BY <1>1, <1>3, <1>4, RestOfIInv

LEMMA ArriveStep ==
  ASSUME IInv, NEW c \in Clients, NEW k \in Sources, NEW route \in Routes,
         NEW parses \in BOOLEAN, Arrive(c, k, route, parses)
  PROVE  IInv'
<1>1. /\ UNCHANGED <<now, chain, verdict, enclave, up, released, caller>>
      /\ up /\ request[c] = Free /\ Sends(c, k, route, parses)
  BY DEF Arrive, Sends, chainVars
<1>2. Chain' /\ CallerTypes
  BY <1>1 DEF IInv, CallerInv, Chain
<1>3. CASE Allowed(edge[Edge(route)][k], EdgeMax)
  <2>1. /\ UNCHANGED client
        /\ request' = IF parses
             THEN [request EXCEPT ![c] = [route |-> route, since |-> now]]
             ELSE request
    BY <1>3 DEF Arrive
  <2>2. request' \in [Clients -> [route : Routes \cup {"none"}, since : Nat]]
    BY <1>2, <2>1 DEF CallerTypes, IInv, Chain
  <2>3. CASE request'["caller"] = request["caller"]
    BY <1>1, <1>2, <2>1, <2>2, <2>3, Unheard, RestOfIInv
  <2>4. CASE request'["caller"] # request["caller"]
    <3>1. /\ c = "caller" /\ parses
          /\ request'["caller"] = [route |-> route, since |-> now]
      BY <1>2, <2>1, <2>4 DEF CallerTypes, Clients
    <3>2. /\ client.state = "asked"
          /\ route = IF caller = "loop" THEN "sign" ELSE "sweep"
      BY <1>1, <3>1 DEF Sends
    <3>3. CallerTypes' /\ Asking' /\ ClosedIsSeen' /\ FalseNeverIsTorn'
      BY <1>1, <1>2, <2>1, <2>2 DEF IInv, CallerInv, CallerTypes, Asking,
         ClosedIsSeen, FalseNeverIsTorn
    <3>4. InHand'
      BY <1>1, <2>1, <3>1, <3>2 DEF InHand, IInv, Chain
    <3>5. Patience'
      BY <1>1, <2>1, <3>1, <3>2 DEF IInv, CallerInv, Patience, Since
    <3>6. CallerInv'
      BY <3>3, <3>4, <3>5 DEF CallerInv
    <3> QED BY <1>1, <1>2, <3>6, RestOfIInv
  <2> QED BY <2>3, <2>4
<1>4. CASE ~Allowed(edge[Edge(route)][k], EdgeMax)
  <2>1. Hear(c, 429, Period, TRUE) /\ request' = request
    BY <1>4 DEF Arrive
  <2>2. request' \in [Clients -> [route : Routes \cup {"none"}, since : Nat]]
    BY <1>2, <2>1 DEF CallerTypes
  <2>3. CASE c = "caller"
    <3>1. request'["caller"].route = "none" /\ request'["caller"].since <= now
      BY <1>1, <2>1, <2>3 DEF Free, IInv, Chain
    <3>2. CallerInv'
      <4>1. Heard("caller", 429, Period)
        BY <1>2, <2>1, <2>3, HearTrue
      <4> QED BY <1>1, <2>1, <2>2, <3>1, <4>1, Bounds, Answered
    <3> QED BY <1>1, <1>2, <3>2, RestOfIInv
  <2>4. CASE c = "stray"
    <3>1. client' = client
      BY <2>1, <2>4 DEF Hear
    <3> QED BY <1>1, <1>2, <2>1, <2>2, <3>1, Unheard, RestOfIInv
  <2> QED BY <2>3, <2>4 DEF Clients
<1> QED BY <1>3, <1>4

LEMMA RestartStep == ASSUME IInv, Restart PROVE IInv'
<1>1. /\ UNCHANGED <<now, chain, verdict, released, caller, client>>
      /\ up' = FALSE
      /\ enclave' = [o \in DOMAIN enclave |-> NoEntry]
      /\ request' = [c \in Clients |-> Free]
  BY DEF Restart, chainVars
<1>2. Chain' /\ ReleasedIsFrozen' /\ Asking' /\ ClosedIsSeen' /\ FalseNeverIsTorn'
  BY <1>1 DEF IInv, CallerInv, Chain, ReleasedIsFrozen, Asking, ClosedIsSeen,
     FalseNeverIsTorn
<1>3. Budget'
  BY <1>1 DEF IInv, Budget, NoEntry
<1>4. request'["caller"] = Free
  BY <1>1 DEF Clients
<1>5. CallerTypes'
  <2>1. Free \in [route : Routes \cup {"none"}, since : Nat]
    BY DEF Free
  <2>2. request' \in [Clients -> [route : Routes \cup {"none"}, since : Nat]]
    BY <1>1, <2>1
  <2> QED BY <1>1, <2>2 DEF IInv, CallerInv, CallerTypes
<1>6. InHand'
  BY <1>1, <1>4 DEF IInv, Chain, InHand, Free
<1>7. Patience'
  BY <1>1, <1>4 DEF IInv, CallerInv, Patience, Since, Free
<1> QED BY <1>2, <1>3, <1>5, <1>6, <1>7 DEF IInv, CallerInv

LEMMA BootStep == ASSUME IInv, Boot PROVE IInv'
<1>1. /\ UNCHANGED <<now, chain, verdict, enclave, request, released, caller, client>>
      /\ up' = TRUE
  BY DEF Boot, chainVars, limitVars, callerVars
<1> QED BY <1>1 DEF IInv, Chain, Budget, CallerInv, CallerTypes, Asking, InHand,
       Patience, Since, ClosedIsSeen, FalseNeverIsTorn, ReleasedIsFrozen

LEMMA MinedStep ==
  ASSUME IInv, NEW e \in Events, Mined(e)
  PROVE  IInv'
<1>1. /\ UNCHANGED <<now, verdict, enclave, up, request, released, caller, client>>
      /\ chain[e] = 0 /\ chain' = [chain EXCEPT ![e] = now]
      /\ e = "finalized" => chain["requested"] # 0
  BY DEF Mined, Possible, limitVars, serviceVars, callerVars
<1>2. Chain
  BY DEF IInv
<1>3. Chain'
  BY <1>1, <1>2 DEF Chain, Events
<1>4. \A f \in Events : chain[f] # 0 => chain'[f] = chain[f]
  BY <1>1, <1>2 DEF Chain
<1>5. /\ chain["finalized"] # 0 => /\ chain'["finalized"] # 0
                                  /\ chain'["requested"] = chain["requested"]
      /\ chain["closed"] # 0 => chain'["closed"] = chain["closed"]
  BY <1>2, <1>4 DEF Chain, Events
<1>6. ReleasedIsFrozen' /\ Asking' /\ Budget'
  BY <1>1, <1>5 DEF IInv, CallerInv, ReleasedIsFrozen, Asking, Budget
<1>7. CallerTypes' /\ InHand' /\ ClosedIsSeen'
  BY <1>1 DEF IInv, CallerInv, CallerTypes, InHand, ClosedIsSeen
<1>8. Patience'
  BY <1>1, <1>5 DEF IInv, CallerInv, Asking, Patience, Since
<1>9. FalseNeverIsTorn'
  BY <1>1, <1>5 DEF IInv, CallerInv, Asking, FalseNeverIsTorn
<1> QED BY <1>3, <1>6, <1>7, <1>8, <1>9 DEF IInv, CallerInv

LEMMA TickStep == ASSUME IInv, Tick PROVE IInv'
<1>1. /\ UNCHANGED <<chain, verdict, enclave, up, request, released, caller, client>>
      /\ now' = now + 1
  BY DEF Tick, serviceVars, callerVars
<1>2. Chain /\ CallerInv
  BY DEF IInv
<1>3. now \in Nat /\ now' \in Nat /\ now' > now
  BY <1>1, <1>2 DEF Chain
<1>4. Chain' /\ Budget' /\ ReleasedIsFrozen'
  BY <1>1, <1>3 DEF IInv, Chain, Budget, ReleasedIsFrozen
<1>5. CallerTypes' /\ Asking' /\ ClosedIsSeen'
  BY <1>1, <1>2 DEF CallerInv, CallerTypes, Asking, ClosedIsSeen
<1>6. InHand'
  BY <1>1, <1>2, <1>3 DEF CallerInv, CallerTypes, InHand, Clients
<1>7. Patience'
  <2>1. Since(client.tries) \in Int
    BY <1>2, Bounds DEF Since, CallerInv, CallerTypes, Chain, Events
  <2> QED BY <1>1, <1>2, <1>3, <2>1 DEF CallerInv, Patience, Since
<1>8. FalseNeverIsTorn'
  <2>1. chain["requested"] + Valid \in Nat
    BY <1>2, Bounds DEF Chain, Events
  <2> QED BY <1>1, <1>2, <1>3, <2>1 DEF CallerInv, FalseNeverIsTorn
<1> QED BY <1>4, <1>5, <1>6, <1>7, <1>8 DEF IInv, CallerInv

-----------------------------------------------------------------------------
(* The requests in hand.                                                   *)

\* A node shows only what has happened.
LEMMA Seen ==
  ASSUME NEW c \in Clients, NEW e \in Events, NEW seen \in Reads(c, e), seen
  PROVE  chain[e] # 0
<1>1. PICK h \in Heights(c) : seen = Shows(h, e)
  BY DEF Reads
<1>2. Shows(h, e)
  BY <1>1
<1> QED BY <1>2 DEF Shows

\* Nothing is refused only for a record that was seen, decided, approved and
\* still open.
LEMMA NotRefused ==
  ASSUME NEW spend, Refusal(spend) = 0
  PROVE  spend.exists /\ spend.finalized /\ spend.approved /\ ~(Until(spend) <= now)
BY DEF Refusal

LEMMA RefusedWith ==
  ASSUME NEW spend
  PROVE  /\ Refusal(spend) \in {0, 403, 404, 410, 425}
         /\ Refusal(spend) = 403 => spend.finalized /\ ~spend.approved
         /\ Refusal(spend) = 410 => spend.exists /\ Until(spend) <= now
BY DEF Refusal

LEMMA SpendFacts ==
  ASSUME NEW c \in Clients, NEW spend \in SpendReads(c)
  PROVE  /\ spend.exists => chain["requested"] # 0
         /\ spend.window => chain["requested"] # 0
         /\ spend.finalized => chain["finalized"] # 0
         /\ spend.approved => chain["finalized"] # 0 /\ verdict
<1>1. /\ spend.exists \in Reads(c, "requested") /\ spend.window \in Reads(c, "requested")
      /\ spend.finalized \in Reads(c, "finalized")
      /\ spend.approved \in {seen /\ verdict : seen \in Reads(c, "finalized")}
  BY DEF SpendReads
<1>2. "requested" \in Events /\ "finalized" \in Events
  BY DEF Events
<1>3. PICK seen \in Reads(c, "finalized") : spend.approved = (seen /\ verdict)
  BY <1>1
<1>4. spend.exists => chain["requested"] # 0
  BY <1>1, <1>2, Seen
<1>5. spend.window => chain["requested"] # 0
  BY <1>1, <1>2, Seen
<1>6. spend.finalized => chain["finalized"] # 0
  BY <1>1, <1>2, Seen
<1>7. spend.approved => chain["finalized"] # 0 /\ verdict
  <2>1. spend.approved => seen /\ verdict
    BY <1>3
  <2> QED BY <1>2, <2>1, Seen
<1> QED BY <1>4, <1>5, <1>6, <1>7

\* What a request in hand writes: the outcome of the checks decides whether the
\* enclave is called, and a call over its limit is answered 429.
LEMMA EnclaveWrites ==
  ASSUME IInv, NEW o \in {"derive", "mint"}, NEW code \in Nat,
         enclave' = IF IsCharged(code) THEN [enclave EXCEPT ![o] = Counted(@)]
                                       ELSE enclave
  PROVE  /\ Budget' /\ enclave'["derive"].count \in Nat
         /\ enclave'["derive"].count > enclave["derive"].count
              => o = "derive" /\ code = 0
<1>1. enclave[o] \in [count : Nat, until : Nat] /\ now \in Nat /\ Period \in Nat
  BY Bounds DEF IInv, Budget, Chain
<1>2. Counted(enclave[o]) \in [count : Nat, until : Nat]
  BY <1>1 DEF Counted
<1>3. Budget'
  BY <1>2 DEF IInv, Budget
<1>4. enclave'["derive"].count \in Nat /\ enclave["derive"].count \in Nat
  BY <1>3 DEF IInv, Budget
<1>5. ASSUME enclave'["derive"].count > enclave["derive"].count
      PROVE  o = "derive" /\ code = 0
  <2>1. enclave'["derive"] # enclave["derive"]
    BY <1>4, <1>5
  <2> QED BY <2>1 DEF IsCharged, IInv, Budget
<1> QED BY <1>3, <1>4, <1>5

LEMMA RetryAfterIsInt ==
  ASSUME IInv, NEW o \in {"derive", "mint"}
  PROVE  RetryAfter(enclave[o]) \in Int
<1>1. enclave[o].until \in Nat /\ now \in Nat
  BY DEF IInv, Budget, Chain
<1> QED BY <1>1 DEF RetryAfter

LEMMA MintStep ==
  ASSUME IInv, NEW c \in Clients, Mint(c)
  PROVE  IInv' /\ enclave'["derive"].count <= enclave["derive"].count
<1>1. /\ request[c].route = "mint" /\ Operation(request[c].route) = "mint"
      /\ UNCHANGED released
      /\ enclave' = IF IsCharged(0) THEN [enclave EXCEPT !["mint"] = Counted(@)] ELSE enclave
      /\ \/ Finish(c, 429, RetryAfter(enclave["mint"]), TRUE)
         \/ Finish(c, 201, 0, TRUE)
  BY DEF Mint, Enclave, Operation
<1>2. RetryAfter(enclave["mint"]) \in Int
  BY RetryAfterIsInt
<1>7. CallerTypes
  BY DEF IInv, CallerInv
<1>3. PICK code \in {429, 201}, seconds \in Int :
        /\ Frees(c) /\ Heard(c, code, seconds)
        /\ UNCHANGED <<chain, verdict, caller, up, now>>
  <2>1. CASE Finish(c, 429, RetryAfter(enclave["mint"]), TRUE)
    <3>1. Heard(c, 429, RetryAfter(enclave["mint"]))
      BY <1>7, <2>1, HearTrue DEF Finish
    <3> QED BY <1>2, <2>1, <3>1 DEF Finish, Frees, chainVars
  <2>2. CASE Finish(c, 201, 0, TRUE)
    <3>1. Heard(c, 201, 0)
      BY <1>7, <2>2, HearTrue DEF Finish
    <3> QED BY <2>2, <3>1 DEF Finish, Frees, chainVars
  <2> QED BY <1>1, <2>1, <2>2
<1>4. CallerInv' /\ Chain'
  <2>1. StillTries(c, code) /\ TrueNever(c, code)
    BY DEF StillTries, TrueNever
  <2> QED BY <1>3, <2>1, Finished
<1>5. Budget' /\ ~(enclave'["derive"].count > enclave["derive"].count)
      /\ enclave'["derive"].count \in Nat
  BY <1>1, EnclaveWrites
<1>6. enclave["derive"].count \in Nat
  BY DEF IInv, Budget
<1> QED BY <1>1, <1>3, <1>4, <1>5, <1>6 DEF IInv, ReleasedIsFrozen

LEMMA SignStep ==
  ASSUME IInv, NEW c \in Clients, Sign(c)
  PROVE  /\ IInv'
         /\ enclave'["derive"].count > enclave["derive"].count
              => chain["finalized"] # 0 /\ verdict
<1>0. CallerTypes
  BY DEF IInv, CallerInv
<1>1. PICK spend \in SpendReads(c) :
        Enclave(c, Refusal(spend), IsUniform(c, spend),
          /\ released' = released \cup
               {[route |-> "sign", until |-> Until(spend)]}
          /\ Finish(c, 200, 0, TRUE))
  BY DEF Sign
<1>2. request[c].route = "sign" /\ Operation(request[c].route) = "derive"
  BY DEF Sign, Operation
<1>3. Refusal(spend) \in {0, 403, 404, 410, 425}
  BY RefusedWith
<1>4. enclave' = IF IsCharged(Refusal(spend))
                 THEN [enclave EXCEPT !["derive"] = Counted(@)] ELSE enclave
  BY <1>1, <1>2 DEF Enclave
<1>5. /\ Budget'
      /\ enclave'["derive"].count > enclave["derive"].count => Refusal(spend) = 0
  BY <1>3, <1>4, EnclaveWrites
<1>6. Refusal(spend) = 0 => /\ chain["finalized"] # 0 /\ verdict
                           /\ ~(Until(spend) <= now)
  BY NotRefused, SpendFacts
<1>7. CASE Refusal(spend) # 0
  <2>1. Finish(c, Refusal(spend), 0, IsUniform(c, spend)) /\ UNCHANGED released
    BY <1>1, <1>7 DEF Enclave
  <2>2. /\ Frees(c) /\ Heard(c, Refusal(spend), 0)
        /\ UNCHANGED <<chain, verdict, caller, up, now>>
    <3>1. Heard(c, Refusal(spend), 0)
      BY <1>0, <2>1, HearIs DEF Finish
    <3> QED BY <2>1, <3>1 DEF Finish, Frees, chainVars
  <2>3. TrueNever(c, Refusal(spend))
    <3> SUFFICES ASSUME c = "caller", client.state = "asked", caller = "loop",
                        Refusal(spend) \in {403, 410}, client'.uniform
                 PROVE  now >= chain["requested"] + Valid
      BY DEF TrueNever
    <3>1. IsUniform(c, spend)
      BY <1>0, <2>1 DEF Finish, Hear, CallerTypes
    <3>2. /\ spend.exists = spend.window
          /\ spend.approved = (spend.finalized /\ verdict)
      BY <3>1 DEF IsUniform
    <3>3. verdict
      BY DEF IInv, CallerInv, Asking
    <3>4. Refusal(spend) = 410
      <4>1. Refusal(spend) # 403
        <5> SUFFICES ASSUME Refusal(spend) = 403 PROVE FALSE
          OBVIOUS
        <5>1. spend.finalized /\ ~spend.approved
          BY RefusedWith
        <5> QED BY <3>2, <3>3, <5>1
      <4> QED BY <4>1
    <3>5. spend.window /\ Until(spend) <= now
      BY <3>2, <3>4, RefusedWith
    <3> QED BY <3>5, Bounds DEF Until, IInv, Chain, Events
  <2>5. StillTries(c, Refusal(spend))
    BY <1>3 DEF StillTries
  <2>4. CallerInv' /\ Chain'
    BY <1>3, <2>2, <2>3, <2>5, Finished
  <2> QED BY <1>5, <1>6, <2>1, <2>2, <2>4 DEF IInv, ReleasedIsFrozen
<1>8. CASE Refusal(spend) = 0 /\ ~Allowed(enclave["derive"], EnclaveMax)
  <2>1. Finish(c, 429, RetryAfter(enclave["derive"]), TRUE) /\ UNCHANGED released
    BY <1>1, <1>2, <1>8 DEF Enclave
  <2>2. RetryAfter(enclave["derive"]) \in Int
    BY RetryAfterIsInt
  <2>3. /\ Frees(c)
        /\ Heard(c, 429, RetryAfter(enclave["derive"]))
        /\ UNCHANGED <<chain, verdict, caller, up, now>>
    <3>1. Heard(c, 429, RetryAfter(enclave["derive"]))
      BY <1>0, <2>1, HearTrue DEF Finish
    <3> QED BY <2>1, <3>1 DEF Finish, Frees, chainVars
  <2>4. CallerInv' /\ Chain'
    <3>1. StillTries(c, 429) /\ TrueNever(c, 429)
      BY DEF StillTries, TrueNever
    <3> QED BY <2>2, <2>3, <3>1, Finished
  <2> QED BY <1>5, <1>6, <2>1, <2>3, <2>4 DEF IInv, ReleasedIsFrozen
<1>9. CASE Refusal(spend) = 0 /\ Allowed(enclave["derive"], EnclaveMax)
  <2>1. /\ released' = released \cup {[route |-> "sign", until |-> Until(spend)]}
        /\ Finish(c, 200, 0, TRUE)
    BY <1>1, <1>2, <1>9 DEF Enclave
  <2>2. /\ Frees(c) /\ Heard(c, 200, 0)
        /\ UNCHANGED <<chain, verdict, caller, up, now>>
    <3>1. Heard(c, 200, 0)
      BY <1>0, <2>1, HearTrue DEF Finish
    <3> QED BY <2>1, <3>1 DEF Finish, Frees, chainVars
  <2>3. CallerInv' /\ Chain'
    <3>1. StillTries(c, 200) /\ TrueNever(c, 200)
      BY DEF StillTries, TrueNever
    <3> QED BY <2>2, <3>1, Finished
  <2>4. Until(spend) = chain["requested"] + Valid
    BY <1>6, <1>9 DEF Until, IInv, Chain
  <2>5. ReleasedIsFrozen'
    BY <1>6, <1>9, <2>1, <2>2, <2>4 DEF IInv, ReleasedIsFrozen
  <2> QED BY <1>5, <1>6, <2>3, <2>5 DEF IInv
<1> QED BY <1>7, <1>8, <1>9

LEMMA SweepStep ==
  ASSUME IInv, NEW c \in Clients, Sweep(c)
  PROVE  /\ IInv'
         /\ enclave'["derive"].count > enclave["derive"].count => chain["closed"] # 0
<1>0. CallerTypes
  BY DEF IInv, CallerInv
<1>1. PICK closed \in Reads(c, "closed"), empty \in BOOLEAN :
        Enclave(c, IF closed THEN 0 ELSE 409, TRUE,
          IF empty THEN Finish(c, 410, 0, TRUE) /\ UNCHANGED released
          ELSE /\ released' = released \cup {[route |-> "sweep", until |-> 0]}
               /\ Finish(c, 200, 0, TRUE))
  BY DEF Sweep
<1>2. request[c].route = "sweep" /\ Operation(request[c].route) = "derive"
  BY DEF Sweep, Operation
<1> DEFINE code == IF closed THEN 0 ELSE 409
<1>3. enclave' = IF IsCharged(code) THEN [enclave EXCEPT !["derive"] = Counted(@)]
                                    ELSE enclave
  BY <1>1, <1>2 DEF Enclave
<1>4. /\ Budget'
      /\ enclave'["derive"].count > enclave["derive"].count => code = 0
  <2>1. code \in Nat
    OBVIOUS
  <2> HIDE DEF code
  <2> QED BY <1>3, <2>1, EnclaveWrites
<1>5. closed => chain["closed"] # 0
  BY Seen DEF Events
<1>6. CASE ~closed
  <2>1. Finish(c, IF closed THEN 0 ELSE 409, 0, TRUE) /\ UNCHANGED released
    <3>1. (IF closed THEN 0 ELSE 409) # 0
      BY <1>6
    <3> QED BY <1>1, <3>1, Zenon DEF Enclave
  <2>2. /\ Frees(c) /\ Heard(c, 409, 0)
        /\ UNCHANGED <<chain, verdict, caller, up, now>>
    <3>1. Heard(c, IF closed THEN 0 ELSE 409, 0)
      BY <1>0, <2>1, HearTrue DEF Finish
    <3>2. (IF closed THEN 0 ELSE 409) = 409
      BY <1>6
    <3>3. Heard(c, 409, 0)
      BY <3>1, <3>2
    <3> QED BY <2>1, <3>3 DEF Finish, Frees, chainVars
  <2>3. StillTries(c, 409)
    <3> SUFFICES ASSUME c = "caller", client.state = "asked", caller = "sweeper"
                 PROVE  client.tries < SweepTries
      BY DEF StillTries
    <3>1. PICK h \in Heights(c) : closed = Shows(h, "closed")
      BY <1>1 DEF Reads
    <3>2. chain["closed"] # 0 /\ client.tries \in Nat
      BY DEF IInv, CallerInv, Asking, CallerTypes
    <3>3. h < chain["closed"] /\ request[c].since - Lag <= h /\ h \in Nat
      <4>1. ~(chain["closed"] <= h)
        BY <1>6, <3>1, <3>2 DEF Shows
      <4> QED BY <4>1 DEF Heights, Times, IInv, Chain, Events
    <3>4. /\ client.tries <= SweepTries
          /\ request[c].since >= Since(client.tries)
      BY <1>2 DEF IInv, CallerInv, Patience
    <3>5. request[c].since \in Nat /\ chain["closed"] \in Nat
      BY DEF IInv, CallerInv, CallerTypes, Chain, Events
    <3>6. CASE client.tries = SweepTries
      <4>1. Since(client.tries) = chain["closed"] + (SweepTries - 1) * SweepWait
        BY <3>6 DEF Since
      <4> DEFINE waited == (SweepTries - 1) * SweepWait
      <4>2. waited \in Int /\ waited > Lag
        BY Bounds
      <4> HIDE DEF waited
      <4>3. Since(client.tries) = chain["closed"] + waited
        BY <4>1 DEF waited
      <4> QED BY <3>3, <3>4, <3>5, <4>2, <4>3, Bounds
    <3> QED BY <3>2, <3>4, <3>6, Bounds
  <2>4. TrueNever(c, 409)
    BY DEF TrueNever
  <2>5. CallerInv' /\ Chain'
    BY <2>2, <2>3, <2>4, Finished
  <2> QED BY <1>4, <1>5, <1>6, <2>1, <2>2, <2>5 DEF IInv, ReleasedIsFrozen
<1>7. CASE closed /\ ~Allowed(enclave["derive"], EnclaveMax)
  <2>1. Finish(c, 429, RetryAfter(enclave["derive"]), TRUE) /\ UNCHANGED released
    BY <1>1, <1>2, <1>7 DEF Enclave
  <2>2. RetryAfter(enclave["derive"]) \in Int
    BY RetryAfterIsInt
  <2>3. /\ Frees(c)
        /\ Heard(c, 429, RetryAfter(enclave["derive"]))
        /\ UNCHANGED <<chain, verdict, caller, up, now>>
    <3>1. Heard(c, 429, RetryAfter(enclave["derive"]))
      BY <1>0, <2>1, HearTrue DEF Finish
    <3> QED BY <2>1, <3>1 DEF Finish, Frees, chainVars
  <2>4. CallerInv' /\ Chain'
    <3>1. StillTries(c, 429) /\ TrueNever(c, 429)
      BY DEF StillTries, TrueNever
    <3> QED BY <2>2, <2>3, <3>1, Finished
  <2> QED BY <1>4, <1>5, <1>7, <2>1, <2>3, <2>4 DEF IInv, ReleasedIsFrozen
<1>8. CASE closed /\ Allowed(enclave["derive"], EnclaveMax)
  <2>1. \/ Finish(c, 410, 0, TRUE) /\ UNCHANGED released
        \/ /\ released' = released \cup {[route |-> "sweep", until |-> 0]}
           /\ Finish(c, 200, 0, TRUE)
    BY <1>1, <1>2, <1>8 DEF Enclave
  <2>2. PICK answer \in {200, 410} :
          /\ Frees(c) /\ Heard(c, answer, 0)
          /\ UNCHANGED <<chain, verdict, caller, up, now>>
    <3>1. CASE Finish(c, 410, 0, TRUE)
      <4>1. Heard(c, 410, 0)
        BY <1>0, <3>1, HearTrue DEF Finish
      <4> QED BY <3>1, <4>1 DEF Finish, Frees, chainVars
    <3>2. CASE Finish(c, 200, 0, TRUE)
      <4>1. Heard(c, 200, 0)
        BY <1>0, <3>2, HearTrue DEF Finish
      <4> QED BY <3>2, <4>1 DEF Finish, Frees, chainVars
    <3> QED BY <2>1, <3>1, <3>2
  <2>3. ~(c = "caller" /\ caller = "loop")
    BY <1>2 DEF IInv, CallerInv, InHand
  <2>4. CallerInv' /\ Chain'
    <3>1. StillTries(c, answer) /\ TrueNever(c, answer)
      BY <2>3 DEF StillTries, TrueNever
    <3> QED BY <2>2, <3>1, Finished
  <2>5. ReleasedIsFrozen'
    <3>1. released' \subseteq released \cup {[route |-> "sweep", until |-> 0]}
      BY <2>1
    <3> QED BY <1>5, <1>8, <2>2, <3>1 DEF IInv, ReleasedIsFrozen
  <2> QED BY <1>4, <1>5, <1>8, <2>4, <2>5 DEF IInv
<1> QED BY <1>6, <1>7, <1>8

LEMMA NextIInv == IInv /\ [SignerNext]_signerVars => IInv'
<1> SUFFICES ASSUME IInv, [SignerNext]_signerVars PROVE IInv'
  OBVIOUS
<1>1. CASE Ask \/ Unreachable \/ Down \/ Restart \/ Boot \/ Tick
  BY <1>1, AskStep, UnreachableStep, DownStep, RestartStep, BootStep, TickStep
<1>2. ASSUME NEW c \in Clients, NEW k \in Sources, NEW route \in Routes,
             NEW parses \in BOOLEAN, Arrive(c, k, route, parses)
      PROVE  IInv'
  BY <1>2, ArriveStep
<1>3. ASSUME NEW c \in Clients, Mint(c) \/ Sign(c) \/ Sweep(c) PROVE IInv'
  BY <1>3, MintStep, SignStep, SweepStep
<1>4. ASSUME NEW e \in Events, Mined(e) PROVE IInv'
  BY <1>4, MinedStep
<1>5. CASE UNCHANGED signerVars
  BY <1>5 DEF signerVars, chainVars, limitVars, serviceVars, callerVars, IInv, Chain,
     Budget, CallerInv, CallerTypes, Asking, InHand, Patience, Since, ClosedIsSeen,
     FalseNeverIsTorn, ReleasedIsFrozen
<1> QED BY <1>1, <1>2, <1>3, <1>4, <1>5 DEF SignerNext

LEMMA SpecIInv == SignerSpec => []IInv
BY InitIInv, NextIInv, PTL DEF SignerSpec

-----------------------------------------------------------------------------
(* The theorems.                                                           *)

\* However far behind the nodes are that answer, and however they differ: only
\* the frozen window of an approved spend is signed, and a sweep of a closed goal.
THEOREM OnlyFrozenIsSigned == SignerSpec => []ReleasedIsFrozen
<1>1. IInv => ReleasedIsFrozen
  BY DEF IInv
<1> QED BY SpecIInv, <1>1, PTL

\* As long as its tries outlast the nodes' lag, whatever the numbers are, the
\* sweeper never gives up on a closed goal as still open.
THEOREM SweepOutlastsLag == SignerSpec => []ClosedIsSeen
<1>1. IInv => ClosedIsSeen
  BY DEF IInv, CallerInv
<1> QED BY SpecIInv, <1>1, PTL

\* A loop that is told "never" too early was told so by reads of different blocks.
THEOREM EarlyNeverIsTorn == SignerSpec => []FalseNeverIsTorn
<1>1. IInv => FalseNeverIsTorn
  BY DEF IInv, CallerInv
<1> QED BY SpecIInv, <1>1, PTL

\* The enclave's budget for signing is charged only for what the chain justifies.
THEOREM ChargedForRecords == SignerSpec => DeriveCostsARecord
<1> DEFINE Charged == enclave'["derive"].count > enclave["derive"].count
           Justified == (chain["finalized"] # 0 /\ verdict) \/ chain["closed"] # 0
<1>1. ASSUME IInv, [SignerNext]_signerVars PROVE [Charged => Justified]_signerVars
  <2>1. ASSUME NEW c \in Clients, Mint(c) \/ Sign(c) \/ Sweep(c)
        PROVE  Charged => Justified
    <3>1. enclave["derive"].count \in Nat /\ enclave'["derive"].count \in Nat
      <4>1. IInv'
        BY <1>1, <2>1, MintStep, SignStep, SweepStep
      <4> QED BY <1>1, <4>1 DEF IInv, Budget
    <3> QED BY <1>1, <2>1, <3>1, MintStep, SignStep, SweepStep
  <2>2. CASE UNCHANGED enclave
    <3>1. enclave["derive"].count \in Nat
      BY <1>1 DEF IInv, Budget
    <3> QED BY <2>2, <3>1
  <2>3. CASE Restart
    <3>1. enclave["derive"].count \in Nat /\ enclave'["derive"].count = 0
      BY <1>1, <2>3 DEF Restart, IInv, Budget, NoEntry
    <3> QED BY <3>1
  <2>4. Ask \/ Unreachable \/ Down \/ Boot \/ Tick => UNCHANGED enclave
    BY DEF Ask, Unreachable, Down, Boot, Tick, limitVars
  <2>5. ASSUME NEW c \in Clients, NEW k \in Sources, NEW route \in Routes,
               NEW parses \in BOOLEAN, Arrive(c, k, route, parses)
        PROVE  UNCHANGED enclave
    BY <2>5 DEF Arrive
  <2>6. ASSUME NEW e \in Events, Mined(e) PROVE UNCHANGED enclave
    BY <2>6 DEF Mined, limitVars
  <2> QED BY <1>1, <2>1, <2>2, <2>3, <2>4, <2>5, <2>6 DEF SignerNext
<1>2. IInv /\ [SignerNext]_signerVars => [Charged => Justified]_signerVars
  BY <1>1
<1> QED BY SpecIInv, <1>2, PTL DEF SignerSpec, DeriveCostsARecord

-----------------------------------------------------------------------------
(* The limiters.  A fixed window that began s ticks ago has let through what  *)
(* the latest s ticks hold, at most max and at most what it has counted; and  *)
(* at most one window before it ends late enough to be remembered, with max   *)
(* more.  A tick in which a new window may begin has had no request yet.      *)

Age(entry) == now + Period - entry.until

Within(count, entry, max) ==
  /\ count = [a \in Ages |-> count[a]]
  /\ \A a \in Ages : count[a] \in Nat
  /\ entry \in [count : Nat, until : Nat]
  /\ Age(entry) >= 0
  /\ entry = NoEntry => \A a \in Ages : count[a] = 0
  /\ \A a \in Ages : a <= Age(entry) => count[a] <= max /\ count[a] <= entry.count
  /\ \A a \in Ages, s \in Ages : s = Age(entry) /\ a > s => count[a] <= count[s] + max
  /\ \A a \in Ages : a <= now - entry.until => count[a] = 0

Windows ==
  /\ edge \in [{"sign", "mint"} -> [Sources -> [count : Nat, until : Nat]]]
  /\ admitted = [k \in Sources |-> admitted[k]]
  /\ \A k \in Sources : Within(admitted[k], edge["sign"][k], EdgeMax)
  /\ Within(called, enclave["derive"], EnclaveMax)

LEMMA Limits ==
  /\ Period \in Nat \ {0} /\ EdgeMax \in Nat \ {0} /\ EnclaveMax \in Nat \ {0}
  /\ Ages = 0..Period - 1 /\ 0 \in Ages
BY SignerAssumption DEF Ages

LEMMA WithinTwice ==
  ASSUME NEW count, NEW entry, NEW max \in Nat, Within(count, entry, max), now \in Nat,
         NEW a \in Ages
  PROVE  count[a] <= 2 * max
<1>1. PICK s \in Int : s = Age(entry) /\ s >= 0
  BY Limits DEF Within, Age
<1>2. CASE a <= s
  BY <1>1, <1>2 DEF Within
<1>3. CASE ~(a <= s)
  <2>1. s \in Ages /\ a > s
    BY <1>1, <1>3, Limits
  <2>2. count[a] <= count[s] + max
    BY <1>1, <2>1 DEF Within
  <2>3. count[s] <= max /\ count[s] \in Nat /\ count[a] \in Nat
    BY <1>1, <2>1 DEF Within
  <2> QED BY <2>2, <2>3
<1> QED BY <1>2, <1>3

\* Nothing let through since the limiter was emptied.
LEMMA WithinEmpty ==
  ASSUME NEW count, count = [a \in Ages |-> 0], NEW max \in Nat, now \in Nat
  PROVE  Within(count, NoEntry, max)
<1>1. NoEntry \in [count : Nat, until : Nat] /\ NoEntry.until = 0 /\ NoEntry.count = 0
  BY DEF NoEntry
<1>2. Age(NoEntry) = now + Period
  BY <1>1, Limits DEF Age
<1>3. \A a \in Ages : count[a] = 0
  OBVIOUS
<1>4. \A a \in Ages : a <= now + Period /\ ~(a = now + Period)
  BY Limits
<1> QED BY <1>1, <1>2, <1>3, <1>4, Limits DEF Within

\* Counted opens a window, or counts in the one there is.
LEMMA CountedIs ==
  ASSUME NEW entry, entry \in [count : Nat, until : Nat], now \in Nat
  PROVE  /\ Counted(entry) \in [count : Nat, until : Nat]
         /\ Ended(entry) => Counted(entry).count = 1 /\ Counted(entry).until = now + Period
         /\ ~Ended(entry) => /\ Counted(entry).count = entry.count + 1
                             /\ Counted(entry).until = entry.until
                             /\ now < entry.until
BY Limits DEF Counted, Ended

\* What is known of a window that is over.
LEMMA EndedIs ==
  ASSUME NEW count, NEW entry, NEW max \in Nat, Within(count, entry, max), now \in Nat,
         Ended(entry)
  PROVE  /\ \A a \in Ages : count[a] \in Nat /\ count[a] <= max
         /\ count[0] = 0
<1>1. CASE entry = NoEntry
  BY <1>1, Limits DEF Within
<1>2. CASE now >= entry.until
  <2>1. entry.until \in Nat
    BY DEF Within
  <2>2. \A a \in Ages : a <= Age(entry)
    BY <1>2, <2>1, Limits DEF Age
  <2>3. 0 <= now - entry.until
    BY <1>2, <2>1
  <2> QED BY <2>2, <2>3, Limits DEF Within
<1> QED BY <1>1, <1>2 DEF Ended

LEMMA WithinMore ==
  ASSUME NEW count, NEW entry, NEW max \in Nat \ {0}, Within(count, entry, max),
         now \in Nat, Allowed(entry, max)
  PROVE  Within(OneMore(count), Counted(entry), max)
<1>1. entry \in [count : Nat, until : Nat] /\ \A a \in Ages : count[a] \in Nat
  BY DEF Within
<1>2. PICK more : more = OneMore(count)
  OBVIOUS
<1>3. more = [a \in Ages |-> more[a]] /\ \A a \in Ages : more[a] = count[a] + 1
  BY <1>2 DEF OneMore
<1>4. PICK e : e = Counted(entry)
  OBVIOUS
<1>5. e \in [count : Nat, until : Nat] /\ e.count \in Nat /\ e.until \in Nat
  BY <1>1, <1>4, CountedIs
<1>6. CASE Ended(entry)
  <2>1. e.count = 1 /\ e.until = now + Period /\ Age(e) = 0
    BY <1>1, <1>4, <1>6, CountedIs, Limits DEF Age
  <2>2. \A a \in Ages : count[a] <= max /\ count[0] = 0
    BY <1>6, EndedIs
  <2>3. more[0] = 1 /\ \A a \in Ages : more[a] \in Nat /\ more[a] <= 1 + max
    <3>1. \A a \in Ages : count[a] \in Nat /\ more[a] = count[a] + 1 /\ count[a] <= max
      BY <1>1, <1>3, <2>2
    <3>2. 0 \in Ages /\ count[0] = 0
      BY <2>2, Limits
    <3>3. \A a \in Ages : more[a] \in Nat /\ more[a] <= 1 + max
      BY <3>1
    <3> QED BY <3>1, <3>2, <3>3
  <2>4. e # NoEntry
    BY <2>1 DEF NoEntry
  <2>5. \A a \in Ages : (a <= 0 => a = 0) /\ ~(a <= now - e.until)
    BY <2>1, Limits
  <2>6. Within(more, e, max)
    <3>1. \A a \in Ages : a <= Age(e) => more[a] <= max /\ more[a] <= e.count
      BY <2>1, <2>3, <2>5
    <3>2. \A a \in Ages, s \in Ages : s = Age(e) /\ a > s => more[a] <= more[s] + max
      BY <2>1, <2>3
    <3>3. /\ Age(e) >= 0 /\ \A a \in Ages : more[a] \in Nat
          /\ \A a \in Ages : a <= now - e.until => more[a] = 0
      BY <2>1, <2>3, <2>5
    <3> QED BY <1>3, <1>5, <2>4, <3>1, <3>2, <3>3 DEF Within
  <2> QED BY <1>2, <1>4, <2>6
<1>7. CASE ~Ended(entry)
  <2>1. e.count = entry.count + 1 /\ e.until = entry.until /\ now < e.until
    BY <1>1, <1>4, <1>7, CountedIs
  <2>2. Age(e) = Age(entry) /\ entry.count < max /\ entry.count \in Nat
    BY <1>1, <1>7, <2>1 DEF Allowed, Age
  <2>3. e # NoEntry
    BY <2>1 DEF NoEntry
  <2>4. \A a \in Ages : ~(a <= now - e.until)
    BY <1>5, <2>1, Limits
  <2>5. ASSUME NEW a \in Ages, a <= Age(e)
        PROVE  more[a] <= max /\ more[a] <= e.count
    <3>1. count[a] <= entry.count
      BY <2>2, <2>5 DEF Within
    <3> QED BY <1>1, <1>3, <2>1, <2>2, <3>1
  <2>6. ASSUME NEW a \in Ages, NEW s \in Ages, s = Age(e), a > s
        PROVE  more[a] <= more[s] + max
    <3>1. count[a] <= count[s] + max
      BY <2>2, <2>6 DEF Within
    <3> QED BY <1>1, <1>3, <3>1
  <2>7. Age(e) >= 0
    BY <2>2 DEF Within
  <2>8. \A a \in Ages : more[a] \in Nat
    BY <1>1, <1>3
  <2>9. Within(more, e, max)
    BY <1>3, <1>5, <2>3, <2>4, <2>5, <2>6, <2>7, <2>8 DEF Within
  <2> QED BY <1>2, <1>4, <2>9
<1> QED BY <1>6, <1>7

\* A request over the limit is counted, too.
LEMMA WithinRefused ==
  ASSUME NEW count, NEW entry, NEW max \in Nat \ {0}, Within(count, entry, max),
         now \in Nat, ~Allowed(entry, max)
  PROVE  Within(count, Counted(entry), max)
<1>1. entry \in [count : Nat, until : Nat] /\ \A a \in Ages : count[a] \in Nat
  BY DEF Within
<1>2. PICK e : e = Counted(entry)
  OBVIOUS
<1>3. /\ e \in [count : Nat, until : Nat] /\ e.count = entry.count + 1
      /\ e.until = entry.until /\ now < e.until
  BY <1>1, <1>2, CountedIs DEF Allowed
<1>4. Age(e) = Age(entry) /\ e # NoEntry
  BY <1>3 DEF Age, NoEntry
<1>5. ASSUME NEW a \in Ages, a <= Age(e) PROVE count[a] <= max /\ count[a] <= e.count
  <2>1. count[a] <= max /\ count[a] <= entry.count
    BY <1>4, <1>5 DEF Within
  <2> QED BY <1>1, <1>3, <2>1
<1>6. Within(count, e, max)
  BY <1>3, <1>4, <1>5 DEF Within
<1> QED BY <1>2, <1>6

LEMMA WithinTick ==
  ASSUME NEW count, NEW entry, NEW max \in Nat, Within(count, entry, max),
         now \in Nat, now' = now + 1, NEW later, later = Older(count)
  PROVE  Within(later, entry, max)'
<1>1. entry \in [count : Nat, until : Nat] /\ \A a \in Ages : count[a] \in Nat
  BY DEF Within
<1>2. /\ later = [a \in Ages |-> later[a]] /\ later[0] = 0
      /\ \A a \in Ages : a # 0 => a - 1 \in Ages /\ later[a] = count[a - 1]
  BY Limits DEF Older
<1>3. Age(entry) \in Int /\ Age(entry) >= 0 /\ Age(entry)' = Age(entry) + 1
  <2>1. entry.until \in Nat /\ Period \in Nat
    BY <1>1, Limits
  <2>2. Age(entry) >= 0
    BY DEF Within
  <2> QED BY <2>1, <2>2 DEF Age
<1>4. \A a \in Ages : later[a] \in Nat
  BY <1>1, <1>2
<1>5. entry = NoEntry => \A a \in Ages : later[a] = 0
  BY <1>2 DEF Within
<1>6. ASSUME NEW a \in Ages, a <= Age(entry) + 1
      PROVE  later[a] <= max /\ later[a] <= entry.count
  <2>1. CASE a = 0
    BY <1>1, <1>2, <2>1
  <2>2. CASE a # 0
    <3>1. a - 1 \in Ages /\ a - 1 <= Age(entry)
      BY <1>2, <1>3, <1>6, <2>2, Limits
    <3> QED BY <1>2, <2>2, <3>1 DEF Within
  <2> QED BY <2>1, <2>2
<1>7. ASSUME NEW a \in Ages, NEW s \in Ages, s = Age(entry) + 1, a > s
      PROVE  later[a] <= later[s] + max
  <2>1. a # 0 /\ s # 0 /\ a - 1 > s - 1 /\ s - 1 = Age(entry)
    BY <1>3, <1>7, Limits
  <2> QED BY <1>2, <2>1 DEF Within
<1>8. ASSUME NEW a \in Ages, a <= (now + 1) - entry.until PROVE later[a] = 0
  <2>1. CASE a # 0
    <3>1. a - 1 \in Ages /\ a - 1 <= now - entry.until
      BY <1>1, <1>2, <1>8, <2>1, Limits
    <3> QED BY <1>2, <2>1, <3>1 DEF Within
  <2> QED BY <1>2, <2>1
<1> QED BY <1>1, <1>2, <1>3, <1>4, <1>5, <1>6, <1>7, <1>8 DEF Within

\* Nothing that a window depends on has changed.
LEMMA WithinStays ==
  ASSUME NEW count, NEW entry, NEW max, Within(count, entry, max), now' = now
  PROVE  Within(count, entry, max)'
BY DEF Within, Age

\* What one request in hand does to the enclave's window, and what its caller
\* hears of it.
CallIs ==
  \/ UNCHANGED <<called, enclave["derive"]>>
  \/ /\ UNCHANGED called /\ ~Allowed(enclave["derive"], EnclaveMax)
     /\ enclave'["derive"] = Counted(enclave["derive"])
  \/ /\ Allowed(enclave["derive"], EnclaveMax)
     /\ called' = OneMore(called) /\ enclave'["derive"] = Counted(enclave["derive"])

LEMMA EnclaveCalls ==
  ASSUME IInv, NEW o \in {"derive", "mint"}, NEW code,
         enclave' = IF IsCharged(code) THEN [enclave EXCEPT ![o] = Counted(@)]
                                       ELSE enclave,
         called' = IF code = 0 /\ Allowed(enclave[o], EnclaveMax) /\ o = "derive"
                     THEN OneMore(called) ELSE called
  PROVE  CallIs
<1>1. CASE ~(code = 0 /\ o = "derive")
  <2>1. enclave'["derive"] = enclave["derive"]
    BY <1>1 DEF IsCharged, IInv, Budget
  <2> QED BY <1>1, <2>1 DEF CallIs
<1>2. CASE code = 0 /\ o = "derive"
  <2>1. enclave'["derive"] = Counted(enclave["derive"])
    BY <1>2 DEF IsCharged, IInv, Budget
  <2> QED BY <1>2, <2>1 DEF CallIs
<1> QED BY <1>1, <1>2

\* The caller hears nothing, or an answer; over a limit it is told to wait for
\* the enclave's window to end, or for a whole window.
Told(seconds) ==
  \/ seconds = Period
  \/ seconds = RetryAfter(enclave["derive"]) /\ ~Ended(enclave["derive"])

Hearing ==
  \/ client' = client
  \/ /\ client.state = "asked"
     /\ \E code \in Nat, seconds \in Int :
          Heard("caller", code, seconds) /\ (code = 429 => Told(seconds))

LEMMA Hears ==
  ASSUME NEW c \in Clients, NEW code \in Nat, NEW seconds \in Int,
         Heard(c, code, seconds), c = "caller" /\ code = 429 => Told(seconds)
  PROVE  Hearing
<1>1. CASE c = "stray" \/ client.state # "asked"
  BY <1>1 DEF Heard, Hearing
<1>2. CASE c = "caller" /\ client.state = "asked"
  BY <1>2 DEF Hearing
<1> QED BY <1>1, <1>2 DEF Clients

\* Over the enclave's limit.
LEMMA HearsLimit ==
  ASSUME IInv, NEW c \in Clients, ~Allowed(enclave["derive"], EnclaveMax),
         Heard(c, 429, RetryAfter(enclave["derive"]))
  PROVE  Hearing
<1>1. RetryAfter(enclave["derive"]) \in Int
  BY RetryAfterIsInt
<1>2. Told(RetryAfter(enclave["derive"]))
  BY DEF Told, Allowed
<1> QED BY <1>1, <1>2, Hears

LEMMA MintCalls ==
  ASSUME IInv, NEW c \in Clients, Mint(c)
  PROVE  CallIs /\ Hearing /\ UNCHANGED <<now, caller, edge, admitted>>
<1>1. request[c].route = "mint" /\ Operation(request[c].route) = "mint"
  BY DEF Mint, Operation
<1>2. c # "caller"
  BY <1>1 DEF IInv, CallerInv, InHand
<1>3. CallIs
  <2>1. /\ enclave' = IF IsCharged(0) THEN [enclave EXCEPT !["mint"] = Counted(@)]
                                      ELSE enclave
        /\ UNCHANGED called
    BY <1>1 DEF Mint, Enclave
  <2> QED BY <2>1, EnclaveCalls
<1>4. Finish(c, 429, RetryAfter(enclave["mint"]), TRUE) \/ Finish(c, 201, 0, TRUE)
  BY <1>1 DEF Mint, Enclave
<1>5. client' = client
  BY <1>2, <1>4 DEF Finish, Hear, Clients
<1> QED BY <1>3, <1>4, <1>5 DEF Hearing, Finish, chainVars

LEMMA SignCalls ==
  ASSUME IInv, NEW c \in Clients, Sign(c)
  PROVE  CallIs /\ Hearing /\ UNCHANGED <<now, caller, edge, admitted>>
<1>0. CallerTypes
  BY DEF IInv, CallerInv
<1>1. PICK spend \in SpendReads(c) :
        Enclave(c, Refusal(spend), IsUniform(c, spend),
          /\ released' = released \cup
               {[route |-> "sign", until |-> Until(spend)]}
          /\ Finish(c, 200, 0, TRUE))
  BY DEF Sign
<1>2. request[c].route = "sign" /\ Operation(request[c].route) = "derive"
  BY DEF Sign, Operation
<1>3. Refusal(spend) \in {0, 403, 404, 410, 425}
  BY RefusedWith
<1>4. CASE Refusal(spend) # 0
  <2>1. /\ Finish(c, Refusal(spend), 0, IsUniform(c, spend)) /\ UNCHANGED called
        /\ enclave' = IF IsCharged(Refusal(spend))
                       THEN [enclave EXCEPT !["derive"] = Counted(@)] ELSE enclave
    BY <1>1, <1>2, <1>4 DEF Enclave
  <2>2. CallIs
    BY <1>4, <2>1, EnclaveCalls
  <2>3. Hearing
    <3>1. Heard(c, Refusal(spend), 0)
      BY <1>0, <2>1, HearIs DEF Finish
    <3> QED BY <1>3, <3>1, Hears
  <2> QED BY <2>1, <2>2, <2>3 DEF Finish, chainVars
<1>5. CASE Refusal(spend) = 0 /\ ~Allowed(enclave["derive"], EnclaveMax)
  <2>1. /\ Finish(c, 429, RetryAfter(enclave["derive"]), TRUE) /\ UNCHANGED called
        /\ enclave' = IF IsCharged(0)
                       THEN [enclave EXCEPT !["derive"] = Counted(@)] ELSE enclave
    BY <1>1, <1>2, <1>5 DEF Enclave
  <2>2. CallIs
    BY <1>5, <2>1, EnclaveCalls
  <2>3. Hearing
    <3>1. Heard(c, 429, RetryAfter(enclave["derive"]))
      BY <1>0, <2>1, HearTrue DEF Finish
    <3> QED BY <1>5, <3>1, HearsLimit
  <2> QED BY <2>1, <2>2, <2>3 DEF Finish, chainVars
<1>6. CASE Refusal(spend) = 0 /\ Allowed(enclave["derive"], EnclaveMax)
  <2>1. /\ Finish(c, 200, 0, TRUE) /\ called' = OneMore(called)
        /\ enclave' = IF IsCharged(0)
                       THEN [enclave EXCEPT !["derive"] = Counted(@)] ELSE enclave
    BY <1>1, <1>2, <1>6 DEF Enclave
  <2>2. CallIs
    BY <1>6, <2>1, EnclaveCalls
  <2>3. Hearing
    <3>1. Heard(c, 200, 0)
      BY <1>0, <2>1, HearTrue DEF Finish
    <3> QED BY <3>1, Hears
  <2> QED BY <2>1, <2>2, <2>3 DEF Finish, chainVars
<1> QED BY <1>4, <1>5, <1>6

LEMMA SweepCalls ==
  ASSUME IInv, NEW c \in Clients, Sweep(c)
  PROVE  CallIs /\ Hearing /\ UNCHANGED <<now, caller, edge, admitted>>
<1>0. CallerTypes
  BY DEF IInv, CallerInv
<1>1. PICK closed \in Reads(c, "closed"), empty \in BOOLEAN :
        Enclave(c, IF closed THEN 0 ELSE 409, TRUE,
          IF empty THEN Finish(c, 410, 0, TRUE) /\ UNCHANGED released
          ELSE /\ released' = released \cup {[route |-> "sweep", until |-> 0]}
               /\ Finish(c, 200, 0, TRUE))
  BY DEF Sweep
<1>2. request[c].route = "sweep" /\ Operation(request[c].route) = "derive"
  BY DEF Sweep, Operation
<1>4. CASE ~closed
  <2>1. /\ Finish(c, IF closed THEN 0 ELSE 409, 0, TRUE) /\ UNCHANGED called
        /\ enclave' = IF IsCharged(IF closed THEN 0 ELSE 409)
                       THEN [enclave EXCEPT !["derive"] = Counted(@)] ELSE enclave
    <3>1. (IF closed THEN 0 ELSE 409) # 0
      BY <1>4
    <3> QED BY <1>1, <1>2, <3>1, Zenon DEF Enclave
  <2>4. (IF closed THEN 0 ELSE 409) = 409
    BY <1>4
  <2>2. CallIs
    <3>1. enclave' = IF IsCharged(409)
                     THEN [enclave EXCEPT !["derive"] = Counted(@)] ELSE enclave
      BY <2>1, <2>4
    <3>2. enclave'["derive"] = enclave["derive"]
      BY <3>1 DEF IsCharged
    <3> QED BY <2>1, <3>2 DEF CallIs
  <2>3. Hearing
    <3>1. Heard(c, IF closed THEN 0 ELSE 409, 0)
      BY <1>0, <2>1, HearTrue DEF Finish
    <3>2. Heard(c, 409, 0)
      BY <2>4, <3>1
    <3> QED BY <3>2, Hears
  <2> QED BY <2>1, <2>2, <2>3 DEF Finish, chainVars
<1>5. CASE closed /\ ~Allowed(enclave["derive"], EnclaveMax)
  <2>1. /\ Finish(c, 429, RetryAfter(enclave["derive"]), TRUE) /\ UNCHANGED called
        /\ enclave' = IF IsCharged(0)
                       THEN [enclave EXCEPT !["derive"] = Counted(@)] ELSE enclave
    BY <1>1, <1>2, <1>5 DEF Enclave
  <2>2. CallIs
    BY <1>5, <2>1, EnclaveCalls
  <2>3. Hearing
    <3>1. Heard(c, 429, RetryAfter(enclave["derive"]))
      BY <1>0, <2>1, HearTrue DEF Finish
    <3> QED BY <1>5, <3>1, HearsLimit
  <2> QED BY <2>1, <2>2, <2>3 DEF Finish, chainVars
<1>6. CASE closed /\ Allowed(enclave["derive"], EnclaveMax)
  <2>1. /\ Finish(c, 410, 0, TRUE) \/ Finish(c, 200, 0, TRUE)
        /\ called' = OneMore(called)
        /\ enclave' = IF IsCharged(0)
                       THEN [enclave EXCEPT !["derive"] = Counted(@)] ELSE enclave
    BY <1>1, <1>2, <1>6 DEF Enclave
  <2>2. CallIs
    BY <1>6, <2>1, EnclaveCalls
  <2>3. Hearing
    <3>1. ASSUME Finish(c, 410, 0, TRUE) PROVE Hearing
      <4>1. Heard(c, 410, 0)
        BY <1>0, <3>1, HearTrue DEF Finish
      <4> QED BY <4>1, Hears
    <3>2. ASSUME Finish(c, 200, 0, TRUE) PROVE Hearing
      <4>1. Heard(c, 200, 0)
        BY <1>0, <3>2, HearTrue DEF Finish
      <4> QED BY <4>1, Hears
    <3> QED BY <2>1, <3>1, <3>2
  <2> QED BY <2>1, <2>2, <2>3 DEF Finish, chainVars
<1> QED BY <1>4, <1>5, <1>6

\* A request of one of the three kinds that the service has in hand.
LEMMA CallSteps ==
  ASSUME IInv, NEW c \in Clients, Mint(c) \/ Sign(c) \/ Sweep(c)
  PROVE  CallIs /\ Hearing /\ UNCHANGED <<now, caller, edge, admitted>>
BY MintCalls, SignCalls, SweepCalls

LEMMA ArriveHears ==
  ASSUME IInv, NEW c \in Clients, NEW k \in Sources, NEW route \in Routes,
         NEW parses \in BOOLEAN, Arrive(c, k, route, parses)
  PROVE  Hearing
<1>1. CASE Allowed(edge[Edge(route)][k], EdgeMax)
  BY <1>1 DEF Arrive, Hearing
<1>2. CASE ~Allowed(edge[Edge(route)][k], EdgeMax)
  <2>1. Heard(c, 429, Period)
    BY <1>2, HearTrue DEF Arrive, IInv, CallerInv
  <2> QED BY <2>1, Bounds, Hears DEF Told
<1> QED BY <1>1, <1>2

\* A request at the edge: the window of its source, and what is let through.
LEMMA WindowsArrive ==
  ASSUME IInv, Windows, NEW c \in Clients, NEW k \in Sources, NEW route \in Routes,
         NEW parses \in BOOLEAN, Arrive(c, k, route, parses)
  PROVE  Windows'
<1>1. /\ now' = now /\ now \in Nat /\ UNCHANGED <<called, enclave>>
      /\ Edge(route) \in {"sign", "mint"}
  BY DEF Arrive, chainVars, IInv, Chain, Edge
<1>2. Within(called, enclave["derive"], EnclaveMax)'
  BY <1>1, WithinStays DEF Windows
<1>3. PICK l \in {"sign", "mint"} : l = Edge(route)
  BY <1>1
<1>4. edge' = [edge EXCEPT ![l] = Recorded(@, k)]
  BY <1>3 DEF Arrive
<1>5. \A j \in Sources : /\ edge[l][j] \in [count : Nat, until : Nat]
                        /\ Counted(edge[l][j]) \in [count : Nat, until : Nat]
  BY <1>1, CountedIs DEF Windows
<1>6. PICK table : table = Recorded(edge[l], k)
  OBVIOUS
<1>7. /\ table = [j \in Sources |-> table[j]]
      /\ table[k] = Counted(edge[l][k])
      /\ \A j \in Sources \ {k} :
           table[j] = IF IsCleared(edge[l], k) THEN NoEntry ELSE edge[l][j]
  BY <1>6 DEF Recorded
<1>8. table \in [Sources -> [count : Nat, until : Nat]]
  <2>1. NoEntry \in [count : Nat, until : Nat]
    BY DEF NoEntry
  <2> QED BY <1>5, <1>7, <2>1
<1>9. edge' = [edge EXCEPT ![l] = table]
  BY <1>4, <1>6 DEF Windows
<1>10. edge' \in [{"sign", "mint"} -> [Sources -> [count : Nat, until : Nat]]]
  BY <1>8, <1>9 DEF Windows
<1>11. CASE l = "mint"
  <2>1. edge'["sign"] = edge["sign"] /\ admitted' = admitted
    BY <1>3, <1>9, <1>11 DEF Windows, Arrive
  <2>2. ASSUME NEW j \in Sources PROVE Within(admitted[j], edge["sign"][j], EdgeMax)'
    <3>1. Within(admitted[j], edge["sign"][j], EdgeMax)
      BY DEF Windows
    <3> QED BY <1>1, <2>1, <3>1 DEF Within, Age
  <2> QED BY <1>2, <1>10, <2>1, <2>2 DEF Windows
<1>12. CASE l = "sign"
  <2>1. edge'["sign"] = table
    BY <1>9, <1>12 DEF Windows
  <2>2. PICK old : old = IF IsCleared(edge[l], k) THEN NoRequests ELSE admitted
    OBVIOUS
  <2>3. PICK entry : entry = IF IsCleared(edge[l], k) THEN NoEntry ELSE edge[l][k]
    OBVIOUS
  <2>4. Within(old[k], entry, EdgeMax)
    <3>1. CASE IsCleared(edge[l], k)
      <4>1. old[k] = [a \in Ages |-> 0]
        BY <2>2, <3>1 DEF NoRequests
      <4> QED BY <1>1, <2>3, <3>1, <4>1, Limits, WithinEmpty
    <3>2. CASE ~IsCleared(edge[l], k)
      BY <1>12, <2>2, <2>3, <3>2 DEF Windows
    <3> QED BY <3>1, <3>2
  <2>5. IsCleared(edge[l], k) => Ended(edge[l][k])
    BY DEF IsCleared
  <2>6. Counted(entry) = table[k] /\ (Allowed(entry, EdgeMax) <=> Allowed(edge[l][k], EdgeMax))
    BY <1>7, <2>3, <2>5 DEF Counted, Allowed, Ended
  <2>7. old = [j \in Sources |-> old[j]]
    BY <2>2 DEF Windows, NoRequests
  <2>8. ASSUME NEW j \in Sources \ {k} PROVE Within(old[j], table[j], EdgeMax)
    <3>1. CASE IsCleared(edge[l], k)
      <4>1. old[j] = [a \in Ages |-> 0] /\ table[j] = NoEntry
        BY <1>7, <2>2, <3>1 DEF NoRequests
      <4> QED BY <1>1, <4>1, Limits, WithinEmpty
    <3>2. CASE ~IsCleared(edge[l], k)
      <4>1. Within(admitted[j], edge["sign"][j], EdgeMax)
        BY DEF Windows
      <4>2. old[j] = admitted[j] /\ table[j] = edge["sign"][j]
        BY <1>7, <1>12, <2>2, <3>2
      <4> QED BY <4>1, <4>2
    <3> QED BY <3>1, <3>2
  <2>9. CASE Allowed(edge[l][k], EdgeMax)
    <3>1. admitted' = [old EXCEPT ![k] = OneMore(@)]
      BY <1>3, <1>12, <2>2, <2>9 DEF Arrive
    <3>2. Within(OneMore(old[k]), table[k], EdgeMax)
      BY <1>1, <2>4, <2>6, <2>9, Limits, WithinMore
    <3>3. /\ admitted' = [j \in Sources |-> admitted'[j]]
          /\ admitted'[k] = OneMore(old[k])
          /\ \A j \in Sources \ {k} : admitted'[j] = old[j]
      BY <2>7, <3>1
    <3>4. \A j \in Sources : Within(admitted'[j], table[j], EdgeMax)
      BY <2>8, <3>2, <3>3
    <3>5. \A j \in Sources : Within(admitted[j], edge["sign"][j], EdgeMax)'
      BY <1>1, <2>1, <3>4 DEF Within, Age
    <3> QED BY <1>2, <1>10, <3>3, <3>5 DEF Windows
  <2>10. CASE ~Allowed(edge[l][k], EdgeMax)
    <3>1. admitted' = admitted /\ ~IsCleared(edge[l], k)
      BY <1>3, <1>12, <2>5, <2>10 DEF Arrive, Allowed
    <3>2. Within(admitted[k], table[k], EdgeMax)
      BY <1>1, <2>2, <2>4, <2>6, <2>10, <3>1, Limits, WithinRefused
    <3>3. \A j \in Sources : Within(admitted'[j], table[j], EdgeMax)
      BY <2>2, <2>8, <3>1, <3>2
    <3>5. \A j \in Sources : Within(admitted[j], edge["sign"][j], EdgeMax)'
      BY <1>1, <2>1, <3>3 DEF Within, Age
    <3> QED BY <1>2, <1>10, <3>1, <3>5 DEF Windows
  <2> QED BY <2>9, <2>10
<1> QED BY <1>11, <1>12

LEMMA WindowsCall ==
  ASSUME IInv, Windows, CallIs, UNCHANGED <<now, edge, admitted>>
  PROVE  Windows'
<1>1. now \in Nat /\ Within(called, enclave["derive"], EnclaveMax)
  BY DEF IInv, Chain, Windows
<1>2. Within(called', enclave'["derive"], EnclaveMax)
  <2>1. CASE UNCHANGED <<called, enclave["derive"]>>
    BY <1>1, <2>1
  <2>2. CASE /\ UNCHANGED called /\ ~Allowed(enclave["derive"], EnclaveMax)
             /\ enclave'["derive"] = Counted(enclave["derive"])
    BY <1>1, <2>2, Limits, WithinRefused
  <2>3. CASE /\ Allowed(enclave["derive"], EnclaveMax) /\ called' = OneMore(called)
             /\ enclave'["derive"] = Counted(enclave["derive"])
    BY <1>1, <2>3, Limits, WithinMore
  <2> QED BY <2>1, <2>2, <2>3 DEF CallIs
<1>3. Within(called, enclave["derive"], EnclaveMax)'
  BY <1>2 DEF Within, Age
<1>4. \A j \in Sources : Within(admitted[j], edge["sign"][j], EdgeMax)'
  BY DEF Windows, Within, Age
<1> QED BY <1>3, <1>4 DEF Windows

LEMMA WindowsRestart ==
  ASSUME IInv, Windows, Restart
  PROVE  Windows'
<1>1. /\ now' = now /\ now \in Nat
      /\ edge' = [l \in DOMAIN edge |-> [k \in Sources |-> NoEntry]]
      /\ enclave' = [o \in DOMAIN enclave |-> NoEntry]
      /\ admitted' = NoRequests /\ called' = [a \in Ages |-> 0]
  BY DEF Restart, chainVars, IInv, Chain
<1>2. /\ DOMAIN edge = {"sign", "mint"} /\ DOMAIN enclave = {"derive", "mint"}
      /\ NoEntry \in [count : Nat, until : Nat]
  BY DEF Windows, IInv, Budget, NoEntry
<1>3. \A count : count = [a \in Ages |-> 0]
        => Within(count, NoEntry, EdgeMax) /\ Within(count, NoEntry, EnclaveMax)
  BY <1>1, Limits, WithinEmpty
<1>4. /\ \A j \in Sources : admitted'[j] = [a \in Ages |-> 0] /\ edge'["sign"][j] = NoEntry
      /\ enclave'["derive"] = NoEntry
  BY <1>1, <1>2 DEF NoRequests
<1>5. /\ \A j \in Sources : Within(admitted'[j], edge'["sign"][j], EdgeMax)
      /\ Within(called', enclave'["derive"], EnclaveMax)
  BY <1>1, <1>3, <1>4
<1>6. /\ \A j \in Sources : Within(admitted[j], edge["sign"][j], EdgeMax)'
      /\ Within(called, enclave["derive"], EnclaveMax)'
  BY <1>1, <1>5 DEF Within, Age
<1>7. admitted' = [j \in Sources |-> admitted'[j]]
  BY <1>1 DEF NoRequests
<1> QED BY <1>1, <1>2, <1>6, <1>7 DEF Windows

LEMMA WindowsTick ==
  ASSUME IInv, Windows, Tick
  PROVE  Windows'
<1>1. /\ now' = now + 1 /\ now \in Nat /\ UNCHANGED <<edge, enclave>>
      /\ admitted' = [k \in Sources |-> Older(admitted[k])] /\ called' = Older(called)
  BY DEF Tick, IInv, Chain
<1>2. Within(called, enclave["derive"], EnclaveMax)'
  <2>1. PICK entry : entry = enclave["derive"]
    OBVIOUS
  <2>2. PICK later : later = Older(called)
    OBVIOUS
  <2>3. Within(called, entry, EnclaveMax)
    BY <2>1 DEF Windows
  <2>4. Within(later, entry, EnclaveMax)'
    BY <1>1, <2>2, <2>3, Limits, WithinTick
  <2> QED BY <1>1, <2>1, <2>2, <2>4 DEF Within, Age
<1>3. ASSUME NEW j \in Sources PROVE Within(admitted[j], edge["sign"][j], EdgeMax)'
  <2>1. PICK entry : entry = edge["sign"][j]
    OBVIOUS
  <2>2. PICK later : later = Older(admitted[j])
    OBVIOUS
  <2>3. Within(admitted[j], entry, EdgeMax)
    BY <2>1 DEF Windows
  <2>4. Within(later, entry, EdgeMax)'
    BY <1>1, <2>2, <2>3, Limits, WithinTick
  <2> QED BY <1>1, <2>1, <2>2, <2>4 DEF Within, Age
<1>4. admitted' = [j \in Sources |-> admitted'[j]]
  BY <1>1
<1> QED BY <1>1, <1>2, <1>3, <1>4 DEF Windows

LEMMA InitWindows == SignerInit => Windows
<1> SUFFICES ASSUME SignerInit PROVE Windows
  OBVIOUS
<1>1. /\ now = 1 /\ admitted = NoRequests /\ called = [a \in Ages |-> 0]
      /\ edge = [l \in {"sign", "mint"} |-> [k \in Sources |-> NoEntry]]
      /\ enclave["derive"] = NoEntry
  BY DEF SignerInit
<1>2. \A count : count = [a \in Ages |-> 0]
        => Within(count, NoEntry, EdgeMax) /\ Within(count, NoEntry, EnclaveMax)
  BY <1>1, Limits, WithinEmpty
<1>3. NoEntry \in [count : Nat, until : Nat]
  BY DEF NoEntry
<1>4. \A k \in Sources : admitted[k] = [a \in Ages |-> 0] /\ edge["sign"][k] = NoEntry
  BY <1>1 DEF NoRequests
<1> QED BY <1>1, <1>2, <1>3, <1>4 DEF Windows, NoRequests

LEMMA WindowsSame ==
  ASSUME Windows, UNCHANGED <<now, edge, enclave, admitted, called>>
  PROVE  Windows'
BY DEF Windows, Within, Age

-----------------------------------------------------------------------------
(* The loop's patience.  Two tries are a whole wait apart, or the first of   *)
(* them was refused by a window of the enclave's that ends before the second *)
(* one.  A window that begins after the first try ends a Period after it.    *)

Gap429 == IF MaxWait < Period THEN MaxWait ELSE Period

\* When the n-th try may be made.
Patient(n, at) ==
  \/ at >= client.first + Period
  \/ at >= client.first + (n - 1) * Gap429
  \/ /\ at >= client.first + (n - 2) * Gap429 + 1
     /\ \/ enclave["derive"].until <= at
        \/ enclave["derive"].until >= client.first + Period

LoopWaits ==
  /\ client.first \in Nat /\ client.first <= now
  /\ client.tries \in Nat /\ client.wake \in Nat
  /\ client.state = "new" => client.tries = 0
  /\ client.state # "new" => client.tries >= 1
  /\ caller = "loop" =>
       /\ client.state = "asked" => client.tries <= SignTries
       /\ client.state = "waiting" => client.tries < SignTries
       /\ client.state = "asked" /\ client.limited => Patient(client.tries, now)
       /\ client.state = "waiting" /\ client.limited
            => Patient(client.tries + 1, client.wake)
       /\ GivenUpAfterAWindow

LEMMA Gaps ==
  /\ Gap429 \in Nat \ {0} /\ Gap429 <= Period /\ Gap429 <= MaxWait
  /\ (SignTries - 2) * Gap429 + 1 >= Period
<1>1. /\ Period \in Nat \ {0} /\ MaxWait \in Nat \ {0} /\ SignTries \in Nat \ {0}
      /\ (SignTries - 2) * MaxWait + 1 >= Period
  BY SignerAssumption
<1>2. Gap429 \in Nat \ {0} /\ Gap429 <= Period /\ Gap429 <= MaxWait
  BY <1>1 DEF Gap429
<1>3. CASE MaxWait < Period
  BY <1>1, <1>2, <1>3 DEF Gap429
<1>4. CASE ~(MaxWait < Period)
  <2>1. Gap429 = Period
    BY <1>4 DEF Gap429
  <2>2. CASE SignTries >= 3
    <3>1. PICK n \in Nat : n = SignTries - 3
      BY <1>1, <2>2
    <3>2. (SignTries - 2) * Period = n * Period + Period
      BY <1>1, <3>1
    <3>3. n * Period >= 0
      BY <1>1, <3>1
    <3> QED BY <1>1, <1>2, <2>1, <3>2, <3>3
  <2>3. CASE SignTries = 2
    <3>1. (SignTries - 2) * MaxWait = 0 /\ (SignTries - 2) * Gap429 = 0
      BY <1>1, <1>2, <2>3
    <3> QED BY <1>1, <1>2, <3>1
  <2>4. CASE SignTries = 1
    <3>1. (SignTries - 2) * MaxWait = 0 - MaxWait
      BY <1>1, <2>4
    <3> QED BY <1>1, <3>1
  <2> QED BY <1>1, <2>2, <2>3, <2>4
<1> QED BY <1>2, <1>3, <1>4

\* The window in front of the enclave stays, is forgotten, or begins now.
WindowMoves ==
  \/ enclave'["derive"].until = enclave["derive"].until
  \/ enclave'["derive"].until = 0
  \/ enclave'["derive"].until = now + Period

LEMMA PatientStays ==
  ASSUME IInv, LoopWaits, WindowMoves, client' = client, now' \in Nat, now' >= now,
         NEW n \in Nat, NEW at \in Nat,
         NEW later \in Int, later >= at, Patient(n, at)
  PROVE  Patient(n, later)'
<1>1. /\ now \in Nat /\ client.first \in Nat /\ client.first <= now /\ Period \in Nat
      /\ enclave["derive"].until \in Nat /\ Gap429 \in Nat
  BY Gaps, Bounds DEF IInv, Chain, Budget, LoopWaits
<1>2. PICK m1 \in Int, m2 \in Int : m1 = (n - 1) * Gap429 /\ m2 = (n - 2) * Gap429
  BY <1>1
<1>3. CASE later >= client.first + Period \/ later >= client.first + m1
  BY <1>2, <1>3 DEF Patient
<1>4. CASE /\ at >= client.first + m2 + 1
           /\ \/ enclave["derive"].until <= at
              \/ enclave["derive"].until >= client.first + Period
  <2>1. \/ enclave'["derive"].until <= later
        \/ enclave'["derive"].until >= client.first + Period
        \/ later >= client.first + Period
    BY <1>1, <1>4 DEF WindowMoves
  <2>2. later >= client.first + m2 + 1
    BY <1>1, <1>2, <1>4
  <2> QED BY <1>2, <2>1, <2>2 DEF Patient
<1> QED BY <1>1, <1>2, <1>3, <1>4 DEF Patient

LEMMA LoopStays ==
  ASSUME IInv, LoopWaits, WindowMoves, UNCHANGED <<client, caller>>,
         now' \in Nat, now' >= now
  PROVE  LoopWaits'
<1>1. /\ now \in Nat /\ client.first \in Nat /\ client.first <= now
      /\ client.tries \in Nat /\ client.wake \in Nat
  BY DEF IInv, Chain, LoopWaits
<1>2. SUFFICES ASSUME caller = "loop"
      PROVE /\ client.state = "asked" /\ client.limited => Patient(client.tries, now)'
            /\ client.state = "waiting" /\ client.limited
                 => Patient(client.tries + 1, client.wake)'
            /\ GivenUpAfterAWindow'
  BY <1>1 DEF LoopWaits
<1>3. ASSUME client.state = "asked" /\ client.limited
      PROVE  Patient(client.tries, now)'
  <2>1. Patient(client.tries, now)
    BY <1>2, <1>3 DEF LoopWaits
  <2>2. PICK n \in Nat, later \in Nat : n = client.tries /\ later = now'
    BY <1>1
  <2>3. Patient(n, later)'
    BY <1>1, <2>1, <2>2, PatientStays
  <2> QED BY <2>2, <2>3 DEF Patient
<1>4. ASSUME client.state = "waiting" /\ client.limited
      PROVE  Patient(client.tries + 1, client.wake)'
  <2>1. Patient(client.tries + 1, client.wake)
    BY <1>2, <1>4 DEF LoopWaits
  <2>2. PICK n \in Nat, at \in Nat : n = client.tries + 1 /\ at = client.wake
    BY <1>1
  <2>3. Patient(n, at)'
    BY <1>1, <2>1, <2>2, PatientStays
  <2> QED BY <2>2, <2>3 DEF Patient
<1>5. GivenUpAfterAWindow'
  <2>1. Period \in Nat
    BY Bounds
  <2> QED BY <1>1, <1>2, <2>1 DEF LoopWaits, GivenUpAfterAWindow
<1> QED BY <1>3, <1>4, <1>5

LEMMA LoopHears ==
  ASSUME IInv, LoopWaits, WindowMoves, UNCHANGED <<now, caller>>, client.state = "asked",
         NEW code \in Nat, NEW seconds \in Int,
         Heard("caller", code, seconds), code = 429 => Told(seconds)
  PROVE  LoopWaits'
<1>1. /\ now \in Nat /\ client.first \in Nat /\ client.first <= now
      /\ client.tries \in Nat /\ client.tries >= 1 /\ Period \in Nat \ {0}
      /\ enclave["derive"].until \in Nat
  BY Bounds DEF IInv, Chain, LoopWaits, Budget
<1>2. /\ client'.state = IF Repeats(code) THEN "waiting" ELSE "done"
      /\ client'.wake = IF Repeats(code) THEN now + Pause(code, seconds) ELSE 0
      /\ client'.tries = client.tries /\ client'.answer = code
      /\ client'.first = client.first
      /\ client'.limited => client.limited /\ code = 429
  BY DEF Heard
<1>3. PICK pause \in Nat : pause = Pause(code, seconds)
  BY PauseIsNat
<1>4. client'.wake \in Nat
  BY <1>1, <1>2, <1>3
<1>5. SUFFICES ASSUME caller = "loop"
      PROVE /\ client'.state = "waiting" => client.tries < SignTries
            /\ client'.state = "waiting" /\ client'.limited
                 => Patient(client.tries + 1, client.wake)'
            /\ GivenUpAfterAWindow'
  <2>1. client'.state # "asked" /\ client'.state # "new"
    BY <1>2
  <2> QED BY <1>1, <1>2, <1>4, <1>5, <2>1 DEF LoopWaits
<1>6. Repeats(code) => client.tries < SignTries
  BY <1>5 DEF Repeats
<1>7. code = 429 /\ client.limited => Patient(client.tries, now)
  BY <1>5 DEF LoopWaits
<1>8. PICK m0 \in Int, m1 \in Int, m2 \in Int :
        /\ m0 = (client.tries - 2) * Gap429 /\ m1 = (client.tries - 1) * Gap429
        /\ m2 = client.tries * Gap429
        /\ m1 = m0 + Gap429 /\ m2 = m1 + Gap429
  <2>1. Gap429 \in Nat
    BY Gaps
  <2> QED BY <1>1, <2>1
<1>9. ASSUME client'.state = "waiting", client'.limited
      PROVE  Patient(client.tries + 1, client.wake)'
  <2>1. code = 429 /\ client.limited /\ Told(seconds) /\ client'.wake = now + pause
    BY <1>2, <1>3, <1>9
  <2>2. pause = Wait(seconds)
    BY <1>3, <1>5, <2>1 DEF Pause
  <2>3. /\ Gap429 \in Nat \ {0} /\ Gap429 <= Period /\ Gap429 <= MaxWait
        /\ MaxWait \in Nat \ {0}
    BY Gaps, Bounds
  <2>4. \/ pause >= Gap429
        \/ /\ enclave["derive"].until = now + pause /\ pause >= 1
           /\ enclave["derive"].until # 0
    <3>1. CASE seconds = Period
      BY <1>1, <2>2, <2>3, <3>1 DEF Wait
    <3>2. CASE seconds = enclave["derive"].until - now /\ now < enclave["derive"].until
      BY <1>1, <2>2, <2>3, <3>2 DEF Wait
    <3>3. ~Ended(enclave["derive"]) => now < enclave["derive"].until
      BY <1>1 DEF Ended
    <3> QED BY <2>1, <3>1, <3>2, <3>3 DEF Told, RetryAfter
  <2>5. PICK wake \in Nat : wake = client'.wake /\ wake = now + pause
    BY <1>4, <2>1
  <2>7. \/ wake >= client.first + Period
        \/ wake >= client.first + m2
        \/ wake >= client.first + m1 + 1 /\ enclave["derive"].until <= wake
        \/ wake >= client.first + m1 + 1 /\ enclave["derive"].until >= client.first + Period
    <3>1. CASE now >= client.first + Period
      BY <1>1, <2>5, <3>1
    <3>2. CASE now >= client.first + m1
      <4>1. CASE pause >= Gap429
        BY <1>1, <1>8, <2>3, <2>5, <3>2, <4>1
      <4>2. CASE enclave["derive"].until = now + pause /\ pause >= 1
        BY <1>1, <1>8, <2>5, <3>2, <4>2
      <4> QED BY <2>4, <4>1, <4>2
    <3>3. CASE /\ now >= client.first + m0 + 1
               /\ \/ enclave["derive"].until <= now
                  \/ enclave["derive"].until >= client.first + Period
      <4>1. CASE pause >= Gap429
        BY <1>1, <1>8, <2>3, <2>5, <3>3, <4>1
      <4>2. CASE enclave["derive"].until = now + pause /\ pause >= 1
        BY <1>1, <2>5, <3>3, <4>2
      <4> QED BY <2>4, <4>1, <4>2
    <3> QED BY <1>7, <1>8, <2>1, <3>1, <3>2, <3>3 DEF Patient
  <2>8. \/ wake >= client.first + Period
        \/ wake >= client.first + m2
        \/ wake >= client.first + m1 + 1 /\ enclave'["derive"].until <= wake
        \/ wake >= client.first + m1 + 1 /\ enclave'["derive"].until >= client.first + Period
    BY <1>1, <2>5, <2>7 DEF WindowMoves
  <2>9. PICK n \in Nat : n = client.tries + 1 /\ n = client'.tries + 1
    BY <1>1, <1>2
  <2>10. (n - 1) * Gap429 = m2 /\ (n - 2) * Gap429 = m1
    <3>1. n - 1 = client.tries /\ n - 2 = client.tries - 1
      BY <1>1, <2>9
    <3> QED BY <1>8, <3>1
  <2>11. Patient(n, wake)'
    BY <1>2, <2>8, <2>10 DEF Patient
  <2> QED BY <2>5, <2>9, <2>11 DEF Patient
<1>10. GivenUpAfterAWindow'
  <2> SUFFICES ASSUME client'.state = "done", client'.answer = 429, client'.limited
               PROVE  now >= client.first + Period
    BY <1>2 DEF GivenUpAfterAWindow
  <2>1. code = 429 /\ client.limited /\ ~Repeats(code)
    BY <1>2
  <2>2. client.tries = SignTries
    <3>1. client.tries <= SignTries /\ ~(client.tries < SignTries) /\ SignTries \in Nat
      BY <1>5, <2>1, Bounds DEF Repeats, LoopWaits
    <3> QED BY <1>1, <3>1
  <2>3. m0 + 1 >= Period /\ m1 >= m0 + 1
    BY <1>8, <2>2, Gaps
  <2> QED BY <1>1, <1>7, <1>8, <2>1, <2>3 DEF Patient
<1> QED BY <1>2, <1>6, <1>9, <1>10

LEMMA LoopAsks == ASSUME IInv, LoopWaits, Ask PROVE LoopWaits'
<1>1. /\ UNCHANGED <<now, enclave, caller>>
      /\ client.state \in {"new", "waiting"} /\ now >= client.wake
      /\ client' = [client EXCEPT !.state = "asked", !.tries = @ + 1, !.wake = 0,
                     !.first = IF client.tries = 0 THEN now ELSE @]
  BY DEF Ask, chainVars, limitVars
<1>2. CallerTypes
  BY DEF IInv, CallerInv
<1>3. client' = [state |-> "asked", tries |-> client.tries + 1, wake |-> 0,
                 first |-> IF client.tries = 0 THEN now ELSE client.first,
                 limited |-> client.limited, answer |-> client.answer,
                 uniform |-> client.uniform]
  BY <1>1, <1>2 DEF CallerTypes
<1>4. /\ client'.state = "asked" /\ client'.tries = client.tries + 1 /\ client'.wake = 0
      /\ client'.first = IF client.tries = 0 THEN now ELSE client.first
      /\ client'.limited = client.limited
  BY <1>3
<1>5. /\ now \in Nat /\ client.first \in Nat /\ client.first <= now
      /\ client.tries \in Nat /\ client.wake \in Nat /\ Period \in Nat
      /\ enclave["derive"].until \in Nat /\ Gap429 \in Nat /\ SignTries \in Nat \ {0}
  BY Bounds, Gaps DEF IInv, Chain, LoopWaits, Budget
<1>6. SUFFICES ASSUME caller = "loop"
      PROVE /\ client.tries + 1 <= SignTries
            /\ client'.limited => Patient(client.tries, now)'
  <2>1. GivenUpAfterAWindow'
    BY <1>4 DEF GivenUpAfterAWindow
  <2> QED BY <1>1, <1>4, <1>5, <1>6, <2>1 DEF LoopWaits
<1>7. CASE client.state = "new"
  <2>1. client.tries = 0 /\ client'.tries = 1 /\ client'.first = now
    BY <1>4, <1>7 DEF LoopWaits
  <2>2. (1 - 1) * Gap429 = 0
    BY <1>5
  <2> QED BY <1>1, <1>5, <2>1, <2>2 DEF Patient
<1>8. CASE client.state = "waiting"
  <2>1. client.tries >= 1 /\ client'.first = client.first /\ client.tries < SignTries
    BY <1>4, <1>5, <1>6, <1>8 DEF LoopWaits
  <2>2. ASSUME client'.limited PROVE Patient(client.tries, now)'
    <3>1. Patient(client.tries + 1, client.wake)
      BY <1>4, <1>6, <1>8, <2>2 DEF LoopWaits
    <3>2. PICK m1 \in Int, m2 \in Int :
            m1 = (client.tries + 1 - 1) * Gap429 /\ m2 = (client.tries + 1 - 2) * Gap429
      BY <1>5
    <3>3. \/ now >= client.first + Period
          \/ now >= client.first + m1
          \/ /\ now >= client.first + m2 + 1
             /\ \/ enclave["derive"].until <= now
                \/ enclave["derive"].until >= client.first + Period
      BY <1>1, <1>5, <3>1, <3>2 DEF Patient
    <3>4. PICK n \in Nat : n = client.tries + 1 /\ n = client'.tries
      BY <1>4, <1>5
    <3>5. (n - 1) * Gap429 = m1 /\ (n - 2) * Gap429 = m2
      BY <1>5, <3>2, <3>4
    <3>6. Patient(n, now)'
      BY <1>1, <2>1, <3>3, <3>5 DEF Patient
    <3> QED BY <3>4, <3>6 DEF Patient
  <2> QED BY <1>5, <2>1, <2>2
<1> QED BY <1>1, <1>7, <1>8

LEMMA LoopUnreachable == ASSUME IInv, LoopWaits, Unreachable PROVE LoopWaits'
<1>1. /\ UNCHANGED <<now, caller>> /\ client.state = "asked"
      /\ client' = [client EXCEPT !.state = "done", !.answer = 0]
  BY DEF Unreachable, chainVars
<1>2. /\ client'.state = "done" /\ client'.answer = 0 /\ client'.tries = client.tries
      /\ client'.wake = client.wake /\ client'.first = client.first
  BY <1>1 DEF IInv, CallerInv, CallerTypes
<1> QED BY <1>1, <1>2 DEF LoopWaits, GivenUpAfterAWindow

LEMMA LoopHearing ==
  ASSUME IInv, LoopWaits, WindowMoves, Hearing, UNCHANGED <<now, caller>>
  PROVE  LoopWaits'
<1>1. now \in Nat
  BY DEF IInv, Chain
<1>2. CASE client' = client
  BY <1>1, <1>2, LoopStays
<1>3. CASE /\ client.state = "asked"
           /\ \E code \in Nat, seconds \in Int :
                Heard("caller", code, seconds) /\ (code = 429 => Told(seconds))
  <2>1. PICK code \in Nat, seconds \in Int :
          Heard("caller", code, seconds) /\ (code = 429 => Told(seconds))
    BY <1>3
  <2> QED BY <1>3, <2>1, LoopHears
<1> QED BY <1>2, <1>3 DEF Hearing

LEMMA CallMoves == ASSUME IInv, CallIs PROVE WindowMoves
<1>1. now \in Nat /\ enclave["derive"] \in [count : Nat, until : Nat]
  BY DEF IInv, Chain, Budget
<1> QED BY <1>1, CountedIs DEF CallIs, WindowMoves

-----------------------------------------------------------------------------
\* Everything together: what is known of the limiters' windows and the loop.
Limited == IInv /\ Windows /\ LoopWaits

LEMMA InitLimited == SignerInit => Limited
<1>1. SignerInit => LoopWaits
  <2> SUFFICES ASSUME SignerInit PROVE LoopWaits
    OBVIOUS
  <2>1. now = 1 /\ client = NotAsked
    BY DEF SignerInit
  <2> QED BY <2>1 DEF LoopWaits, NotAsked, GivenUpAfterAWindow
<1> QED BY <1>1, InitIInv, InitWindows DEF Limited

LEMMA NextLimited == Limited /\ [SignerNext]_signerVars => Limited'
<1> SUFFICES ASSUME Limited, [SignerNext]_signerVars PROVE Limited'
  OBVIOUS
<1>1. IInv /\ Windows /\ LoopWaits /\ now \in Nat
  BY DEF Limited, IInv, Chain
<1>2. IInv'
  BY <1>1, NextIInv
<1>3. SUFFICES Windows' /\ LoopWaits'
  BY <1>2, <1>3 DEF Limited
<1>4. CASE Ask
  BY <1>1, <1>4, LoopAsks, WindowsSame DEF Ask, chainVars, limitVars
<1>5. CASE Unreachable
  BY <1>1, <1>5, LoopUnreachable, WindowsSame DEF Unreachable, chainVars, limitVars
<1>6. CASE Down
  <2>1. UNCHANGED <<now, edge, enclave, admitted, called, caller>> /\ client.state = "asked"
    BY <1>6 DEF Down, chainVars, limitVars
  <2>2. Heard("caller", 503, 0)
    BY <1>1, <1>6, HearTrue DEF Down, IInv, CallerInv
  <2>3. Hearing
    BY <2>2, Hears DEF Clients
  <2>4. WindowMoves
    BY <2>1 DEF WindowMoves
  <2> QED BY <1>1, <2>1, <2>3, <2>4, LoopHearing, WindowsSame
<1>7. ASSUME NEW c \in Clients, NEW k \in Sources, NEW route \in Routes,
             NEW parses \in BOOLEAN, Arrive(c, k, route, parses)
      PROVE  Windows' /\ LoopWaits'
  <2>1. UNCHANGED <<now, caller>> /\ WindowMoves
    BY <1>7 DEF Arrive, Sends, chainVars, WindowMoves
  <2>2. Hearing
    BY <1>1, <1>7, ArriveHears
  <2> QED BY <1>1, <1>7, <2>1, <2>2, LoopHearing, WindowsArrive
<1>8. ASSUME NEW c \in Clients, Mint(c) \/ Sign(c) \/ Sweep(c)
      PROVE  Windows' /\ LoopWaits'
  <2>1. CallIs /\ Hearing /\ UNCHANGED <<now, caller, edge, admitted>>
    BY <1>1, <1>8, CallSteps
  <2> QED BY <1>1, <2>1, CallMoves, LoopHearing, WindowsCall
<1>9. CASE Restart
  <2>1. UNCHANGED <<now, caller, client>> /\ enclave' = [o \in DOMAIN enclave |-> NoEntry]
    BY <1>9 DEF Restart, chainVars
  <2>2. WindowMoves
    BY <1>1, <2>1 DEF WindowMoves, NoEntry, IInv, Budget
  <2> QED BY <1>1, <1>9, <2>1, <2>2, LoopStays, WindowsRestart
<1>10. CASE Boot \/ \E e \in Events : Mined(e)
  <2>1. UNCHANGED <<now, edge, enclave, admitted, called, caller, client>>
    BY <1>10 DEF Boot, Mined, chainVars, limitVars, callerVars
  <2> QED BY <1>1, <2>1, LoopStays, WindowsSame DEF WindowMoves
<1>11. CASE Tick
  <2>1. UNCHANGED <<enclave, caller, client>> /\ now' = now + 1
    BY <1>11 DEF Tick, callerVars
  <2>2. now' \in Nat /\ now' >= now /\ WindowMoves
    BY <1>1, <2>1 DEF WindowMoves
  <2> QED BY <1>1, <1>11, <2>1, <2>2, LoopStays, WindowsTick
<1>12. CASE UNCHANGED signerVars
  <2>1. UNCHANGED <<now, edge, enclave, admitted, called, caller, client>>
    BY <1>12 DEF signerVars, chainVars, limitVars, callerVars
  <2> QED BY <1>1, <2>1, LoopStays, WindowsSame DEF WindowMoves
<1> QED BY <1>4, <1>5, <1>6, <1>7, <1>8, <1>9, <1>10, <1>11, <1>12 DEF SignerNext

LEMMA SpecLimited == SignerSpec => []Limited
BY InitLimited, NextLimited, PTL DEF SignerSpec

\* Whatever the limits, the windows and the number of sources: a limiter of fixed
\* windows passes at most twice its limit in a window's time (guard.ts), though
\* its table is cleared and the process restarts.
THEOREM TwiceTheLimit == SignerSpec => []RateIsBounded
<1>1. Limited => RateIsBounded
  <2> SUFFICES ASSUME Limited PROVE RateIsBounded
    OBVIOUS
  <2>1. now \in Nat
    BY DEF Limited, IInv, Chain
  <2>2. ASSUME NEW k \in Sources, NEW a \in Ages PROVE admitted[k][a] <= 2 * EdgeMax
    BY <2>1, Limits, WithinTwice DEF Limited, Windows
  <2>3. ASSUME NEW a \in Ages PROVE called[a] <= 2 * EnclaveMax
    BY <2>1, Limits, WithinTwice DEF Limited, Windows
  <2> QED BY <2>2, <2>3 DEF RateIsBounded
<1> QED BY <1>1, SpecLimited, PTL

\* The loop that is refused at every try by a limiter, of the edge or of the
\* enclave, has waited for a whole window before it gives up, although one of
\* its waits may have been cut short and the limiters may have restarted.
THEOREM LoopOutlastsWindow == SignerSpec => []GivenUpAfterAWindow
<1>1. Limited => GivenUpAfterAWindow
  BY DEF Limited, LoopWaits, GivenUpAfterAWindow
<1> QED BY <1>1, SpecLimited, PTL

-----------------------------------------------------------------------------
(* What KeyStore keeps for any number of concurrent mints, crashes, lost   *)
(* disks and rebuilds, and for any Gap.  The invariant has four parts:     *)
(* which ids the counter has been through (Prefix), what the index and the *)
(* memory know of them (Indexed), the mints in hand (MintsInHand) and the  *)
(* loop of a rebuild (Scanned).                                            *)

\* The counter has been through every id below an id it was ever at.
Below(n) == \A i \in Ids : i < n => i \in started

Prefix ==
  /\ phase = "serving" => Below(next)
  /\ disk.kind = "index" => Below(disk.next)
  /\ \A id \in issued : Below(id) /\ id \in started
  /\ bound \subseteq issued
  /\ known \subseteq bound

Indexed ==
  /\ phase = "serving" => disk.kind = "index" /\ keys = disk.keys
  /\ phase = "scan" => disk.kind = "none"
  /\ disk.kind = "none" => handed = {} /\ disk.keys = {} /\ disk.next = 0
  /\ disk.kind = "index" => handed \subseteq disk.keys
  /\ disk.kind = "index" => \A id \in handed : id < disk.next
  /\ phase = "serving" => next <= disk.next /\ disk.next <= next

MintsInHand ==
  \A m \in Mints : taken[m] # NoId =>
    /\ phase = "serving"
    /\ taken[m] < next
    /\ Below(taken[m]) /\ taken[m] \in started
    /\ taken[m] \notin handed
    /\ \A n \in Mints : taken[n] = taken[m] => n = m

Scanned ==
  phase = "scan" =>
    /\ scan.misses <= scan.at
    /\ scan.highest < scan.at
    /\ scan.highest = -1 \/ scan.highest \in bound
    /\ \A id \in keys : id <= scan.highest
    /\ scanBound \subseteq bound
    /\ \A id \in Findable : id < scan.at => id \in keys
    /\ \A i \in Ids : scan.at - scan.misses <= i /\ i < scan.at
                        => i \notin Findable

KeyInv == KeyTypeOK /\ Prefix /\ Indexed /\ MintsInHand /\ Scanned

LEMMA InitKeyInv == Init => KeyInv
BY KeyAssumption DEF Init, KeyInv, KeyTypeOK, Prefix, Indexed, MintsInHand, Scanned,
     NoIndex, NewScan, NoId, Ids, Below, Findable

LEMMA LoadKeyInv == ASSUME KeyInv, Load PROVE KeyInv'
<1>0. /\ phase = "down" /\ phase' \in {"serving", "scan"}
      /\ disk.kind # "torn" /\ disk.kind \in {"index", "none", "torn"}
      /\ phase' = "serving" <=> disk.kind = "index"
      /\ next' = disk.next /\ keys' = disk.keys /\ scan' = NewScan
      /\ scanBound' = bound /\ misled' = {}
      /\ UNCHANGED <<disk, taken, bound, known, issued, troubles, started, handed>>
  BY DEF Load, KeyInv, KeyTypeOK, vaultVars
<1>1. KeyTypeOK'
  <2>1. NewScan \in [at : Nat, misses : 0..Gap, highest : Ids \cup {-1}]
    BY KeyAssumption DEF NewScan
  <2> QED BY <1>0, <2>1 DEF KeyInv, KeyTypeOK
<1>2. Prefix'
  BY <1>0 DEF KeyInv, Prefix, Below
<1>5. Indexed'
  BY <1>0 DEF KeyInv, KeyTypeOK, Indexed
<1>3. MintsInHand'
  <2>1. \A m \in Mints : taken[m] = NoId
    BY <1>0 DEF KeyInv, MintsInHand
  <2> QED BY <1>0, <2>1 DEF MintsInHand
<1>4. Scanned'
  <2>1. phase' = "scan" => keys' = {}
    BY <1>0 DEF KeyInv, Indexed
  <2> QED BY <1>0, <2>1 DEF KeyInv, KeyTypeOK, Scanned, NewScan, Ids, Findable
<1> QED BY <1>1, <1>2, <1>3, <1>4, <1>5 DEF KeyInv

LEMMA ScanIdKeyInv == ASSUME KeyInv, ScanId PROVE KeyInv'
<1> PICK view \in {bound, known} :
      LET hit == scan.at \in view IN
      /\ scan' = [at |-> scan.at + 1, misses |-> MissesAfter(hit),
                  highest |-> IF hit THEN scan.at ELSE scan.highest]
      /\ keys' = IF hit THEN keys \cup {scan.at} ELSE keys
      /\ misled' = misled \cup ({scan.at} \cap (bound \ view))
  BY DEF ScanId
<1> DEFINE hit == scan.at \in view
<1>0. /\ phase = "scan" /\ scan.misses # Gap
      /\ scan.misses \in 0..Gap /\ scan.at \in Nat /\ known \subseteq bound
  BY DEF ScanId, ScanOver, KeyInv, KeyTypeOK, Prefix
<1>1. scan'.at = scan.at + 1 /\ scan'.misses = MissesAfter(hit)
        /\ scan'.highest = IF hit THEN scan.at ELSE scan.highest
  OBVIOUS
<1>2. view \subseteq bound /\ known \subseteq view /\ bound \subseteq Ids
  BY <1>0 DEF KeyInv, KeyTypeOK
<1>3. MissesAfter(hit) \in 0..Gap
  BY <1>0, KeyAssumption DEF MissesAfter
<1>4. KeyTypeOK'
  <2>1. scan' \in [at : Nat, misses : 0..Gap, highest : Ids \cup {-1}]
    BY <1>0, <1>2, <1>3 DEF KeyInv, KeyTypeOK
  <2>2. keys' \subseteq Ids
    BY <1>2 DEF KeyInv, KeyTypeOK
  <2>3. misled' \subseteq Ids
    BY <1>2 DEF KeyInv, KeyTypeOK
  <2> QED BY <2>1, <2>2, <2>3 DEF KeyInv, KeyTypeOK, ScanId, vaultVars
<1>7. UNCHANGED <<phase, disk, next, taken, bound, known, issued, started,
                  handed, scanBound>>
  BY DEF ScanId, vaultVars
<1>8. Prefix'
  BY <1>7 DEF KeyInv, Prefix, Below
<1>9. Indexed'
  BY <1>0, <1>7 DEF KeyInv, Indexed
<1>5. MintsInHand'
  BY <1>7 DEF KeyInv, MintsInHand, Below
<1>6. Scanned'
  <2>1. /\ scan'.misses <= scan'.at /\ scan'.highest < scan'.at
        /\ scan'.highest = -1 \/ scan'.highest \in bound'
    <3>1. /\ scan.misses <= scan.at /\ scan.highest < scan.at
          /\ scan.highest \in Ids \cup {-1}
          /\ scan.highest = -1 \/ scan.highest \in bound
      BY <1>0 DEF KeyInv, KeyTypeOK, Scanned
    <3>2. CASE hit
      BY <1>0, <1>1, <1>2, <1>7, <3>2 DEF MissesAfter
    <3>3. CASE ~hit
      BY <1>0, <1>1, <1>7, <3>1, <3>3 DEF MissesAfter, Ids
    <3> QED BY <3>2, <3>3
  <2>2. scanBound' \subseteq bound'
    BY <1>0, <1>7 DEF KeyInv, Scanned
  <2>3. ASSUME NEW id \in keys' PROVE id <= scan'.highest
    <3>1. /\ scan.highest < scan.at /\ scan.highest \in Ids \cup {-1}
          /\ keys \subseteq Ids /\ \A k \in keys : k <= scan.highest
      BY <1>0 DEF KeyInv, KeyTypeOK, Scanned
    <3>2. CASE hit
      BY <1>0, <1>1, <2>3, <3>1, <3>2 DEF Ids
    <3>3. CASE ~hit
      BY <1>1, <2>3, <3>1, <3>3
    <3> QED BY <3>2, <3>3
  <2>4. Findable' \subseteq Findable /\ (scan.at \in Findable' => hit)
    <3>1. Findable \subseteq bound /\ misled \subseteq misled'
            /\ (scan.at \in bound /\ ~hit => scan.at \in misled')
      BY <1>0 DEF KeyInv, Scanned, Findable
    <3> QED BY <1>7, <3>1 DEF Findable
  <2>5. ASSUME NEW id \in Findable', id < scan'.at PROVE id \in keys'
    <3>1. id \in Findable /\ id \in Ids
      BY <2>4, <1>7 DEF KeyInv, KeyTypeOK, Findable
    <3>2. CASE id < scan.at
      BY <1>0, <3>1, <3>2 DEF KeyInv, Scanned
    <3>3. CASE id = scan.at
      BY <2>4, <2>5, <3>3
    <3> QED BY <1>0, <1>1, <2>5, <3>1, <3>2, <3>3 DEF Ids
  <2>6. ASSUME NEW i \in Ids, scan'.at - scan'.misses <= i, i < scan'.at
        PROVE  i \notin Findable'
    <3>1. ~hit /\ scan'.misses = scan.misses + 1
      BY <1>0, <1>1, <2>6 DEF MissesAfter, Ids
    <3>2. CASE i = scan.at
      BY <2>4, <3>1, <3>2
    <3>3. CASE i < scan.at
      <4>1. scan.at - scan.misses <= i
        BY <1>0, <1>1, <2>6, <3>1 DEF Ids
      <4> QED BY <1>0, <2>4, <3>3, <4>1 DEF KeyInv, Scanned
    <3> QED BY <1>0, <1>1, <2>6, <3>2, <3>3 DEF Ids
  <2> QED BY <1>7, <2>1, <2>2, <2>3, <2>5, <2>6 DEF Scanned
<1> QED BY <1>4, <1>5, <1>6, <1>8, <1>9 DEF KeyInv

LEMMA ScanEndsKeyInv == ASSUME KeyInv, ScanEnds PROVE KeyInv'
<1>0. /\ phase = "scan" /\ phase' = "serving" /\ next' = scan.highest + 1
      /\ disk' = Index(scan.highest + 1, keys) /\ disk.kind = "none"
      /\ handed = {} /\ scan.highest \in Ids \cup {-1}
      /\ scan.highest = -1 \/ scan.highest \in bound
      /\ UNCHANGED <<keys, scan, taken, vaultVars, troubles, histVars>>
  BY DEF ScanEnds, ResumeAt, KeyInv, KeyTypeOK, Indexed, Scanned
<1>1. scan.highest + 1 \in 0..MaxIds
  BY <1>0, KeyAssumption DEF Ids
<1>2. KeyTypeOK'
  BY <1>0, <1>1 DEF KeyInv, KeyTypeOK, Index, vaultVars, histVars
<1>3. Below(scan.highest + 1)
  <2> SUFFICES ASSUME NEW i \in Ids, i < scan.highest + 1 PROVE i \in started
    BY DEF Below
  <2>1. scan.highest \in issued /\ scan.highest \in started
    BY <1>0 DEF KeyInv, Prefix, Below, KeyTypeOK, Ids
  <2> QED BY <1>0, <2>1 DEF KeyInv, Prefix, Below, Ids
<1>4. Prefix'
  BY <1>0, <1>3 DEF KeyInv, Prefix, Below, Index, vaultVars, histVars
<1>5. Indexed'
  BY <1>0, <1>1 DEF KeyInv, Indexed, Index, vaultVars, histVars
<1>6. MintsInHand'
  BY <1>0 DEF KeyInv, MintsInHand, Below, histVars
<1>7. Scanned'
  BY <1>0 DEF Scanned
<1> QED BY <1>2, <1>4, <1>5, <1>6, <1>7 DEF KeyInv

LEMMA TakeKeyInv == ASSUME KeyInv, NEW m \in Mints, Take(m) PROVE KeyInv'
<1>0. /\ phase = "serving" /\ taken[m] = NoId /\ next < MaxIds
      /\ taken' = [taken EXCEPT ![m] = next] /\ next' = next + 1
      /\ disk' = Index(next + 1, keys) /\ started' = started \cup {next}
      /\ disk.kind = "index" /\ keys = disk.keys /\ next = disk.next
      /\ next \in Ids /\ next \in Nat /\ next + 1 \in 0..MaxIds
      /\ UNCHANGED <<phase, keys, scan, bound, known, issued, troubles,
                     handed, scanBound, misled>>
  <2>1. next \in 0..MaxIds /\ disk.next \in 0..MaxIds
    BY DEF KeyInv, KeyTypeOK
  <2> QED BY <2>1, KeyAssumption DEF Take, KeyInv, Indexed, Ids, vaultVars
<1>1. KeyTypeOK'
  BY <1>0 DEF KeyInv, KeyTypeOK, Index
<1>2. Below(next) /\ \A i \in Ids : i < next + 1 => i \in started'
  BY <1>0 DEF KeyInv, Prefix, Below, Ids
<1>3. Prefix'
  BY <1>0, <1>2 DEF KeyInv, Prefix, Below, Index
<1>4. Indexed'
  <2>1. \A k \in handed : k < next + 1
    BY <1>0 DEF KeyInv, KeyTypeOK, Indexed, Ids
  <2> QED BY <1>0, <2>1 DEF KeyInv, Indexed, Index
<1>5. MintsInHand'
  <2> SUFFICES ASSUME NEW k \in Mints, taken'[k] # NoId
               PROVE  /\ taken'[k] < next + 1
                      /\ Below(taken[k])' /\ taken'[k] \in started'
                      /\ taken'[k] \notin handed
                      /\ \A n \in Mints : taken'[n] = taken'[k] => n = k
    BY <1>0 DEF MintsInHand
  <2>1. taken \in [Mints -> Ids \cup {NoId}] /\ taken'[m] = next
          /\ \A n \in Mints : n # m => taken'[n] = taken[n]
    BY <1>0 DEF KeyInv, KeyTypeOK
  <2>2. \A n \in Mints : taken[n] # NoId => taken[n] < next
    BY DEF KeyInv, MintsInHand
  <2>3. next # NoId /\ next \in Nat
    BY <1>0 DEF Ids, NoId
  <2>4. CASE k = m
    <3>1. next \notin handed
      BY <1>0, <2>3 DEF KeyInv, Indexed
    <3>2. \A n \in Mints : n # m => taken[n] # next
      BY <2>1, <2>2, <2>3
    <3> QED BY <1>0, <1>2, <2>1, <2>3, <2>4, <3>1, <3>2 DEF Below
  <2>5. CASE k # m
    <3>1. taken'[k] = taken[k] /\ taken[k] \in Ids
      BY <2>1, <2>5
    <3>2. /\ taken[k] < next /\ Below(taken[k]) /\ taken[k] \in started
          /\ taken[k] \notin handed
          /\ \A n \in Mints : taken[n] = taken[k] => n = k
      BY <3>1 DEF KeyInv, MintsInHand
    <3> QED BY <1>0, <2>1, <2>3, <2>5, <3>1, <3>2 DEF Below, Ids
  <2> QED BY <2>4, <2>5
<1>6. Scanned'
  BY <1>0 DEF Scanned
<1> QED BY <1>1, <1>3, <1>4, <1>5, <1>6 DEF KeyInv

LEMMA DerivedKeyInv == ASSUME KeyInv, NEW m \in Mints, Derived(m) PROVE KeyInv'
<1> DEFINE id == taken[m]
<1>0. /\ phase = "serving" /\ id # NoId /\ id \in Ids /\ id < next
      /\ keys' = keys \cup {id} /\ disk' = Index(next, keys \cup {id})
      /\ taken' = [taken EXCEPT ![m] = NoId]
      /\ issued' = issued \cup {id} /\ handed' = handed \cup {id}
      /\ disk.kind = "index" /\ keys = disk.keys
      /\ next \in 0..MaxIds /\ disk.next \in 0..MaxIds /\ next = disk.next
      /\ UNCHANGED <<phase, next, scan, bound, known, troubles, started, scanBound,
                     misled>>
  <2>1. next \in 0..MaxIds /\ disk.next \in 0..MaxIds
          /\ taken \in [Mints -> Ids \cup {NoId}]
    BY DEF KeyInv, KeyTypeOK
  <2> QED BY <2>1, KeyAssumption DEF Derived, Persisted, KeyInv, Indexed, MintsInHand
<1>1. KeyTypeOK'
  BY <1>0 DEF KeyInv, KeyTypeOK, Index
<1>2. Below(id) /\ id \in started
  BY <1>0 DEF KeyInv, MintsInHand
<1>3. Prefix'
  BY <1>0, <1>2 DEF KeyInv, Prefix, Below, Index
<1>4. Indexed'
  BY <1>0 DEF KeyInv, Indexed, Index
<1>5. MintsInHand'
  <2> SUFFICES ASSUME NEW k \in Mints, taken'[k] # NoId
               PROVE  /\ taken'[k] < next
                      /\ Below(taken[k])' /\ taken'[k] \in started
                      /\ taken'[k] \notin handed'
                      /\ \A n \in Mints : taken'[n] = taken'[k] => n = k
    BY <1>0 DEF MintsInHand
  <2>1. taken'[m] = NoId /\ \A n \in Mints : n # m => taken'[n] = taken[n]
    BY <1>0 DEF KeyInv, KeyTypeOK
  <2>2. k # m /\ taken'[k] = taken[k]
    BY <2>1
  <2>3. /\ taken[k] < next /\ Below(taken[k]) /\ taken[k] \in started
        /\ taken[k] \notin handed
        /\ \A n \in Mints : taken[n] = taken[k] => n = k
    BY <2>2 DEF KeyInv, MintsInHand
  <2>4. taken[k] # id
    BY <2>2, <2>3
  <2> QED BY <1>0, <2>1, <2>2, <2>3, <2>4 DEF Below
<1>6. Scanned'
  BY <1>0 DEF Scanned
<1> QED BY <1>1, <1>3, <1>4, <1>5, <1>6 DEF KeyInv

LEMMA DeriveFailsKeyInv == ASSUME KeyInv, NEW m \in Mints, DeriveFails(m) PROVE KeyInv'
<1>0. /\ phase = "serving" /\ taken' = [taken EXCEPT ![m] = NoId]
      /\ UNCHANGED <<phase, next, disk, keys, scan, bound, known, issued,
                     troubles, started, handed, scanBound, misled>>
  BY DEF DeriveFails, CounterAfterFailure, vaultVars, histVars
<1>1. KeyTypeOK'
  BY <1>0 DEF KeyInv, KeyTypeOK
<1>2. Prefix' /\ Indexed' /\ Scanned'
  BY <1>0 DEF KeyInv, Prefix, Indexed, Scanned, Below, Findable
<1>3. MintsInHand'
  <2>1. taken'[m] = NoId /\ \A n \in Mints : n # m => taken'[n] = taken[n]
    BY <1>0 DEF KeyInv, KeyTypeOK
  <2> QED BY <1>0, <2>1 DEF KeyInv, MintsInHand, Below
<1> QED BY <1>1, <1>2, <1>3 DEF KeyInv

LEMMA OtherKeyInv ==
  ASSUME KeyInv,
         \/ ScanFails \/ CatchUp \/ Wipe
         \/ \E id \in Ids : Bind(id)
         \/ \E torn \in BOOLEAN : Crash(torn)
         \/ UNCHANGED vars
  PROVE  KeyInv'
<1>1. CASE ScanFails
  <2>0. /\ phase = "scan" /\ phase' = "down" /\ troubles' = troubles + 1
        /\ troubles < MaxTroubles
        /\ UNCHANGED <<disk, next, keys, scan, taken, bound, known, issued,
                       started, handed, scanBound, misled>>
    BY <1>1 DEF ScanFails, AfterFailedBoot, memory, vaultVars, histVars
  <2>1. \A m \in Mints : taken[m] = NoId
    BY <2>0 DEF KeyInv, MintsInHand
  <2>2. KeyTypeOK'
    BY <2>0, KeyAssumption DEF KeyInv, KeyTypeOK
  <2>3. Prefix' /\ Indexed' /\ MintsInHand' /\ Scanned'
    BY <2>0, <2>1 DEF KeyInv, Prefix, Indexed, MintsInHand, Scanned, Below
  <2> QED BY <2>2, <2>3 DEF KeyInv
<1>2. CASE CatchUp
  <2>0. /\ known' = bound
        /\ UNCHANGED <<phase, disk, next, keys, scan, taken, bound, issued,
                       troubles, started, handed, scanBound, misled>>
    BY <1>2 DEF CatchUp, memory, histVars
  <2>1. KeyTypeOK'
    BY <2>0 DEF KeyInv, KeyTypeOK
  <2>2. Prefix' /\ Indexed' /\ MintsInHand'
    BY <2>0 DEF KeyInv, Prefix, Indexed, MintsInHand, Below
  <2>3. Scanned'
    BY <2>0 DEF KeyInv, Scanned, Findable
  <2> QED BY <2>1, <2>2, <2>3 DEF KeyInv
<1>3. CASE Wipe
  <2>0. /\ phase = "down" /\ disk' = NoIndex /\ handed' = {}
        /\ troubles < MaxTroubles /\ troubles' = troubles + 1
        /\ UNCHANGED <<phase, next, keys, scan, taken, bound, known, issued,
                       started, scanBound, misled>>
    BY <1>3 DEF Wipe, memory, vaultVars
  <2>1. KeyTypeOK'
    BY <2>0, KeyAssumption DEF KeyInv, KeyTypeOK, NoIndex
  <2>2. Prefix' /\ Indexed' /\ MintsInHand' /\ Scanned'
    BY <2>0 DEF KeyInv, Prefix, Indexed, MintsInHand, Scanned, Below, NoIndex
  <2> QED BY <2>1, <2>2 DEF KeyInv
<1>4. ASSUME NEW id \in Ids, Bind(id) PROVE KeyInv'
  <2>0. /\ id \in issued /\ bound' = bound \cup {id}
        /\ UNCHANGED <<phase, disk, next, keys, scan, taken, known, issued,
                       troubles, started, handed, scanBound, misled>>
    BY <1>4 DEF Bind, memory, histVars
  <2>1. KeyTypeOK'
    BY <2>0 DEF KeyInv, KeyTypeOK
  <2>2. Prefix' /\ Indexed' /\ MintsInHand'
    BY <2>0 DEF KeyInv, Prefix, Indexed, MintsInHand, Below
  <2>3. Scanned'
    BY <2>0 DEF KeyInv, Scanned, Findable
  <2> QED BY <2>1, <2>2, <2>3 DEF KeyInv
<1>5. ASSUME NEW torn \in BOOLEAN, Crash(torn) PROVE KeyInv'
  <2>0. /\ phase # "down" /\ phase' = "down" /\ troubles' = troubles + 1
        /\ troubles < MaxTroubles
        /\ disk' = disk \/ disk' = TornIndex
        /\ next' = 0 /\ keys' = {} /\ scan' = NewScan
        /\ taken' = [m \in Mints |-> NoId]
        /\ UNCHANGED <<bound, known, issued, started, handed, scanBound, misled>>
    BY <1>5 DEF Crash, vaultVars, histVars
  <2>1. KeyTypeOK'
    BY <2>0, KeyAssumption DEF KeyInv, KeyTypeOK, TornIndex, NewScan
  <2>2. Prefix' /\ Indexed' /\ MintsInHand' /\ Scanned'
    BY <2>0 DEF KeyInv, Prefix, Indexed, MintsInHand, Scanned, Below, TornIndex
  <2> QED BY <2>1, <2>2 DEF KeyInv
<1>6. CASE UNCHANGED vars
  BY <1>6 DEF vars, memory, vaultVars, histVars, KeyInv, KeyTypeOK, Prefix,
       Indexed, MintsInHand, Scanned, Below, Findable
<1> QED BY <1>1, <1>2, <1>3, <1>4, <1>5, <1>6

LEMMA SpecKeyInv == Spec => []KeyInv
<1>1. ASSUME KeyInv, [Next]_vars PROVE KeyInv'
  BY <1>1, LoadKeyInv, ScanIdKeyInv, ScanEndsKeyInv, TakeKeyInv, DerivedKeyInv,
     DeriveFailsKeyInv, OtherKeyInv DEF Next
<1> QED BY InitKeyInv, <1>1, PTL DEF Spec

\* Whatever crashes and however the index is lost, every variable keeps its
\* type and a rebuild never counts past Gap misses.
THEOREM KeysTyped == Spec => []KeyTypeOK
BY SpecKeyInv, PTL DEF KeyInv

\* The gaps among a vault's payers come from mints alone: neither a crash nor
\* any number of rebuilds makes one, the fault that resuming past the scanned
\* window had.
THEOREM OnlyMintsMakeGaps == Spec => []GapsComeFromMints
<1>1. KeyInv => GapsComeFromMints
  <2> SUFFICES ASSUME KeyInv, NEW id \in bound, NEW i \in 0..(id - 1)
               PROVE  i \in started
    BY DEF GapsComeFromMints
  <2>1. Below(id) /\ id \in Ids
    BY DEF KeyInv, KeyTypeOK, Prefix
  <2>2. i \in Ids /\ i < id
    BY <2>1, KeyAssumption DEF Ids
  <2> QED BY <2>1, <2>2 DEF Below
<1> QED BY SpecKeyInv, <1>1, PTL

\* No two callers are given one payer, until the index is lost.
THEOREM PayersAreDistinct == Spec => []OneCallerPerId
<1>1. KeyInv => OneCallerPerId
  BY DEF KeyInv, MintsInHand, OneCallerPerId
<1> QED BY SpecKeyInv, <1>1, PTL

\* A serving signer can sign for whatever it minted since the index was lost.
THEOREM MintedIsHeld == Spec => []HandedIsHeld
<1>1. KeyInv => HandedIsHeld
  BY DEF KeyInv, Indexed, HandedIsHeld
<1> QED BY SpecKeyInv, <1>1, PTL

\* For every Gap, a rebuild finds the key of every goal that existed when it
\* began and resumes the counter past it, unless a gap of that length hides the
\* goal or a node behind the others denied it.  What a node denies costs no
\* other goal.
THEOREM RebuildIsComplete == Spec => RebuildFinds
<1>1. ASSUME KeyInv, [Next]_vars, phase = "scan", phase' = "serving"
      PROVE  LongGap(Findable) \/ \A id \in Findable : id \in keys' /\ id < next'
  <2>1. ScanEnds
    BY <1>1 DEF Next, vars, Load, ScanId, ScanFails, AfterFailedBoot, Take,
         Derived, DeriveFails, Bind, CatchUp, Crash, Wipe
  <2>2. /\ keys' = keys /\ scan.misses = Gap /\ Gap \in Nat \ {0}
        /\ scan.at \in Nat /\ scan.misses <= scan.at
        /\ Findable \subseteq Ids
        /\ \A id \in Findable : id < scan.at => id \in keys
        /\ \A i \in Ids : scan.at - Gap <= i /\ i < scan.at
                            => i \notin Findable
    BY <1>1, <2>1, KeyAssumption
       DEF ScanEnds, ScanOver, KeyInv, KeyTypeOK, Scanned, Findable
  <2>3. ASSUME NEW id \in keys PROVE id < next'
    <3>1. next' = scan.highest + 1 /\ id <= scan.highest
            /\ scan.highest \in Ids \cup {-1} /\ id \in Ids
      BY <1>1, <2>1 DEF ScanEnds, ResumeAt, KeyInv, KeyTypeOK, Scanned
    <3> QED BY <3>1 DEF Ids
  <2>4. SUFFICES ASSUME NEW id \in Findable, id \notin keys
                 PROVE  LongGap(Findable)
    BY <2>2, <2>3
  <2>5. id >= scan.at /\ id \in Nat /\ id \in Ids
    BY <2>2, <2>4 DEF Ids
  <2>6. scan.at - Gap \in Ids
    BY <2>2, <2>5, KeyAssumption DEF Ids
  <2>7. \A j \in (scan.at - Gap)..(scan.at - Gap + Gap - 1) : j \notin Findable
    BY <2>2 DEF Ids
  <2>8. id >= scan.at - Gap + Gap
    BY <2>2, <2>5
  <2> QED BY <2>6, <2>7, <2>8 DEF LongGap
<1>2. KeyInv /\ [Next]_vars =>
        [phase = "scan" /\ phase' = "serving" =>
           LongGap(Findable) \/ \A id \in Findable : id \in keys' /\ id < next']_vars
  BY <1>1
<1> QED BY SpecKeyInv, <1>2, PTL DEF Spec, RebuildFinds
=============================================================================
