--------------------------- MODULE RunServerProofs ---------------------------
(***************************************************************************)
(* What RunServer keeps for any number of runs and goals, any cache size,  *)
(* time to live and probe timeout.  The invariant has three parts: how old *)
(* the probe's knowledge is (Health), what is on disk of the runs that are *)
(* past their save (Store), and what the contract holds of the runs that   *)
(* sent a transaction (Chain).                                             *)
(***************************************************************************)
EXTENDS RunServer, TLAPS

\* Run r has been on disk.
WasSaved(r) == \E i \in DOMAIN saves[goal[r]] : saves[goal[r]][i] = r

PastSave(r) ==
  \/ pc[r] \in {"saved", "sending", "waiting"}
  \/ report[r] \in {"skipped", "anchored", "already", "failed"}
  \/ sent[r] # "no"

Health ==
  /\ inco => sinceUp = 0
  /\ probe.answered => probe.on /\ sinceUp <= probe.age
  /\ last.status = "ready" /\ last.age < Ttl => sinceUp <= last.age + Timeout

Store ==
  /\ \A r \in Runs : goal[r] \notin LongIds /\ PastSave(r) => WasSaved(r)
  /\ \A g \in Goals : saves[g] # <<>> => saves[g][Len(saves[g])] = disk[g]

Chain ==
  /\ \A r \in Runs : sent[r] = "success" => anchors[goal[r]] = r
  /\ \A g \in Goals : anchors[g] \in Runs =>
       goal[anchors[g]] = g /\ sent[anchors[g]] # "no"

IInv ==
  ServerTypeOK /\ Health /\ Store /\ Chain /\ CacheIsDurable /\ OutcomeIsTrue

-----------------------------------------------------------------------------
(* What a save does to the history.                                        *)

LEMMA AppendKeeps ==
  ASSUME NEW S, NEW s \in Seq(S), NEW x \in S
  PROVE  /\ Append(s, x) \in Seq(S)
         /\ Append(s, x) # <<>>
         /\ Len(Append(s, x)) \in DOMAIN Append(s, x)
         /\ Append(s, x)[Len(Append(s, x))] = x
         /\ \A i \in DOMAIN s : i \in DOMAIN Append(s, x) /\ Append(s, x)[i] = s[i]
OBVIOUS

\* Extends(g): goal g's history stays, or gets the run that is on disk now.
Extends(g) ==
  \/ saves'[g] = saves[g] /\ disk'[g] = disk[g]
  \/ \E r \in Runs : saves'[g] = Append(saves[g], r) /\ disk'[g] = r

\* A history that is only extended forgets no run and ends with what is on disk.
LEMMA HistoryGrows ==
  ASSUME IInv, UNCHANGED goal, \A g \in Goals : Extends(g),
         saves' \in [Goals -> Seq(Runs)]
  PROVE  /\ \A r \in Runs : WasSaved(r) => WasSaved(r)'
         /\ \A g \in Goals : saves'[g] # <<>> => saves'[g][Len(saves'[g])] = disk'[g]
<1>1. ASSUME NEW r \in Runs, WasSaved(r) PROVE WasSaved(r)'
  <2>1. goal[r] \in Goals /\ saves[goal[r]] \in Seq(Runs)
    BY DEF IInv, ServerTypeOK
  <2>2. PICK i \in DOMAIN saves[goal[r]] : saves[goal[r]][i] = r
    BY <1>1 DEF WasSaved
  <2>3. i \in DOMAIN saves'[goal[r]] /\ saves'[goal[r]][i] = r
    BY <2>1, <2>2, AppendKeeps, SMTT(30) DEF Extends
  <2> QED BY <2>3 DEF WasSaved
<1>2. ASSUME NEW g \in Goals, saves'[g] # <<>>
      PROVE  saves'[g][Len(saves'[g])] = disk'[g]
  <2>1. saves[g] \in Seq(Runs)
    BY DEF IInv, ServerTypeOK
  <2> QED BY <1>2, <2>1, AppendKeeps DEF Extends, IInv, Store
<1> QED BY <1>1, <1>2

-----------------------------------------------------------------------------
(* Steps by the variables that they leave alone.                           *)

\* The clocks of the probe, by themselves.
Clocks ==
  /\ probe \in [on : BOOLEAN, age : 0..Timeout, answered : BOOLEAN]
  /\ last \in [status : {"unknown", "ready", "unavailable"}, age : 0..Ttl]
  /\ sinceUp \in 0..(Oldest + 1)

LEMMA ClockFacts ==
  ASSUME IInv
  PROVE  /\ Clocks /\ Health
         /\ Ttl \in Nat \ {0} /\ Timeout \in Nat \ {0} /\ Oldest \in Nat
BY ServerAssumption DEF IInv, ServerTypeOK, Clocks, Oldest

LEMMA InitIInv == Init => IInv
<1> SUFFICES ASSUME Init PROVE IInv
  OBVIOUS
<1>1. ServerTypeOK
  BY ServerAssumption DEF Init, ServerTypeOK, NoProbe, NoHealth, Oldest
<1>2. Health
  BY DEF Init, Health, NoProbe, NoHealth
<1>3. Store
  BY ServerAssumption DEF Init, Store, PastSave
<1>4. Chain /\ CacheIsDurable /\ OutcomeIsTrue
  BY ServerAssumption DEF Init, Chain, CacheIsDurable, OutcomeIsTrue
<1> QED BY <1>1, <1>2, <1>3, <1>4 DEF IInv

\* A step of the gate moves no run past its save.
LEMMA GateStep ==
  ASSUME IInv, UNCHANGED <<goal, report, storeVars, chainVars>>,
         \A r \in Runs : pc'[r] \in {"saved", "sending", "waiting"} => pc'[r] = pc[r]
  PROVE  Store' /\ Chain' /\ CacheIsDurable' /\ OutcomeIsTrue'
<1>1. \A r \in Runs : PastSave(r)' => PastSave(r)
  BY DEF PastSave, storeVars, chainVars
<1>2. \A r \in Runs : WasSaved(r) => WasSaved(r)'
  BY DEF WasSaved, storeVars
<1> QED BY <1>1, <1>2 DEF IInv, Store, Chain, CacheIsDurable, OutcomeIsTrue,
           storeVars, chainVars

LEMMA HealthStays ==
  ASSUME IInv, UNCHANGED healthVars PROVE Health'
BY DEF IInv, Health, healthVars

\* The outcome of a run that ends.
LEMMA EndTypes ==
  ASSUME ServerTypeOK, NEW r \in Runs, NEW outcome, End(r, outcome),
         outcome \in {"error", "cut", "skipped", "anchored", "already", "failed"}
  PROVE  /\ pc' \in [Runs -> {"idle", "checking", "refused", "paying", "saved",
                              "sending", "waiting", "ended"}]
         /\ report' \in [Runs -> {"none", "error", "cut", "skipped", "anchored",
                                  "already", "failed"}]
         /\ goal' = goal
         /\ pc'[r] = "ended" /\ report'[r] = outcome
         /\ \A q \in Runs \ {r} : pc'[q] = pc[q] /\ report'[q] = report[q]
BY DEF ServerTypeOK, End

-----------------------------------------------------------------------------
(* One lemma per group of actions.                                         *)

LEMMA PostIInv ==
  ASSUME IInv, NEW r \in Runs, PostCached(r) \/ PostProbed(r) PROVE IInv'
<1>1. UNCHANGED <<goal, report, storeVars, chainVars, inco, last, sinceUp>>
  BY DEF PostCached, PostProbed, healthVars
<1>2. \/ probe' = probe
      \/ ~probe.on /\ probe' = [on |-> TRUE, age |-> 0, answered |-> FALSE]
  BY DEF PostCached, PostProbed, healthVars, StartProbe, NoProbe
<1>3. \/ pc' = [pc EXCEPT ![r] = "paying"] \/ pc' = [pc EXCEPT ![r] = "refused"]
      \/ pc' = [pc EXCEPT ![r] = "checking"]
  BY DEF PostCached, PostProbed, Admitted
<1>4. \A q \in Runs : pc'[q] \in {"saved", "sending", "waiting"} => pc'[q] = pc[q]
  BY <1>3 DEF IInv, ServerTypeOK
<1>5. ServerTypeOK'
  <2>1. probe' \in [on : BOOLEAN, age : 0..Timeout, answered : BOOLEAN]
    <3>1. 0 \in 0..Timeout
      BY ClockFacts
    <3>2. CASE probe' = probe
      BY <3>2, ClockFacts DEF Clocks
    <3>3. CASE probe' = [on |-> TRUE, age |-> 0, answered |-> FALSE]
      BY <3>1, <3>3
    <3> QED BY <1>2, <3>2, <3>3
  <2> QED BY <1>1, <1>3, <2>1 DEF IInv, ServerTypeOK, storeVars, chainVars
<1>6. Health'
  BY <1>1, <1>2 DEF IInv, Health
<1> QED BY <1>1, <1>4, <1>5, <1>6, GateStep DEF IInv

LEMMA ProbeIInv ==
  ASSUME IInv, AskHealth \/ IncoAnswers PROVE IInv'
<1>1. UNCHANGED <<runVars, storeVars, chainVars, inco, last, sinceUp>>
  BY DEF AskHealth, IncoAnswers
<1>2. \/ ~probe.on /\ probe' = [on |-> TRUE, age |-> 0, answered |-> FALSE]
      \/ inco /\ probe.on /\ probe' = [probe EXCEPT !.answered = TRUE]
  BY DEF AskHealth, IncoAnswers, StartProbe, NoProbe
<1>3. probe' \in [on : BOOLEAN, age : 0..Timeout, answered : BOOLEAN]
  <2>1. 0 \in 0..Timeout
    BY ClockFacts
  <2>2. CASE probe' = [on |-> TRUE, age |-> 0, answered |-> FALSE]
    BY <2>1, <2>2
  <2>3. CASE probe' = [probe EXCEPT !.answered = TRUE]
    BY <2>3, ClockFacts DEF Clocks
  <2> QED BY <1>2, <2>2, <2>3
<1>4. ServerTypeOK'
  BY <1>1, <1>3 DEF IInv, ServerTypeOK, runVars, storeVars, chainVars
<1>5. Health'
  <2>1. /\ inco => sinceUp = 0
        /\ probe.answered => probe.on /\ sinceUp <= probe.age
        /\ probe \in [on : BOOLEAN, age : 0..Timeout, answered : BOOLEAN]
    BY ClockFacts DEF Clocks, Health
  <2>2. CASE probe' = [on |-> TRUE, age |-> 0, answered |-> FALSE]
    BY <1>1, <2>1, <2>2, ClockFacts DEF Health
  <2>3. CASE inco /\ probe.on /\ probe' = [probe EXCEPT !.answered = TRUE]
    <3>1. probe'.on = probe.on /\ probe'.age = probe.age
      BY <2>1, <2>3
    <3>2. sinceUp' <= probe'.age /\ probe'.on
      BY <1>1, <2>1, <2>3, <3>1
    <3> QED BY <1>1, <3>2, ClockFacts DEF Health
  <2> QED BY <1>2, <2>2, <2>3
<1> QED BY <1>1, <1>4, <1>5, GateStep DEF IInv, runVars

LEMMA ProbeEndIInv ==
  ASSUME IInv, ProbeSucceeds \/ ProbeFails \/ ProbeTimesOut PROVE IInv'
<1>1. PICK status \in {"ready", "unavailable"} :
        ProbeEnds(status) /\ (status = "ready" => probe.answered)
  BY DEF ProbeSucceeds, ProbeFails, ProbeTimesOut
<1>2. UNCHANGED <<goal, report, storeVars, chainVars, inco, sinceUp>>
  BY <1>1 DEF ProbeEnds
<1>3. /\ probe' = [on |-> FALSE, age |-> 0, answered |-> FALSE]
      /\ last' = [status |-> status, age |-> 0]
  BY <1>1 DEF ProbeEnds, NoProbe
<1>4. \A q \in Runs : pc'[q] \in {pc[q], "paying", "refused"}
  BY <1>1 DEF ProbeEnds, Admitted
<1>5. ServerTypeOK'
  <2>1. pc' \in [Runs -> {"idle", "checking", "refused", "paying", "saved",
                          "sending", "waiting", "ended"}]
    BY <1>1 DEF ProbeEnds, Admitted, IInv, ServerTypeOK
  <2>2. last' \in [status : {"unknown", "ready", "unavailable"}, age : 0..Ttl]
    BY <1>3, ServerAssumption
  <2>3. probe' \in [on : BOOLEAN, age : 0..Timeout, answered : BOOLEAN]
    BY <1>3, ServerAssumption
  <2> QED BY <1>2, <2>1, <2>2, <2>3 DEF IInv, ServerTypeOK, storeVars, chainVars
<1>6. Health'
  BY <1>1, <1>2, <1>3, ServerAssumption DEF IInv, Health, ServerTypeOK
<1> QED BY <1>2, <1>4, <1>5, <1>6, GateStep DEF IInv

LEMMA WorldIInv == ASSUME IInv, Tick \/ IncoTurns PROVE IInv'
<1>1. UNCHANGED <<runVars, storeVars, chainVars>>
  BY DEF Tick, IncoTurns
<1>2. CASE Tick
  <2>1. /\ probe.on => probe.age # Timeout
        /\ UNCHANGED inco
        /\ last' = [last EXCEPT !.age = IF last.age < Ttl THEN last.age + 1 ELSE last.age]
        /\ probe' = [probe EXCEPT !.age = IF probe.on /\ probe.age < Timeout
                                            THEN probe.age + 1 ELSE probe.age]
        /\ sinceUp' = IF inco THEN 0
                      ELSE IF sinceUp > Oldest THEN sinceUp ELSE sinceUp + 1
    BY <1>2 DEF Tick, GivenUp
  <2>2. Oldest \in Nat /\ Ttl \in Nat /\ Timeout \in Nat
    BY ServerAssumption DEF Oldest
  <2>3. sinceUp' \in 0..(Oldest + 1) /\ sinceUp' <= sinceUp + 1
    BY <2>1, <2>2, ClockFacts DEF Clocks
  <2>4. last' \in [status : {"unknown", "ready", "unavailable"}, age : 0..Ttl]
    BY <2>1, <2>2, ClockFacts DEF Clocks
  <2>5. probe' \in [on : BOOLEAN, age : 0..Timeout, answered : BOOLEAN]
    BY <2>1, <2>2, ClockFacts DEF Clocks
  <2>6. ServerTypeOK'
    BY <1>1, <2>1, <2>3, <2>4, <2>5
       DEF IInv, ServerTypeOK, runVars, storeVars, chainVars
  <2>7. probe'.answered => probe'.on /\ sinceUp' <= probe'.age
    BY <2>1, <2>2, <2>3, ClockFacts DEF Clocks, Health
  <2>8. last'.status = "ready" /\ last'.age < Ttl => sinceUp' <= last'.age + Timeout
    BY <2>1, <2>2, <2>3, ClockFacts DEF Clocks, Health
  <2>9. Health'
    BY <2>1, <2>7, <2>8 DEF Health
  <2> QED BY <1>1, <2>6, <2>9, GateStep DEF IInv, runVars
<1>3. CASE IncoTurns
  <2>1. inco' \in BOOLEAN /\ sinceUp' = 0 /\ UNCHANGED <<probe, last>>
    BY <1>3 DEF IncoTurns, IInv, ServerTypeOK
  <2>2. 0 \in 0..(Oldest + 1)
    BY ServerAssumption DEF Oldest
  <2>3. ServerTypeOK'
    BY <1>1, <2>1, <2>2 DEF IInv, ServerTypeOK, runVars, storeVars, chainVars
  <2>4. Health'
    BY <2>1, ServerAssumption DEF IInv, Health, ServerTypeOK
  <2> QED BY <1>1, <2>3, <2>4, GateStep DEF IInv, runVars
<1> QED BY <1>2, <1>3

\* A run that ends, or that goes on to an await before its transaction, with
\* the store, the contract and the transactions as they were.
LEMMA MovesOn ==
  ASSUME IInv, NEW r \in Runs, UNCHANGED <<healthVars, goal, storeVars, anchors>>,
         ServerTypeOK', OutcomeIsTrue',
         PastSave(r) \/ ~PastSave(r)',
         \A q \in Runs \ {r} : pc'[q] = pc[q] /\ report'[q] = report[q] /\ sent'[q] = sent[q],
         sent'[r] \in {sent[r], "pending"}
  PROVE  IInv'
<1>1. Health'
  BY HealthStays
<1>2. \A q \in Runs : PastSave(q)' => PastSave(q)
  BY DEF PastSave
<1>3. \A q \in Runs : WasSaved(q) => WasSaved(q)'
  BY DEF WasSaved, storeVars
<1>4. Store'
  BY <1>2, <1>3 DEF IInv, Store, storeVars
<1>5. Chain'
  BY DEF IInv, Chain
<1>6. CacheIsDurable'
  BY DEF IInv, CacheIsDurable, storeVars
<1> QED BY <1>1, <1>4, <1>5, <1>6 DEF IInv

LEMMA EndIInv ==
  ASSUME IInv, NEW r \in Runs,
         Throws(r) \/ SaveFails(r) \/ AnchorSkipped(r) \/ AnchorReceipt(r) \/ AnchorFails(r)
  PROVE  IInv'
<1>1. PICK outcome \in {"error", "cut", "skipped", "anchored", "failed"} :
        /\ End(r, outcome)
        /\ outcome \in {"error", "cut"} => pc[r] = "paying" /\ sent' = sent
        /\ outcome \notin {"error", "cut"} => pc[r] \in {"saved", "sending", "waiting"}
        /\ outcome = "anchored" => sent[r] = "success"
        /\ sent' # sent => pc[r] = "sending" /\ sent' = [sent EXCEPT ![r] = "pending"]
  BY DEF Throws, SaveFails, AnchorSkipped, AnchorReceipt, AnchorFails, End, Outcome,
         AfterFailedSave, chainVars
<1>2. UNCHANGED <<healthVars, goal, storeVars, anchors>>
  BY DEF Throws, SaveFails, AnchorSkipped, AnchorReceipt, AnchorFails, End,
         HeldAfterFailure, storeVars, chainVars
<1>3. sent' \in [Runs -> {"no", "pending", "success", "reverted"}]
  BY <1>1 DEF IInv, ServerTypeOK
<1>4. ServerTypeOK'
  BY <1>1, <1>2, <1>3, EndTypes DEF IInv, ServerTypeOK, healthVars, storeVars
<1>5. OutcomeIsTrue'
  BY <1>1, <1>2, EndTypes DEF IInv, OutcomeIsTrue, Chain
<1>6. PastSave(r) \/ ~PastSave(r)'
  BY <1>1, EndTypes DEF PastSave, IInv
<1>7. /\ \A q \in Runs \ {r} : sent'[q] = sent[q]
      /\ sent'[r] \in {sent[r], "pending"}
  BY <1>1 DEF IInv, ServerTypeOK
<1> QED BY <1>1, <1>2, <1>4, <1>5, <1>6, <1>7, EndTypes, MovesOn DEF IInv

LEMMA AnchorIInv ==
  ASSUME IInv, NEW r \in Runs, AnchorRead(r) \/ AnchorSend(r) PROVE IInv'
<1>1. UNCHANGED <<healthVars, goal, storeVars, anchors>>
  BY DEF AnchorRead, AnchorSend, End, chainVars
<1>2. CASE AnchorSend(r)
  <2>1. /\ pc[r] = "sending" /\ report' = report
        /\ pc' = [pc EXCEPT ![r] = "waiting"] /\ sent' = [sent EXCEPT ![r] = "pending"]
    BY <1>2 DEF AnchorSend
  <2>2. ServerTypeOK'
    BY <1>1, <2>1 DEF IInv, ServerTypeOK, healthVars, storeVars
  <2>3. OutcomeIsTrue'
    BY <1>1, <2>1 DEF IInv, OutcomeIsTrue
  <2>4. PastSave(r)
    BY <2>1 DEF PastSave
  <2>5. /\ \A q \in Runs \ {r} : pc'[q] = pc[q] /\ report'[q] = report[q] /\ sent'[q] = sent[q]
        /\ sent'[r] \in {sent[r], "pending"}
    BY <2>1 DEF IInv, ServerTypeOK
  <2> QED BY <1>1, <2>2, <2>3, <2>4, <2>5, MovesOn
<1>3. CASE AnchorRead(r)
  <2>1. pc[r] = "saved" /\ sent' = sent
    BY <1>3 DEF AnchorRead, chainVars
  <2>2. PastSave(r)
    BY <2>1 DEF PastSave
  <2>3. CASE End(r, "already") /\ anchors[goal[r]] # None
    <3>1. ServerTypeOK'
      BY <1>1, <2>1, <2>3, EndTypes DEF IInv, ServerTypeOK, healthVars, storeVars
    <3>2. OutcomeIsTrue'
      BY <1>1, <2>3, EndTypes DEF IInv, OutcomeIsTrue
    <3> QED BY <1>1, <2>1, <2>2, <2>3, <3>1, <3>2, EndTypes, MovesOn DEF IInv
  <2>4. CASE pc' = [pc EXCEPT ![r] = "sending"] /\ report' = report
    <3>1. ServerTypeOK'
      BY <1>1, <2>1, <2>4 DEF IInv, ServerTypeOK, healthVars, storeVars
    <3>2. OutcomeIsTrue'
      BY <1>1, <2>4 DEF IInv, OutcomeIsTrue
    <3>3. \A q \in Runs \ {r} : pc'[q] = pc[q] /\ report'[q] = report[q]
      BY <2>4 DEF IInv, ServerTypeOK
    <3> QED BY <1>1, <2>1, <2>2, <3>1, <3>2, <3>3, MovesOn
  <2> QED BY <1>3, <2>3, <2>4 DEF AnchorRead
<1> QED BY <1>2, <1>3

LEMMA MinedIInv == ASSUME IInv, NEW r \in Runs, Mined(r) PROVE IInv'
<1>1. /\ sent[r] = "pending" /\ UNCHANGED <<healthVars, runVars, storeVars>>
      /\ goal[r] \in Goals
  BY DEF Mined, IInv, ServerTypeOK
<1>t. /\ anchors \in [Goals -> Runs \cup {None, Foreign}]
      /\ sent \in [Runs -> {"no", "pending", "success", "reverted"}]
  BY DEF IInv, ServerTypeOK
<1>2. \/ /\ anchors[goal[r]] = None
         /\ anchors' = [anchors EXCEPT ![goal[r]] = r]
         /\ sent' = [sent EXCEPT ![r] = "success"]
      \/ anchors' = anchors /\ sent' = [sent EXCEPT ![r] = "reverted"]
  BY DEF Mined, Unanchored
<1>3. ServerTypeOK'
  <2>1. anchors' \in [Goals -> Runs \cup {None, Foreign}]
    <3>1. CASE anchors' = anchors
      BY <1>t, <3>1
    <3>2. CASE anchors' = [anchors EXCEPT ![goal[r]] = r]
      BY <1>t, <3>2
    <3> QED BY <1>2, <3>1, <3>2
  <2>2. sent' \in [Runs -> {"no", "pending", "success", "reverted"}]
    <3>1. CASE sent' = [sent EXCEPT ![r] = "success"]
      BY <1>t, <3>1
    <3>2. CASE sent' = [sent EXCEPT ![r] = "reverted"]
      BY <1>t, <3>2
    <3> QED BY <1>2, <3>1, <3>2
  <2> QED BY <1>1, <2>1, <2>2 DEF IInv, ServerTypeOK, healthVars, runVars, storeVars
<1>4. Store'
  <2>1. \A q \in Runs : PastSave(q)' => PastSave(q)
    BY <1>1, <1>2 DEF PastSave, runVars, IInv, ServerTypeOK
  <2>2. \A q \in Runs : WasSaved(q) => WasSaved(q)'
    BY <1>1 DEF WasSaved, runVars, storeVars
  <2> QED BY <1>1, <2>1, <2>2 DEF IInv, Store, storeVars, runVars
<1>5. Chain'
  <2>1. goal' = goal /\ anchors \in [Goals -> Runs \cup {None, Foreign}]
          /\ sent \in [Runs -> {"no", "pending", "success", "reverted"}] /\ Chain
    BY <1>1 DEF runVars, IInv, ServerTypeOK
  <2>2. CASE /\ anchors[goal[r]] = None
             /\ anchors' = [anchors EXCEPT ![goal[r]] = r]
             /\ sent' = [sent EXCEPT ![r] = "success"]
    <3>1. \A g \in Goals : anchors'[g] = IF g = goal[r] THEN r ELSE anchors[g]
      BY <2>1, <2>2
    <3>2. \A q \in Runs : sent'[q] = IF q = r THEN "success" ELSE sent[q]
      BY <2>1, <2>2
    <3> QED BY <1>1, <2>1, <2>2, <3>1, <3>2, ServerAssumption DEF Chain, IInv, ServerTypeOK
  <2>3. CASE anchors' = anchors /\ sent' = [sent EXCEPT ![r] = "reverted"]
    <3>1. \A q \in Runs : sent'[q] = IF q = r THEN "reverted" ELSE sent[q]
      BY <2>1, <2>3
    <3> QED BY <1>1, <2>1, <2>3, <3>1 DEF Chain
  <2> QED BY <1>2, <2>2, <2>3
<1>6. OutcomeIsTrue'
  BY <1>1, <1>2, ServerAssumption DEF IInv, OutcomeIsTrue, ServerTypeOK, runVars
<1>7. CacheIsDurable'
  BY <1>1 DEF IInv, CacheIsDurable, storeVars
<1> QED BY <1>1, <1>3, <1>4, <1>5, <1>6, <1>7, HealthStays DEF IInv

LEMMA ForeignIInv == ASSUME IInv, NEW g \in Goals, ForeignAnchor(g) PROVE IInv'
<1>1. /\ anchors[g] = None /\ anchors' = [anchors EXCEPT ![g] = Foreign]
      /\ UNCHANGED <<healthVars, runVars, storeVars, sent>>
  BY DEF ForeignAnchor, Unanchored
<1>2. ServerTypeOK'
  BY <1>1 DEF IInv, ServerTypeOK, healthVars, runVars, storeVars
<1>3. Store' /\ CacheIsDurable'
  <2>1. \A q \in Runs : (PastSave(q)' => PastSave(q)) /\ (WasSaved(q) => WasSaved(q)')
    BY <1>1 DEF PastSave, WasSaved, runVars, storeVars
  <2> QED BY <1>1, <2>1 DEF IInv, Store, CacheIsDurable, storeVars, runVars
<1>4. Chain' /\ OutcomeIsTrue'
  BY <1>1, ServerAssumption DEF IInv, Chain, OutcomeIsTrue, ServerTypeOK, runVars
<1> QED BY <1>1, <1>2, <1>3, <1>4, HealthStays DEF IInv

LEMMA ReadIInv == ASSUME IInv, NEW g \in Goals, ReadTrace(g) PROVE IInv'
<1>1. /\ UNCHANGED <<healthVars, runVars, disk, saves, chainVars>>
      /\ held' = IF held[g] = None THEN [held EXCEPT ![g] = disk[g]] ELSE held
  BY DEF ReadTrace
<1>2. ServerTypeOK'
  BY <1>1 DEF IInv, ServerTypeOK, healthVars, runVars, chainVars
<1>3. Store'
  <2>1. \A q \in Runs : (PastSave(q)' => PastSave(q)) /\ (WasSaved(q) => WasSaved(q)')
    BY <1>1 DEF PastSave, WasSaved, runVars, chainVars
  <2> QED BY <1>1, <2>1 DEF IInv, Store, runVars
<1>4. Chain' /\ OutcomeIsTrue'
  BY <1>1 DEF IInv, Chain, OutcomeIsTrue, runVars, chainVars
<1>5. CacheIsDurable'
  BY <1>1 DEF IInv, CacheIsDurable, ServerTypeOK
<1> QED BY <1>1, <1>2, <1>3, <1>4, <1>5, HealthStays DEF IInv

LEMMA FinishIInv == ASSUME IInv, NEW r \in Runs, Finish(r) PROVE IInv'
<1>1. /\ pc[r] = "paying" /\ pc' = [pc EXCEPT ![r] = "saved"]
      /\ UNCHANGED <<healthVars, goal, report, chainVars>>
  BY DEF Finish
<1>2. CASE goal[r] \in LongIds
  <2>1. UNCHANGED storeVars
    BY <1>2 DEF Finish
  <2>2. ServerTypeOK'
    BY <1>1, <2>1 DEF IInv, ServerTypeOK, healthVars, storeVars, chainVars
  <2>3. Store'
    <3>1. \A q \in Runs : PastSave(q)' => PastSave(q) \/ q = r
      BY <1>1 DEF PastSave, chainVars, IInv, ServerTypeOK
    <3>2. \A q \in Runs : WasSaved(q) => WasSaved(q)'
      BY <1>1, <2>1 DEF WasSaved, storeVars
    <3> QED BY <1>1, <1>2, <2>1, <3>1, <3>2 DEF IInv, Store, storeVars
  <2>4. Chain' /\ OutcomeIsTrue' /\ CacheIsDurable'
    BY <1>1, <2>1 DEF IInv, Chain, OutcomeIsTrue, CacheIsDurable, storeVars, chainVars
  <2> QED BY <1>1, <2>2, <2>3, <2>4, HealthStays DEF IInv
<1>3. CASE goal[r] \notin LongIds
  <2>1. Save(r) /\ goal[r] \in Goals
    BY <1>3 DEF Finish, IInv, ServerTypeOK
  <2>2. /\ disk' = [disk EXCEPT ![goal[r]] = r]
        /\ saves' = [saves EXCEPT ![goal[r]] = Append(saves[goal[r]], r)]
    BY <2>1 DEF Save
  <2>3. PICK out : held' = [held EXCEPT ![goal[r]] = r, ![out] = None]
                  \/ held' = [held EXCEPT ![goal[r]] = r]
    BY <2>1 DEF Save
  <2>4. /\ held' \in [Goals -> Runs \cup {None}]
        /\ \A g \in Goals : held'[g] \in {None, IF g = goal[r] THEN r ELSE held[g]}
    <3> DEFINE h == [held EXCEPT ![goal[r]] = r]
    <3>1. /\ h \in [Goals -> Runs \cup {None}]
          /\ \A g \in Goals : h[g] = IF g = goal[r] THEN r ELSE held[g]
      BY <2>1 DEF IInv, ServerTypeOK
    <3>2. held' = [h EXCEPT ![out] = None] \/ held' = h
      BY <2>3
    <3> HIDE DEF h
    <3>3. held' \in [Goals -> Runs \cup {None}]
      BY <3>1, <3>2
    <3>4. \A g \in Goals : held'[g] \in {None, h[g]}
      BY <3>1, <3>2
    <3> QED BY <3>1, <3>3, <3>4
  <2>5. /\ disk' \in [Goals -> Runs \cup {None}]
        /\ \A g \in Goals : disk'[g] = IF g = goal[r] THEN r ELSE disk[g]
    BY <2>2 DEF IInv, ServerTypeOK
  <2>6. saves' \in [Goals -> Seq(Runs)]
    BY <2>1, <2>2, AppendKeeps DEF IInv, ServerTypeOK
  <2>7. ServerTypeOK'
    BY <1>1, <2>4, <2>5, <2>6 DEF IInv, ServerTypeOK, healthVars, chainVars
  <2>8. \A g \in Goals : Extends(g)
    BY <2>2, <2>5 DEF Extends, IInv, ServerTypeOK
  <2>9. Store'
    <3>1. \A q \in Runs : PastSave(q)' => PastSave(q) \/ q = r
      BY <1>1 DEF PastSave, chainVars, IInv, ServerTypeOK
    <3>2. WasSaved(r)'
      <4>1. saves[goal[r]] \in Seq(Runs)
        BY <2>1 DEF IInv, ServerTypeOK
      <4>2. saves'[goal[r]] = Append(saves[goal[r]], r)
        BY <2>1, <2>2 DEF IInv, ServerTypeOK
      <4>3. /\ Len(saves'[goal[r]]) \in DOMAIN saves'[goal[r]]
            /\ saves'[goal[r]][Len(saves'[goal[r]])] = r
        BY <4>1, <4>2, AppendKeeps
      <4> QED BY <1>1, <4>3 DEF WasSaved
    <3> QED BY <1>1, <2>6, <2>8, <3>1, <3>2, HistoryGrows DEF IInv, Store
  <2>10. CacheIsDurable'
    BY <2>4, <2>5, ServerAssumption DEF IInv, CacheIsDurable
  <2>11. Chain' /\ OutcomeIsTrue'
    BY <1>1 DEF IInv, Chain, OutcomeIsTrue, chainVars
  <2> QED BY <1>1, <2>7, <2>9, <2>10, <2>11, HealthStays DEF IInv
<1> QED BY <1>2, <1>3

LEMMA CrashIInv ==
  ASSUME IInv, NEW landed \in SUBSET Runs, Crash(landed) PROVE IInv'
<1>1. UNCHANGED <<inco, sinceUp, goal, chainVars>>
  BY DEF Crash
<1>2. \A g \in Goals :
        \/ saves'[g] = saves[g] /\ disk'[g] = disk[g]
        \/ \E r \in landed : saves'[g] = Append(saves[g], r) /\ disk'[g] = r
  BY DEF Crash, SavedByRename
<1>3. \A g \in Goals : Extends(g)
  BY <1>2 DEF Extends
<1>4. /\ disk' \in [Goals -> Runs \cup {None}]
      /\ saves' \in [Goals -> Seq(Runs)]
      /\ held' \in [Goals -> Runs \cup {None}]
  <2>1. \A g \in Goals : disk'[g] \in Runs \cup {None} /\ saves'[g] \in Seq(Runs)
    <3> TAKE g \in Goals
    <3>1. saves[g] \in Seq(Runs) /\ disk[g] \in Runs \cup {None}
      BY DEF IInv, ServerTypeOK
    <3>2. \A r \in landed : r \in Runs /\ Append(saves[g], r) \in Seq(Runs)
      BY <3>1, AppendKeeps
    <3> QED BY <1>2, <3>1, <3>2
  <2>2. /\ disk' = [g \in Goals |-> disk'[g]]
        /\ saves' = [g \in Goals |-> saves'[g]]
        /\ held' = [g \in Goals |-> None]
    BY DEF Crash
  <2> QED BY <2>1, <2>2
<1>5. /\ pc' \in [Runs -> {"idle", "checking", "refused", "paying", "saved",
                           "sending", "waiting", "ended"}]
      /\ report' \in [Runs -> {"none", "error", "cut", "skipped", "anchored",
                               "already", "failed"}]
      /\ \A r \in Runs : pc'[r] \in {"idle", "refused", "ended"}
                         /\ report'[r] \in {report[r], "cut"}
  BY DEF Crash, IInv, ServerTypeOK
<1>6. ServerTypeOK' /\ Health'
  <2>1. /\ probe' = [on |-> FALSE, age |-> 0, answered |-> FALSE]
        /\ last' = [status |-> "unknown", age |-> 0]
    BY DEF Crash, NoProbe, NoHealth
  <2>2. /\ probe' \in [on : BOOLEAN, age : 0..Timeout, answered : BOOLEAN]
        /\ last' \in [status : {"unknown", "ready", "unavailable"}, age : 0..Ttl]
    BY <2>1, ServerAssumption
  <2> QED BY <1>1, <1>4, <1>5, <2>1, <2>2 DEF IInv, ServerTypeOK, Health, chainVars
<1>7. Store'
  <2>1. \A q \in Runs : PastSave(q)' => PastSave(q)
    BY <1>1, <1>5 DEF PastSave, chainVars
  <2> QED BY <1>1, <1>3, <1>4, <2>1, HistoryGrows DEF IInv, Store
<1>8. Chain' /\ OutcomeIsTrue'
  BY <1>1, <1>5 DEF IInv, Chain, OutcomeIsTrue, chainVars
<1>9. CacheIsDurable'
  BY ServerAssumption DEF Crash, CacheIsDurable
<1> QED BY <1>6, <1>7, <1>8, <1>9 DEF IInv

LEMMA NextIInv == IInv /\ [Next]_vars => IInv'
<1> SUFFICES ASSUME IInv, [Next]_vars PROVE IInv'
  OBVIOUS
<1>1. CASE UNCHANGED vars
  <2>1. ServerTypeOK' /\ Health'
    BY <1>1 DEF IInv, ServerTypeOK, Health, vars, healthVars, runVars, storeVars, chainVars
  <2> QED BY <1>1, <2>1, GateStep DEF IInv, vars, runVars
<1>2. CASE Next
  BY <1>2, PostIInv, ProbeIInv, ProbeEndIInv, WorldIInv, EndIInv, AnchorIInv,
     MinedIInv, ForeignIInv, ReadIInv, FinishIInv, CrashIInv DEF Next
<1> QED BY <1>1, <1>2

LEMMA Invariance == Spec => []IInv
BY InitIInv, NextIInv, PTL DEF Spec

-----------------------------------------------------------------------------
(* The results.                                                            *)

\* What is in memory is on disk, through every overwrite, eviction, reload,
\* failed write and crash of the trace store.
THEOREM MemoryIsOnDisk == Spec => []CacheIsDurable
<1>1. IInv => CacheIsDurable
  BY DEF IInv
<1> QED BY <1>1, Invariance, PTL

\* A run that streamed a result has its trace on disk, or a later one of its goal.
THEOREM ReportsAreKept == Spec => []ReportedIsKept
<1>1. ASSUME IInv PROVE ReportedIsKept
  <2> SUFFICES ASSUME NEW r \in Runs, goal[r] \notin LongIds,
                      report[r] \in {"skipped", "anchored", "already", "failed"}
               PROVE  LET s == saves[goal[r]] IN
                      \E i, j \in DOMAIN s : i <= j /\ s[i] = r /\ s[j] = disk[goal[r]]
    BY DEF ReportedIsKept
  <2>1. goal[r] \in Goals /\ saves[goal[r]] \in Seq(Runs)
    BY <1>1 DEF IInv, ServerTypeOK
  <2>2. PICK i \in DOMAIN saves[goal[r]] : saves[goal[r]][i] = r
    BY <1>1 DEF IInv, Store, PastSave, WasSaved
  <2>3. /\ saves[goal[r]] # <<>> /\ i <= Len(saves[goal[r]])
        /\ Len(saves[goal[r]]) \in DOMAIN saves[goal[r]]
    BY <2>1, <2>2
  <2>4. saves[goal[r]][Len(saves[goal[r]])] = disk[goal[r]]
    BY <1>1, <2>1, <2>3 DEF IInv, Store
  <2> QED BY <2>2, <2>3, <2>4
<1> QED BY <1>1, Invariance, PTL

\* No root of this server is anchored whose trace was never on disk.
THEOREM AnchorsHaveTraces == Spec => []AnchoredWasSaved
<1>1. IInv => AnchoredWasSaved
  BY DEF IInv, Store, Chain, PastSave, WasSaved, AnchoredWasSaved
<1> QED BY <1>1, Invariance, PTL

\* What a stream said of its anchor is what the contract holds for ever.
THEOREM ReportedAnchorsHold == Spec => []OutcomeIsTrue
<1>1. IInv => OutcomeIsTrue
  BY DEF IInv
<1> QED BY <1>1, Invariance, PTL

\* The ages never leave their bounds, and the state keeps its shape.
THEOREM ServerTypes == Spec => []ServerTypeOK
<1>1. IInv => ServerTypeOK
  BY DEF IInv
<1> QED BY <1>1, Invariance, PTL

\* Nobody is let in on knowledge older than one probe and one time to live.
THEOREM GateIsFresh == Spec => AdmittedWhileFresh
<1>1. ASSUME IInv, [Next]_vars
      PROVE  [\A r \in Runs : Admits(r) => sinceUp <= Oldest]_vars
  <2> SUFFICES ASSUME Next, NEW r \in Runs, pc[r] # "paying", pc'[r] = "paying"
               PROVE  sinceUp <= Oldest
    BY <1>1 DEF Admits
  <2>1. \/ \E q \in Runs : PostCached(q) /\ Admitted(last.status) = "paying"
        \/ ProbeSucceeds
    <3>1. ~UNCHANGED pc
      OBVIOUS
    <3>2. ASSUME NEW q \in Runs, NEW at \in {"checking", "saved", "sending", "waiting",
                                             "refused", "ended"},
                 pc' = [pc EXCEPT ![q] = at]
          PROVE  FALSE
      BY <1>1, <3>2 DEF IInv, ServerTypeOK
    <3>3. ~\E q \in Runs : PostProbed(q) \/ Finish(q) \/ Throws(q) \/ SaveFails(q)
                          \/ AnchorSkipped(q) \/ AnchorRead(q) \/ AnchorSend(q)
                          \/ AnchorReceipt(q) \/ AnchorFails(q)
      BY <3>2 DEF PostProbed, Finish, Throws, SaveFails, AfterFailedSave, AnchorSkipped,
         AnchorRead, AnchorSend, AnchorReceipt, AnchorFails, End
    <3>4. ~\E q \in Runs : Mined(q)
      BY <3>1 DEF Mined, runVars
    <3>5. ~\E g \in Goals : ReadTrace(g) \/ ForeignAnchor(g)
      BY <3>1 DEF ReadTrace, ForeignAnchor, runVars
    <3>6. ~(AskHealth \/ IncoAnswers \/ Tick \/ IncoTurns)
      BY <3>1 DEF AskHealth, IncoAnswers, Tick, IncoTurns, runVars
    <3>7. ~(ProbeFails \/ ProbeTimesOut)
      BY DEF ProbeFails, ProbeTimesOut, ProbeEnds, Admitted
    <3>8. ~\E landed \in SUBSET Runs : Crash(landed)
      BY DEF Crash
    <3>9. ASSUME NEW q \in Runs, PostCached(q) PROVE Admitted(last.status) = "paying"
      BY <3>2, <3>9 DEF PostCached, Admitted
    <3> QED BY <3>3, <3>4, <3>5, <3>6, <3>7, <3>8, <3>9 DEF Next
  <2>2. CASE \E q \in Runs : PostCached(q) /\ Admitted(last.status) = "paying"
    <3>1. last.status = "ready" /\ last.age < Ttl
      BY <2>2 DEF PostCached, Fresh, Admitted
    <3> QED BY <1>1, <3>1, ClockFacts DEF Clocks, Health, Oldest
  <2>3. CASE ProbeSucceeds
    BY <1>1, <2>3, ClockFacts DEF ProbeSucceeds, Clocks, Health, Oldest
  <2> QED BY <2>1, <2>2, <2>3
<1> QED BY <1>1, Invariance, PTL DEF Spec, AdmittedWhileFresh
=============================================================================
