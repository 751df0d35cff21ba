----------------------------- MODULE RunServer -----------------------------
(***************************************************************************)
(* The orchestrator's HTTP server (orchestrator/src/server.ts): what it    *)
(* does around the payment loop.  A POST /runs is let in when Inco can     *)
(* reveal decisions (inco/health.ts), its trace is saved (trace-store.ts)  *)
(* and the root anchored on chain (pay/anchor.ts, TraceAnchor.sol).        *)
(*                                                                         *)
(* The process is single-threaded: an action is what one request does from *)
(* one await to the next.  Nothing orders the requests of one goal.        *)
(* Times are ages, counted in ticks.  A run stands for the trace it builds *)
(* and for the root of that trace, since every step hashes its time.       *)
(***************************************************************************)
EXTENDS Integers, Sequences

CONSTANTS
  Runs,       \* requests to run, each with the trace it will build
  Goals,
  LongIds,    \* the goals whose id the store does not take for a file name
  Requests,   \* which goals the runs may be for
  None,       \* no trace
  Foreign,    \* a root that somebody else anchors
  MaxCached,  \* traces kept in memory
  Ttl,        \* how long an answer of the probe is reused
  Timeout     \* how long one probe may take

ASSUME ServerAssumption ==
  /\ LongIds \subseteq Goals /\ Requests \subseteq [Runs -> Goals]
  /\ MaxCached \in Nat \ {0}
  /\ Ttl \in Nat \ {0} /\ Timeout \in Nat \ {0}
  /\ None \notin Runs /\ Foreign \notin Runs \cup {None}

\* The stalest answer that still lets a run in.
Oldest == Timeout + Ttl - 1

VARIABLES
  inco,     \* whether Inco can reveal now
  probe,    \* #inFlight: its age, and whether Inco has answered it
  last,     \* #last: what the probe found and its age
  pc,       \* run -> the await at which it stands
  goal,     \* run -> the goal of its request
  report,   \* run -> the outcome its stream showed
  disk,     \* goal -> the trace in its file
  held,     \* goal -> the trace in memory
  order,    \* the goals in memory, least recently used first
  anchors,  \* TraceAnchor: goal -> root
  sent,     \* run -> its anchor transaction
  sinceUp,  \* history: ticks since Inco could last reveal
  saves     \* history: goal -> the runs saved, in order

healthVars == <<inco, probe, last, sinceUp>>
runVars    == <<pc, goal, report>>
storeVars  == <<disk, held, order, saves>>
chainVars  == <<anchors, sent>>
vars       == <<healthVars, runVars, storeVars, chainVars>>

NoProbe   == [on |-> FALSE, age |-> 0, answered |-> FALSE]
NoHealth  == [status |-> "unknown", age |-> 0]

Init ==
  /\ inco \in BOOLEAN
  /\ probe = NoProbe
  /\ last = NoHealth
  /\ pc = [r \in Runs |-> "idle"]
  /\ goal \in Requests
  /\ report = [r \in Runs |-> "none"]
  /\ disk = [g \in Goals |-> None]
  /\ held = [g \in Goals |-> None]
  /\ order = <<>>
  /\ anchors = [g \in Goals |-> None]
  /\ sent = [r \in Runs |-> "no"]
  /\ sinceUp = IF inco THEN 0 ELSE Oldest + 1
  /\ saves = [g \in Goals |-> <<>>]

End(r, outcome) ==
  /\ pc' = [pc EXCEPT ![r] = "ended"]
  /\ report' = [report EXCEPT ![r] = outcome]
  /\ UNCHANGED goal

-----------------------------------------------------------------------------
(* The health gate.                                                        *)

\* Fault: an answer is reused for ever.
EverKnown == last.status # "unknown"

Fresh == last.status # "unknown" /\ last.age < Ttl

Admitted(status) == IF status = "ready" THEN "paying" ELSE "refused"

\* A request that finds a fresh answer goes on at once.
PostCached(r) ==
  /\ pc[r] = "idle"
  /\ Fresh
  /\ pc' = [pc EXCEPT ![r] = Admitted(last.status)]
  /\ UNCHANGED <<healthVars, goal, report, storeVars, chainVars>>

\* check() starts a probe unless one is in flight.
StartProbe == probe' = IF probe.on THEN probe ELSE [NoProbe EXCEPT !.on = TRUE]

PostProbed(r) ==
  /\ pc[r] = "idle"
  /\ ~Fresh
  /\ StartProbe
  /\ pc' = [pc EXCEPT ![r] = "checking"]
  /\ UNCHANGED <<inco, last, sinceUp, goal, report, storeVars, chainVars>>

\* GET /health/inco.
AskHealth ==
  /\ ~Fresh /\ ~probe.on
  /\ StartProbe
  /\ UNCHANGED <<inco, last, sinceUp, runVars, storeVars, chainVars>>

\* Inco answers the read; the answer is on its way.
IncoAnswers ==
  /\ inco /\ probe.on /\ ~probe.answered
  /\ probe' = [probe EXCEPT !.answered = TRUE]
  /\ UNCHANGED <<inco, last, sinceUp, runVars, storeVars, chainVars>>

\* Fault: a probe waits for its answer however long that takes.
NeverGivenUp == FALSE

GivenUp == probe.age = Timeout

\* The probe ends, and every request that waits for it goes on.
ProbeEnds(status) ==
  /\ probe.on
  /\ probe' = NoProbe
  /\ last' = [status |-> status, age |-> 0]
  /\ pc' = [r \in Runs |-> IF pc[r] = "checking" THEN Admitted(status) ELSE pc[r]]
  /\ UNCHANGED <<inco, sinceUp, goal, report, storeVars, chainVars>>

ProbeSucceeds == probe.answered /\ ProbeEnds("ready")
ProbeFails    == ProbeEnds("unavailable")
ProbeTimesOut == GivenUp /\ ProbeEnds("unavailable")

-----------------------------------------------------------------------------
(* The trace store.                                                        *)

Without(g) == SelectSeq(order, LAMBDA x : x # g)

\* save(): the trace is on disk before it is in memory, and at most one other
\* leaves the memory for it.
Save(r) ==
  LET g    == goal[r]
      full == Append(Without(g), g) IN
  /\ disk' = [disk EXCEPT ![g] = r]
  /\ saves' = [saves EXCEPT ![g] = Append(@, r)]
  /\ IF Len(full) > MaxCached
       THEN /\ order' = Tail(full)
            /\ held' = [held EXCEPT ![g] = r, ![Head(full)] = None]
       ELSE /\ order' = full
            /\ held' = [held EXCEPT ![g] = r]

\* fetchPaid returns; the trace is built and saved before the next await.  A
\* save under a long id returns without a word.
Finish(r) ==
  /\ pc[r] = "paying"
  /\ IF goal[r] \in LongIds THEN UNCHANGED storeVars ELSE Save(r)
  /\ pc' = [pc EXCEPT ![r] = "saved"]
  /\ UNCHANGED <<healthVars, goal, report, chainVars>>

\* fetchPaid throws: the stream says so and there is no trace.
Throws(r) ==
  /\ pc[r] = "paying"
  /\ End(r, "error")
  /\ UNCHANGED <<healthVars, storeVars, chainVars>>

HeldAfterFailure(r) == held

AfterFailedSave == "ended"

\* The file cannot be written: the request fails, and its stream just ends.
SaveFails(r) ==
  /\ pc[r] = "paying"
  /\ goal[r] \notin LongIds
  /\ held' = HeldAfterFailure(r)
  /\ pc' = [pc EXCEPT ![r] = AfterFailedSave]
  /\ report' = [report EXCEPT ![r] = "cut"]
  /\ UNCHANGED <<healthVars, goal, disk, order, saves, chainVars>>

\* GET /traces/:goalId.
ReadTrace(g) ==
  /\ disk[g] # None
  /\ order' = Append(Without(g), g)
  /\ held' = IF held[g] = None THEN [held EXCEPT ![g] = disk[g]] ELSE held
  /\ UNCHANGED <<healthVars, runVars, disk, saves, chainVars>>

-----------------------------------------------------------------------------
(* The anchor.                                                             *)

\* anchorOf is asked of a node that may not know the latest anchor.
AnchorRead(r) ==
  /\ pc[r] = "saved"
  /\ \E view \in {None, anchors[goal[r]]} :
       IF view # None
         THEN End(r, "already")
         ELSE /\ pc' = [pc EXCEPT ![r] = "sending"]
              /\ UNCHANGED <<goal, report>>
  /\ UNCHANGED <<healthVars, storeVars, chainVars>>

\* No anchor contract is configured, or the trace has no step.
AnchorSkipped(r) ==
  /\ pc[r] = "saved"
  /\ End(r, "skipped")
  /\ UNCHANGED <<healthVars, storeVars, chainVars>>

AnchorSend(r) ==
  /\ pc[r] = "sending"
  /\ sent' = [sent EXCEPT ![r] = "pending"]
  /\ pc' = [pc EXCEPT ![r] = "waiting"]
  /\ UNCHANGED <<healthVars, goal, report, storeVars, anchors>>

Unanchored(g) == anchors[g] = None

\* The transaction of a run is mined, also after the run gave up on it.
Mined(r) ==
  LET g == goal[r] IN
  /\ sent[r] = "pending"
  /\ IF Unanchored(g)
       THEN anchors' = [anchors EXCEPT ![g] = r] /\ sent' = [sent EXCEPT ![r] = "success"]
       ELSE sent' = [sent EXCEPT ![r] = "reverted"] /\ UNCHANGED anchors
  /\ UNCHANGED <<healthVars, runVars, storeVars>>

\* Fault: the status of the receipt is not looked at.
ReceiptIsEnough(r) == "anchored"

Outcome(r) == IF sent[r] = "success" THEN "anchored" ELSE "failed"

AnchorReceipt(r) ==
  /\ pc[r] = "waiting"
  /\ sent[r] # "pending"
  /\ End(r, Outcome(r))
  /\ UNCHANGED <<healthVars, storeVars, chainVars>>

\* Any call of the anchor client fails.  A transaction that is out stays out,
\* and one may be out although sending it failed.
AnchorFails(r) ==
  /\ pc[r] \in {"saved", "sending", "waiting"}
  /\ End(r, "failed")
  /\ \/ UNCHANGED sent
     \/ pc[r] = "sending" /\ sent' = [sent EXCEPT ![r] = "pending"]
  /\ UNCHANGED <<healthVars, storeVars, anchors>>

\* anchor is open to everybody, with any root (here for the goal of a run; no
\* action looks at another).
ForeignAnchor(g) ==
  /\ \E r \in Runs : goal[r] = g
  /\ Unanchored(g)
  /\ anchors' = [anchors EXCEPT ![g] = Foreign]
  /\ UNCHANGED <<healthVars, runVars, storeVars, sent>>

-----------------------------------------------------------------------------
(* The world around the server.                                            *)

\* A timer fires in the tick in which it is due.
Tick ==
  /\ probe.on => ~GivenUp
  /\ last' = [last EXCEPT !.age = IF @ < Ttl THEN @ + 1 ELSE @]
  /\ probe' = [probe EXCEPT !.age = IF probe.on /\ @ < Timeout THEN @ + 1 ELSE @]
  /\ sinceUp' = IF inco THEN 0 ELSE IF sinceUp > Oldest THEN sinceUp ELSE sinceUp + 1
  /\ UNCHANGED <<inco, runVars, storeVars, chainVars>>

IncoTurns ==
  /\ inco' = ~inco
  /\ sinceUp' = 0
  /\ UNCHANGED <<probe, last, runVars, storeVars, chainVars>>

\* Fault: the file is written in place.
TornFile(r) == None

\* What a crash in the middle of a save leaves: the previous file, or after
\* the rename the new one.
SavedByRename(r) == r

\* The process stops, perhaps while it saves some traces, and starts again.
Crash(landed) ==
  /\ \A r \in landed : pc[r] = "paying" /\ goal[r] \notin LongIds
  /\ \A r, s \in landed : r = s
  /\ disk' = [g \in Goals |->
                IF \E r \in landed : goal[r] = g
                  THEN SavedByRename(CHOOSE r \in landed : goal[r] = g)
                  ELSE disk[g]]
  /\ saves' = [g \in Goals |->
                IF \E r \in landed : goal[r] = g
                  THEN Append(saves[g], CHOOSE r \in landed : goal[r] = g)
                  ELSE saves[g]]
  /\ held' = [g \in Goals |-> None]
  /\ order' = <<>>
  /\ probe' = NoProbe
  /\ last' = NoHealth
  /\ pc' = [r \in Runs |-> IF pc[r] \in {"idle", "refused"} THEN pc[r] ELSE "ended"]
  /\ report' = [r \in Runs |->
                  IF pc[r] \in {"idle", "refused", "ended"} THEN report[r] ELSE "cut"]
  /\ UNCHANGED <<inco, sinceUp, goal, chainVars>>

Next ==
  \/ \E r \in Runs :
       \/ PostCached(r) \/ PostProbed(r)
       \/ Finish(r) \/ Throws(r) \/ SaveFails(r)
       \/ AnchorSkipped(r) \/ AnchorRead(r) \/ AnchorSend(r) \/ Mined(r)
       \/ AnchorReceipt(r) \/ AnchorFails(r)
  \/ \E g \in Goals : ReadTrace(g) \/ ForeignAnchor(g)
  \/ AskHealth \/ IncoAnswers
  \/ ProbeSucceeds \/ ProbeFails \/ ProbeTimesOut
  \/ Tick \/ IncoTurns
  \/ \E landed \in SUBSET Runs : Crash(landed)

Spec == Init /\ [][Next]_vars

\* Time passes, and a timer that is due fires.
FairSpec == Spec /\ WF_vars(Tick) /\ WF_vars(ProbeTimesOut)

-----------------------------------------------------------------------------
(* Properties.                                                             *)

\* Every variable keeps its type, and no age exceeds its bound.
ServerTypeOK ==
  /\ inco \in BOOLEAN
  /\ probe \in [on : BOOLEAN, age : 0..Timeout, answered : BOOLEAN]
  /\ last \in [status : {"unknown", "ready", "unavailable"}, age : 0..Ttl]
  /\ pc \in [Runs -> {"idle", "checking", "refused", "paying", "saved",
                      "sending", "waiting", "ended"}]
  /\ goal \in [Runs -> Goals]
  /\ report \in [Runs -> {"none", "error", "cut", "skipped", "anchored", "already", "failed"}]
  /\ disk \in [Goals -> Runs \cup {None}]
  /\ held \in [Goals -> Runs \cup {None}]
  /\ anchors \in [Goals -> Runs \cup {None, Foreign}]
  /\ sent \in [Runs -> {"no", "pending", "success", "reverted"}]
  /\ sinceUp \in 0..(Oldest + 1)
  /\ saves \in [Goals -> Seq(Runs)]

Admits(r) == pc[r] # "paying" /\ pc'[r] = "paying"

\* The gate of server.ts 382: whoever is let in, also on a cached answer or on
\* a probe that another request began, Inco could reveal a decision no longer
\* ago than one probe and one time to live.
AdmittedWhileFresh ==
  [][\A r \in Runs : Admits(r) => sinceUp <= Oldest]_vars

\* "a trace that is readable in memory is always already durable"
\* (trace-store.ts 18), and it is the one on disk, whichever runs overwrote
\* each other and whatever was evicted and loaded again.
CacheIsDurable == \A g \in Goals : held[g] # None => held[g] = disk[g]

\* "a crash mid-write leaves the previous file intact" (trace-store.ts 55): a
\* run whose stream reported a result has its trace on disk, or the trace of a
\* run of the same goal that was saved later, unless the id is too long.
ReportedIsKept ==
  \A r \in Runs :
    goal[r] \notin LongIds /\ report[r] \in {"skipped", "anchored", "already", "failed"} =>
    LET s == saves[goal[r]] IN
    \E i, j \in DOMAIN s : i <= j /\ s[i] = r /\ s[j] = disk[goal[r]]

\* "Anchoring first and then failing to write the file would leave a root on
\* chain that nothing can be checked against" (server.ts 511): the server
\* anchors no trace that was never on disk, unless the id is too long.
AnchoredWasSaved ==
  \A g \in Goals \ LongIds : anchors[g] \in Runs =>
    \E i \in DOMAIN saves[g] : saves[g][i] = anchors[g]

\* What a stream reports of the anchor stays true: the contract is
\* first-write-wins, whoever else anchors the same goal.
OutcomeIsTrue ==
  \A r \in Runs :
    /\ report[r] = "anchored" => anchors[goal[r]] = r
    /\ report[r] = "already" => anchors[goal[r]] # None

\* The probe's own timeout answers every request that waits for it, also when
\* Inco never does.
AskedIsAnswered == \A r \in Runs : pc[r] = "checking" ~> pc[r] # "checking"
=============================================================================
