------------------------------- MODULE Trace --------------------------------
(***************************************************************************)
(* The record of a run (services/trace/src): TraceBuilder turns the events *)
(* of a purchase into a chain of hashed steps, a Merkle root over them is  *)
(* what gets anchored, and verifyTrace is what an auditor runs over the    *)
(* file, with an RPC and nothing else.                                     *)
(*                                                                         *)
(* Runs of one goal overlap, and each finalises the spend it finds pending *)
(* as an orphan, so the chain changes under a run's record.  A hash is the *)
(* tuple of what it is computed from: no two different inputs collide.     *)
(***************************************************************************)
EXTENDS Integers, Sequences, SequencesExt

CONSTANTS
  Runs,      \* POST /runs in progress on the goal
  MaxEdits   \* bound: edits made to a saved file

ASSUME MaxEditsAssumption == MaxEdits \in Nat

VARIABLES
  spends,    \* the vault: seq -> [finalized, approved] of the goal's spends
  pending,   \* the vault: pendingSeq
  point,     \* run -> how far its purchase has come
  mine,      \* run -> the seq it requested, 0: none
  builder,   \* run -> TraceBuilder: [steps, cites]
  saved,     \* run -> the trace it built, as the file holds it
  file,      \* the file an auditor is given: an edited copy of a saved trace
  origin,    \* the run it was made from, or NoRun
  edits

traceVars == <<spends, pending, point, mine, builder, saved, file, origin, edits>>

NoRun == "nobody"

Genesis == <<"ntux402/trace/v1">>
NoAtt   == [handle |-> 0, commit |-> 0, seq |-> 0, approved |-> FALSE]

\* What a step carries: inputs and outputs.  Amounts are bigints in memory.
Payload(what, seq, yes, form) == [what |-> what, seq |-> seq, yes |-> yes, form |-> form]
Text(what) == Payload(what, 0, FALSE, "text")

-----------------------------------------------------------------------------
(* Hashing.                                                                *)

\* Fault: the payload is hashed as it is in memory.
AsInMemory(body) == body

\* canonicalize: a bigint becomes its decimal string, keys are sorted.
Canonical(body) == [body EXCEPT !.form = "text"]

\* Fault: the attestation is left out of the hash.
HashWithoutAtt(prior, type, body, att) == <<prior, type, Canonical(body), NoAtt>>

\* computeStepHash: neither the index nor the goal, vault and chain of the
\* trace are part of it.
StepHash(prior, type, body, att) ==
  <<prior, type, Canonical(body),
    IF att = NoAtt THEN <<"no-attestation">> ELSE <<"attestation", att>>>>

Leaf(value)  == <<"leaf", value>>
Node(l, r)   == <<"node", l, r>>

\* Fault: an odd node is paired with itself.
PairedWithItself(level, i) ==
  Node(level[i], level[IF i < Len(level) THEN i + 1 ELSE i])

\* "An odd node is promoted, not duplicated."
Paired(level, i) == IF i < Len(level) THEN Node(level[i], level[i + 1]) ELSE level[i]

Above(level) == IF Len(level) = 1 THEN level
                ELSE [i \in 1..(Len(level) + 1) \div 2 |-> Paired(level, 2 * i - 1)]

\* The levels of the tree, from the leaves; the last ones are the root alone.
Levels(values) ==
  LET L[k \in 0..Len(values)] ==
        IF k = 0 THEN [i \in 1..Len(values) |-> Leaf(values[i])] ELSE Above(L[k - 1])
  IN L

MerkleRoot(values) ==
  IF values = <<>> THEN <<"leaf">> ELSE Levels(values)[Len(values)][1]

Sibling(position) == IF position % 2 = 0 THEN position - 1 ELSE position + 1

\* One turn of merkleProof's loop at a level: a promoted node adds nothing.
Climbed(at, level) ==
  LET s == Sibling(at.position) IN
  [path |-> IF s \in DOMAIN level
              THEN Append(at.path, [hash |-> level[s], isLeft |-> at.position % 2 = 0])
              ELSE at.path,
   position |-> (at.position + 1) \div 2]

\* merkleProof: the siblings from the leaf to the root, and their sides.
Climbs(values, i) ==
  LET C[k \in 0..Len(values)] ==
        IF k = 0 THEN [path |-> <<>>, position |-> i]
                 ELSE Climbed(C[k - 1], Levels(values)[k - 1])
  IN C

MerkleProof(values, i) == Climbs(values, i)[Len(values)].path

Joined(hash, p) == IF p.isLeft THEN Node(p.hash, hash) ELSE Node(hash, p.hash)

Joins(value, path) ==
  LET J[k \in 0..Len(path)] == IF k = 0 THEN Leaf(value) ELSE Joined(J[k - 1], path[k])
  IN J

VerifyMerkleProof(value, path, root) == Joins(value, path)[Len(path)] = root

-----------------------------------------------------------------------------
(* TraceBuilder.                                                           *)

\* The hash that the i-th step is chained to.
Prior(steps, i) == IF i = 1 THEN Genesis ELSE steps[i - 1].hash

Linked(steps, type, body, att) ==
  LET prior == Prior(steps, Len(steps) + 1) IN
  Append(steps, [index |-> Len(steps), type |-> type, body |-> body, att |-> att,
                 prior |-> prior, hash |-> StepHash(prior, type, body, att)])

\* record: what one event adds.  A spend-requested is remembered, and cited by
\* the decision-finalized that follows it.
Recorded(b, type, body) ==
  CASE type = "spend-requested" ->
         [steps |-> Linked(b.steps, type, body, NoAtt), cites |-> body.seq]
    [] type = "decision-finalized" /\ b.cites # 0 ->
         [b EXCEPT !.steps = Linked(@, type, body,
            [handle |-> b.cites, commit |-> b.cites,
             seq |-> body.seq, approved |-> body.yes])]
    [] OTHER -> [b EXCEPT !.steps = Linked(@, type, body, NoAtt)]

\* "Scoped to this run, not registered on the shared loop." (server.ts)
Listening(r) == {r}

Emit(r, type, body) ==
  builder' = [o \in Runs |-> IF o \in Listening(r) THEN Recorded(builder[o], type, body)
                                                   ELSE builder[o]]

-----------------------------------------------------------------------------
(* A run.                                                                  *)

TraceInit ==
  /\ spends = <<>>
  /\ pending = 0
  /\ point = [r \in Runs |-> "start"]
  /\ mine = [r \in Runs |-> 0]
  /\ builder = [r \in Runs |-> [steps |-> <<>>, cites |-> 0]]
  /\ saved = [r \in Runs |-> <<>>]
  /\ file = <<>>
  /\ origin = NoRun
  /\ edits = 0

\* Bound: nothing runs once a file is handed over.
Goes(r, from, to) ==
  origin = NoRun /\ point[r] = from /\ point' = [point EXCEPT ![r] = to]

Unchained == UNCHANGED <<spends, pending, mine>>
Unread    == UNCHANGED <<saved, file, origin, edits>>

\* The steps of a purchase that touch nothing on chain.  An orphan that cannot
\* be recovered ends the run with an event the builder ignores.
Flow(r) ==
  \/ Goes(r, "start", "asked") /\ Emit(r, "request", Text("first"))
  \/ Goes(r, "asked", "over") /\ Emit(r, "response", Text("free"))
  \/ Goes(r, "asked", "over") /\ Emit(r, "terms-rejected", Text("malformed"))
  \/ Goes(r, "asked", "quoted")
       /\ Emit(r, "payment-required", Payload("terms", 0, FALSE, "bigint"))
  \/ Goes(r, "quoted", "over") /\ Emit(r, "agent-reasoning", Text("declined"))
  \/ Goes(r, "quoted", "decided") /\ Emit(r, "agent-reasoning", Text("proceed"))
  \/ Goes(r, "decided", "over") /\ Emit(r, "failed", Text("hold or request"))
  \/ Goes(r, "decided", "over") /\ pending # 0 /\ UNCHANGED builder
  \/ Goes(r, "requested", "over") /\ Emit(r, "failed", Text("reveal timeout"))
  \/ Goes(r, "requested", "revealed")
       /\ Emit(r, "decision-revealed",
               Payload("decision", 0, spends[mine[r]].approved, "text"))
  \/ Goes(r, "finalized", "over") /\ Emit(r, "signer-refused", Text("refused"))
  \/ Goes(r, "finalized", "signed")
       /\ Emit(r, "authorization-signed", Text("nonce"))
  \/ Goes(r, "signed", "over") /\ Emit(r, "failed", Text("termsHash mismatch"))
  \/ Goes(r, "signed", "paying") /\ Emit(r, "request", Text("second"))
  \/ Goes(r, "paying", "over") /\ Emit(r, "failed", Text("paid call"))
  \/ Goes(r, "paying", "settled") /\ Emit(r, "settled", Text("settlement"))
  \/ Goes(r, "paying", "over") /\ Emit(r, "response", Text("no settlement"))
  \/ Goes(r, "settled", "over") /\ Emit(r, "response", Text("paid"))

Step(r) == Flow(r) /\ Unchained /\ Unread

\* recoverOrphan, before the request: the builder has no step for it.
RecoverOrphan(r) ==
  /\ origin = NoRun
  /\ point[r] = "decided"
  /\ pending # 0
  /\ spends' = [spends EXCEPT ![pending].finalized = TRUE]
  /\ pending' = 0
  /\ UNCHANGED <<point, mine, builder>> /\ Unread

RequestSpend(r) ==
  LET seq == Len(spends) + 1 IN
  /\ Goes(r, "decided", "requested")
  /\ pending = 0
  /\ \E ok \in BOOLEAN :
       spends' = Append(spends, [finalized |-> FALSE, approved |-> ok])
  /\ pending' = seq
  /\ mine' = [mine EXCEPT ![r] = seq]
  /\ Emit(r, "spend-requested", Payload("spend", seq, FALSE, "bigint"))
  /\ Unread

\* finalizeDecision of the run's own spend; it reverts when another run has
\* finalised it as an orphan.  A rejected spend ends the run.
Finalize(r) ==
  LET seq == mine[r]  spend == spends[seq] IN
  /\ point[r] = "revealed"
  /\ IF spend.finalized
       THEN /\ Goes(r, "revealed", "over")
            /\ Emit(r, "failed", Text("finalizeDecision failed"))
            /\ UNCHANGED <<spends, pending>>
       ELSE /\ Goes(r, "revealed", IF spend.approved THEN "finalized" ELSE "over")
            /\ spends' = [spends EXCEPT ![seq].finalized = TRUE]
            /\ pending' = 0
            /\ Emit(r, "decision-finalized", Payload("decision", seq, spend.approved, "text"))
  /\ UNCHANGED mine /\ Unread

\* What JSON makes of the steps: a bigint is written as text.
Written(steps) == [i \in 1..Len(steps) |-> [steps[i] EXCEPT !.body.form = "text"]]

Hashes(steps) == [i \in 1..Len(steps) |-> steps[i].hash]

Trace(steps) == [steps |-> steps, header |-> "goal", root |-> MerkleRoot(Hashes(steps))]

\* build, and the file the store keeps.
Save(r) ==
  /\ Goes(r, "over", "saved")
  /\ saved' = [saved EXCEPT ![r] = Trace(Written(builder[r].steps))]
  /\ UNCHANGED <<spends, pending, mine, builder, file, origin, edits>>

-----------------------------------------------------------------------------
(* The file changes hands.                                                 *)

\* Bound: the file of a run that had the goal to itself.
Hand(r) ==
  /\ saved[r] # <<>>
  /\ \A o \in Runs \ {r} : point[o] = "start"
  /\ origin = NoRun
  /\ file' = saved[r]
  /\ origin' = r
  /\ UNCHANGED <<spends, pending, point, mine, builder, saved, edits>>

\* One edit of the steps: one altered, dropped, repeated, or swapped with the
\* next; or an attestation moved to another spend.
Edited(steps) ==
  {[steps EXCEPT ![i].body.what = "altered"] : i \in DOMAIN steps}
    \cup {RemoveAt(steps, i) : i \in DOMAIN steps}
    \cup {InsertAt(steps, i, steps[i]) : i \in DOMAIN steps}
    \cup {SubSeq(steps, 1, i - 1) \o <<steps[i + 1], steps[i]>>
            \o SubSeq(steps, i + 2, Len(steps)) : i \in 1..Len(steps) - 1}
    \cup {[steps EXCEPT ![i].att.handle = 9] :
            i \in {j \in DOMAIN steps : steps[j].att # NoAtt}}

\* The chain made right again over edited steps: indices, links and hashes.
Relinked(steps) ==
  LET R[k \in 0..Len(steps)] ==
        IF k = 0 THEN <<>>
                 ELSE Linked(R[k - 1], steps[k].type, steps[k].body, steps[k].att)
  IN R[Len(steps)]

\* An edit, with the hashes and the root left as they are or computed anew.
Edit ==
  /\ origin # NoRun
  /\ edits < MaxEdits
  /\ edits' = edits + 1
  /\ \E steps \in Edited(file.steps) :
       \/ file' = [file EXCEPT !.steps = steps]
       \/ file' = Trace(steps)
       \/ file' = Trace(Relinked(steps))
  /\ UNCHANGED <<spends, pending, point, mine, builder, saved, origin>>

TraceNext ==
  \/ \E r \in Runs :
       \/ Step(r) \/ RecoverOrphan(r) \/ RequestSpend(r) \/ Finalize(r)
       \/ Save(r) \/ Hand(r)
  \/ Edit

TraceSpec == TraceInit /\ [][TraceNext]_traceVars

-----------------------------------------------------------------------------
(* verifyTrace.                                                            *)

\* The chain of hashes and the root, from the file alone.
Offline(t) ==
  /\ \A i \in DOMAIN t.steps :
       /\ t.steps[i].index = i - 1
       /\ t.steps[i].prior = Prior(t.steps, i)
       /\ t.steps[i].hash =
            StepHash(t.steps[i].prior, t.steps[i].type, t.steps[i].body, t.steps[i].att)
       /\ t.steps[i].type = "vendor-upstream" => t.steps[i].att = NoAtt
  /\ t.root = MerkleRoot(Hashes(t.steps))

\* "The mandatory check": the attested handle is the one the vault stored for
\* that spend, whose decision is final and is the one the trace reports.
OnChain(t) ==
  \A i \in DOMAIN t.steps :
    LET att == t.steps[i].att IN
    att # NoAtt =>
      /\ att.seq \in DOMAIN spends
      /\ att.handle = att.seq
      /\ spends[att.seq].finalized
      /\ spends[att.seq].approved = att.approved
      /\ att.commit \in DOMAIN spends

-----------------------------------------------------------------------------
(* Properties.                                                             *)

\* Every variable keeps its type.
TraceTypeOK ==
  /\ pending \in 0..Len(spends)
  /\ \A i \in DOMAIN spends : spends[i] \in [finalized : BOOLEAN, approved : BOOLEAN]
  /\ mine \in [Runs -> 0..Len(spends)]
  /\ origin \in Runs \cup {NoRun}
  /\ edits \in 0..MaxEdits

\* The file of every run passes the verifier, on chain too, whatever other
\* runs do to the goal meanwhile: its steps survive being written and read, and
\* its attestation cites its own spend.
HonestVerifies ==
  \A r \in Runs : saved[r] # <<>> => Offline(saved[r]) /\ OnChain(saved[r])

\* "Catches any edit, reorder, insertion or truncation" (verify.ts), of the
\* steps, for whoever also has the anchored root: a file that verifies under
\* the root a run anchored holds that run's steps.
AnchoredIsUnedited ==
  origin # NoRun /\ Offline(file) /\ file.root = saved[origin].root
    => file.steps = saved[origin].steps

\* Different lists of steps have different roots, also when one is longer, and
\* a step's proof holds for that step and for no other (merkle.ts).
ProofsAreSound ==
  origin # NoRun =>
    LET h == Hashes(saved[origin].steps)  g == Hashes(file.steps) IN
    IF edits = 0
      THEN \A i, j \in DOMAIN h :
             VerifyMerkleProof(h[j], MerkleProof(h, i), saved[origin].root) <=> i = j
      ELSE g # h => MerkleRoot(g) # saved[origin].root
=============================================================================
