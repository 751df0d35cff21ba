------------------------------ MODULE KeyStore ------------------------------
(***************************************************************************)
(* The signer's store of payer keys (signer/src/keystore.ts, RoflKeyStore) *)
(* and the boot that opens it (signer/src/main.ts).  Payer n of a vault is *)
(* the address the enclave derives from n, the same for ever; what can be  *)
(* lost is the index: the counter, and which addresses were derived.  A    *)
(* lost index is rebuilt from the payers that the vault reports bound.     *)
(*                                                                         *)
(* An action is what the store does between two awaits of the enclave's    *)
(* daemon or the chain; writing the index is synchronous, so it is part of *)
(* the action, but a crash in the middle of it leaves a torn file.         *)
(***************************************************************************)
EXTENDS Integers

CONSTANTS
  Mints,       \* requests to mint that may be in hand at once
  Gap,         \* consecutive unbound ids that end a rebuild
  MaxIds,      \* bound: ids ever handed out
  MaxTroubles  \* bound: crashes, lost disks and failed boots

ASSUME KeyAssumption ==
  Gap \in Nat \ {0} /\ MaxIds \in Nat /\ MaxTroubles \in Nat

Ids  == 0..(MaxIds - 1)
NoId == -1

VARIABLES
  phase,      \* "down", "scan" (rebuilding) or "serving"
  disk,       \* the index file
  next,       \* memory: #next of the namespace
  keys,       \* memory: the ids of #keys
  scan,       \* memory: where recover stands
  taken,      \* memory: request to mint -> the id it is deriving, or NoId
  bound,      \* vault: ids whose payer has a goal
  known,      \* vault: the bound ids that every RPC node has seen
  issued,     \* ids whose address some caller has been given
  troubles,
  started,    \* history: ids ever taken from the counter
  handed,     \* history: ids given to a caller since the index was last lost
  scanBound,  \* history: bound when the running rebuild began
  misled      \* history: bound ids that a node denied to the running rebuild

memory    == <<next, keys, scan, taken>>
vaultVars == <<bound, known, issued>>
histVars  == <<started, handed, scanBound, misled>>
vars      == <<phase, disk, memory, vaultVars, troubles, histVars>>

Index(n, k) == [kind |-> "index", next |-> n, keys |-> k]
NoIndex     == [kind |-> "none",  next |-> 0, keys |-> {}]
TornIndex   == [kind |-> "torn",  next |-> 0, keys |-> {}]

NewScan == [at |-> 0, misses |-> 0, highest |-> -1]

Init ==
  /\ phase = "down"
  /\ disk = NoIndex
  /\ next = 0
  /\ keys = {}
  /\ scan = NewScan
  /\ taken = [m \in Mints |-> NoId]
  /\ bound = {} /\ known = {} /\ issued = {}
  /\ troubles = 0
  /\ started = {} /\ handed = {} /\ scanBound = {} /\ misled = {}

-----------------------------------------------------------------------------
(* Boot.                                                                   *)

\* The constructor reads the index; what it cannot parse stops the boot, and
\* is read again by the next attempt.  With an index there is nothing to rebuild.
Load ==
  /\ phase = "down"
  /\ disk.kind # "torn"
  /\ phase' = IF disk.kind = "index" THEN "serving" ELSE "scan"
  /\ next' = disk.next
  /\ keys' = disk.keys
  /\ scan' = NewScan
  /\ scanBound' = bound
  /\ misled' = {}
  /\ UNCHANGED <<disk, taken, vaultVars, troubles, started, handed>>

ScanOver == scan.misses = Gap

\* Fault: the run of misses is not broken by a hit.
MissesOfAll(hit) == IF hit THEN scan.misses ELSE scan.misses + 1

MissesAfter(hit) == IF hit THEN 0 ELSE scan.misses + 1

\* recover asks some node whether the payer of the next id has a goal.  A node
\* that is behind does not know that it cannot tell: it denies a goal it has
\* not seen yet.
ScanId ==
  /\ phase = "scan"
  /\ ~ScanOver
  /\ \E view \in {bound, known} :
       LET hit == scan.at \in view IN
       /\ scan' = [at |-> scan.at + 1, misses |-> MissesAfter(hit),
                   highest |-> IF hit THEN scan.at ELSE scan.highest]
       /\ keys' = IF hit THEN keys \cup {scan.at} ELSE keys
       /\ misled' = misled \cup ({scan.at} \cap (bound \ view))
  /\ UNCHANGED <<phase, disk, next, taken, vaultVars, troubles, started,
                 handed, scanBound>>

ResumeAt == scan.highest + 1

ScanEnds ==
  /\ phase = "scan"
  /\ ScanOver
  /\ phase' = "serving"
  /\ next' = ResumeAt
  /\ disk' = Index(ResumeAt, keys)
  /\ UNCHANGED <<keys, scan, taken, vaultVars, troubles, histVars>>

\* Fault: a boot that failed is not tried again.
GivesUp == "exited"

AfterFailedBoot == "down"

\* The daemon or the RPC does not answer: boot fails and is tried again.
ScanFails ==
  /\ phase = "scan"
  /\ ~ScanOver
  /\ troubles < MaxTroubles
  /\ troubles' = troubles + 1
  /\ phase' = AfterFailedBoot
  /\ UNCHANGED <<disk, memory, vaultVars, histVars>>

-----------------------------------------------------------------------------
(* Minting.                                                                *)

\* The counter is advanced and written before anything is derived.
Take(m) ==
  /\ phase = "serving"
  /\ taken[m] = NoId
  /\ next < MaxIds
  /\ taken' = [taken EXCEPT ![m] = next]
  /\ next' = next + 1
  /\ disk' = Index(next + 1, keys)
  /\ started' = started \cup {next}
  /\ UNCHANGED <<phase, keys, scan, vaultVars, troubles, handed,
                 scanBound, misled>>

\* Fault: the index is not written again once the address is known.
NotPersisted(k) == disk

Persisted(k) == Index(next, k)

\* The daemon answers: the address is indexed and returned to the caller.
Derived(m) ==
  LET id == taken[m] IN
  /\ phase = "serving"
  /\ id # NoId
  /\ keys' = keys \cup {id}
  /\ disk' = Persisted(keys')
  /\ taken' = [taken EXCEPT ![m] = NoId]
  /\ issued' = issued \cup {id}
  /\ handed' = handed \cup {id}
  /\ UNCHANGED <<phase, next, scan, bound, known, troubles, started,
                 scanBound, misled>>

\* Fault: an id that could not be derived is given back.
GivenBack(id) == id

CounterAfterFailure(id) == next

\* The daemon does not answer, and the id is skipped.
DeriveFails(m) ==
  /\ phase = "serving"
  /\ taken[m] # NoId
  /\ taken' = [taken EXCEPT ![m] = NoId]
  /\ next' = CounterAfterFailure(taken[m])
  /\ UNCHANGED <<phase, disk, keys, scan, vaultVars, troubles, histVars>>

-----------------------------------------------------------------------------
(* The world around the store.                                             *)

\* openGoal names the payer; the vault refuses one that has a goal.
Bind(id) ==
  /\ id \in issued \ bound
  /\ bound' = bound \cup {id}
  /\ UNCHANGED <<phase, disk, memory, known, issued, troubles, histVars>>

\* The node that lags sees the latest block.
CatchUp ==
  /\ known # bound
  /\ known' = bound
  /\ UNCHANGED <<phase, disk, memory, bound, issued, troubles, histVars>>

\* The index is being written.
Writing == phase = "serving" \/ (phase = "scan" /\ ScanOver)

\* The machine stops, in the middle of a write or not.
Crash(torn) ==
  /\ phase # "down"
  /\ torn => Writing
  /\ troubles < MaxTroubles
  /\ troubles' = troubles + 1
  /\ phase' = "down"
  /\ disk' = IF torn THEN TornIndex ELSE disk
  /\ next' = 0 /\ keys' = {} /\ scan' = NewScan
  /\ taken' = [m \in Mints |-> NoId]
  /\ UNCHANGED <<vaultVars, histVars>>

\* The machine expires and its disk with it, or an operator removes the index.
Wipe ==
  /\ phase = "down"
  /\ disk.kind # "none"
  /\ troubles < MaxTroubles
  /\ troubles' = troubles + 1
  /\ disk' = NoIndex
  /\ handed' = {}
  /\ UNCHANGED <<phase, memory, vaultVars, started, scanBound, misled>>

Next ==
  \/ Load \/ ScanId \/ ScanEnds \/ ScanFails
  \/ \E m \in Mints : Take(m) \/ Derived(m) \/ DeriveFails(m)
  \/ \E id \in Ids : Bind(id)
  \/ CatchUp
  \/ \E torn \in BOOLEAN : Crash(torn)
  \/ Wipe

Spec == Init /\ [][Next]_vars

\* Boot is tried again for ever, and a rebuild goes on while it is answered.
FairSpec == Spec /\ WF_vars(Load) /\ WF_vars(ScanId) /\ WF_vars(ScanEnds)

-----------------------------------------------------------------------------
(* Properties.                                                             *)

\* Every variable keeps its type; a rebuild counts no more than Gap misses.
KeyTypeOK ==
  /\ phase \in {"down", "scan", "serving"}
  /\ disk \in [kind : {"index", "none", "torn"}, next : 0..MaxIds,
               keys : SUBSET Ids]
  /\ next \in 0..MaxIds
  /\ keys \subseteq Ids
  /\ scan \in [at : Nat, misses : 0..Gap, highest : Ids \cup {-1}]
  /\ taken \in [Mints -> Ids \cup {NoId}]
  /\ bound \subseteq Ids /\ known \subseteq Ids /\ issued \subseteq Ids
  /\ troubles \in 0..MaxTroubles
  /\ started \subseteq Ids /\ handed \subseteq Ids
  /\ scanBound \subseteq Ids /\ misled \subseteq Ids

\* "Gaps come from payers minted and never used for a goal" (keystore.ts 266):
\* no crash, loss or rebuild makes one, so none can hide a goal from a rebuild.
GapsComeFromMints == \A id \in bound : \A i \in 0..(id - 1) : i \in started

\* Gap unbound ids in a row below a bound one.
LongGap(ids) ==
  \E i \in Ids : /\ \A j \in i..(i + Gap - 1) : j \notin ids
                 /\ \E id \in ids : id >= i + Gap

\* The goals that existed when the rebuild began, without those that a node
\* behind the others denied when the rebuild came to them.
Findable == scanBound \ misled

\* A rebuild finds the key of every goal that existed when it began, and "the
\* counter never hands out an id that is already bound" (main.ts 180), save for
\* a goal that a lagging node denied.  The denied one is lost alone: the others
\* are found, although nodes lag and goals are opened meanwhile, as long as
\* gaps, the denied goals among them, are short.
RebuildFinds ==
  [][phase = "scan" /\ phase' = "serving" =>
       \/ LongGap(Findable)
       \/ \A id \in Findable : id \in keys' /\ id < next']_vars

\* "a crash can skip an id but never hand one out twice" (keystore.ts 258):
\* until the index is lost no two callers are given one payer.
OneCallerPerId ==
  \A m \in Mints : taken[m] # NoId =>
    taken[m] \notin handed /\ \A n \in Mints : taken[n] = taken[m] => n = m

\* What was minted since the index was last lost can be signed for, whatever
\* crashed since.
HandedIsHeld == phase = "serving" => handed \subseteq keys

\* The signer serves again after every crash, unless a write was torn by it.
ServesAgain == phase # "serving" ~> phase = "serving" \/ disk.kind = "torn"
=============================================================================
