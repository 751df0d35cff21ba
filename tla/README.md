# LedgerLighthouse: specification and proofs

LedgerLighthouse lets an agent buy things over HTTP 402 (x402) on behalf of a
person.  The person opens a *goal* in a contract, `PolicyVault`, with an
encrypted budget, an encrypted per-call cap, a public call count, an allowlist
of vendors and an ephemeral *payer* address whose key lives in a signer inside
an enclave.  The orchestrator asks the vault for each spend; Inco evaluates
the encrypted limits; the signer signs exactly what was approved; the vendor
has a facilitator execute the signed EIP-3009 authorization at the USDC token.
Every purchase leaves a hashed trace, whose root is anchored on chain.

These modules model that program.  TLC checks all but one of them on small
instances, and
TLAPS proves the most important results for every value of the constants.

## 1. Inventory

| component | state it keeps | operations | what is hard about it | module |
|---|---|---|---|---|
| `contracts/src/PolicyVault.sol` | goals, encrypted budget and cap, spend records, `pendingSeq`, attempts, payer bindings | `openGoal`, `closeGoal`, `requestSpend`, `finalizeDecision`, `reclaimExpired` | anyone may finalise and reclaim; the budget is debited at request, the calls at finalisation; the window's end is shared with the token | `PolicyVault`, `SpendLifecycle` |
| `orchestrator/src/pay/payment-loop.ts`, `relay.ts` | a purchase's progress, `#finalized` | `fetchPaid`, orphan recovery, reclaim; three transactions | concurrent purchases on one goal, death of the server, lost receipts, nodes that lag | `PaymentLoop` |
| `orchestrator/src/x402`, `agent` | cache of served resources | fetch, paid retry; ask the model, fall back | one cache for all purchases, lost and garbled answers, a model that does not answer or not as asked | `Purchase` |
| `orchestrator/src/inco` | cached health answer | poll a decision, probe | bounded polling; one probe shared by all callers | `PaymentLoop`, `RunServer` |
| `signer/src/service.ts`, `vault.ts`, `http.ts`, `enclave-limit.ts`, `shared/src/node/guard.ts` | limiter windows, two enclave counters | sign, sweep, limit, refuse | five reads behind one answer, from nodes that lag and differ; fixed windows; refusals that are temporary and look final | `Signer` |
| `orchestrator/src/pay/signer-client.ts`, `sweep.ts` | tries and waits | ask again | a retry that must outlast a limiter's window or a node's lag | `Signer` |
| `signer/src/keystore.ts`, `main.ts`, `boot-failure.ts` | sealed index: counter and bindings | mint, recover, boot | crash between the write and the derivation, loss of the index | `KeyStore` |
| `facilitator/src/facilitator.ts`, `orchestrator/src/pay/sweep.ts` | none | verify, settle, sweep | two reads before the write, with other submitters between; the sweep's nonce | `Settlement` |
| `orchestrator/src/server.ts`, `serve.ts`, `trace-store.ts`, `pay/anchor.ts`, `contracts/src/TraceAnchor.sol` | streams, saved traces, anchors | run, save, load, anchor | runs on one goal are not serialised; save, anchor and overwrite | `RunServer` |
| `trace/src` | a run's steps, leaves | record, build, verify, prove | events of overlapping runs; what survives writing to JSON; an odd number of leaves | `Trace` |
| `mock-api/src`, `shared/src/demo/catalog.ts` | none; the listed prices | quote, deliver | delivery depends on the settlement's answer; a price that the buyer's page names | `Purchase`, `Settlement`, `Budget` |
| `apps/web`, `tools/e2e/src/sweep.ts`, `reclaim.ts` | state of a page; a plan over all goals | mint, open, fund, run, close and return; plan, close, sweep | a reload in the middle of anything, lost answers, two that return the same balance; a budget that is typed, captured, priced by and measured against in four programs | `Console`, `Budget` |
| `tools/e2e` (others), `scripts`, `contracts/script`, `shared/src/chain` | none that is shared | | | not modelled |

They interact through the chain (every service reads it, the relay, the
facilitator, the anchor client and the owners write it) and by HTTP calls:
console to orchestrator, orchestrator to vendor and signer, vendor to
facilitator.  Nothing orders these calls but the chain itself.

What must be right, by component:

* vault: never more than one undecided spend; budget and calls are conserved
  through every order of request, finalise, reclaim, close and payment;
  nothing is both returned and paid; the loss is bounded; a goal is never
  wedged and every debit is settled;
* loop: one spend per purchase; a recovered spend is never paid; what is
  reported is what happened; nothing is collected after the vendor's hold; a
  goal comes free again after a crash;
* purchase: a settlement that is reported is the purchase's own; who decided
  is reported as it was; a purchase ends;
* signer: only what the vault froze is signed, whatever the nodes answer; a
  limit delays and does not deny; a refusal that is temporary does not end a
  retry loop;
* settlement: nothing is delivered unpaid; a balance is swept once, and comes
  back after the goal is closed;
* key store: no key for two callers, every bound goal's key found again, and
  the signer comes up again;
* server and trace: a reported trace is kept, a reported anchor is true, an
  old health answer lets nobody in; the file of every run verifies and no
  edited file does under the anchored root;
* console: it shows as spent or returned only what was; the limits of its
  budget field fit the catalog's prices, so that honest resources are affordable
  and hostile ones are stopped by the confidential budget and by nothing else.

## 2. Modules

| module | state and actions |
|---|---|
| `SpendLifecycle` | the abstract specification: a goal's free and paid amounts and the life of each spend (asked, approved or rejected, paid or returned), with no records, flags, nonces or counters |
| `PolicyVault` | the contract, the token's nonces and the clock; one action per transaction; a revert is a false guard; `TransferWithAuthorization` is the token, `Tick` the block time.  `Lifecycle` instantiates `SpendLifecycle` with the refinement mapping |
| `PaymentLoop` | extends `PolicyVault`; `pc[r]` is the await at which a purchase stands, and one action runs it to the next; `stray` holds the transactions whose sender gave up on the receipt, `behind` what a lagging node still shows; `requester`, `holdEnd` and `recovered` are history |
| `Settlement` | extends `PolicyVault`; `settles[c]` is a settle call between two of its chain accesses, and a failure may take the place of its answer at each of them (`gateway.ts` makes one of silence); client retries, sweeps, token balances |
| `Signer` | on its own; `chain[e]` is the block of each event the service reads about, a read is answered by any node at most `Lag` blocks behind, and each of the five reads behind an answer by a node of its own; `edge` and `enclave` are the limiters, `client` is the retry loop that is watched, `stray` counts everybody else's requests |
| `KeyStore` | on its own; `disk` is the index file, `next` and `keys` the memory, `taken[m]` a mint between its two awaits, `scan` a rebuild between two ids; `bound` is the vault and `known` what the node furthest behind shows of it, and `misled` (history) the ids whose goal such a node denied to the rebuild |
| `RunServer` | on its own; the loop is the nondeterministic end of `paying`; `pc[r]` is the await at which a request stands, `held` and `order` the store's memory, `sinceUp` and `saves` are history |
| `Trace` | on its own; `builder[r]` is a run's `TraceBuilder`, `spends` and `pending` the vault as overlapping runs change it, `file` an edited copy of a saved trace.  Hashes are the tuples of their inputs; Merkle levels and proofs are recursive functions |
| `Purchase` | on its own; `step[c]` is the await at which a purchase stands, `cache` the client's, `reply[c]` any reply of a model, `collected` what really moved |
| `Console` | on its own; `page` is React state, `act` the operation under the guard with what its closure captured, `job[r]` the runs, which overlap freely, and `sweeps` the sweeps, which go on without the page.  A goal may be somebody else's, who closes it from a page of its own |
| `Budget` | on its own; `field` is the budget field, `task` the operation with the budget that its closure captured, `grants[g]` what vault and token hold for a goal, `purchase` the run under way, `decision` the last decision beside what it was taken from.  Amounts are hundredths of USDC, of which all the code's constants are multiples |
| `MC*` | symmetry sets and instances of the modules for TLC |
| `*Proofs` | theorems: `PolicyVaultProofs` (with the refinement of `SpendLifecycle`), `PaymentLoopProofs`, `SettlementProofs`, `SignerProofs` (with `KeyStore`), `RunServerProofs`, `TraceProofs`, `PurchaseProofs`, `ConsoleProofs` (with `Budget`) |

How they fit together.  `PolicyVault` implements `SpendLifecycle`
(`ImplementsLifecycle`), and `PaymentLoop` and `Settlement` implement
`PolicyVault`: their chain state *is* the vault's state, and `LoopSpec =>
Spec`, `SettleSpec => Spec` are theorems, so what is proved of the vault holds
under them.  The other modules see the vault through what they read of it, and
state at their top what they reduce.

What is abstracted: ciphertexts are their plaintexts, and no action but
`requestSpend` reads them; the attestation of a decision is the truth of it;
amounts, times and addresses are members of small sets; a window is counted in
ticks of the block clock; different inputs have different hashes.

Operators with a comment "Fault:" are wrong versions of the operator after
them, never used by a specification: replacing the right one by the wrong one
must make a property fail, which shows that the property is about the code.
`TypeOK` and its like in each module, and `AttemptsConserved`,
`NeverReturnedAndPaid`, `FrozenOnceWritten`, `ClosedOnlyShrinks`,
`OpenGoalIsNotSwept`, `GapsComeFromMints`, `CacheIsDurable` and
`AnchoredWasSaved` are in no run: where a proof needs them they are proved.

## 3. Runs

| run | question | instance | states |
|---|---|---|---|
| `vault_cycle` | are all accounts right through the spend cycle, does each spend live the life of `SpendLifecycle`, is the loss bounded when goals compete for a payer, is every pending spend resolved and every debit settled? | 2 goals, 1 payer, 2 vendors, 2 attempts, an amount over the cap, a window of 2 in 5 ticks | 40k |
| `loop_safety` | are two purchases on one goal, a crash and stray transactions safe? | 2 runs, 2 attempts, 1 crash, 1 stray | 2.3M |
| `loop_progress` | does a goal come free after the server died? | 1 run, reused | 40k |
| `settle_safety` | do overlapping settles, repeats and sweeps move money once? | 2 calls, 2 tries, deposits up to 2 | 726k |
| `settle_progress` | does a closed goal's balance come back? | 1 call | 48k |
| `sweep_refund` | the finding below: does the whole balance always come back? | as `settle_progress` | violated |
| `keys_rebuild` | do mints, crashes, lost disks and rebuilds keep payers apart and findable, and does the signer serve again? | 2 mints at once, 4 ids, a gap of 2, 3 troubles | 901k |
| `server_run` | do concurrent runs, crashes, failed saves, others' anchors and a failing probe leave traces, anchors and the gate right? | 2 runs, 3 goals, 1 cached trace | 617k |
| `signer_reads` | is only what was frozen signed, are the limiters' bounds what they are said to be, and do the retry loops outlast what is temporary? | lag 1, windows of 2, limits of 1, 3 tries, 5 ticks, 2 other requests or restarts | 4.4M |
| `trace_edits` | does the file of every run verify, and no edited one? | 2 runs, 1 edit in three forms | 3.7k |
| `purchase` | do two purchases that share a cache report the truth, and end? | 2 calls, 2 attempts, 1 restart | 251k |
| `console` | does the page, and the tool beside it, show only what happened? | 2 goals, one of them somebody else's, 1 mint, 1 funding, 1 reload, 2 posts, 2 runs | 4.9M |

Why the bounds are enough.  The sequential invariant ties together two
neighbouring spends, so two attempts give a spend reclaimed before, or pending
beside, another; the theorems extend this to any number.  Two goals and one
payer make the second goal ask for a payer that is bound.  Time 0..4 with a
window of 2 lets a window end before, at and after each step.  Two purchases
are what it takes for one to meet the other's undecided spend, and a third
would find it finalised.  One stray transaction and one crash suffice for each
late landing, because the landing is the same action whoever sent it; the
theorems about the loop hold for any numbers.  Two settle calls are what two
submitters of one authorization need.  With a gap of 2, four ids make a run of
unbound ids that ends a rebuild and one that does not, and three troubles are
a crash, a lost disk and a failed boot in any order; a node denies none, some
or all of the goals there are.  In `server_run` two runs
of one goal overwrite each other, two of two goals evict each other from a
memory of one, and a third goal has an id too long for the store; the choices
of goals are taken up to renaming.  A probe of one tick and answers reused for
two give every order of an answer, a timeout and the expiry of what was known.

In `signer_reads` a lag of one block makes every pair of reads disagree that
can disagree (requested and finalised are in different blocks, and only one
event happens between two of the nodes' heights at a time); limits of 1 make
the second request the refused one, in the window and across its end; a table
of one address is cleared by the second; three tries with waits of one tick
are just enough for a window of two and a lag of one.  `SignerAssumption` names
that margin: the waits before the last try, of which a hint of one second may
shorten the last, reach the end of a window (`(SignTries - 2) * MaxWait + 1 >=
Period`: 12 tries of at most 10 s against 60 s), and the sweeper's outlast the
lag (8 of 2.5 s against a few blocks); and two strangers' requests can fill
a limiter, restart the service, or both in part.  In `trace_edits` one edit
may alter, drop, repeat, swap or re-attest any step, leaving the hashes, or
computing the root, or the whole chain, anew: an editor who repairs everything
is the strongest one, so more edits add nothing but length.  The file that is
handed over is that of a run which had the goal to itself; `HonestVerifies`
covers the others.  In `purchase` the second of two attempts is the last one,
the second call finds what the first put into the cache, and a restart loses
it.  In `console` goal 1 is an earlier session's and somebody else's
(`OldOwners`), and goal 2 is the page's, which after the reload is an earlier
session's of its own; two runs are the one that a reload, or a broken stream,
left behind and the one that the page reads, on one goal or on two; two posts
are the sweep whose answer was lost and its repeat.

`Budget` has no run.  Its point is numbers: two limits of a field, four prices,
a cap, a margin and a headroom that three packages set independently, for
whatever amount is typed.  An instance would fix the amounts and bound what is
bought; the module does neither, and `ConsoleProofs` proves its properties as
it stands.

All models stop at the time bound, when every goal is closed or when every
purchase has ended, so deadlock is not checked.

Fairness.  `FairSpec` of the vault: time passes and, since finalising and
reclaiming are open to everybody and covalidators answer in the end, an
enabled one happens.  `FairLoopSpec`: the server keeps taking runs and
executing them, the nodes catch up, and a poll or a transaction that is
repeated for ever succeeds once (strong fairness, because each run's polling
is bounded).  `FairSettleSpec`: a call in hand goes on, the owner keeps asking
for the sweep, and the facilitator does not fail at the same point every time.
`FairSpec` of the key store: `main.ts` tries the boot again for ever, every 30
seconds, and the scan goes on while it is answered; troubles are bounded, so
it is in the end.  `FairSpec` of the server: time passes and a timer that is
due fires, which is all that `AskedIsAnswered` needs; nothing is assumed of
Inco.  `PurchaseFairness`: every request is answered or its connection breaks
(neither `X402Client` nor `LlmAgent` has a timeout of its own, so this is
assumed of the network and not of the code), and a backoff is over some time.

## 4. Finding

`sweep_refund`.  `service.ts:129` says that a sweep returns "the payer's whole
USDC balance to the goal owner".  The nonce of a sweep is a function of the
amount, so a payer that receives an amount that was swept before is never
swept again, while the answer says `settled`.  `ClosedIsReturned` is what does
hold, and `OneSweepPerBalance` is what the nonce is for.

### Divergences without a run

Reading the code against its comments turned these up; they are described here
because the code permits them plainly, and a run would restate that.

* `payment-loop.ts:697` explains an orphan by "the run that requested it died
  before signing".  `#recoverOrphan` knows only that the spend is pending and
  not finalised by this relay, so it also takes the spend of a run that is
  alive and polling; the server serialises nothing per goal.  The damage is
  bounded: `RecoveredNeverPaid` holds, since the run whose spend was taken
  meets `AlreadyFinalized` and stops before it signs.
* `facilitator.ts:214` promises that settling a consumed authorization reports
  success.  When it is consumed between the first read and the second, or the
  write, the answer is a failure.
* `main.ts:178-181` says that after a rebuild every payer is reachable again
  and that the counter never hands out an id that is already bound.  A node
  that lags does not throw, as `keystore.ts:343` demands of one that cannot
  tell; it answers that the payer has no goal.  Mint 0, open
  a goal for it, lose the machine and its disk, and ask a node that has not seen
  the goal: every id is a miss, the counter resumes at 0, and the next mint
  hands the bound id out again.  The vault refuses to bind it twice
  (`keystore.ts:260`), so no two goals share a payer; but until that mint, or
  another rebuild, the goal's spends and its sweep find no key.  A goal that is
  opened after the scan has passed its id ends in the same way.
  `RebuildFinds` states what does hold: a goal that was denied is lost alone,
  and the rebuild finds every other one that existed when it began, unless the
  denials themselves make a gap as long as the one that ends the scan.
* `trace-store.ts:22` calls the memory a bounded LRU.  Only `save` evicts;
  `get` (line 91) puts every trace that it reads from disk into memory.
* `service.ts:322-340` reads a spend in parallel calls (`vault.ts:105-117`).
  When `finalized` comes from a newer node than `approved`, the answer is
  REJECTED, which the loop takes for final (`payment-loop.ts:804`), although
  the spend is approved.  `FalseNeverIsTorn` says that a uniform view never
  causes this.  The 404 of a node that does not know the spend yet is final
  for the client too.
* A second run of one goal overwrites the file, while the contract keeps the
  first root: of an anchored goal the trace on disk may be another one.
  `POST /runs` takes a goal id of any length, of which the store silently
  keeps nothing beyond 32 digits, although the root is anchored (`LongIds`).
* The hash of a step covers neither its index nor the header of the trace
  (goal, vault, chain), so "any edit" in `verify.ts:12` is any edit of the
  steps; and the check of the settlement only warns.
* `cache.ts` says that its read is what keeps a resource from being paid for
  twice.  Two calls that overlap both pay, and a restart forgets.
* `fallback.ts` reports "no model was reached" also when a model answered with
  something that is not a decision.
* In the console, Resume of an old goal after minting a payer leaves a goal
  and a payer that do not belong together: the hint "Goal {goalId} already
  holds this payer" (`App.tsx:1393`) is then false, and Fund sends money to a
  payer that no goal binds.  Fund and Close show their success without a look
  at the receipt's status.  A resumed goal may be somebody else's: "Returned to
  your wallet" (`App.tsx:1089`) is then shown when its owner has closed it and
  the money went to that owner, as `ReturnedWentHome` says.
* `enclave-limit.ts:199` says that reaching the charge "already costs an
  approved, finalized spend record".  A sweep reaches it too, and costs a goal
  that is closed: hence that case in `DeriveCostsARecord`.
* `App.tsx:411` calls the budget "chosen before the goal is opened; immutable
  afterwards, like the goal".  The goal's is; the page's is not.  While
  `openGoal` waits for its receipt the dialog can be opened again, it stays
  when the goal arrives, and the field can then be edited.  "Opened with", what
  Fund sends and the overcharging vendor's price follow the edit.
* `App.tsx:870` says that the overcharging vendor is "always just past whatever
  budget is chosen", and the catalog promises "Refused".  The price is made of
  the page's own budget, which for a goal resumed by its number is 0.30
  whatever that goal was opened with: on a goal of 4.00 the vendor asks for
  0.35 and is approved.  `HostileMeetsTheBudget` is what does hold.
* `README.md:172` of the repository says that there is no refund on timeout;
  `reclaimExpired` is that refund, and `DebitIsSettled` shows it works.

## 5. Proofs

All are for any sets of users, payers, vendors and amounts, any number of
goals, attempts, runs, calls, crashes and stray transactions, and any window,
lag, limit and time to live, under the named assumptions on the constants
(`DataAssumption`, `BoundAssumption`, `AddressAssumption`, `LoopAssumption`,
`SettlementAssumption`, `KeyAssumption`, `ServerAssumption`,
`SignerAssumption`, `AttemptsAssumption`, `MaxEditsAssumption`,
`ConsoleAssumption`), which TLC evaluates in the runs.
Every safety invariant that a passing run checks is stated by one of them.

* `PolicyVaultProofs`.  None of the vault's properties is inductive alone.
  The invariant `IInv` has four layers, proved preserved one action at a time:
  `Structure` (types, which records exist, what `pendingSeq` names, attempts,
  the payer's binding), `Records` (each record's own life: a decision obeys
  cap and allowlist, only approved spends are paid or reclaimed, a reclaimed
  one is past its window and unpaid), `Calls` (the call account, which needs
  that a pending approval was granted with a call left) and `Accounts` (there
  is a running total of what the spends hold which, with budget and outflow,
  gives the grant).  From it follow `TypeOK`, `StrictlySequential`,
  `AttemptsConserved`, `CallsConserved`, `FinalizeNeverReverts`,
  `BudgetConserved`, `NeverReturnedAndPaid` and `PaidWithinPolicy`.
  `CeilingHolds` adds `PaidWithinCaps`, by which the number of paid spends
  times the cap bounds the outflow: the repository calls that ceiling a design
  property, and here it is a theorem.  `RecordsFrozen` and `ClosingCaps` prove
  two action properties from `IInv`: only three transactions write records
  (`RecordWriters`), and none writes one that exists without keeping its tuple.
  `LifecycleImplemented` is `Spec => Lifecycle!LifeSpec`:
  under `IInv` each transaction, one lemma each, is a step of `SpendLifecycle`
  or a stutter.  The invariant is needed because the abstract guards speak of
  what the records only imply: that the next number is the first free one,
  that an approval is covered by the budget, that a reclaimed spend is unpaid.
* `PaymentLoopProofs`.  `Shape` is what the loop keeps about its own state and
  the stray transactions; with it every step of the loop is a step of the
  vault or leaves it alone, so `LoopSpec => Spec`, and the ceiling carries
  over.  `Book` is what the purchases know.  `RunOK` says of each run that
  before its request is mined no spend is its own and no request of it is
  afloat, that until it pays its spend is not with a vendor, that from its own
  finalisation on its spend is not recovered, and that its reports are true;
  `Ledger` that what was presented or recovered is finalised, that nothing is
  both, and that no window outlasts the vendor's hold; `Afloat` that a request
  which may still land is the only one of its purchase.  One lemma per kind of
  step keeps it.  The argument for `RecoveredNeverPaid`: a spend is finalised
  once, by its own run or by another's recovery, and only its own run, having
  finalised it, goes on to pay.  From `Book` follow `OneSpendPerPurchase`,
  `RecoveredNeverPaid`, `TrueReports` and `CollectedWithinHold`.
* `SettlementProofs`.  `MoneyInv` says that what is signed is frozen in the
  vault, that an answered settle or delivery stands on a consumed nonce, and
  that sweeps have distinct nonces and closed goals.
* `RunServerProofs`.  `Health` bounds how long ago Inco could reveal by the age
  of the probe and of its answer; `Store` says that a run past its save is in
  the history of its goal, which ends with what is on disk; `Chain` that a
  mined transaction is what the contract holds.  For any numbers of runs and
  goals, any cache size, time to live and timeout they give all the safety
  properties of `server_run`.
* `SignerProofs`.  `Chain` orders the events; `Budget` types the enclave's
  windows; `Asking` and `InHand` say what the watched loop's request
  stands on: that its event was mined before it was asked; `Patience` that the
  n-th try comes n - 1 waits after the closing at the earliest.  With
  `(SweepTries - 1) * SweepWait > Lag` the last try is answered by a node that
  shows the closing, so `ClosedIsSeen`; what is signed was seen finalised and
  its window is the record's, so `ReleasedIsFrozen`; and `FalseNeverIsTorn`
  and `DeriveCostsARecord` follow from the cases of `Refusal`.
  `RateIsBounded` needs `Windows`: for each age up to the start of the present
  window the requests so far are within what that window has counted, for a
  greater age they are at most a limit more, and none is left from before.
  `GivenUpAfterAWindow` needs `LoopWaits`: the n-th try comes n - 2 full waits
  and a second after the first at the earliest, unless the window it is refused
  by began after the first try.
  Of the key store, `KeyInv`: `Prefix` says that every id below the counter, or below an
  id that was given out, was once taken; `Indexed` that disk and memory agree
  while serving; `MintsInHand` that a mint's id is below the counter and nobody
  else's; `Scanned` that of the goals that existed when it began a rebuild
  holds each one it passed whose goal was not denied, and that its misses since
  the last hit are ids without a goal or with a denied one.  For any gap and any number of
  mints they give `GapsComeFromMints`, `OneCallerPerId`, `HandedIsHeld` and
  `RebuildFinds`.
* `TraceProofs`.  Two theorems about the tree for lists of every length:
  `RootsDiffer` (equal roots, equal lists, also when one is longer) and
  `ProofHoldsForItsStep`.  Both rest on what a node is: the leftmost path of a
  node of level k has length k, so levels of two trees cannot be confused, and
  a promoted node is told from a pair.  `TraceInv`, inductive for `TraceSpec`,
  says that spends are only appended and finalised, that a builder's steps are
  a chain of hashes whose attestations cite a finalised spend of the run's own,
  and that a saved file is such a chain with its root.  From these follow
  `HonestVerifies`, `AnchoredIsUnedited` and `ProofsAreSound`, for any number
  of runs and of edits.  Where these arguments count up or down, they do so on
  a set of numbers (`Upwards`, from the well-foundedness of `<` on `Nat`),
  because the induction theorems of the library take a formula as a parameter.
* `PurchaseProofs`.  `Domains` types what a call carries, `Unfinished` says
  that a call has no result before it ends and `Undecided` that nobody decided
  before the agent did; one lemma per step gives `SettlementIsOwn` and
  `SourceIsTrue` for any number of calls, attempts and restarts.
* `ConsoleProofs`.  `ConsoleInv` adds to the three properties what they rest on:
  the run whose stream the page reads was started by this load of the page, and
  what it has settled and the page has not yet shown is in `left` beside what
  the page shows, whatever other runs, of this load or an earlier one, collect
  meanwhile; from the click on "Return" to its answer
  the page shows the goal that the operation is about; and a sweep is submitted
  for a closed goal only, which stays closed and keeps its owner.  Of `Budget`,
  `BudgetInv`: the account of every goal adds up (`Kept`: the calls left are
  the purchases not made, the amount left is the grant less the honest
  purchases while no hostile one was made, and the payer's balance is ahead of
  the budget by what it was sent over the grant), also without the payment that
  is on its way (`Priced`), and every decision was taken from such an account
  at the price of its button (`Decided`).  For any text in the field, any
  transfers and any number of decisions it gives the four properties of
  `Budget` (`HonestSettles`, `HostileMeetsTheBudget`, `FundsOutlastBudget`,
  `BilledAsShown`): the limits 0.30 and 4.00 of the code are just what makes the honest
  resources affordable and the fixed-price hostile ones unaffordable.

Only model-checked.  All liveness (`PendingIsResolved`, `DebitIsSettled`,
`GoalUnwedges`, `ClosedIsReturned`, `ServesAgain`, `AskedIsAnswered`,
`PurchaseEnds`), which is beyond the prover.

## 6. Not modelled, and why

* Chain definitions (`shared/src/chain`, `viem/account.ts`): constants and
  generated ABIs; the nonce manager is a library's.
* The end-to-end tools other than the sweep and the reclaim tool (`adversary`,
  `diagnose`, `demo`, `bench`, `tee-check`, `preflight`, `fund`,
  `vault-state`): scripts that run one scenario, or read, and print.
* Deployment and repository scripts: build steps.

Modelled in part only:

* token and Inco: external; the token's transfer, nonce and balance, and the
  attested decision, as the vault and the services use them.  Inco's protocol
  and the enclave's attestation are not in the repository;
* decision reveal: an answer or a timeout, as the loop sees it;
* facilitator: `verify` and `settle` by their chain accesses, and any failure in
  front of them; the parsing of requests and configuration are left out.  It
  answers success for any consumed nonce of the payer before it verifies the
  rest; the clients of the model present a spend's own tuple only;
* loop: the reclaim of an orphan reports events of its own, which `report`,
  the purchase's events, leaves out; `quotedAt` is when the vendor makes the
  offer and when the loop reads it at once, and all clocks agree;
* signer: the refusal "holds no USDC" (409) is one with the other final ones,
  and the 404 of an address without a key, after the charge, is left out;
  `RateIsBounded` counts from the last restart or clearing of the table, so
  it does not bound what two tables admit between them;
* health gate: taken to be there; a server without `incoHealth`
  (`server.ts:382`, `serve.ts:152`) lets every run in;
* x402 terms and payments: whether an answer parses and offers terms, and whose
  settlement it carries; the encodings are data;
* orchestrator server: the routes that read or print configuration are left
  out, and so is its own use of the limiter, which `Signer` models;
* rate limiter and guards: the limiter; tokens, CORS, environment parsing and
  logging are not state;
* web console: the wallet's connection and network and the dialogs that only
  display are left out.  A run that ends takes its pending spend with it: what
  becomes of that spend is the subject of `PaymentLoop`.
