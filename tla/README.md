# mltrade: models, checks and proofs

TLA+ models of `mltrade` (`src/src/mltrade`), a research-to-paper-trading pipeline for US
ETFs in Python.  The models follow the code; where a document says something else, a run
shows the difference.  Paths below are relative to `src/src/mltrade`.

## 1. The system

| Component | State it keeps | Operations | Talks to |
|---|---|---|---|
| `execution/service.py` `ExecutionService` | none between calls; within `submit` the loop position, outcomes, count | `preview`, `submit` | a `Broker`, the risk evaluator, `reconcile` |
| `execution/simulated.py` `SimulatedBroker` | order registry, fills, id counter | `submit`, lookups | called by the service |
| `execution/alpaca.py` `AlpacaPaperBroker` | none; the exchange has it all | HTTP GETs and one POST, 30 s timeout | Alpaca |
| `execution/reconciliation.py`, `risk/policy.py`, `execution/intents.py` | none (pure, but `reconcile` reads the broker) | `reconcile`, `evaluate_pre_trade`, `build_intent` | called by `preview` |
| `workflows/paper.py` `run_paper` | database rows: quality report, risk report and preview | one run: data, target, preview, save, submit | all of the above |
| `storage/snapshots.py`, `data/publication.py` | files of a snapshot: data file, then manifest | `publish`, `load_verified`, `load_manifest` | file system, several processes |
| `experiments/runner.py`, `storage.py`, `tracking.py` | a directory per run id, tracking state | `run`, `save`, `replace_tracking_state` | file system, MLflow |
| `experiments/tuning.py`, `comparison.py` | an Optuna study (SQLite) | `tune`, `compare_runs` | runner |
| `operations/repositories.py`, `database.py`, `audit.py` | SQL tables | saves, `save_intent` by select and insert, one transaction per scope | workflows |
| `workflows/demo.py` `run_demo`, `cli.py` | database rows, the snapshot of the session | the offline pipeline in nine stages, under five commands | snapshot store, database, all of the below |
| `backtest/engine.py`, `accounting.py`, `reporting.py` | positions and cash of a simulation | decisions, fills at the open, mark to market, windows | forecasts, optimizer |
| `models/walk_forward.py`, `features/pipeline.py` | none | feature rows, training split with embargo, forecasts | pure |
| `portfolio/optimizer.py` | none | `build_target` (convex solver) | pure |
| `data/quality.py`, `data/snapshot.py`, `calendar.py` | none | gate on bars; reader of the frozen panel | pure |
| `workflows/research.py`, `research_real.py` | none | backtest and current decision on a snapshot, or on the frozen panel | backtest |
| `config.py` | settings, validated once | – | all |
| `export.py`, `analytics/`, `experiments/reporting.py` | none | text and statistics | – |

What is hard: a submission that times out before or after the broker recorded the order;
several runs (overlapping, or a restart after a crash) over one account; an account that
changes between the eight separate reads a run makes; messages that are lost or arrive
after their sender gave up; partial fills, small deltas that are not traded; crashes
between two file-system steps of a publication; two identical experiment runs; two commands
whose open transactions insert the same intents; a study resumed after a crash, whose runs are
ranked while others are still tracked; a backtest that must not see the future, meet a held
symbol without a price, or spend what it does not have, over any market.
`PROJECT.json` lists each hazard with its line.

## 2. Modules

```
BrokerProtocol ── ExecutionService ──┬── SimulatedExecution ── SimulatedExecutionProofs
       │                             │        │  └ refines OrderLedger
       ├── SimulatedBroker ──────────┘ (with SimulatedBroker)
       └── AlpacaExchange ───┐
RiskPolicy ── Rebalancing ───┴── PaperTrading ── PaperCourse ── PaperTradingProofs
                                      │ (with ExecutionService)
                                      └ refines OrderLedger
SnapshotStore ── SnapshotStoreProofs
   └ refines ImmutableSnapshot
ExperimentRuns ── ExperimentStudy ──┬── ExperimentStudyProofs ──┐
   └ refines RunLedger              └── ExperimentCommands ─────┴── ExperimentCommandsProofs
                                           (with Loops)
Rebalancing ── DemoWorkflow ── DemoWorkflowProofs

Loops ── Accounting ──┬── BarQuality ──┐
                      └── Optimizer ───┴── Backtest ── BacktestProofs
                Features ── WalkForward ──────┘
Loops ── LoopsProofs: extended by the proofs of PaperTrading, DemoWorkflow, ExperimentCommands
                      and Backtest
```

* **BrokerProtocol** – order statuses.  An intent *is* its client order id: the id hashes
  all of the intent's fields.
* **ExecutionService** – `submit`, as a state machine per call.  The places of its loop are
  the broker calls: `check` (lookup), `submit` (first attempt), `query` (lookup after a
  timeout), `retry`.  The actions take the broker's reply as a parameter, so that the same
  module runs over either broker.
* **SimulatedBroker** – the registry.  The outcome of an attempt is a free choice: the
  caller owns `outcome_map` and may change it between attempts, as the tests' retry broker
  does.
* **SimulatedExecution** – the two composed; a service step and the synchronous broker call
  it makes are one action.  `shared` says whether calls may overlap or one is done before
  the next starts, as in the offline workflows; both are initial states.
* **OrderLedger** – what submission promises, abstractly: an intent gets at most one order,
  ever, and no answer is untrue.  Both compositions implement it (`KeepsLedger`); a step
  maps to placing an order, ending one, answering, or nothing.
* **RiskPolicy** – the seventeen rules.  A weight is a numerator over the context's `nav`,
  so comparisons are exact; decimal rounding at 28 digits is abstracted.
* **Rebalancing** – the pure computation of a run: target shares, deltas, the
  minimum-notional filter, intents, reconciliation differences, the risk context.
* **AlpacaExchange** – the exchange (external): what the adapter may meet.  Accepts an
  id once, rejects or refuses, fills in any portions, ends orders early (the adapter maps
  canceled and expired to `rejected`), reprices the account, bars it from trading; loses
  requests and replies, and may process a request whose sender has given up.
* **PaperTrading** – `run_paper`: environment check, eight reads one at a time, preview and
  save (one transaction), decision, submission with the POST and its reply as separate
  steps, timeout (`GiveUp`), crash at any point.  A restart is a further run: a run keeps
  nothing in memory that a later one sees.  `MaxActive` says how many runs may be in progress at
  once; when they start is up to nobody.
* **PaperCourse** – PaperTrading with a history variable, `course`: what a run found held when it
  read the positions its deltas are taken from, the target they lead to, and, per side and symbol,
  what others had on order or on its way at that moment (`Due`), to which what others send later is
  added (`Onward`).  What a run may be held to in a market that moves is stated in these terms.
* **SnapshotStore** – `publish`, `load_manifest` and `load_verified` of one snapshot id by any
  number of processes, one action per file-system step: temporary file, write, sync, link,
  unlink, sync of the directory, for the data file and then for the manifest.  A process may
  be killed between any two; `Outage` is a power failure, after which unsynced bytes are gone
  and unsynced directory entries are there or not.  `kind` distinguishes the callers: `data
  ingest`, the demo (publish, or load what is there), and readers.
* **ImmutableSnapshot** – what readers see of it, abstractly: published whole, never changed,
  answered as published.  SnapshotStore implements it (`IsImmutable`).
* **ExperimentRuns** – `ExperimentRunner.run` of a caller over the run store and a tracker:
  lookup, research, save (staging directory, rename, cleanup), log, mark or degrade, load.
  What research makes of a run id is a constant function of it (`Verdict`), as the id hashes
  the specification, the data and the code.  Every end of a call is a place of its own:
  returned, ExperimentBlocked, ExperimentFailed, ExperimentTrackingError, anything else.
* **ExperimentStudy** – `OptunaTuner.tune`: joins a study, checks and claims its context
  hash, asks for trials, runs each through ExperimentRuns and tells the outcome.  Two studies
  of one context ask for the same run ids, which is where callers meet in the store.
* **ExperimentCommands** – the commands around the tuners: what `tune` and `resume` name as the
  best run (`FinishTuning`), `compare` and `report`, which load records one at a time while runs
  are recorded and tracked, and rewrite `report.json` in place.  Metrics, compatibility key and
  dirtiness are constant functions of the run id, which hashes what they depend on.
* **RunLedger** – the store abstractly: evidence is recorded once per run and given unchanged
  (`KeepsRunLedger`).
* **Loops**, **Accounting** – totals over the symbols, filtering a list and sorting it; the book
  of a simulation and a rebalance of it.  Totals and filters are recursive functions and sorting
  is by counting (an element's place is the number of those that come before it), where a library
  operator would do for TLC: only of these can theorems be proved.  Prices are whole dollars and money ten-thousandths of one, so that a cost in basis
  points is exact, as it is in the code's decimals.
* **BarQuality**, **Features**, **WalkForward**, **Optimizer** – the pure steps of a research
  run, one operator per rule.  A bar is a symbol and a session; a feature row is its session,
  whether it is complete, and the session its label ends at; a forecast batch is the symbols it
  covers and the sessions of the data it rests on.  What the model predicts is which symbols
  qualify, what the solver answers is any vector or failure: both are free choices.
* **Backtest** – `run_research` on a published snapshot, or `run_real_research` on the frozen
  panel, around `run_backtest`: one action per decision session (`Retrain`, `HoldWeights`), one
  per traded session of each simulation (`Trade`), for the headline, the sensitivity levels
  (a level equal to the headline's is reused) and the equal-weight baseline; then the windows
  and the forecast of the last session.  A held symbol without a price is the code's KeyError
  (`MissingPrice`).  `last` and `gains` are history: what price moves have earned.
* **DemoWorkflow** – `run_demo` under `demo run`, `paper preview` (cold-start limits), `research
  backtest`, `portfolio build`, `paper reconcile` (steady limits), several at a time on one data
  root and one database.  One action per transaction; the last one, with its select and insert
  for every intent, is taken apart.  SQLite (one writer, others wait and give up) and PostgreSQL
  (an insert waits for the transaction that holds the key) are both modelled, as the code runs
  on either.  The risk verdict is Rebalancing's on a fresh account.
* **MCSimulatedExecution**, **MCPaperTrading**, **MCSnapshotStore**, **MCExperimentStudy**,
  **MCExperimentCommands**, **MCBacktest**, **MCDemoWorkflow** – values for TLC.

Operators marked *Mutant* are not part of the model: each changes one definition as a bug
would, and shows that some property notices.

## 3. What is checked

| Run | Question | Size |
|---|---|---|
| `submit_shared_broker` | two calls on one broker: at most one order per intent, fills match orders, outcomes true and complete, every order reported by the call that placed it, no resend of one's own order, refinement of OrderLedger; where the calls do not overlap, the service never relies on the broker's deduplication and "submitted" is never a rejected order | 8 620 states |
| `paper_overlapping_runs` | two runs at once, ready to submit, dry, or on stale data; repricing, lost and late messages, crashes; a held symbol outside the target: no overshoot, a clean reconciliation vouches for the positions read in between, evidence precedes action, refinement of OrderLedger | 1 200 000 |
| `paper_sequential_runs` | two symbols, one bought and one reduced; a run and its successor, which starts at any moment after the first has ended or died, with orders of the first open or on their way: a run whose own orders have filled is on target, every run ends | 100 500 |
| `snapshot_immutable` | three processes publish and read one snapshot, any is killed anywhere, the power fails once: no manifest without its data, no failed verification, nothing published by halves, refinement of ImmutableSnapshot | 316 000 |
| `study_shared_store` | two tuners on one or two studies, research, tracker and processes failing: evidence recorded once and unchanged, logged once, tracking state true, a settled study stays of one context, trials backed by records, every tuner ends | 374 000 |
| `experiment_results` | two tuners make, track and repeat runs of one study and name its best, killed or not, while a reader compares or reports: finished comparisons stand, named runs only improve, reports show their run's evidence or are torn | 1 650 000 |
| `backtest_walk_forward` | a research run on thirteen panels and two markets: no look-ahead, validated bars are tradable, no borrowed cash, wealth accounted for, windows tile the backtest and agree with the exported curve | 22 900 |
| `demo_shared_store` | two pipeline commands on one database: recorded previews are whole, the cold-start limits suffice, no circular wait, every command ends | 29 900 |

Bounds.  Two calls or runs, because every hazard listed is between two parties, and a crash
with its restart needs two runs; two intents, so that one can be settled while the other is
in progress; quantities 1 and 3, so that a half fill rounds to nothing and to a part;
in the paper runs a symbol to buy and one to reduce or to leave as it is, prices 1 and 2, in the
sequential run a minimum notional of 2, which suppresses a one-share delta of the first symbol but
not of the second (so that a restart after a partial fill leaves a remainder), and in the
overlapping run two equities, so that runs that read before and after a repricing follow different
targets at the same time.  A request outside the paper environment is in the sequential run, and a
snapshot that is blocked is left to the proofs.  `MaxQuantity` only bounds the type of an
intent; no reachable quantity exceeds it (the ledger has no such intent, and KeepsLedger would fail).  Only `Calls` bounds the
number of runs; nothing else is cut off.

Three snapshot processes are two publishers and a reader, or a publisher killed and two that
come after it; they and the two unblocked bars are interchangeable (`RunSymmetry`, used with
safety properties and a refinement only).  Two tuners with two trials each make two studies
meet on the same two run ids, or one study reach four; between them the ids have every verdict.
The commands' run has one study of four trials, one more than it takes for two tuners to share
it, repeat a trial and go on: the best of the first three fails its objective, the third, in a
worktree with changes, repeats the second with equal metrics (so that a tie and the dirty flag
matter), and the fourth is of another validation design (so that a comparison is refused).  The
tuners are interchangeable.  One reader is enough: a comparison it has finished is compared with
what the store holds at every later state, which is what any second reader could load.

The simulated broker's `submit` is one atomic step: it is an in-memory object without
threads of its own, and what interleaves are its callers between two calls of it.
No run assumes a discipline of the operator: paper runs start while others are reading or have
orders open, and tuners of different contexts start together on a new study.

In the backtest two symbols and ten sessions, with every period of the configuration scaled
down (a lookback and a horizon of one bar, an embargo of two sessions, two training sessions,
retraining every third, windows of three and no less than two): the first weighted decision
falls on the sixth session and the retraining on the ninth replaces or keeps it; the last
window is short or left out.  Panels are complete, short, or wrong in one way each: one per
rule of the gate, and a late listing, which the gate lets through.  The published path meets
them behind the gate, the frozen panel without it.  One market halves overnight, and 100 basis
points is the largest cost the configuration accepts.  The solver answers at, below and above
the limits after rounding, below zero, and not at all.  In the demo run two symbols are enough
for transactions to meet in two orders; the targets are at the position limit, below it, for
one symbol only, and empty.

Fairness.  A run, tuner or command that has started is sequential code over calls that
return or time out, hence weak fairness of its own steps, per run.  A command that waits for
another's transaction has no step to be fair to: that it ends follows from the other's fairness,
and from `NoCircularWait`.  The backtest has no liveness property: it is a loop over a finite
list.  Nothing is assumed of callers starting
runs, of the exchange, or of the network.

Deadlock is not checked: when every call has returned the system rightly stops.

### Where documents and code differ

* `rerun_claim` – "must find or reuse the existing intent": the quantity hashed into the
  id is the remaining delta, open orders do not enter it, and after a partial fill a re-run
  orders the rest a second time.
* `mixed_contexts_claim` – "rejected rather than silently mixing incompatible trials" (tuning.py:4-6):
  the study's context hash is read and set in two steps (tuning.py:104-106), so that two tuners of
  different contexts that start together on a new study both go on.  What holds instead is
  `StudiesStaySettled`: once the tuners past the check are of the recorded context, nobody who joins,
  resumes, crashes or is late changes that.
* `snapshot_replay_claim` – "re-running the demo reuses the existing snapshot": a publisher
  killed between its two links leaves an id that no later run can publish or load.
* `blocked_winner_claim` – a run that violates its objective is "excluded from ranking": `compare`
  excludes it, but the study scores it by its Sharpe ratio and may name it the best run.

Seen while modelling, without a run of their own: an HTTP timeout of the Alpaca adapter never becomes
a `BrokerTimeout` (alpaca.py:190), so that in production an ambiguous timeout ends the run, and what
resolves it by client order id is the next run (the design document, line 280, has it queried before
a retry).  The sampler varies training and retraining periods (search.py:24-30), which the
compatibility key hashes, so that a study names the best of runs that `compare` may refuse to rank
together.  The report saved with a run is made before its artifacts are listed and its tracking is
settled (runner.py:196) and so differs from `run.json`, though reporting.py:3 calls it the canonical
record; the `report` command brings them together, after which the digest that the record lists is
not the file's.  "timeout_failed (not submitted)"
(service.py:23) may be submitted, as the retry may time out after the order was recorded and
nobody queries again, and an order that was found rejected counts as "confirmed live"
(service.py:84, 425): what holds is `OrdersAreReported`, by which the call that placed an order has
reported it, as live, as rejected, or as timeout_failed where the timeout hid it.  The design
document has deltas taken "from current to target positions" (line 268), yet they are taken over the
target's symbols only (service.py:268): a held symbol that leaves the target stays, uncounted by the
exposure and cash checks, and `NeverOvershoots` holds it to what it was.  A run that a gate blocks
leaves no record, though the runbook says that every trial does; `compare` given a run id twice ranks
the run twice.  `run_demo` ignores `target.blocked`: a solver that fails and a flat target
give the same preview without intents.  It records the intents of a preview that risk has
blocked.  The cold-start limits fix the order limit at 25 %, which suffices only while
`maximum_position_weight`, which is configurable, is no larger.  Two first commands on one new
database race in `create_all`, and the slower one fails.  The checks of the forecast and of the
quality gate for non-finite values can never fire, as feature rows and bars are finite by
construction.  The backtest's warm-up is the minimum of training sessions, while the lookback, the
label's horizon and the embargo come on top of it before a forecast is made: the first sessions
reported are always all cash.

## 4. What is proved

`SimulatedExecutionProofs` (TLAPS), for all sets of calls, intents, previews (with distinct
intents), quantities and outcomes, and any number of calls in progress:

* `Invariance`: `Spec => []IndInv`, where `IndInv` is the type invariant, `AtMostOnce`,
  `OutcomesAreTrue` and two strengthenings.  `LoopInv` ties a call's place to the number of
  its outcomes.  `PlacedInv` says which intent of its call an order stems from: one the call
  is done with, or the one whose first attempt has just timed out – without it nothing
  excludes that a call about to send an order has placed it before.
* From it `TypeCorrect`, `AtMostOnceCreation`, `TruthfulOutcomes`, `BlockedIsInert`,
  `NoBlindResubmission`, and `ImplementsLedger`, the refinement.
* `FillsTellTheOrders`, `ResultsAreComplete`: the fills are those that the orders tell of; a call
  that has returned has an outcome for each intent, and counts that agree with them.
* `ExactnessWithoutOverlap`: where a call is done before the next starts, the service never leans
  on the broker's deduplication.  It needs that an order recorded for an intent in progress is the
  call's own, which is what overlapping calls break.
* `EveryOrderIsReported`: when a call has returned, each order it placed is in its result as what it
  is.  `ReportInv` says that what a call reports of its own order is true, and that an order that a
  first attempt's timeout has hidden is live when the query finds it; that there is a report at all
  follows from `PlacedInv` and `ResultIsComplete`.

The proof goes by the steps of a call: `LoopStep` and `StepCases` reduce every action to
"the broker part and the service part", `BrokerKeeps` treats the first, `SettleKeeps`,
`StartKeeps` and `LoopKeeps` the second.  The assumptions are those declared with the
constants; TLC evaluates them in the runs.

`SnapshotStoreProofs`, for any number of runs, bars and power failures:

* `Invariance`: `IndInv` is the type invariant, `DirectoryInv` (every entry is the file of some
  run, and what is certain on disk is there) and `RunInv` of every run.  `RunInv` says of a
  run's files that a linked one is synced (`LinkedInv`), that a linked manifest has its own
  run's data file beside it, certain to be on disk, and holds its bars (`PairInv`); and of the
  run's place what it has written and linked by then (`SavingInv`, `PlaceInv`, `ReturnedInv`).
  `ManifestImpliesData` alone is not inductive: it says nothing of a run about to link its
  manifest, nor of what a power failure may take.
* The proof is local: a step of a run leaves the files and the knowledge of every other run
  alone (`OthersAlone`, `FilesAlone`, hence `OthersKept`), each action keeps its own run's
  `RunInv` (one lemma per action), and `OutageKeeps` treats the power failure, which is not
  local.
* From it `TypeCorrect`, `ManifestIsBacked`, `LoadsVerify`, `PublicationIsWhole`, and
  `ImplementsImmutable`, the refinement.

`ExperimentStudyProofs`, for any number of tuners, studies, contexts and trials, whatever
research makes of a run and whoever is killed when:

* `Invariance`: `IndInv` is the type invariant, `CallInv` of every tuner, `MirrorInv` of every
  run, `NoLitter` and `TrialsInv`.  `CallInv` says that a tuner calls `run` exactly while it
  has a trial, and for that trial's run (`PhaseInv`, `TrialInv`); that between the rename and
  the tracking the stored record is still the one its maker holds (`MakerInv`), without which
  the maker's overwriting of `run.json` could destroy another's evidence; and that each record
  of a tracking tuner is logged unless it is busy with it (`TrackInv`).  `MirrorInv` says that
  only a record's maker has logged it: that is what makes `LoggedOnce` survive the crash of
  the maker, as no later call can become the maker.
* The proof is local like the one above: a step of one tuner leaves the other tuners alone
  (`OthersAlone`), touches no record but its own and keeps the evidence of that (`StoreAlone`),
  and changes no trial's context (`TrialsAlone`); `OthersKept` follows once, and one lemma per
  kind of step gives the rest.
* From it `TypeCorrect`, `LoggedAtMostOnce`, `TrackingTold`, `LittersOnlyWhenKilled`,
  `TrialsBacked`, and `ImplementsRunLedger`, the refinement of `RunLedger`.
* `SettledStudiesStay`: however tuners race for a new study, one that is settled – its context is
  recorded and no tuner past the check holds another – stays so at every step of anyone, and gets no
  trial of another context.  A tuner between reading and setting the hash counts as past the check,
  which is where two contexts can still meet (`mixed_contexts_claim`).

`PaperTradingProofs`, for any number of runs, symbols, prices and equities, whatever is repriced,
delayed, lost, duplicated or crashed:

* `Invariance`: `IndInv` types the exchange, the messages and each run's reads; it says of a run
  that it submits only what it has saved, unblocked (`SubmitInv`), that
  a request is on its way only for an intent of an unblocked preview and a reply tells what the
  exchange has done (`PostInv`), of a saved unblocked preview that it was of healthy, fresh data
  (`SavedInv`), and of every order that a saved preview of the run that placed it lists it
  (`OrdersInv`).  A request may be processed when its run has given up or crashed, so that all this
  is said of requests in flight and not of running runs only.  From it `EvidenceBeforeAction`.
* `ImplementsLedger`: the refinement of `OrderLedger`.  The ledger speaks of a set of ids, and in
  TLC's runs `MaxQuantity` bounds them; the theorem assumes that no id is left out (`EveryIdCounts`).
* `ReconciliationVouches`: a run compares the positions of its own read with those of
  reconciliation's, and takes its deltas from a third read between the two.  Positions move only by
  fills, and a symbol that trades on one side only moves one way (`TwoEnds`): where the outer reads
  agree, so does the one between.
* `NothingOvershoots` and `FilledMeansOnTarget` have no hypothesis: runs overlap, start while orders
  are open, follow different targets after a repricing, die, and their requests arrive late.  What
  can be said then is relative to what others had on order when the run read the positions, and have
  sent since.  The argument:
  * `FitInv`: an order has filled no more than its quantity; `WorkingInv`: finitely many orders are
    open or on their way, so that `Due` is a sum.  `SumStep` says how a sum changes with one term.
  * `CourseInv`: from its read of the positions to the end of its submission a run's preview is that
    of its course (`PlanInv`, `IntentsLead`), though the equity has changed since.
  * `BalanceInv` is the invariant that neither property is without: along either side, what is held,
    what is due, what the run has still to send (`Own`) and what it has filled the other way
    (`Done`) come to no more than what was held, was due and is planned.  A request that is sent
    turns `Own` into `Due` (`PostBalances`), a fill turns `Due` into a position
    (`ExchangeBalances`), an order that ends or is lost only loses, and what another run sends is
    charged to the course (`OnwardIs`).
  * Bought and sold sides together bound what is held and still to come from both ends, which is
    `NeverOvershoots`; and when the run's own orders have filled, `Done` is the whole plan, which is
    `FilledRunIsOnTarget`.
* `FilledRunIsOnTarget` asks that the run placed its orders itself: one that it found at the exchange
  (`already_existed`) may have filled before the positions were read, and then the run ends off
  target.  `ReconciliationSeesFills` leaves out symbols that traded on both sides, whose fills can
  cancel out between the reads.

`DemoWorkflowProofs`, for any number of commands and symbols, and both kinds of database:

* `Invariance`: of every command, which rows it has committed (`RowsInv`), where it is in its queue
  of intents and what has become of those behind it – its own, uncommitted, or in the database
  (`QueueInv`) – and what a recorded preview has with it (`WholeInv`).  From it `WholePreviews`.
* `NobodyWaitsInACircle`: a queue is in the order of the universe (`InOrder`), the same for all, so
  that of any set of waiting commands the one whose next symbol comes last waits for nobody in it
  (`GreatestNumber`).
* `ColdStartsPass` assumes that the optimizer's answers keep its limits and that the configured
  `maximum_position_weight` is no more than the 25 percent which cli.py:189-194 fixes for an order
  (`WithinOptimizer`).  config.py:37 accepts larger ones, and then an allowed target is blocked.
  The proof bounds every order, position and total of the seventeen rules by the weights
  (`TargetFits`, `WorthFits`, `OrdersFit`, `ColdPasses`); `ColdInv` ties the steps together: the
  risk stage gets the positions that the optimizer's weights were sized to, and a cold command
  that goes on to save its preview was not blocked.

`ExperimentCommandsProofs`, for any number of tuners, readers, studies and commands, on top of
`ExperimentStudyProofs` (`StudiesInvariant`: the commands do not disturb the studies):

* `ReportsInvariant`: what a reader has loaded and what a report shows is a copy of its run's
  record – equal to it, or from before its tracking was settled (`CopyOf`).  That is inductive
  because a record's evidence never changes and its tracking is settled once (`RecordsSettle`).
  From it `ReportsLag`.
* `ComparisonsHold`: a ranking is the list of the positions that count, once each and best first
  (`Names`, `RankingDef`), and there is one such list (`NamedOnce`): of two lists of a set by
  ascending keys neither can be ahead of the other, by the pigeonhole principle (`NeitherAhead`).
  Dropping runs from a list, and counting positions from the other end, give such lists again
  (`DroppedFrom`, `TurnedRound`), and by `CopyOf` the runs that count then and now differ by those
  that lost their tracking.  The argument needs that the order is strict and total
  (`BetterOrders`): run ids differ, so that no tie is left to the order of the request.
* `WinnersImprove`: a trial that counts is never touched again (`TrialsStand`), as the trial that a
  tuner tells is running and no other tuner's (`RunningInv`), and a winner is one of those that
  count (`WinnersInv`).

`LoopsProofs` and `BacktestProofs`, for any number of symbols and sessions, any bars with positive
prices, any market, solver and cost levels:

* `LoopsProofs` has what loops do: totals are additive, linear, monotone, and telescope; a filter
  picks each element that qualifies, once and in order; sorting permutes and puts keys in order; a
  set without gaps is an interval.  It rests on `NumberInduction`: induction over a *set* of numbers
  instead of an operator, which follows from the least-number property of the naturals.
  `SetInduction` is its counterpart for finite sets, from which the community modules' totals over
  functions get their lemmas.
* `RebalanceStaysFunded`: a rebalance at this open's equity spends on each symbol no more than
  its share of the equity (`TargetQuantityFits`), and pays costs on at most what was held plus
  what is bought, hence on at most twice the equity; weights that leave a reserve of twice the
  cost rate (`Affordable`) therefore leave cash.  `RebalanceConservesWealth`: at the prices it
  trades at, a rebalance changes the worth of the book by its costs only.
* The inductive invariant `IInv` says that every decision's weights are allowed
  by the optimizer's limits (its checks after rounding are what makes this so, whatever the
  solver answers: `BuildTargetAllowed`), that the book is of whole non-negative shares and cash,
  and that worth, gains and costs balance at the prices of the last close.  From it
  `BacktestTypeOK`, `BacktestNeverOverdrawn` and `BacktestAccountsForWealth`.
* Three more invariants join it: `DatesInv`, how far the data behind a decision reaches, for
  `BacktestNeverLooksAhead`; `TradableInv`, that what is held on validated bars has a price at every
  session, for `ValidatedRunsAreTradable`; `WindowsInv`, that what a simulation reports is the sum of
  the costs charged session by session and that the first result is the first simulation's, for
  `BacktestWindowsTile`.
* `ReserveAssumption` (twice every cost level is at most the cash reserve) is needed:
  `PortfolioLimits` accepts any positive reserve.  The default of 5 percent gives it for every
  cost level that `BacktestConfig` accepts.

Assumptions.  Those of the constants are named in the modules that declare them (such as
`PaperAssumption`, `DemoAssumption`, `CommandsAssumption`), and TLC evaluates them in the runs.  The
hypotheses of single theorems (`EveryIdCounts`, `WithinOptimizer`) are conditions on the constants, each for the
reason given above; the values of `demo_shared_store` satisfy `WithinOptimizer`.

Only model-checked: liveness (`EveryRunEnds`, `EveryTunerEnds`, `EveryCommandEnds`), which is out of
reach as it rests on fairness and ENABLED.  Every invariant, action property and refinement that a
passing run checks is a theorem.

Only proved: `OnlyUnblockedIntentsArePlaced` (`BlockedIsInert`) and `NoLitter`
(`LittersOnlyWhenKilled`).

Stated nowhere: that a filled run also keeps the position and cash limits its preview was checked
against.  With fills at other prices than the snapshot's, other runs' orders, or holdings outside the
target it need not.

## 5. Plan

1. *Done:* submission over the simulated broker; paper runs over the exchange; snapshot
   publication; experiment runs, studies and their comparison; research runs with their backtest; the offline
   pipeline on a shared database.
2. *Done:* proofs for all of these, down to every invariant that a run checks.
3. `ColdStartsPass` has a counterpart for the steady limits: which turnover and order sizes an
   unblocked steady preview may have, and what that says of the run after next.
4. `FilledRunIsOnTarget` for runs that found some of their orders at the exchange.

### Not modelled

The ridge regression and its standardisation, the values of features, the convex problem, and the
statistics of `compute_metrics`, `analytics/` and the per-symbol contributions: floating-point
numerics, of which the models keep what decides where a value may be used.  `data/alpaca.py` (paged
downloads into immutable values), fixtures and experiment specification files.  Broker orders, reconciliation runs and audit events in the database, which no
workflow writes.  Argument parsing, reports, logging, export: text.
