# Verification of xian-dex-automation

TLA+ models of the DEX automation service and of its strategy vault contract,
the TLC runs that check them and the TLAPS proofs about them. Paths below are
relative to the repository; the Python package is `src/xian_dex_automation`.

## The system

| component | code | state | operations |
|---|---|---|---|
| swap journal and recovery | `storage.py`, `execution.py`, `submission.py` | `pending_execution` (one slot), `uncertain_executions`, `runs`, `rule_state`; execution lock | begin, mark attempt, broadcast, look up, finish, release, resolve |
| rule evaluation | `worker.py`, `rules.py`, `dex.py` | `rule_state`; the decision in memory across awaits | hold check, decide, quote, sign, dry run |
| configuration publication | `configuration.py`, `service.py`, `storage.py`, `cli.py` | `runtime_config`, `config.yaml`, wallet key file, configuration lock | claim, drain, publish, replace key, startup publication |
| event worker | `worker.py` | `cursors`; configuration, revision, client, event and pairs to do in memory | adopt a revision, open a client, follow the feed, admit, retry, wait for a swap, write the cursor |
| strategy vault | `contracts/con_dex_strategy_vault.py` | limits, keeper, pause, spent total, last execution, balances | deposit, withdraw, set keeper, pause, tighten, swap |
| price rule, deadlines | `rules.py`, `dex.py` | none | pure decimal and date arithmetic |
| configuration schema | `config.py` | none | validation, load, save |
| admin API and UI, history, logging, credentials | `service.py`, `storage.py`, `logging_setup.py`, `credentials.py` | none that a decision reads | read-only routes, formatting |
| vault bootstrap | `scripts/bootstrap_strategy_vault.py`, key routes of `service.py` | keeper key file, service configuration file, contract, allowance, keeper's currency | create key, deploy or check, deposit, unpause, write configuration, fund keeper, exercise; put key, restart |

The parts meet in one SQLite database and two lock files. Worker tasks, API
evaluations, recovery loops and drains, in one process or several, contend for
the execution lock. Whoever holds it first reconciles the pending swap, then
evaluates rules. A configuration change takes the configuration lock, which
stops admissions, drains under the execution lock, and publishes. A vault sees
transactions of its owner, which the bootstrap script sends, and of its keeper.
Script and service share the key file and the configuration file, without a lock.

What is hard: a process may die, be cancelled or fail at every await; bytes on
the network outlive it and may be executed late; an answer may be lost while the
transaction is committed; several processes read, wait and write; a publication
is three separate writes; receipts may appear after a swap was given up; an event
is delivered again after a crash; the script is run again after it died anywhere,
with transactions of the previous run still under way.

What makes each part correct:

- journal: only the pending swap can still execute; a closed run says what
  happened; a rule has at most one unsettled trade and one success per observed
  baseline; the slot is always freed again;
- configuration: nothing is evaluated, signed or sent under a superseded
  configuration, revision, market or key; workers adopt every revision;
- event worker: the cursor belongs to the market it is used for; it passes no event
  that a rule has not reached, never goes back, and goes on in the end; an event
  makes a rule trade once;
- vault: budget, spacing, slippage and review of limits hold against any keeper;
- price rule: it fires on real moves, does not follow drift, and what it sends
  is what the vault accepts;
- bootstrap: no key, payment or pause is lost or undone by a rerun, the written
  configuration fits the vault, and repetition reaches an active vault.

## Modules

| module | what it is |
|---|---|
| `ExecutionJournal` | the journal, the sessions under the execution lock, node and chain |
| `SwapOutcomes` | abstract: what the submission of swaps promises |
| `SwapOutcomesProofs` | proofs of what that promise means |
| `JournalRefinement` | `ExecutionJournal` with the mapping to `SwapOutcomes` |
| `ExecutionJournalProofs` | proofs about the journal and the refinement |
| `EventDelivery` | the feed, watchers, retries, cursor; over `SwapOutcomes` |
| `EventDeliveryProofs` | proofs about it |
| `Configuration` | configuration changes, workers, editors, keys, cursor |
| `ConfigurationProofs` | proofs about it |
| `StrategyVault` | the contract |
| `StrategyVaultProofs` | proofs about it |
| `PriceRule` | operators: price, threshold, quote, minimum, deadline, vault envelope |
| `KeeperTrades` | one rule trading for an instance of `StrategyVault` |
| `KeeperTradesProofs` | proofs about both |
| `VaultBootstrap` | the bootstrap script and the service's key routes on an instance of `StrategyVault` |
| `VaultBootstrapProofs` | proofs about it: types, keys, consent, configuration |
| `VaultFundingProofs` | proofs about it: what runs pay and achieve, the contract's promises |
| `MCJournal`, `MCEvents`, `MCConfiguration`, `MCVault`, `MCKeeper`, `MCBootstrap` | instances for TLC |

Definitions named "Mutation of" or "Mutant" are deliberate errors, defined next
to the definition they distort; replacing it by one of them must break the
property named in `PROJECT.json`. Nothing else uses them.

### ExecutionJournal

A process is a holder of the execution lock. `pc` is the await it is suspended
at, `task` its locals: `run` and `seen` are the `PendingExecution` row as it was
read, `basis` the number of the `rule_state` write its decision rests on. One
SQLite transaction is one action; two statements with an await, another
connection or the network between them are two actions.

- `Claim`, `ReadPending`, `Leave`: `evaluation_lock`, `recover_once`, the drain.
  A claim has the permission to broadcast (`allow`) and the rules to evaluate
  (`todo`, empty for a recovery).
- `LookupMissed`, `FinishReceipt`, `ReleaseConsumed`, `NonceUnused`,
  `MarkAttempted`, `NodeAdmits`, `NodeRefuses`, `ReplyAccepted`,
  `ReplyRefused`: `_reconcile` from top to bottom.
- `CheckRule`, `HoldRule`, `ResolveUncertain`, `SaveBaseline`, `SkipRule`,
  `DecideTrade`, `BeginExecution`: `_evaluate_rule`. Which rules move their price
  enough is left open.
- `Stop`: an exception, a cancellation or the death of the process at any step.
  If it was posting, the request may stay under way in `wire`.
- `Deliver`, `Evict`, `Commit`, `ForeignCommit`: late delivery, loss, inclusion in
  a block, other users of the wallet key. The wallet's nonces order executions.

What a lookup answers is adversarial: it may miss a committed receipt; a nonce
query may lag. Both may not invent a receipt or a nonce. Signing may take any
nonce. `append_run`, `note_execution_error` and all details are left out.

### SwapOutcomes

Trades are opened one at a time, executed at most once and only while pending,
then settled, refused or parked; a parked one may be settled later. Locks,
sessions, crashes, nonces and copies of bytes do not appear. The mapping takes
the status column for the ledger, the chain for the fate and the journaled rule
for the owner.

### EventDelivery

A watcher is `_watch_events`, a caller `evaluate_pair_once`. The feed is the list of
Sync events, an event id its position, and `snap` the length of the feed when
`get_pair_snapshot` was answered: what a rule has reached is the state it last
decided on. Each executed swap is an event too. Swaps behave as `SwapOutcomes`
promises, which `ExecutionJournal` implements, so that the two compose.

- `Start`, `Receive`, `SaveCursor`: `_watch_events` and `save_cursor`;
- `Admit`, `Call`: `evaluate_pair` under `evaluation_lock`. A lock that is taken is
  an `Admit` that is not enabled: the watcher tries again;
- `Reconcile`, `RecoveryPending`, `Snapshot`, `ResolveUncertain`, `SkipRule`,
  `BeginTrade`, `Submitted`, `SubmissionPending`, `PairDone`:
  `_evaluate_pair_locked`, rule by rule in the order of the configuration;
- `Waited`: `_wait_for_execution`; `Recover`: `recover_once` of any process;
- `Fail`: exception, cancellation, new configuration or death. A new configuration
  ends the watchers; what it changes is `Configuration`.

Assumed of the external client: a watch without `after_id` starts at the beginning
of the feed, ids grow, and a snapshot includes the event that caused it. What a
rule decides is left open, as in `ExecutionJournal`.

### Configuration

A configuration is a market (rpc_url, chain_id and dex, with one pairs
contract), the pair of one rule, or none when the rule is deleted, and
`wallet.execute`. Whole configurations, uploaded or edited by hand, are taken from
`Targets`. Other fields are copied but decide nothing here. `file`, `stored`, `generation`, `key`, `baseline` and
`cursor` are the durable state; `mem` is what a process has read. Reads by
separate queries are separate steps (`ReadConfig`, `ReadGeneration`, `OpenOnce`);
a publication is `WriteFile`, `StoreConfig`, `WriteKey`, and a process may stop
between any two. `Starting` tells a publication at startup, which ends the
process when it fails, from a request. A pending swap has its origin, its
signing key and whether it was sent; the details of settling it are
`ExecutionJournal`. `enabled` is history: the keys for which the operator asked
for execution. `Busy` is always possible because any reader of the gate, `/health`
too, makes the non-blocking exclusive lock fail.

### StrategyVault

A transaction is one action: an assertion that fails reverts it. Every entrypoint
may be called by any user, with any arguments; the exchange pays anything at
least `amount_out_min` and quotes anything. `seed`, `reviewed`, `net` and
`trades` are history.

### PriceRule and KeeperTrades

`KeeperTrades` composes the evaluation of a rule with an `INSTANCE` of
`StrategyVault`: `BlockTime`, `OwnerActs` and `Execute` are steps of the vault
with arguments the worker computed. It starts with the vault funded and active
and with a rule that `Fits` its limits, as `config.py` demands. `Trigger` is
`evaluate_price_move`; the reserves were read by two queries before. `Prepare`
computes minimum and deadline, from the block time a node reports (up to `Lag`
old) or from the wall clock. `Execute` and `Fail` decide the fate of the call,
`Fail` at any time and for any reason; `Settle` writes `rule_state` for a
definite outcome, `SettleLate` for one that was unknown first.

Decimals are fractions and compared exactly; the rounding of the decimal context
is left out. Quotes are whole units, so that `Price` and `MinimumOut` are
integers. Worker and contract quote with the same formula and fee. The clock
and block time may each lead by `Skew`. A stored baseline is a price, hence
positive: the branch `invalid_baseline` cannot be reached. Only one rule and one
keeper use the vault; several rules on one vault also share its cooldown, and the
second then reverts whatever its own cooldown is.

### VaultBootstrap

`phase` is the next step of `main`, `args` its command line, `waits` the account
whose last transaction it waits for. `open` are the transactions sent, per account
and in the order of their nonces; a transaction leaves it by `Executed` or
`Refused`. A run that gives up (`Stop`) leaves its transactions there, and they
may still be executed, also during the next run.

- `KeeperWallet`, `CreateKeyFile`, `WriteKeyFile`: `_keeper_wallet`, with file
  creation and write as two steps. A run without `--execute` ends here, having
  changed nothing;
- `DeployOrReuse`: `_deploy_vault` or `_assert_existing_strategy`;
- `ApproveMissing`, `DepositMissing`, `UnpauseVault`, `WriteConfig`,
  `FundKeeper`, `Exercise`, `Report`: `main` to its end;
- `OwnerPauses`, `OwnerSetsKeeper`, `OwnerTightens`, `OwnerWithdraws`: the owner
  by hand, between runs only and after his own transactions;
- `ServiceStarts`, `PutKey`, `TruncateKey`, `RewriteKey`, `Enable`,
  `ServiceTrades`: the service on the same files, with its configuration in memory
  (`active`), which is stale after the script wrote the file.

`consent`, `discarded` and `gaveUp` are history. The exchange pays one for one;
what it pays is `StrategyVault`. Before deployment the vault's variables mean
nothing. Two things the code does are outside what is claimed. A deposit that is
executed after the run that sent it gave up is paid again by a rerun that read
the balance before: `FundedAsAsked` holds until `gaveUp`. And an owner who changes
the keeper by hand while a run is between its check and its unpause has the vault
unpaused by that run: he is asked to act between runs.

## Runs

| run | instance | question |
|---|---|---|
| `journal` | 2 processes, 2 rules, 2 runs, 2 nonces, 3 writes per rule | all safety properties of the journal; it implements `SwapOutcomes` |
| `journal_live` | 2 processes, 1 rule, 2 runs, 1 nonce | the slot is freed, holds are resolved |
| `events` | 2 watchers, 1 caller, 2 pairs, 3 rules, 1 swap, 1 other trade | no event is passed over, traded twice or stuck |
| `configuration` | 1 worker, 1 API process, 2 markets, 2 pairs, 2 keys, 3 revisions, 1 local edit | all safety properties of publication |
| `configuration_live` | 1 worker, 1 API process, 3 revisions | revisions are adopted, drains end |
| `vault` | 2 keepers, amounts and times 1..2 | all properties of the contract |
| `keeper` | 4 reserves, 4 rules, 2 sets of limits, times 0..4 | the rule, its calls and the vault agree |
| `bootstrap` | 2 keys, 3 command lines, 2 sets of limits, 2 failures | keys, pause, funds and configuration over reruns; repetition gets there |
| `stale_cursor`, `local_edit`, `key_rotation`, `torn_snapshot` | small | expected violations, see below |

Two runs are the smallest number in which one is closed while another is open;
two processes give every pair of concurrent holders; two nonces allow a run to
be overtaken by another or by a foreign transaction and then to be followed;
three writes of a rule are its first baseline, a trade and a reset. Longer
histories of one rule are left to the proofs, which have no bound. Three revisions are
the first, one that changes something and one that changes it back, which is
what a comparison of configurations without revisions misses; two markets, pairs
and keys let each change alone or together. One swap and one other trade give a feed
of two events, so that two watchers can be at different ones; the first two rules
share a pair, so that the swap of one may excuse the other and never the third.

In `bootstrap` the command lines are the plan, one with all options, and one with
tighter limits and half the deposit. Two failures are a run that dies and a
rerun that dies or meets a late transaction of the first. Deposits of one and two
let a vault be partly funded.

In the vault two
amounts and two times let a cap be half spent, tightened and used up, and a
cooldown be met early, exactly and late.

In `keeper` the prices are 1, 2 and 1/2, so that a rise and a fall meet a
threshold exactly; the mixtures of two reserves give more, and one pair is
empty. Limits allow two swaps, or one and no slippage after tightening. Four
units of time fit a swap, a cooldown of three and a second swap, with clocks one
apart and a deadline margin of one.

Bounds (`MaxRuns`, `MaxNonce`, `MaxWrites`, `MaxGeneration`, `MaxEdits`, `MaxMoves`,
`MaxTime`, `MaxNet`, `MaxFaults`) are guards of the actions that would exceed them;
`Swaps`, `Targets`, `Commands`, `Envelopes` and `Costs` are the finite sets that inputs
are taken from. `MaxFaults` counts only steps that would not have had to fail. In the
journal `DecideTrade` keeps room for the write that settles the trade, so no
bound stops a settlement. Symmetry is used only in runs without liveness.

### Fairness

`journal_live`: the holder of the lock goes on (an event loop runs its tasks);
the worker keeps claiming the lock, since the recovery loop polls; the endpoint
answers, admits and includes now and then (strong fairness, for whichever process
asks); processes stop failing in the middle of a session at some point. Without
the last, a process that dies at each attempt settles nothing, and nothing in the
code could change that.

`configuration_live`: every process goes on; a worker's watcher task, which polls
ten times a second, gets its turn; broadcasts and receipts succeed in the end;
processes stop failing. `DrainEnds` allows one drain that does not end: a swap
that was never sent is neither looked up nor sent in a drain towards a disabled
configuration, which waits as documented.

`events`: an evaluation and a watcher go on. A watcher that polls for the lock or
for the end of a swap finds them free now and then, and the recovery loop gets an
answer, although other processes take the lock in between (strong fairness);
processes stop failing at some point.

`bootstrap`: the script goes on and the chain executes or refuses what it has; the
number of failures is bounded. That the operator runs the commands again is the
hypothesis of `Recovers`, not a fairness condition, and what he may have done in
between to make it impossible is its second alternative.

## Disagreements found

- `stale_cursor`: a watcher checks the revision and writes the cursor in two
  steps outside the locks; a change of rpc_url or chain_id published by another
  process in between clears the cursor before the old watcher writes it.
- `local_edit`: until an API change publishes a configuration for the first time,
  the local file is the active configuration. Editing its network and
  restarting resets neither baselines nor cursors.
- `key_rotation`: an API process reads the configuration before it takes the
  configuration lock. A key replacement published by another process in
  between is followed by the copy with `wallet.execute: true`.

- `torn_snapshot`: the reserves of a snapshot come from two queries without a
  block height. If liquidity is added or removed in between, the mixture has a
  price the pair never had, and the rule fires although the price did not move.

## Proofs

`ExecutionJournalProofs` proves for any sets of processes and rules and any
bounds: the type invariant, `OnlyPendingExecutes`, `OutcomesTrue`,
`OneOpenRunPerRule`, `OneTradePerBaseline`, `AttemptRecordedFirst`, `SettledOnce`
and `Spec => ImplementsOutcomes`. The only assumption is `JournalAssumption`
(bounds are naturals, the two markers are no members of the sets).

The properties are not inductive: whether a refused rebroadcast may be believed
depends on what the session remembers, and whether a run may be begun on what
other sessions can still do. `IInv` adds

- `LockInv`: exactly the holder is inside a session;
- `SessionInv`: the row in memory is still the row in the slot, `seen` is what
  was durable when it was read, a first attempt has no copy outside, and a
  decision rests on the rule's current state;
- `JournalInv`: slot, hold table and status columns agree;
- `ChainInv`: a copy that can still execute belongs to the pending run, and
  used nonces lie behind the wallet's;
- `BasisInv`: a success has moved its rule on, so that of two runs on one state
  one has failed.

Each action preserves each part, action by action; the refinement maps each
action to a step of `SwapOutcomes` or a stutter, using `IInv` for the guards.

`StrategyVaultProofs` proves for any amounts, durations and keepers the type
invariant (with it that no balance goes negative), `WithinBudget`,
`ReviewedWhenActive`, `SwapsSpaced`, `TradesWithinSeed` and `FundsAccounted`. The
strengthening is that limits only tighten since the constructor and that `last` is
the latest swap; slippage needs that products keep the order of their factors. The
sums of `FundsAccounted` are a recursive function over the history: that such a
function exists and is unique follows from the least natural number at which it
would fail (`SumExists`, `SumUnique`), and a swap appended to the history adds its
field (`SumOfAppend`). All of it is proved for `Transaction`, which is `Next` with any
quotes, minima and deadlines instead of the few TLC tries. Nothing in it needs the
owner and the keeper to be different users; the contract does not ask for that.

A contract nobody has used satisfies the invariant and every transaction preserves it
(`FreshIsSafe`, `TransactionSafe`). The two modules that compose the contract with its
users take these lemmas by `INSTANCE` and show that whatever they do is a
`Transaction`, the deployment, or invisible to the contract. So its promises hold
for the worker of `KeeperTrades` (`ContractKeepsPromises`) and for a vault that script,
service and owner use together (`BootstrappedVaultKeepsPromises`), although the
bootstrap deploys it in the middle of its behaviours and late transactions reach it.

`SwapOutcomesProofs` says what the promise of the journal is worth: one pending swap,
one unsettled swap per rule, a true ledger, and no settled swap ever touched again.
`JournalKeepsPromise` carries this down the refinement to the journal, and
`DeliveryKeepsPromise` with `SwapsOfWorkers` to any number of workers, whose steps are
steps of the promise or leave the swaps alone.

`EventDeliveryProofs` proves for any processes, pairs, rules, swaps and lengths of
the feed the type invariant, `NoEventPassedOver`, `OneSwapPerEvent` and
`CursorNeverBack`. The strengthening follows each process: where it stands all rules
reached the events before its own, and for its own event those of the pairs that are
done (`Caught`); inside an evaluation the rules already looked at reached the state of
the snapshot (`Looking`); a rule that opened a swap has its pair done or is being
evaluated in it (`Once`). What a rule has reached it keeps, since feed and
histories only grow.

`ConfigurationProofs` proves for any workers, editors, markets, pairs, keys and
requests the type invariant, `EvaluatesActiveConfig`, `PendingUsesCurrentKey`,
`PendingOfActiveConfig` and `BroadcastOnlyWhenEnabled`, and `ComparesOwnMarket` when
a configuration has been published (`Published`; the run `local_edit` shows that
it fails otherwise). The invariant says of each process, at its place and with its
memory:

- `LockInv`, `ModeInv`: who holds which lock, and why it reconciles;
- `CurrentInv`: no memory is ahead of the stored revision, and an evaluation is at it;
- `ClientInv`: an open client has the key of the file, unless its configuration is
  superseded or has execution off; this is what makes a key replacement safe;
- `SendInv`: the permission to send is that of the configuration that counts;
- `UpdateInv`: a publication in progress has a target, a new key only with
  execution off, and an empty slot behind the drain;

and of the database that its baseline, once published, is of the stored market and
pair. A revision is stored while its publisher holds both locks, so that the other
processes are at places where nothing depends on it.

`KeeperTradesProofs` proves the type invariant, `NotTooSoon`, `BaselineHeld` and
`AcceptedUnlessDisturbed` for any rules, limits, reserves, skew and lag. The
strengthening: clocks stay within `Skew`; the time in `rule_state` is not older than
the vault's last swap by more than `Skew`, unless a success is still to be settled;
what is being prepared or under way still follows from `rule_state`; an open call
carries the minimum of its own snapshot and a deadline counted from a time at most
`Skew` ahead of the block (`Called`). With `DeadlineInHorizon` and `MinimumAllowed`,
the arithmetic of deadline and minimum, these are the assertions `Vault!Accepts` of
the contract, one by one. The property asks for a quote of at least one whole unit,
since the model counts in units and the code in decimals. `FullFallNeverFires` says
that a rule for a fall of the whole price is accepted and never trades.

`VaultBootstrapProofs` proves for any command lines, envelopes, keys and number of
failures the type invariant, `KeeperKeyHeld`, `UnpausedByConsent` and
`ConfigCoversVault`. Its invariant: a run remembers its command line and the consent
given (`RunOK`); a key is generated before there is anything else and kept from then on
(`KeysOK`); a transaction under way, of whatever run, deploys only with a key that is
held and unpauses only with consent (`QueueOK`, `VaultOK`); behind its look at the vault
a run works on the vault it was asked for, or its own deployment of it is the owner's
newest transaction (`PlaceOK`); execution is off while the service overwrites the key
(`ServiceOK`).

`VaultFundingProofs` proves `ReadyWhenDone` and `FundedAsAsked` on top of it, each with
an invariant of its own. `ReadyInv` follows a run to its success: what the vault holds
or has traded, which only the owner's hand lowers, reaches the deposit asked for once
the deposit is measured, under way, or there (`FundedOK`), and the vault is active or
the unpause is the owner's newest transaction (`ActiveOK`). It holds whatever late
transactions of earlier runs are still there. `PaidOK` holds as long as no run has
left a transaction behind: then the transaction a run waits for is the only one there
is (`Alone`), and what it brings was missing when the run looked (`Due`).

Only model-checked: liveness (`PendingSettles`, `HoldsResolve`, `WorkersAdopt`,
`DrainEnds`, `EveryEventArrives`, `Recovers`), which the prover does not treat. Every
invariant and action property of the passing runs is proved.

## Not modelled, and the plan

Done: the journal with its promise; configuration changes; the vault; price rule
and envelope with the vault; event delivery over the journal's promise; the
bootstrap script over the vault; proofs about all of them.

Possible extensions: several rules on one vault, which share its cooldown, with the
journal instead of one record; the owner by hand during a run of the script.

Left out for good: formatting, logging (`RetryReporter` only throttles log lines),
the HTML page, authentication, run history, field patterns of the schema, the
arithmetic of decimals beyond comparisons, the reading of `network.json`, the
printed report of the script, and `recovery_smoke.py`, a test harness that drives
the program and has no state of its own.
