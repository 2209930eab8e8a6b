# A TLA+ model of evmSDK

evmSDK is two programs in one repository. `src/` is the **toolkit**: a CLI, MCP
server and TUI that prepare, review, execute and reconcile EVM transactions
through a SQLite journal. `packages/sugar/` is **sugar** (the program `aero`): an
SDK, CLI, terminal interface and daemon for concentrated-liquidity exchanges, which
builds transaction plans, sends them through a journal of files, and rebalances
positions on its own.

Both have the same problem at heart. A transaction must not be sent twice, lost or
misreported, although processes share the journal, die at any step, read the chain
through answers that are stale by the time they are used, and watch a chain that
reorganises. Around that core stand services, planners, caches and screens whose
correctness is that of the last write, the last read or the last answer. The modules
model the core step by step and the rest by what it does between its awaits; the
proofs establish what holds for any number of processes, operations and plans.

Paths below are relative to the repository. `PROJECT.json` maps every definition to
the lines it stands for, and lists components, runs, hazards, findings and theorems.

## 1. Inventory

For each component: its state, its operations, what makes it hard, and when it is
correct. The module in brackets models it.

### Toolkit (`src/`)

* **Execution** `execution.ts` [Execution]. State: the locals of a command.
  Operations: `prepare`, `execute` (with `sign`), `status`, `cancel`,
  `prepareReplacement`, `attachTransaction`, `waitForOperation`. Hard: at every
  await another process, the chain or a death may come in between. Correct when
  what was sent is in the journal, one operation per account is in flight, nonces do
  not collide, and a plan is signed once and as it was approved.
* **Reconciliation** `status`, `execution.ts:73-127` [Reconcile]. Reads the row, asks
  the chain twice, writes a row computed from the first read, calls itself on a
  replaced operation, takes no lock. Correct when what it saves happened and the row
  follows the chain in the end.
* **Journal and locks** `storage.ts`, `model.ts` [OperationStore]. `save` is an
  unconditional UPDATE, `lock` one immediate transaction. Correct when a lock has one
  owner, also after deaths.
* **Policies** `policy.ts`, and typed signatures `signatures.ts` [Policies; Execution keeps
  the number of operations]. A named document of terms that never change, with the
  reservations made against its budgets. Correct when nothing is signed uncharged, charged
  twice or beyond a budget, and a revoked policy authorizes nothing more.
* **Chain and mempool** `network.ts` [Chain, external].
* **Monitors** `monitor.ts` [Monitor]. Cursor, checkpoint, one pending batch. Four RPC
  reads per poll on a chain that may fork between any two, several consumers.
* **Workflows** `workflows.ts` [Workflow]. A fixed list of operations run in order, each
  checked before the next, by several clients.
* **Wallet batches** `batches.ts` [Batch]; **smart wallets** `smart-execution.ts`,
  `crossmint.ts` [SmartExecution]; **sponsored Safe operations** `safe/relay.ts`
  [SafeRelay]. Each talks to somebody who keeps a record of their own: a wallet, a
  provider, a bundler. Correct when that somebody is asked once, for what is recorded.
* **Safe accounts** `safe/transactions.ts`, `batch.ts`, `modules.ts` [SafeOwners].
  Proposals named by their hash, on-chain approvals, executions that name neighbours
  in linked lists other transactions may change.
* **Bridging** `socket.ts` [Bridge]. Quote, workflow laid out from the allowance of the
  moment, record saved after it, settlement on a second chain.
* **Accounts and browser bridge** `wallets.ts`, `browser-wallet.ts` [Accounts].
  One process-wide bridge for all accounts; calls interleave at every await.
* **Fee estimation, contract reading and catalog, CLI, MCP and TUI of
  the toolkit, lint rules**: not modelled (section 8).

### Sugar (`packages/sugar/src/`)

* **Plan sending** `send.ts`, `execution-journal.ts`, `cli/execution-commands.ts`
  [SendPlan]. One JSON file per plan, one lock file per wallet. No nonce is recorded, so
  nothing may be sent again on a guess. What it promises is PlanPromise.
* **Cycles of the liquidity manager** `alm/engine.ts`, `state.ts`, `recovery.ts`,
  `cli/alm-recovery-commands.ts` [AlmCycle over SendPlan]. A state file names the cycle,
  its phases and its managed NFT; each phase is a plan with a journal; the owner
  resumes, cancels or resolves what was interrupted.
* **The daemon** `alm/engine.ts`, `notify.ts`, `config.ts`, `cli/alm-commands.ts`
  [AlmServe]. Passes over the configured positions, what was reported last, and the
  notification process.
* **Range strategies** `alm/strategy.ts`, `config.ts`, `chain.ts` [RangeStrategy]; **Safe
  roles** `alm/roles.ts`, `safe-builders.ts` [RoleTree]; **indices** `stocks/`
  [StockIndex]; **vote-escrow rewards** `venfts.ts` [VeNfts].
* **Transaction plans** `transactions.ts`, `actions.ts` [TxPlans]. Built from
  allowances, permits and positions that other plans change before they run.
* **Quotes, routes and swaps** `helpers.ts`, `quotes.ts`, `planner.ts`, `superswap.ts`
  [Routes].
* **RPC executor, caches, pagination** `internal/` [SugarReads]; **lookups** `pools.ts`,
  `positions.ts` [Catalog]; **prices and tokens** `prices.ts`, `token-catalog.ts`,
  `cli/tokens.ts`, `cli/token-prompt.ts` [Prices, TokenFlags, TokenList].
* **Wallets** `wallet.ts`, `walletconnect*.ts`, `cli/wallet-commands.ts`,
  `cli/run-action.ts` [Wallets] and their **browser page** [BrowserBridge].
* **Terminal** `tui/`: worker, shared reads and snapshots [ScreenReads], screens and
  dialogs [TuiScreens], reports [Reports], scorecards [Scorecards].
* **Client facade, chains, schemas**: not modelled.

### How they interact

Processes share only the SQLite file and `accounts.json` (toolkit) or the files of
`~/.aero` (sugar). Workflows call `prepare`, `execute` and `status` on the journal; the
manager calls `sendPlan` for every phase; bridges are workflows. In the terminal, the
screens ask a worker by messages, and a broadcast clears what the worker has read.
Otherwise the components meet through values (a plan, a quote, an interval), not through
shared state, which is why one run can explore several of them one at a time.

## 2. Plan

The plan puts first what sends transactions, then what decides which to send, then what
is shown.

| | modules | status |
|---|---|---|
| 1 | Chain, OperationStore, Reconcile, Execution, ExecutionProofs | done |
| 2 | Monitor, Batch, SmartExecution, SafeRelay, Workflow, ServicesProofs | done |
| 3 | SendPlan, PlanPromise, SendPlanProofs (refinement proved) | done |
| 4 | AlmCycle over SendPlan, AlmServe, RangeStrategy, RoleTree | done |
| 5 | TxPlans, Routes, StockIndex, VeNfts | done |
| 6 | SugarReads, Catalog, Prices, TokenFlags, ScreenReads, Reports, Scorecards, TuiScreens | done |
| 7 | Wallets, BrowserBridge, Accounts, SafeOwners, Bridge, Policies | done |
| 8 | LiquidityProofs, InfraProofs, ScreenProofs, WalletProofs with DataLemmas | done |

Theorems came after the runs, in the order of the risk: types, lock and charges of the journal
(ExecutionProofs), the refinement of plan sending (SendPlanProofs), the services
(ServicesProofs), what is sent once and kept, accounts, nonces and settlement (ExecutionProofs),
the cycles of the manager (LiquidityProofs), what the reads, the browser page and the transfers
answer (InfraProofs), the terminal and its screens (ScreenProofs), who signs what (WalletProofs),
and what a basket spends, the daemon tells and where positions move (LiquidityProofs).

What is left, in order: a theorem for `ReplacementHolds`, the only property of the journal
that only TLC checks. It is false of `Spec` because of the second finding (§7) and is checked
of the behaviours in which no step loses signed bytes; the theorem needs that as a
hypothesis, and an invariant for pairs of operations in place of `NoReplacement` below; then the
accounts on a chain that reorganises; an abstract specification of
a journalled operation that Execution and SmartExecution both implement.

## 3. Modules and their correspondence to the code

The state of a process is its step and the locals it still needs; locals are cleared
when they are dead, to keep states few. **One action is the code between two awaits** at
which somebody else could matter: an RPC call, a wallet or provider request, a prompt, a
statement on the store, a message. A command that fails leaves through the code's own
clean-up (`acquireUseRelease`, `finally`). Bounds are CONSTANTS and marked as such.
Definitions marked *faulty variant* are mutations of the definition beside them; no
specification uses them, and each property is violated when one replaces the correct
definition.

**Journal core.** *Chain*: `nonceOf`, `mempool`, `included`; a transaction is its
operation, nonce and fee, which stand for bytes and hash because signing is
deterministic. `PendingNonces` may show any prefix of the pool. *OperationStore*:
`MayLock`/`TakeLock` are `Store.lock`, `AbandonLocks` is what a death does to lock rows.
*Reconcile*: `status` as a chain of activations per process. *Execution*: `execute` is
`CallExecute` (status), `Acquire`/`Refuse` (approval on the *first* status, then the
lock), `Dispatch` (on the *second*), `CheckOriginal`, `PickNonce`, `SignLocal` or
`AskWallet`, `Broadcast`, `SavePending`, `Unlock`. *Policies*: `policyDocs` are the
documents, a signer reserves and signs in two steps, and typed data is signed once per key.

**Services.** One action per await of the files they model. *Monitor*: a block is its
height and fork, and every block holds one event. *Workflow*: an operation's life is
taken as a whole (prepared, sent, included, reorganised); Execution has the detail.

**Plans.** *SendPlan*: `journals` and `lockFile` are the files, `journal[p]` the copy that
`sendPlan` mutates and saves, `fate` the chain's verdict. *PlanPromise* knows of no
files or processes; SendPlan instantiates it with `status`, `outcome` and `times` read
off the files and the chain (`KeepsPromise`). *AlmCycle* EXTENDS SendPlan: every phase
starts one of its plans, and `almFile` is the state file. `RebalancePhases` and
`CompoundPhases` are the phases in the code's order; `SkipPhase` leaves out those a
position does not need (nothing earned or staked, no gauge, nothing to swap).

**What decides.** *RangeStrategy* computes the five strategies over the whole (scaled)
tick domain. *TxPlans* has the builders as operators from what they read to a sequence of
transactions, with the quotes a deposit or an increase is built from, and contracts that
need what they need. A deposit or an increase takes of each amount offered whatever the pool
chooses; native value it does not take stays with the position manager, for anybody to ask
back, unless the multicall of the plan does (`refundETH`), as do fees collected there to be
unwrapped. *Routes* compares the path search
and the quote choice with their definitions by sets, and carries out the commands of a
swap one by one. *RoleTree* flattens condition trees as the code does and reads the
array back as the modifier would; `assertSafeAlmSupported` (`alm/roles.ts`) refuses Safe
mode in this version, so it is about the builders.

**What is shown.** *SugarReads*: readers of one cache entry, of whom one drives.
*ScreenReads* and *Reports*: two ends of a message queue and a worker that dies. *TuiScreens*:
a stack of dialogs over one mounted screen, answers tagged by what they were asked for.
*Scorecards*: weeks and shares against sums over sets.

**Wallets.** *Wallets*: three records on disk and a session that also lives in the wallet.
*BrowserBridge*, *Accounts*: one page, one request; what a caller is told decides whether
it sends again. *SafeOwners*: the Safe's contract is external, its lists in its order.

**Proof modules.** *ExecutionProofs* (Execution, with journal and accounts), *SendPlanProofs*,
*ServicesProofs* (monitors and services, which ends with them as the run composes them),
*InfraProofs*, *ScreenProofs* and *WalletProofs* (parts of MCInfra, each ending with theorems
of the composition), *LiquidityProofs* (AlmCycle over SendPlanProofs, StockIndex, AlmServe and
RangeStrategy, the latter two as MCLiquidity composes them). *DataLemmas* has what they need of least naturals,
smallest sets, listings of and sums over finite sets.

**Composition.** *MCExecution*, *MCServices*, *MCLiquidity* and *MCInfra* are instances for
TLC. The latter three let the first state pick the part that runs and hold all others
still (in MCInfra a part that does not run has no value but 0, so that it costs
nothing). Their properties are conjunctions of those of the parts.

## 4. Runs

| run | question | bounds |
|---|---|---|
| `exec_core` | Do two processes that prepare, execute, poll and cancel keep lock, journal, nonces and settled rows right? | 2 operations, 1 account, 1 death |
| `exec_wallet` | Can an external wallet be asked twice, with the same request or another, or its submission be forgotten? | 2 operations, 2 processes with a wallet |
| `exec_replace` | Until bytes are lost (finding 2): are an original and its replacements the only ones in flight together and on one nonce, and is the superseded one the loser? | 3 operations, the first sent; 2 fees, replacements offer the higher; 2 nonces |
| `exec_reorg` | Do stale polls, a death and a reorganisation lose bytes, or overdraw a shared policy? | 2 accounts, budget 1 |
| `exec_live` | Does retrying resolve what was signed, and does the row follow the chain? | 1 operation, 1 death, 1 reorganisation, losses and evictions unbounded |
| `services` | The promises of monitors, batches, smart wallets, relay, workflows and plans, with liveness and the refinement of PlanPromise | 2 processes each, 1 reorganisation, 1 death |
| `liquidity` | Cycles, daemon, plans, routes, strategies, indices, rewards, roles | 2 processes, 2 of 4 plans, 1 death or failure |
| `infra` | Reads, caches, worker, screens, reports, wallets, policies, Safe owners, bridges | 2 readers, processes or calls each |
| `viol_*` | Statements of the documents that the code does not keep (section 7) | |

Why these bounds are enough to be interesting. Two processes give every stale read
against a write, one death every loss of locals with a second process to recover, two
operations the contention on an account, and one reorganisation every "was settled, is
not". The chain of the monitor has four blocks, batches of two and a rewind of three, so
a batch ends inside it, a checkpoint can be lost with the cursor below the rewind, and a
fork can cross a batch. The relay removes an owner between signing and submission; the
smart wallet has a second provider transaction to create by mistake; workflows have a
checked step and a second one. Plans in `services` have two steps, so one may be confirmed
while the other is not; in `liquidity` plans have one step, since there the phases are the
sequence, the daily cap is one and the clock ends before a day has passed, so that the cap
bites but never opens again: that a stamp leaves the window in time is left to the theorem
`CyclesAreSound`, which holds for every length of a day. `AlmServe` has
two pools, three passes and a snapshot that expires after one unit. The tick domain of
`range` is 15 either way with a spacing of 2 and a width of 4: both ends, the edges of the
interval and ticks between the grid all occur; the largest width an expanding range may reach
is none, 12, or 36 and so beyond the domain, where it opens the same interval again. In `infra` time reaches one unit past each
lifetime; lists change once; a Safe has two proposals, two nonces and one draft between its reads, and
may be changed once per nonce by a sponsored operation; the screen of reports asks twice; the
pool catalog of two pages shifts once; the worker dies once.
`CHECK_DEADLOCK FALSE` stands in the configurations of `services`, `liquidity`, `infra`,
`viol_account` and `viol_expand`: there each part does a bounded amount of work (or its
inputs are all initial states), and one with nothing left to do has stopped.
Symmetry is used where processes, operations or readers are interchangeable and no
temporal property is checked beyond an action property.

The properties, each explained above its definition, that take longest to break:
`SupersededLost` (two polls and a miner), `NoncesAreApart` (a death, a stale pool, the
lock), `SentIsCharged` (two accounts, stale rows), `NothingSkipped` (a poll across a
fork), `CompletedIsTrue` (verification and evidence on different forks), `KeepsPromise`
(a copy of a journal, a death, a cancellation), `TracksTheFunds` (a mint nobody recorded,
then repairs by hand), `PlanRuns` (a plan given up half way, then another), `PositionsAreFound`
(pages that shift under two reads), `LiveIsCurrent` (a shared read from before a
broadcast), `RefreshIsFresh` (two loads of one chain), `SubmittedOnce` (a reload, a
timeout and a late approval), `PreparedRuns` (a list changed between review and landing).

`NothingSkipped` and `Delivered` except, by the history variable `raced`, a fork that goes
below the checkpoint within one poll, between its look at the checkpoint and at the last
block (`monitor.ts:36`, `:41`): deeper than the confirmations, outside what the monitor
promises.

## 5. Fairness

* `FairSpec` of Execution: a process that runs goes on; clients call `execute` and
  `status` again and again, which is the retry the toolkit's README prescribes after
  uncertainty; the network, asked infinitely often, accepts the bytes and includes a
  transaction infinitely often. Liveness also assumes that providers stop failing at
  some time (`ProviderRecovers`).
* `ServicesFairness`: processes end the commands they begin; monitor clients poll and
  acknowledge; relay clients poll; somebody tries an active plan again, to resume it or,
  once expired, to cancel it; time passes. Strong fairness is needed where an attempt is
  disabled now and then by somebody else's. Nobody is assumed to start, sign, submit,
  cancel or pause anything, and neither chain, wallet nor provider is assumed to move.
* Processes that die stay fair: a new one takes the place. Nothing is assumed of a dead
  lock file (`PlanEnds` excepts it: removing it is the operator's task).
* `liquidity` and `infra` check safety only. That nobody waits for ever there is stated
  as safety: whoever waits waits for something that is still on its way (`WaitsEnd`,
  `NobodyWaitsInVain`, `ReportIsOfChain`, `AskedIsAnswerable`).

## 6. Proofs

All are for arbitrary, also infinite, sets of processes, operations, plans and clients and
any bounds, from the named assumptions of the modules (bounds are naturals, absent values
are not values) and, where stated, a hypothesis on the constants that is part of the
theorem. Each inductive invariant was an invariant of a TLC run before it was proved.

**ExecutionProofs.** `TypeCorrect`: `Spec => []TypeOK`, more than types: a row in flight
always has bytes and a nonce, an activation past its read always has a hash to ask for.
Inductive as it stands. `LockIsHeld`: a process in the locked part of a command owns the
lock row; inductive with TypeOK. The delicate steps are `Unlock`, which deletes *by
operation id*, `Crash`, and `TakeLock`, which replaces a row only when its holder is dead.
`MutualExclusion` follows. `PolicyIsCharged`: `SentIsCharged` is not inductive, because
bytes reach the network from rows, copies and stale activations; `ChargedInv` strengthens
it to all of them.

*The journal.* Under `NoReplacement` (nobody calls `replace`), which the code forces:
with it bytes are lost (finding 2) and a cancelled row comes back. `AskedOnce`,
`SentStaysKnown` and `CancelIsFinal` say that a wallet is asked once per operation, that
what it may have submitted is never shown as a plan again, and that a cancelled plan stays
cancelled. `PlainInv` says that nothing held by a process names a replacement; `IssueInv`
follows what left a process: each operation leaves `prepared` once (`LeavesOnce`), every
stale copy a poll may still write back goes back to what was asked or signed
(`CopiesTraced`), and who works under the lock saw a prepared row. `SentBytesAreKept` needs
`LocalKeys` in addition (an external wallet broadcasts bytes the toolkit never sees):
`LocalInv` carries `SentIsJournaled` through every copy.

*Accounts.* Under `FinalChain` (no replacement and no reorganisation):
`SettledIsTrue`, a row shown as settled is settled so on the chain (`SettleInv`: also every
copy is truthful, and a receipt that was read stands). A reorganisation falsifies it for as
long as nobody polls, so `ReorgIsShown` is checked as liveness instead. Under `FinalLocal`
(local keys in addition): `AccountsKeepApart`, one unresolved operation of an account at a
time and no two with one nonce. `AccountInv` adds that the nonces below the account's are
consumed (`NoncesConsumed`), that what is on its way is unresolved and alone
(`OneOnItsWay`, `HoldersAlone`), and that who is about to sign has a nonce beyond all that was
sent (`SignersBeyond`). Both hypotheses are needed: `attach` writes without the lock, and
after a reorganisation two operations of an account are unresolved (`storage.ts:95`).

**SendPlanProofs.** `SendTypeCorrect`, `SendInvariant` and the refinement `SendKeepsPromise`:
`SendSpec => KeepsPromise`. That steps go out once and in order is not inductive: what
decides is the copy a process holds, while others die and the operator removes lock files.
`SendCore` says that who works owns the lock file (`Locked`), that its copy is the file
(`Copied`), that before the signer is asked the step is on file as submitting and never
was broadcast (`Unsent`), and that every file agrees with the chain (`FilesTrue`); `SendInv`
adds that one plan at most is active (`OneActive`). The two are apart because the liquidity
manager saves the journal of a phase without the wallet lock (`alm/engine.ts:374`), beside
a plan the owner left active: under AlmCycle only the core remains invariant, which is
enough there. The lemmas `...Keeps` carry it through each action; the lemmas `...Refines`
map each action to a step of PlanPromise or a stutter.

**LiquidityProofs, the manager.** `AlmTypeCorrect`, `FundsAreTracked` and `CyclesAreSound`, for any position,
processes, plans and clock. No one of them is inductive. `CycleInv` joins `SendCore` with:
`Typed`; `OnTrack`, what the owner of the state file still has to do, and that what
remains withdraws only what it deposits later (`Sound`); `Files`, the journals phase by
phase: all before the newest are complete while a cycle is sent, all are known once one is
reconciled, and any that is not of the open cycle is over for good; `Procs`, that nobody else
sends a plan of the open cycle but may cancel it; and `Funded`, that the NFT the cycle would
leave on file has the liquidity as soon as nothing that remains moves it. `StepMoves` is the
one thing these need of plan sending: no step makes a known plan unknown, revives one that
is over, or puts in flight what no active plan has. The cap is a second invariant over the
first: `Counted` says that every rebalance that sent anything in the last day is among the
times on file, two never with one time, so those of a day inject into a set the gate keeps
within the cap (`WindowCounted`, by `FS_Injection`). It assumes `Cooldown >= 1` tick: the code
keeps a list of millisecond stamps and the model their set, which agree as no two cycles
under the state lock begin in one tick. `Skipped` may name the phases the code leaves out for a
position, never `withdraw` or `deposit`.

**ServicesProofs.** `MonitorTypeCorrect`, and `MonitorInv` for `MonitorKeepsUp`: what is below the cursor was acknowledged, and the cursor passes no height
of which nothing was. Polls read head, checkpoint, last block and logs on different forks,
so the invariant says what a draft has for certain: `Certain(h, b)` are the heights up to a
block that the next check would not give away, being on the chain or deeper than the
rewind; `Has` that a draft has every event of those, `HasSome` that it has one of some fork
of all others, `RangeKept` that nothing below it is missing but after a raced fork
(section 4).

The other services: `BatchIsSentOnce` (from `ClaimedOnce`: only a fresh document can be
claimed, one process at most is about to send, and nobody saves a fresh state over a
submitted one), `OnlyRecordedIsApproved` (from `SmartInv`: who is under the lock lives, and
what it works with is on record). `RelayRecordsAll`: `RelayInv` says that each client about
to save goes on from what it read (`MayFollow`), which the comparison on commit turns into a
fact about the record. `WorkflowKeepsItsWord`: `FlowInv` adds to the property that clients are
where the confirmed and verified steps allow (`FlowProgress`), that nobody about to prepare
has prepared since the cancellation (`FlowCancelled`), and that a block which was seen and is
not where the transaction is now is gone for good, so that evidence naming the present
block is true although check and evidence may have met different forks (`FlowEvidence`).
`AllServices` shows that a step of the composed specification is a step or a stutter of
each service; with it `NothingRunsTwice`, `ServicesKeepTheirWord` and `ServicesTypeCorrect`
hold of exactly what the run `services` explores.

**InfraProofs.** Four parts of MCInfra, each with an invariant of its own, which the composed
step keeps because `Only` leaves all others still.
`BrowserSubmitsOnce`: that a caller sends again only when it may is not inductive, as late
messages of a page that was replaced still arrive. `BrowserInv` says that a request is queued
for, or in work at, one page at most and is then unknown to the wallet, that every try but
the last of a transaction is harmless, and that what is on its way back to the server is true.
`PricesStayFresh`: `PricesInv` says of a call under way that what it still misses is in a
batch that is not back, and that what it has is younger than its deadline allows.
`ReadsAlwaysAnswer`: in `ReadsInv` a call is a driver, which has a timer, or waits for
drivers; those began after the invalidation that the call began after, and the pages of a
driver reach all that was known then.
`BridgedAsQuoted` and `BridgeStays`: `TransferInv` has what a caller knows at each await, that
its route is for its request, its workflow that of the route, and a block it read at the
present fork the block of a delivery that stands.

**ScreenProofs.** Three more, in the same way.
`ScreensStayCurrent`: a clear counts from when the worker answers it, which is before the
client hears of it; `ScreenInv` says that what the worker has then (table, cache store, reads
in the table) is at least as late, and that an ask sent afterwards awaits only such reads.
`ScreensStayTrue`: nothing that is under way carries what it will be shown beside, only the
screen it was begun from. `ShownInv` says of every ask, dialog and broadcast that, while that
screen is still the mounted one, it is of the chain and the wallet selected now, which the
remount on every change of either gives. `ReportsInv` is about loads that several asks share,
that are outlived by their entry, and that a death of the worker ends: who waits for a load
waits for no other one, a refresh waits only for a load begun after it, and once a refresh has
cleared its entry every load that entry holds is later than it; what is kept in memory, on
disk or in the mail is of its own chain; what the screen shows is of a chain it has asked about
since it was opened; and a screen that is loading is before the worker, with a load, or its
answer is in the mail. The theorem also covers what the bound of two asks leaves out of `infra`:
that after a refresh every later ask is fresh, about another chain too.

**WalletProofs.** `OnlyTheRightSign`, from four invariants. `PagesInv`: of the pages of the
toolkit's bridge only the one that is held has not ended, and a page waits for one request of
one caller. `PoliciesInv`: what is reserved in a document is of plans of its own that its terms
permit, and they cover the sum of all (so the sum of any set of signatures is within the
budget); a plan about to be signed was charged; a revoked document takes no more. `WInv`: a
plan that the local secret signs was opened by its sender; while one command runs alone, what
the records select is what was selected before, unless it is in a phase that changes them; who
waits for WalletConnect holds the record that is there, for it will write it again. `SafeInv`:
an owner change proposed at the nonce of the Safe was made from the Safe as it is; a module
change or a budget need not be, since the list is read in one block and the nonce in a later
one, and what makes such a proposal safe is the simulation before it is prepared. An execution
prepared at the nonce has owners as signers, in ascending order and as many as the threshold,
and runs; approvals are never taken back; and what changes the Safe moves the nonce, so what was
prepared before is refused and not run, except a sponsored operation, which changes the Safe
without moving it: the history variable `administered` has that, and the property excepts it.

**LiquidityProofs.** `SpareStaysUntouched`: a basket never spends what it was to leave alone,
whatever the quotes. Inductive with `StockInv`: a basket sells what is held, and buys for the
contribution and the least its sales yield, since shares rounded down add up to the budget at
most (`SharesAddUpToLess` is behind it). It uses that tolerances are below 100% and that the
least a sale yields, a quote less its tolerance rounded up, never exceeds the quote
(`IndexAssumption`, from `stocks/trading.ts:60` and `helpers.ts:111`). `IndexTypeCorrect`
has the weights in all at 100%.

`KeeperStays`: what the daemon tells is what happened, once. `ServeInv` sets what it
remembers of a position (last error, last intent) against what was told of it, also at the
position whose note is still awaited: what was told and lasts is what is remembered, told once, and an
error remembered without having been told is one that is over while the note of something
else is awaited. A move is remembered only by a dry run. The process that tells is never older
than its time and its grace, and what `init` writes, `serve` accepts.

`PositionsStay`: a rebalance moves to the interval its strategy promises, and at one tick at
most twice. The invariant (`RangeInv`: a position is on the grid and inside the domain) is
plain; the work is in what one call computes, for every domain, tick and spacing. The prover
has no division by a divisor that is not a literal, so the grid is stated as multiples of the
spacing (`QuotientAndRest`, `Multiples`, `GridGap`); that the clamped interval is not empty, on the grid, and
holds the tick unless an end of the domain cuts it is `Clamped`. `RangeSettles` needs the tick
to be `FarFromEnds`: a move that is not cut leaves the tick inside, or restores the width
from which the settings were computed, so that the next pass decides by the same ones.

**Recursion in proofs.** The library's induction theorems take an operator and are out of the
prover's reach. Where a proof needs induction over data it goes by a smallest counterexample,
which exists by the well-foundedness of naturals and finite sets (`LeastNatural`,
`SmallestSet`): so for sums over finite sets (LiquidityProofs, PoliciesInv), for the ascending
order of signers (SafeInv) and for the step at which a widening range first holds the tick.

**Only model-checked**: all liveness and everything about ENABLED, which are out of the
prover's reach; `ReplacementHolds`, of the behaviours without the lost bytes of finding 2, and
the journal's properties where the hypotheses above do not hold. Of `liquidity`: `PlansHold`
and `QuoteHolds`, whose plans, searches, averages and sums are folds over sequences, and the
composed type invariant. Of `infra`: `CatalogHolds` (pages that shift, and the folds behind
flags and scorecards) and the composed type invariant (the invariants above contain the types their parts need). What a
folded computation returns for every input (Scorecards, Routes, VeNfts, condition trees) is
compared with its definition on bounded inputs.

## 7. Findings

Each is a `viol_` run with a short counterexample, and an entry in `PROJECT.json` with the
statement it contradicts.

1. `viol_approval`: `execute` compares the approval with the plan of its first status and
   signs the plan of its second (`execution.ts:186`).
2. `viol_replace_bytes`: `prepareReplacement` overwrites a row that was signed, or
   cancelled, since it read it (`execution.ts:260`). With a third operation the loss reaches
   the nonces: `replace(a, b)` has prepared when a is mined and settles; b is executed
   meanwhile, its nonce reserved and its bytes sent, and the answer of the node is lost; now
   the replacement saves its row over b, the journal forgets the nonce of b, and c signs
   with the same one. So `ReplacementHolds` is false of `Spec` with three operations, and
   `exec_replace` checks it of `FirstSpec` (MCExecution), which is `Spec` with another start,
   under a constraint: it goes no further from a state where a replacement is about to be
   saved over signed bytes (`NoneOverwrites`). A bound makes replacements offer the higher fee.
3. `viol_expand`: without configured widths, the limit of the expanding strategy grows with
   the position, which is then never reset (`alm/config.ts:205`).
4. `viol_account`: while a second account connects, its page stands in the shared bridge
   and gets requests of the first (`wallets.ts:71`).

Met while modelling, taken into the model as the code has it, without a run of their own:

* `pauseMonitor` puts back a whole monitor, and with it a cursor that an acknowledgement
  has moved meanwhile (`monitor.ts:60`): events come again, none is skipped.
* After a reorganisation an older and a younger operation of an account keep each other
  from being broadcast again, and a replacement of a replacement is prepared but can never
  be signed (`storage.ts:95`); a superseded row never looks at the chain again
  (`execution.ts:85`). `exec_live` and `exec_reorg` have bounds at which this does not arise.
* The daemon tells of a compound on every pass (`alm/engine.ts:191`) where line 71 speaks of
  changes, and a failing position ends the pass of all (`:166`), where line 125 says "over
  every configured position".
* After a rewind the cursor of a monitor may lie below `fromBlock`, and the next poll reads
  blocks nobody asked for (`monitor.ts:37`): events come that were not wanted, none is missed.
* `alm init` looks for a configuration and writes it in two steps
  (`cli/alm-commands.ts:132`, `:155`).
* After a change of chain the Analytics screen, which is not keyed by it (`tui/app.tsx:92`),
  shows the report of the other chain while it loads, and when that fails for good, with the
  error hidden behind it (`tui/screens/analytics.tsx:156`, `:160`). `ReportIsOfChain` says what
  is left: a report of the chain once a load has ended well, else of one of the chains before.
* A module change or budget proposed from a list that has changed since can have the nonce of
  the moment (`safe/modules.ts:22`, `:44`, `safe/transactions.ts:25`): the proposal is kept and may
  be approved, and is refused when its execution is prepared.
* An expanding range that fills the domain is closed and opened again with the same ticks when
  the price leaves its neighbourhood and its limit lies beyond the domain (`alm/strategy.ts:201`);
  `Repeats` names the case.
* A request of a signer that is no longer active may open a page for its account before it is
  refused (`wallets.ts:118`).
* Leaving the action screen clears the busy mark while its broadcast goes on
  (`tui/screens/action.tsx:151`; `tui/store.tsx:39` says quitting then asks twice).

## 8. What is not modelled

* Data: calldata, amounts beyond small numbers, gas, fees, decoding, wording. A fingerprint
  is injective on the reviewed fields; simulation and estimation are steps that may fail.
* Of modelled files: finality labels and read watches (`monitor.ts:66-76`), workspace entries,
  Safe passkeys and role helpers, Safe proposals with administration calls written by hand,
  splitting of oversized multicalls, locks and votes of veNFTs, balances, charts
  (`dither.ts`) and layout.
* Transactions of other programs with the same key (one that spends an allowance between two
  transactions of a plan makes the next one fail its simulation); reuse of a dead pid; a reorganisation
  of several inclusions at once is a sequence of `Reorg`.
* SQLite and file-system atomicity is assumed: a transaction, an atomic rename with fsync,
  an exclusive create. Contracts, RPC nodes, wallets, providers and DefiLlama or Dune are
  modelled from how the code uses them (`external` in the map).
* Whole components: fee estimation (arithmetic on answers, one step that may fail);
  contract reading, catalog and the client facade
  (stateless queries and tables); CLI, MCP and TUI wiring of the toolkit and the CLI guide
  (presentation of what is modelled); lint rules (development tooling); generated ABIs.
