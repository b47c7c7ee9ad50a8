# Formal models of the wallet's synchronization, protocols and payments

TLA+ modules, TLC configurations and TLAPS proofs about the Rust core of zkool
(`src/rust/src`): what keeps the wallet's database consistent while several
tasks, a chain that reorganizes, cancels and crashes all act on it; what the
wallets of a group agree on when all that passes between them is memos in mined
transactions; and what the wallet spends when a payment, a migration and a
synchronization each read it at a different moment.

Source paths below are relative to `src/rust/src/` unless they start with `lib/`.

## The system

A wallet is one SQLite database. Rows about the chain (notes, spends,
witnesses, headers, checkpoints) are written by syncs; accounts, keys and
multi-party protocols (DKG, FROST signing) live beside them. The Flutter app
and the GraphQL server both drive the core, through the functions of `api/`.

| Component | State it keeps | Operations | Correct when |
|---|---|---|---|
| Sync session (`sync/session.rs`) | a fair async mutex, the cancel token of the live run | `begin`, `try_begin`, `cancel`, drop of a run | one run at a time; the published token is the live run's; nobody overtakes a waiter |
| Sync driver (`sync/driver.rs`) | mailbox, requests set aside during a sync | `Sync`, `Rewind`, `Delete`, `Apply`; handles dropped | requests in order, each under the session, all answered; a rewind stops the sync in flight |
| Sync run (`sync/mod.rs`, `sync/plan.rs`) | the plan: ranges of heights and accounts | prune, recover, plan, scan ranges, outcome | after any run, however it ends, an account's rows are complete up to its checkpoint |
| Transparent scan (`sync/transparent.rs`) | none of its own | one address at a time, the account's checkpoint with it | a checkpoint covers all the account's addresses |
| Shielded scan (`sync/shielded.rs`, `warp/sync.rs`, `warp/sync/shielded.rs`) | chunk, block stream, tracked notes, last reorg | open, read, commit, next chunk, reorg, restart | rows are those of one chain; a reorg does not loop |
| Chain log (`sync/chain_log.rs`) | the tables | store, checkpoint, `trim_to`, rewind, prune, locks | a checkpoint has the witnesses the next scan needs |
| Protocol driver (`frost/driver.rs`, `api/frost.rs`) | mailbox, cancelling flag, retry, last height | `step`, `cancel`, tick, pass | passes never overlap; a cancel stops them; answers are fresh; busy passes are retried |
| DKG (`frost/dkg/`) | parameters, rounds, staged messages | observe, plan, execute one effect, finalize, delete | each participant reaches the same key; a crash resumes |
| FROST signing (`frost/sign/`) | announcement, nonces, shares | as the DKG's | nonces are used once; one session at a time |
| Protocol messages (`frost/protocol.rs`) | staged messages and their broadcast | stage, broadcast, expire, resend | a round's message never changes once sent |
| Payments (`pay/`, `api/pay.rs`) | locked notes, pending transactions | plan, build, sign, post, record | a recorded note is not planned again; a plan is one the builder takes |
| Memo and details, pending metadata | transaction details | prepare outside the session, apply inside | a detail is applied to the transaction it was read for |
| Pool migration (`migrate/`, `api/migrate.rs`) | none stored | observe, decide, check, act, wait | a hop tells as little as it should, one transaction at a height, what still holds can be paid |

`PROJECT.json` lists the remaining ones (network clients, database, backup
files, vault, ledger, plugins, swaps, voting, user interface, bindings), which
are input and output, encodings or clients of other systems, and are not
modelled.

### How they interact

- The app and the server send requests to the **sync driver**, one task per
  wallet. It takes the **session** for each request with `begin`, which waits.
- The **protocol driver** is another task, one per open protocol page. It takes
  the same session with `try_begin`, which gives up: a busy session makes a
  pass that is retried.
- `cancel_sync`, from the user or from the sync driver when a rewind arrives,
  cancels the token that the session publishes, whoever's run that is.
- The **payments** and the **migration** read the database without the session,
  talk to the network, and post; only the record of what they posted goes
  through the sync driver, after the fact and if nothing fails.
- The wallets of a **DKG** or of a **signing session** share nothing. Each runs
  the same planner over its own database; what one published, the others find
  when they scan the block that mined it.
- A sync run commits in pieces: an address, a batch of blocks, an account's
  recovery. Between two of them it can fail, be cancelled, or die.

### What is hard

Two tasks and a thread around one mutex whose token is published and withdrawn
in steps of their own; a mailbox read both by the driver's loop and by the
`select!` that watches a sync; runs cut at any commit and recovered by the next
one; a reorganization at any depth, at any moment of a scan; pages that close
during a pass; protocol messages staged, sent, lost, expired and sent again
around a crash at every statement; notes that change between the moment they
are read and the moment they are spent. `PROJECT.json` lists each hazard at its line with the property
that would catch it.

## The modules

| Module | Models | Actions |
|---|---|---|
| `SyncSession` | `sync/session.rs` | `TryBegin`, `Enqueue`, `Publish`, `Cancel`, `Close`, `Unlock` |
| `SyncDriver` (extends it) | `sync/driver.rs` and the contenders for the session | callers `Send`, `Abandon`, `DropHandles`; the loop `TakePending`, `TakeInbox`, `StopDriver`; an operation `StartOp`, `RunOp`, `WatchInbox`, `FinishOp`, `ReleaseOp`, `Reply`; `Others`, `CancelSync` |
| `ProtocolDriver` (extends `SyncSession`) | `frost/driver.rs`, the control of `frost/dkg/step.rs` and `frost/sign/step.rs`, `api/frost.rs` | `OpenPage`, `ClosePage`, `SendStep`, `RaiseCancel`/`SendCancel`, `DirectCancel`; the loop `WakeOnMail`, `WakeOnTick`, `RunCancel`, `CancelsDone`, `Stop`; the pass from `SomethingToDo` to `AnswerSteps` |
| `RequestService` | what the sync driver promises its callers | `Accept`, `Leave`, `Close`, `TakeUp`, `Complete`, `Answer`, `Stop` |
| `WalletSync` | one run: `sync/mod.rs`, `plan.rs`, `transparent.rs`, `shielded.rs`, `chain_log.rs`, `warp/sync*` | `StartSync`, `Prune`, `Recover`, `Plan`, `StartRange`, `ScanAddress`, `EndTransparent`, `OpenScan`, `ReadBlock`, `Commit`, `NextChunk`, `EndRange`, `DetectReorg`, `Finish`, `Stop`, `Abort`; the chain `Mine`, `Reorganize`; the user `UserRewind`, `Cancel` |
| `Outbox` | `frost/protocol.rs`: the publishing of protocol messages, the node, the user's payments from the same account | `Mine`, `Drop`, `Expire`, `UserPays`, `PaymentMined`; the participant's side as operators |
| `Dkg` (extends it) | `frost/dkg/` of every participant | `BeginPass`, `EnsureAccounts`, `Wait`, `WaitOwnPublish`, `Stage`, `ResendPending`, `PublishStaged`, `Send`, `FinalizeKey`, `CreateFrostAccount`, `CompleteFinalize`, `CancelState`/`CancelPeers`/`CancelRest`, `Crash` |
| `Signing` (extends it) | `frost/sign/` of the coordinator and the members | `Join`, `Cancel`, `BeginPass`, `EnsureMailbox`, `Wait`, `WaitOwnPublish`, `AnnounceCoordinator`, `SendCommitments`, `MakeSigpackages`, `SendSigshares`, `Aggregate`, `EndSession`, the four deletions, `Crash`, `Recorded`, `PassExpiry` |
| `NoteSelection` | the pure part of `pay/fee.rs`, `pay/solve.rs`, `pay/plan.rs`, `migrate/plan.rs` | operators: fee, choice of notes, change, denominations, split |
| `Spending` (extends it) | `pay/plan.rs`, `pay/broadcast.rs`, `api/pay.rs`, the locks of `sync/chain_log.rs` | `PlanTx`, `BuildTx`, `Post`, `Record`, `Forget`, `Sync`, `Rewind`, `UserLock`, `Mine`, `Die` |
| `Migration` (extends it) | `migrate/`, the loop of `api/migrate.rs` | `StartRun`, `NextTask`, `Revalidate`, `StepOnce`, `PlanTask`, `SendTask`, `AfterEffect`, `EndRun`, `UserStep`, `Crash` |
| `SyncSessionProofs`, `SyncDriverProofs`, `ProtocolDriverProofs`, `WalletSyncProofs`, `DkgProofs`, `SigningProofs`, `NoteSelectionProofs`, `MigrationProofs` (extends it) | theorems | |
| `MCSyncDriver`, `MCProtocolDriver`, `MCWalletSync`, `MCDkg`, `MCSigning`, `MCMigration` | instances for TLC | |

Definitions commented "Mutant" are wrong variants of the definition that
follows them; no action uses them. They are there to show that each property
fails when that piece of code is wrong.

### Correspondence

**SyncSession.** `phase[t]` is where a task stands: `waiting` in `begin`,
`granted` with the guard but no token published, `running`, `closing` with the
token withdrawn and the guard alive. The mutex is tokio's: first come, first
served, handed directly to the first waiter. The token is a flag for each
task since a task has one run at a time.

**SyncDriver.** `stage` follows the driver's task. `start` is a future that
exists and was not polled: `select!` polls its branches in random order, so the
mailbox may be read before the sync takes the session. Only a sync is watched;
`pending` is the code's local queue. What an operation writes is not here (see
`WalletSync`): what matters is that it is done in `session`. Success and failure
of an operation are both `ended`; `cancelled` is kept apart. `arrived`,
`served` and `preempted` are history variables and guard nothing. The handles
may be dropped while requests are queued. In the app they are not: a request
carries a `Coin`, which holds a handle of the driver (`api/coin.rs:44`), so the
mailbox cannot close before it is served. The model is wider there, and
`ShutdownServesAll` does not depend on that clone.

**RequestService.** The abstract driver: one queue, one request at a time, no
session. `SyncDriver` implements it with `Queue`, the requests set aside
followed by the mailbox, for the queue, and `current` for the request served.
Moving a request from the mailbox to `pending`, waiting for the session,
publishing a token and being cancelled are invisible.

**ProtocolDriver.** `effects` is how many steps the protocol can take before it
waits for its peers, raised arbitrarily by the sync that brings their messages.
A driver whose handle was dropped goes on with its pass, so several can be
alive. Which protocol it is (a DKG or a signing) makes no difference to the
driver; both exist one at a time. Cancels raise the flag first and reach the
mailbox later, each when there is room, in any order. `late`, `stale`, `overran` and `owing` are
history.

**WalletSync.** A block is `<<height, branch>>`, with heights counted from the
accounts' birth; `Reorganize(h)` moves the server to a longer chain with other
blocks from `h` up. The shielded pools are committed in one transaction and are
one pool, `S`; the transparent pool is `T`. A note is the block that contains
it; `SpentNote` says where an account spends which. `tracked`, `prev`, `read`
and the other scan variables are memory: `RunOver` clears them, the tables stay.
`Abort` is an error or the death of the process between two commits, `Stop` the
run noticing its token. The second disjunct of `Commit` is a row that is
already in the table (the code's `ensure!` and the primary keys), which fails
the run, and `NoClash` says it is never met. The rows of block times, the
memo details, pending transactions, issuance, decryption and the commitment
trees' arithmetic are left out: none is read by the decisions modelled here.
The plan is a set of ranges, taken in the order of their starts.

**Outbox.** A participant's funding account is one note, whose change is the
next one: `spent[p]` is the message that holds it. `staged[p]` is the marker in
`props`, written in the same database transaction as the signed message and the
lock. `ScanOwn` is what a pass finds mined, `GiveUp` what it finds expired.
The node is external: its mempool may forget a message, and a message may miss
it (`Unsent`). `faults` bounds crashes, losses, expiries and the user's
payments together.

**Dkg.** `secret[p][r]` numbers the package stored for round `r`; two packages
of one round have two numbers, so that a package produced again is seen as
another one. `NextTask` is the planner; each effect is one action, except those
that the code commits in several statements, which are one action per
statement, with `Crash` between any two. `final[p]` counts the statements of the
finalization and `Steps` names them. A round-2 package carries the number of
the round-1 package whose polynomial it evaluates: this is what `part3` checks.
`version` is the build's, because two builds must not end with one key.

**Signing.** A nonce is a number; a commitment is its signer and nonce; a
package is a set of commitments. `commitment[p]` is the table
`frost_commitments` of `p`, `answer` the shares the coordinator collected.
`Assemble` is how a wallet takes the package from the parts it finds, in any
order, `Received` how the coordinator takes commitments. A participant finds its own
commitment in the parts like any other's, which is what keeps a session met a
second time from drawing a nonce. The teardown is four
deletions with a crash between any two; `Join` after a `Cancel` is a second
session of the same wallet, for `Restarters` only. `over` is the expiry of the
transaction to sign, `expired` that of the messages.

**NoteSelection.** Operators over sets of notes and sequences of outputs. The
solver's search stops on a budget of time, so what it returns is any choice
that is no worse than the greedy one; the arithmetic (fee, feasibility,
turnstile, change pool) is exact. `Balances` is the builder's fee rule, which
refuses any fee but its own. The builder leaves out a transparent output of zero
(`pay/plan.rs:993`), to which a recipient that pays the fee can be reduced:
`Built` is what is left, and it may balance at another fee than the planner's.

**Spending.** A transaction is what it spends and its outputs; a note is named
by its transaction and its output. `have`, `spent`, `locked` and `checkpoint`
are the tables. Planning is two actions with the network between them: `PlanTx`
reads the notes and then the tip (two reads in the code, one step here),
`BuildTx` the checkpoint and the rows. `Post` is
outside the session; the record is queued, or never is (the answer of the node
is lost, the driver is gone), and `Record` may fail. `Sync` commits any part of
what is missing; `Rewind` is `trim_to`; `UserLock` the four lock operations.
`held` is history: the notes whose record was applied, until a rewind or the
user undoes the lock or the spend.

**Migration.** `run` is where the loop stands: `loop` before the observation,
`check` before the second look, `execute` with a task under way; `once` is the
server's single step, without the second look. An observation is read at one
moment. The delay is any time. `EndRun` is Done, an error or a cancel, wherever
the task stands. One `Bucket` stands for the loop's own interval and the
server's constant.

## The runs

| Run | Instance | Shows |
|---|---|---|
| `driver` | 2 syncs, a rewind, a prepared write, a mailbox of 2, another task on the session | exclusion, live token, order, writes under the session, sticky preemption, the driver implements `RequestService`, and under fairness every call answered |
| `driver_preempt` | the same | **violated**: a rewind taken before the sync's token is published cancels nothing and waits for the sync |
| `protocol` | a page opened twice, a step, a cancel, the app's syncs, a mailbox of 1 | no two passes at once; no step after a cancel |
| `protocol_live` | the server's single driver, a step, two cancels, a mailbox of 2 | answers are fresh; busy passes are retried; every call answered |
| `protocol_delete` | as `protocol` | **violated**: page closed during a pass, then a cancel with no driver: the session is deleted under the pass |
| `scan` | 3 accounts (both pools, shielded only, transparent only), 4 heights, chunks of 2, checkpoints pruned at age 1, rewinds to any height, cancels and failures anywhere, no reorg | rows complete up to the checkpoint, witnesses available, transparent cover, no clash |
| `reorg` | 1 account, both pools, 6 heights, chunks of 3, one reorg at any depth and moment | the same shielded properties on one chain, and the wallet catches up |
| `reorg_clamp` | 1 shielded account, chunks longer than the chain | **violated**: the restart is clamped to the range's start |
| `taddr_cancel` | 1 transparent account, 2 addresses | **violated**: a run that ends between two addresses |
| `dkg` | 2 participants of one build or of two, one of whom may cancel, 4 packages each, 3 faults | a message is what was stored before it was sent; one key or none, also after an interrupted cancel; a funds wait means short funds; everything the protocol repairs ends in a key |
| `sign` | a coordinator, the member agreed on and one who may join, 2-of-3, the coordinator may start again, 1 fault | one message of each kind; one share of a member, also if it was interrupted in a teardown or starts again; a share answers a package the coordinator made; past the expiry every session ends; what the protocol repairs ends in a transaction |
| `migrate` | two wallets of two notes, a paying user, 2 heights with the change of fee at the second, boundaries every 2 blocks, 3 transactions, 1 payment, rewind or lock change | hops are standard; one transaction at a height; a task that still holds can be paid; recorded notes are not planned again |

### Bounds, and why they are enough

- `Capacity`: the code's mailboxes hold 16; 1 or 2 with as many callers reach
  "full", where a caller waits, and that is all the number decides.
- Two tasks contend for the session in `driver` because the driver serves one
  request at a time; three in `protocol` (two drivers and the app), the least
  with a waiter behind a holder and a third that tries.
- Four heights with chunks of two are the least with two chunks, and with
  accounts that join at different heights, a spend after its note, and a prune
  that has something to delete. `CheckpointAge` is 1 (the
  app asks for 500,000, `lib/store.dart:1023`, the server for 10,000) so that
  pruning happens.
- `MaxBranch` is 1 in `reorg`; the reorg's depth and moment are free.
- `dkg`: two participants are the least that disagree; a participant produces
  one package a round and a fourth after an interrupted cancel. Three faults
  are a crash, a loss and a payment in one run.
- `sign`: with one more joiner than the threshold the coordinator can collect
  too many commitments, and two packages can be on their way. Two nonces are the
  session and the one after a restart. With `T` = 2, a coordinator that starts
  again still makes packages of its own new commitment, and
  `ShareAnswersCoordinator` is checked; it is proved for any `T` while the
  coordinator does not start again.
- `migrate`: fees drop at height 2 (`ReducedFrom`), so a note denominated before
  is split after; the first split changes what the next observation finds, and
  the payment takes a note the loop may have chosen. Three accepted
  transactions are a split, a hop and the payment. Heights 0 and 2 are
  boundaries, 1 is not. The amounts are those at which the arithmetic is tight:
  120 000 is a denomination at the old fee and 104 000 at the new one; 120 000
  and 92 500 leave, after two denominations, 4 500, which pays for the split's
  four actions and not for a fifth, its change.
- `MaxEffects` is 1: a pass takes a step, replans, and finds none or one more
  since the next sync can raise it again.

The `scan` run has no reorg, and the `reorg` run one account, one reorg, no user
rewind and no pruning. These are limits of the code, not of the checker, and a
reader can reproduce each by changing the constants:

- with a second reorg, or a user rewind, after a clamped restart, `trim_to`
  raises the transparent checkpoint past the gap the clamp left, and
  `ShieldedComplete` fails for an account with both pools;
- with pruning at age 1 and a reorg, the prune comes before the recovery and
  deletes the witnesses of the height that recovery goes back to:
  `WitnessAvailable` fails (with the ages
  the app and the server ask for, such a reorg would be thousands of blocks deep);
- with two accounts in one range, a reorg rewinds each account to its own
  checkpoint and restarts at the lowest: rows of the other clash.

### Fairness

- *Sync driver*: weak fairness of the driver's steps and of the end of the
  other tasks' runs. The driver is a task that is never dropped while it has
  work, and network reads give up after a minute without data. Callers, the
  user and the start of another pass owe nothing.
- *Protocol driver*: weak fairness of each driver, of a cancel's send when there
  is room, and of the end of the app's syncs. Blocks and new sessions owe nothing.
- *Wallet*: `CatchesUp` assumes that somebody keeps asking for a sync of all
  accounts (the app does on every new height) and that runs go on; it promises
  nothing unless runs are from some moment on neither aborted nor cancelled,
  which the property states as its hypothesis.
- *DKG and signing*: weak fairness of each participant's driver (the page or the
  server keeps ticking), of the join of those who agreed to sign, of the mining
  of what is in the mempool and of the user's payments. Crashes, losses,
  expiries, cancels and other joins owe nothing. `Excused` names what the
  protocols do not repair; `Completes` promises the rest.
- *Migration*: safety only. What it waits for (a sync that lands on a boundary,
  a delay) is nobody's obligation.

## The findings

Four places where the code and its documentation, or its promise, disagree;
each is a run that TLC refutes.

1. `sync/driver.rs:266`. A preempting request "must not wait for a sync in
   flight" (line 128). A rewind that the driver takes while its sync still waits
   for the session, or was not polled yet, finds no token and cancels nothing.
2. `api/frost.rs:532`. "With none, no pass can be running": a page that closes
   drops the handle while the pass goes on.
3. `sync/shielded.rs:209`. `restart_from.max(start)` skips the heights between
   the checkpoint the rewind went to and the start of the range.
4. `sync/transparent.rs:249`. The account's checkpoint is raised by its first
   address; a run that ends there never asks for the second's heights again.

## The proofs

Every theorem holds for all values of the constants that satisfy the modules'
assumptions: sets of tasks, requests, participants, senders and notes, mailbox
capacities, thresholds, heights and bounds. The assumptions are that markers
such as `NoTask` or `NoMessage` are not members of the sets they mark, that the
bounds are naturals, that the kinds of requests are disjoint, that the cancels
of a page and the participants of a signing are finite sets, that the notes an
account begins with and the outputs users ask for have a value in a pool, and
that a request whose recipient pays the fee has a recipient (without one the
code takes the amount for zero and finds no plan: `pay/plan.rs:633`,
`pay/solve.rs:316`).

| Module | Theorems |
|---|---|
| `SyncSessionProofs` | `SessionIsSafe`: types, `Exclusive`, `TokenIsLive`, `QueueIsFair` of the session alone |
| `SyncDriverProofs` | `DriverTypes`, `DriverKeepsSession`, `TokenAlwaysLive`, `SessionQueueFair`; `RequestsInOrder`; `OperationsHoldSession`; `PreemptionSticks`; `ShutdownServesAll`; `DriverIsService` (the refinement) |
| `ProtocolDriverProofs` | `ProtocolTypes`, `PassesExclusive`, `CancelsStopPasses`, `AnswersFresh` |
| `WalletSyncProofs` | `WalletTypes`, `RunReaches` (reorganizations included); `OneChainComplete`, `OneChainSpendable`, `OneChainNoClash`, `OneAddressCovered` |
| `DkgProofs` | `TypeCorrect`, `IntentCorrect`, `AgreementCorrect`, `FundsCorrect`, `NoSplitCorrect` |
| `SigningProofs` | `SigningTypes`, `MessagesOnce`, `SharesCovered`, `SharesOnce`, `SigningFunds` |
| `NoteSelectionProofs` | `PlansConserve`, `SplitPlans`, `HopPays`, `SplitsStandard`: the arithmetic, for all inputs |
| `MigrationProofs` | `MigrationTypes`, `HeldNotReplanned`, `RunIsPaced`, `HopsStandard`, `TasksPayable` |

`QueueIsFair`, `NothingLeftBehind` (it follows from the refinement), the funds
wait of a signing and `SyncedReached`, with and without reorganizations, were checked on the
runs' instances and are proved; the runs do not repeat them.

**Session and sync driver.** `SessionInv` is inductive together with the types:
the queue's distinct waiters give exclusion when `Unlock` hands the mutex over;
exclusion gives a single live token. Every step of the driver is a step of the
session or leaves it alone (`NextIsSessionStep`), so the session's proof is used
once. `DriverInv` adds `Control` (the stage, the request and the driver's phase
agree), `Accounted` (what arrived is what was served, then the queue, each once)
and `Preemption` (a preempted sync is current with its token stopped, or ended
as cancelled). The lemmas on sequences say how a queue made of two sequences
changes, and `DriverIsService` maps each step through them to one step of
`RequestService` or to none.

**Protocol driver.** `ProtocolInv`: `Place` (where a driver stands in the session
by its stage), `Mail` (what is in a mailbox or a batch was sent, a cancel taken
is run first), `Stepping` (a step in progress has an effect to take), `Fresh` (a
batch of a pass is not younger than the pass), `Counted` (the flag is at least
the number of cancels raised and not carried out). `CancelStopsSteps` needs
`Counted`: a flag that were one boolean would be lowered by the first of two.

**Wallet.** `RunReaches` needs `Ordered` (the ranges left follow each other up
to the target, with ever more accounts), `Control` (the scan's variables by
stage) and `Reach` (every account of the run is at its target or in a range
that is left). The four theorems on rows are under two assumptions, because the code
fails without them: `MaxBranch = 0` (a chain that does not reorganize: see finding
3 and the limits below) and, for the transparent cover, a single address to an
account (finding 4); the others take one address or more. `Rows` says what an account has at its
checkpoint and at each height it can be taken back to; `Fitting` that the
ranges left start where their accounts stand, and that a scan carries on from
its account's rows; `Ahead` that the transparent pool of an account is never
behind its shielded one; `Cover` that an address is whole up to the checkpoint. The least heights
come from the naturals being well founded.

**DKG.** `TypeInv`; `MessageInv` (what is staged or pending is the participant's
own, and is the package of the secret it stores unless it cancelled); `KeyInv`
(packages ingested were mined, and a key sums the stored round-1 packages of
everybody, all of one version), from which two keys are equal; `FundsInv` (the
note is held by the message under way, and nothing is pending meanwhile).
`NoSplitCorrect` is about cancels interrupted between any two statements, after
which a participant has lost its secrets and draws new packages under new
numbers. `SplitInv` says why only one round-1 package of each can be seen, as
long as nothing expires: `OneCommitment` itself; `Stored`, `PendingFirst`,
`Counted`, `Helped` and `Follows`, what a package on its way tells of the tables
behind it; and `Restarted`: one that lost the secret of its round-1 package has
an older round-0 package mined, so that the conflict check of
`store_peer_package` stops it before the next round. `expired = {}` is necessary:
the package that conflicts may itself expire, its sender goes on as if it was
mined, and a second round-1 package follows (TLC shows it without the hypothesis).

**Signing.** `NonceInv` (nonces and packages are stored before what is published
tells them, and for as long as the session is open), `ShareInv` (parts are the
coordinator's and hold exactly `T` commitments; a member knows the others'
commitments from the parts only), `FundsInv` (in an open session the note is
held by the message under way). These excuse who starts again. `OnceInv` does
not, and gives `SharesOnce`: the signers of an assembled package are those of any
parts that were seen, since both are `T` and the second are among the first
(`AssembledListed`, by an injection between finite sets); so whoever shared is
listed in mined parts, a pass that gets to the planner with a mailbox has its own
commitment from them (`ListedOffers`), and no nonce is drawn after a share.

**Payments and migration.** `HeldInv` says that held notes are locked or spent:
every step that releases a lock without a spend also ends the holding. A plan
takes free notes (`PlansFromFree`), so it takes no held one. `PaceInv` is
`Clean` (a transaction of the migration is under way only in a run, one at a
time) and `Paced`: the heights a run acted at are below the tip and, once the
pacing knows the last of them, below it; a task is carried out above it.
`OncePerBlock` alone says nothing of the time between the post and the pacing.

`LedgerInv` ties the tables to the chain: a row, a spend and a plan are of notes
mined by the checkpoint, the tip or the block before, and a transaction is mined
once. With `PaceInv` it gives the types (`MigrationTypes`).

**The arithmetic of plans.** `MapThenSumSet` sums by a recursive function over
the subsets of what is summed. `SumsExist` shows that the function exists (by the
least subset without one: subsets of a finite set are well founded, so no induction
theorem is needed), and `Total` is then additive, monotone and the same for equal
values. From there `PlansConserve`: every plan the solver may return spends what
its outputs pay and its fee, to the zatoshi, whatever pool takes the change, and
whenever there is change, and no transparent output of zero to leave out, the
builder asks for that fee. `SplitPlans` is the step
that a test would miss: `plan_split` prices one action for each note it takes, the
planner drops the notes worth less than an action; what is dropped is worth no
more than what is saved (`UsableAreEnough`). `HopPays`: a hop has no change, and
its two Orchard actions and two Ironwood actions are the four that the pad pays
for, with the change output of the solver or without. `SplitsStandard`: the
outputs of a split are denominations, which the next observation moves whole.

**The second look.** `PaysInv` carries those through the steps: a task, from its
decision to its plan, is of notes that exist and were mined, and its amounts
agree with the fee (`TaskInv`, by `HopMade` and `SplitMade` when it is decided,
`TaskKeeps` at every other step); what is planned and what is accepted as a hop
is one note, one boundary and one power of ten (`HopTx`). A split stays payable
when the fee drops, since the fee never rises. A hop does not: its value and its
pad are of the old fee. `OnePad` shows that the second look finds it out: two
powers of ten that differ from a note's value by a pad each differ by nothing,
so a hop that `is_satisfied_by` still accepts has the pad of the day.

**Only model-checked**: liveness (`EveryCallAnswered`, `BusyIsRetried`,
`CatchesUp`, `Completes`, `SessionEnds`), which the proof system does not reach
under fairness; and the rows of `WalletSync` under reorganizations. The four runs
that refute a promise of the code are about one instance each.

## Limits of the code

What the models show beyond the findings, each excused or kept out by a bound
that is named above. A reader can reproduce each by removing the excuse.

Synchronization and drivers:

- The checkpoint of an account's transparent pool is raised address by address
  (`sync/transparent.rs:249`): only `taddr_cancel` has an account of two
  addresses, and `CoverComplete` of `scan` says nothing of it.
- With several ranges and a reorg, the transparent checkpoint can pass heights
  never queried (accounts a with both pools, b shielded, 4 heights,
  `MaxBranch` 1: `CoverComplete` fails).
- A cancel whose future is dropped while the mailbox is full leaves the
  cancelling flag raised: the driver takes no more steps.

DKG:

- The last round's message, once lost, is never sent again
  (`frost/protocol.rs:824-829` says a message is), and an expired one is not
  built again (`frost/dkg/exec.rs:224-225` says it is).
- Two participants that each lost a message of round 0 or 1 wait for each other.
- A crash after the first statement that rekeys the parameters makes `in_dkg`
  false (contrary to `frost/dkg/exec.rs:385-388`), and a later cancel deletes
  the key.

Signing:

- A message expires after 40 blocks, the session's transaction after 3456
  (`pay/plan.rs:254-265`). When a member's share expires unmined,
  `own_publish` clears its marker (`frost/sign/exec.rs:402`); the planner then
  answers Done (`frost/sign/plan.rs:75`) and the session is deleted: the share
  is never delivered, although `frost/sign/plan.rs:72-73` says "A signer is done once
  its share is mined" and `frost/sign/exec.rs:394-395` that an expired message is
  rebuilt by the next pass.
- A member's lost commitments are never sent again once it waits for the package.
- The coordinator gives up on more than `t` commitments.
- A coordinator that starts again takes in its own old parts, or publishes every
  block until the expiry; a member that starts again finds its old commitment in
  its way, or gives a share over a package that nobody else has.
- Markers are deleted with the session: the note of a message that was never
  mined stays locked.

Payments and migration:

- The solver prices a change output even when the change is zero, and
  `assemble_pczt` adds none then (`pay/plan.rs:1061`), so the plan's fee is not
  the builder's, which accepts no other (`pay/fee.rs:75-80`). A payment that
  leaves exactly nothing is refused; so is a split, for instance of one
  Orchard note of 107 000 at 1000 an action (planned 3000, built 2000), and the
  migration fails for as long as the wallet has that note. `TaskIsPayable`
  excuses it.
- `lower_bound_privacy` (`pay/solve.rs:368-387`) is not an optimistic bound,
  although it is called one: a note may bring a balance through zero.
- `select_notes` can find nothing where a payment is possible: notes of 1.5
  (Orchard) and twice 1.4 fees (Sapling) for an output of 0.8 fees, where taking
  one more note costs more than it brings.
- `PlanMode::Migration` says "Spend exactly `notes`"; the solver takes any
  sufficient part of them.
- The loop reports Done when its last split or hop is posted: its inputs are
  locked and its outputs not yet mined, so that nothing is left to see
  (`migrate/plan.rs:92-96`, against "No further progress is possible",
  `migrate/task.rs:44`). A later run goes on.
- Notes locked for a transaction that expires unmined stay locked until the user
  unlocks them. A record applied after the sync that found the spend locks a
  spent note, which reappears locked after a rewind.
- `pay/broadcast.rs:107-110` counts on a mempool scan to record a spend;
  `mempool.rs` writes nothing.
- Between the post and the record, and after a crash there, the notes can be
  planned again; the node refuses the second transaction while it has the first.

## Plan

Done: the session and its two drivers, the synchronization, the DKG, the signing
session, payments and the migration; every safety invariant that a run checks is
proved, the rows of a wallet on one chain. Next, in this order:

1. The rows of `WalletSync` under one reorganization, for one account.
2. The detail pass and pending metadata, prepared outside the session and
   applied inside.
3. Row ids in `Spending`, so that a lock prepared before a rewind can meet
   another note under the same id.
4. The DKG's exchange of addresses, and a signing of several inputs.

## Not modelled, and why

Left out of the components modelled: ZSA assets, issuance, the shielding of one
address, the override of the fee, hardware signers, the order of the solver's
search, denominations above 10^8, the reuse of row ids; a chain that reorganizes
under the payments (a rewind instead); several inputs in a signing; the cap of
16 effects in a pass; block times, memos and pending metadata.

Left out whole: the address sweep adds addresses one statement at a time outside
the session, and its users reset the account afterwards, so the scans take the
addresses as given; encodings, keys, backups and schema upgrades are sequential
conversions; network clients and the database are the environment (SQLite
transactions are taken as atomic); voting, swaps, hardware devices and plugins
are clients of other systems; the Flutter pages appear only as the callers of
`ProtocolDriver`. By lines these are most of the repository: the generated
bindings alone are a quarter of the Rust code, and accounts, the schema, backups
and the generated network client are most of the rest. The models cover the parts
that decide, in what order and on what state.
