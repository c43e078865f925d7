# Martinez in TLA+

A TLA+ development kept beside Martinez, an Ethereum client in Rust
(`src/src/`, binaries in `src/bin/`). It models the parts of the client where
the order of events matters: the staged synchronisation loop, the concurrent
header download with forks, and the execution of blocks with its journal,
write buffer, change sets and unwinds. TLC checks every module on small
instances; TLAPS proves the safety of the synchronisation loop for any number
of stages and blocks.

`PROJECT.json` is the index: components, runs, mutants, the map from
definitions to source lines, findings, hazards and theorems.

## 1. The system

| part | state | operations | interacts with |
|---|---|---|---|
| **Staged sync loop** `stagedsync/mod.rs` | open transaction, `SyncStage` table, unwind target | forward pass, commit between stages, unwind in reverse, abort, return at `max_block` | every stage |
| **Header download** `downloader/headers_downloader/*`, `stages/downloader.rs` | two windows of slices of 192 headers with status counters; fork ranges; a pending fork switch | preverified, linear and forky phase, each a loop of concurrent stages: request, receive, retry, verify, link, penalize, save, refill, extend, timeout | sentry (peers), database, sync loop (unwind request) |
| **Execution** `stages/execution.rs`, `execution/processor.rs`, `execution/evmglue.rs` | blocks of a batch, transaction, call frames | run blocks, transactions, calls, creations, self-destruct; settle; unwind | state of a block, write buffer |
| **State of a block** `state/intra_block_state.rs`, `delta.rs`, `object.rs` | objects, storage caches, journal, access lists, refund | every host operation, snapshot and revert | execution, buffer |
| **Write buffer** `state/buffer.rs` | overlay of accounts and storage, change sets by block, code | record, write history, write to tables | tables |
| **Other stages** `stages/*.rs` | an index table each | append rows, unwind rows | sync loop |
| **Trie** `trie/*` | intermediate hashes | build, incremental rebuild | hashed state |
| **Consensus** `consensus/*` | engines without state; `Blockchain` with canonical chain | validation; insertion with reorganisation | execution, in-memory state |
| **Sentry client** `sentry/*` | queue of commands, subscribers, connection | send, penalize, receive, reconnect, stop | header download |
| **Storage, ETL, bitmaps** `kv/*`, `etl/*`, `bitmapdb/*` | tables, cursors, sorted files, chunks | | all stages |
| **EVM, precompiles, models, RPC, binaries** | sequential or without state | | |

What is hard about it: commits happen in the middle of a pass, and the process
may stop at any of them; a stage may drop the transaction other stages have
written in and ask for an unwind; eight stages of a download share one window
and suspend in the middle of their work; peers answer late, twice, short, or
with another chain; a fork switch is decided in one transaction and carried out
in the next; calls nest, fail and are taken back one by one inside
transactions, blocks and batches, each with a layer of caching of its own.

What makes it correct: what is on disk always belongs to one chain; headers
that count as downloaded are linked and saved; the window's counters, on which
all stages wait, are exact; a failed call leaves no trace; the change sets of a
block are the state before it; an unwind gives that state back; requested work
ends. Section 3 says where each of these is stated.

## 2. Modules

| module | models | state and actions |
|---|---|---|
| `StagedSync` | `StagedSync::run` | One sequence of stages. `db…` is what is committed, `tx…` what the transaction sees. A row is the block it was derived from. `BeginForward`/`BeginUnwind` open a pass, `ExecuteHeaders`/`ExecuteStage` are one invocation of a stage with the commit that may follow, `RequestUnwind` is `ExecOutput::Unwind`, `UnwindStage`, `UnwindNext`, `UnwindCommit` the unwind, `Complete` the end of a pass, `Restart` a crash or an error. |
| `StagedSyncProofs` | theorems on the above | |
| `HeaderSlices` | `HeaderSlices`, `HeaderSliceVerifier`, `HeaderSlice` | operators: a window of slices with counters; verification of a slice and of a link |
| `HeaderChain` | (abstract) | a chain of linked headers that only grows at its end |
| `LinearDownload` | `DownloaderPreverified`, `DownloaderLinear`, `DownloaderStageLoop` and their stages | one action per completed `Stage::execute`; verification on the thread pool and penalizing through the sentry are two actions each, because other stages run during the await |
| `ForkyDownload` | `DownloaderForky`, `ForkModeStage`, `VerifyLinkForkyStage`, `ForkSwitchCommand`, the `HeaderDownload` stage | two windows, the runs of the loop, the transaction they write in, commit, unwind and restart. A slice is verified in three actions: the batch is collected (`VerifyBegin`), the thread pool reads the slice (`VerifyPool`), the verdicts are applied (`VerifyFinish`) |
| `IntraBlockState` | `state/intra_block_state.rs`, `delta.rs`, `object.rs` | pure operators on a record of objects, storage, journal and so on; a snapshot is a length of the journal and `RevertTo` replays it backwards |
| `Buffer` | `state/buffer.rs`, the tables, `Execution::unwind` | overlay, change sets, what `write_to_db` does to the tables |
| `Execution` | the execution stage, the processor and the EVM host | batches, blocks, transactions, frames and host operations; `Commit` and `Drop` are what the sync loop does with the transaction after a batch |
| `WorldState` | (abstract) | balances, nonces, code and slots as plain functions; a failed call restores a copy; no journal, no caches, no overlay |
| `ExecutionImplements` | the refinement | variables that hold the abstract state of `Execution` at every step |
| `MC…` | instances for TLC | |

Data is abstract: a header is its number, hash, parent, difficulty and one flag
for timestamp and difficulty rules; code is its hash; a slot is a small number.
Control is kept in full, error paths included.

### How the parts are composed

`ForkyDownload` contains the stage's side of the sync loop: its unwind request,
the dropped transaction, the commit that may or may not follow and a restart.
`StagedSync` takes the opposite view: every stage is reduced to the rows it
adds and removes. `LinearDownload` hands over from the preverified to the linear
phase, also after a failure. `Execution` extends `Buffer`, which extends
`IntraBlockState`; all three layers are in the same state and in the same
refinement.

## 3. Runs

| run | checks | instance |
|---|---|---|
| `staged_sync` | what is committed belongs to one chain, stages are committed in order, a canonical block is never replaced, `run` returns only at `max_block`; a requested unwind is not forgotten before it is carried out for all stages, and is carried out | 4 stages (two batch and request unwinds, one resets), 4 block numbers with 2 identities each; restart at any step |
| `exit_after_sync` (violation) | `--exit-after-sync` | one chain of 3 blocks |
| `linear_download` | counters, window, end of the loop, refinement of `HeaderChain`; the download completes | blocks 2 to 9 in slices of 2, window of 2; short, wrong, unlinked and competing answers |
| `preverified_short` (violation) | what is reported is saved | answers of one header |
| `forky_download` | counters of both windows, the slices of both chains connect, difficulty never lost | blocks 2 to 7, two chains that part after 4, one unrelated answer, one whose two headers do not link; three runs or restarts |
| `forky_stale_verdict` (violation) | the canonical headers are linked, inside slices too | the same, one run |
| `forky_saved` (violation) | `Saved` means saved in the database | two runs |
| `forky_committed` (violation) | the committed canonical rows up to the progress are one chain | four runs or restarts, every answer linked inside |
| `execution_calls` | refinement of `WorldState`, supply, refund counter | one transaction, up to three operations, three nested calls; history pruned |
| `execution_blocks` | refinement of `WorldState`, account change sets, stored code, refund counter | two transactions in one or two blocks, one or two batches, committed or dropped, unwinds |
| `unwind_restores` (violation) | an unwind restores the world | the same |
| `storage_changes` (violation) | storage change sets hold the values before the block | the same |

Every property of a passing run has a mutant in `PROJECT.json`: a small change
of one modelled definition, such as a dropped guard or a missing reset, under
which TLC finds the property violated.

### What the violations show

1. `--exit-after-sync` "Exit Martinez after sync is complete and there's no
   progress" (`src/bin/martinez.rs:92`): the flag is stored and never read.
2. `verify_preverified_stage.rs:108`: the last header of the answer is taken
   for the edge of the slice, so an answer of one header verifies a whole slice,
   and the run reports blocks it has not saved.
3. `fork_switch_command.rs:123`: a fork switch drops the transaction with the
   headers saved since the last commit, while their slices stay `Saved` in
   memory.
4. The rows lost by 3 below the fork point are missing under a progress the
   next run commits. After a restart the window is loaded from the gap, empty,
   and takes what peers send for it. If that is the old chain, its headers are
   saved over the first ones of the fork, and the canonical rows up to the
   progress are a mixture of both chains (`fork_switch_command.rs:123`,
   `downloader_forky.rs:53`).
5. `verify_slices_stage.rs:59`: verdicts of the thread pool are applied to
   whatever the slices hold by then. Fork mode empties a slice in between
   (`fork_mode_stage.rs:191`), it is answered again, and headers that do not
   link to each other become `VerifiedInternally`, then `Verified`. The link to
   the slice before is checked on the new headers, so `CanonicalConnected`
   holds where `CanonicalLinked` does not.
6. `stages/execution.rs:263`: unwinding an account without a row deletes the
   next account of the table (`seek` instead of `seek_exact`).
7. `state/buffer.rs:263`: a slot that is erased and written again in one block
   gets the wrong row in the change set, and is lost on unwind.

### Bounds, and what they hide

*StagedSync.* Four stages have every kind of neighbour: batching, requesting,
resetting, plain. The theorems remove the bound for the safety properties. A
stage may ask for an unwind to any number. The header stage may end below
the top, a batching stage below the stage before it; the others process all
that stage has, as their code does.

*LinearDownload.* A window of two slices over four slices of blocks makes the
window move, refill and end twice. Slices have two headers, the smallest length
with a first and a last one. Answers of one header are left out of the
preverified phase, because of finding 2: with them the phase reports blocks it
has not saved, which is what `preverified_short` shows; the linear phase gets
them. `Completes` is about behaviours in which no other chain that passes the
phase's checks is answered, no stage fails and the message stream stays open
(`Undisturbed`); everything else, wrong, short, unlinked, late and repeated
answers, still happens. The condition is needed: nothing in the linear phase
gives up a chain once it is linked.

*ForkyDownload.* Three runs or restarts reach a fork, its growth down to the
connection, a switch, the unwind and the run after it. The fourth is needed for
finding 4 only, and has a run of its own. All answers are whole slices.

*Execution.* Three host operations with three frames are enough for an inner
call to fail after a call inside it succeeded, for a create, destroy, create
sequence, and for a slot to be cleared and set again, in one transaction or in two of a block. Blocks
below `PruneFrom` keep no history: it is 2 in `execution_calls`, whose one block
is below it, and 1 in the runs about change sets and unwinds. Wider instances were
checked once (three blocks of two transactions, two operations: 2.9 million
states; two blocks, three transactions, three operations: 1.1 million), with
the same result. `history` starts again at an unwind, so unwinding below an
earlier unwind is not explored. The abstract `Unwind` of `WorldState` may lose
an account or a slot, because of findings 6 and 7. An unwind starts from
committed tables, since the loop drops the transaction before it unwinds.

### Fairness

`StagedSync`: weak fairness of the loop's step, nothing else: the loop never
waits, so a live process takes one. `FairSpec` includes restarts, which forget
the unwind with the process. `LiveSpec`, without them, is used by
`exit_after_sync` only: a process that is restarted need not return.

`LinearDownload`: weak fairness of every stage but `Retry`, because the stage
loop polls all of them, and strong fairness of a right answer (`Honest`) for
every slice. The latter is an assumption on peers, not on the code: of the
requests that are repeated for ever, some are answered.

## 4. Proofs

`StagedSyncProofs` proves, for every `NumStages`, `TopBlock`, `MinCommit`,
`MaxBlock` and every set of batching, resetting and requesting stages that
satisfies `StagesAssumption` and `BlocksAssumption`:

* `TypeCorrect`: `Spec => []TypeOK`;
* `CommitConsistency`: `Spec => []CommittedConsistent`;
* `CommitOrder`: `Spec => []CommittedOrdered`;
* `ReturnSynced`: `Spec => []ReturnsAtMaxBlock`;
* `CommitsNeverReplace`: `Spec => NeverReplaced`;
* `UnwindsAreKept`: `Spec => UnwindKept`.

`StagesAssumption` says that the first stage does not reset, that a resetting
stage neither batches nor requests unwinds (`Interhashes` is the only one);
`BlocksAssumption` gives the bounds their types.

*Argument.* None of the committed properties is inductive: a commit publishes
what the transaction sees, in the middle of a pass. `IInv` therefore states
consistency of the transaction's view at every step and adds two parts.
`TxOrdered`: no stage is ahead of one before it, except that a stage which
resets may be behind until the pass has executed it (`CaughtUp`). It is what
makes a stage's new rows canonical when they are derived from the headers it
sees. `LoopInv` says what the loop's variables mean: stages above the current
one are already cut during an unwind, and `minimum` is below the progress of
every stage executed in the pass. `ExecuteIInv` is the step of a stage,
`NextIInv` all steps. `NeverReplaced` needs one more invariant, `SameChain`: in
a forward pass the transaction's chain extends the committed one, in an unwind
it is a prefix of it. `UnwindKept` follows from `LoopInv`: when the unwind has
walked below the first stage, all stages are cut to the target, and only then
is the target forgotten.

Only model-checked: everything in `HeaderSlices`, `LinearDownload`,
`ForkyDownload`, `Execution` and the two refinements; all liveness, which is
out of reach of the prover.

## 5. What is not modelled

`PROJECT.json` lists every component. In short:

* *StagedSync*: timings, logging.
* *Header download*: the user interface; statistics; the estimate of the top
  block, which is any moment at which the stage ends.
* *Execution*: rules before London; gas, so a call may fail at any point and
  any part of the fee may come back; DAO balance changes and ommer rewards;
  logs beyond their number; call trace rows; historical reads; access lists of
  transactions. CALLCODE is as DELEGATECALL.
* The remaining stages, the trie, `Blockchain`, the sentry reactor, ETL and
  bitmaps: see the plan. Precompiles, codecs, RPC and binaries are pure
  functions, read-only or wiring.
* Files no module of `lib.rs` names (`downloader2`, `sentry2`, `commitment`,
  `dbutils`, …) are not compiled.

### Observations without a run

* The stage loop swallows a stage's error: a failed preverified phase hands over
  to the linear one from `min_block_num`, which accepts any linked chain even
  where preverified hashes exist.
* When a better fork reaches down to the first slice of the window, the fork
  slices are cleared under a pending switch command and the next run fails
  (`fork_switch_command.rs:65`). `ForkyDownload` has the phase `failed` for it.
* `PenalizeStage` resets slices that became `Invalid` during its await without
  penalizing their peers.

## 6. Plan

1. `Blockchain`: `insert_block` over `InMemoryState`: canonical chain, bad
   blocks, unwind and re-execution. Abstract specification: the heaviest valid
   chain is canonical and the state is the one it gives. Theorem: after a failed
   insertion the state is what it was.
2. `IndexStages`: block hashes, total gas and transactions, senders,
   transaction lookup as tables with ordered keys, with the ETL collector;
   composed with `StagedSync` (a stage's rows become its table), shown to
   implement the abstract stage. Theorem: rows of a cumulative index are exact.
3. `BitmapIndex`: chunks, loading, unwinding, against the set of blocks.
4. `HashState` and `Trie`: incremental against clean promotion; hash builder
   and intermediate hashes against a recursive root.
5. `SentryReactor`: command queue of one, reconnection, stop, subscribers that
   lag; liveness of the stop.
6. `Interpreter`: gas forwarding, return data, call depth; consensus rules
   (base fee, difficulty, ommers) as operators.
7. Proofs: counters of `HeaderSlices` for every window; `GrowsOneChain`;
   journal lemmas of `IntraBlockState`; supply.

As the list of runs grows, the two violations of `Execution` are to share one
instance.
