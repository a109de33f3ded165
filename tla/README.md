# TLA+ models of ipld-eth-indexer

This directory holds TLA+ models of the Ethereum IPLD indexer. The models are
checked with TLC. They cover:

- the database cleaner (`src/pkg/eth/cleaner.go`);
- the ingest path that the cleaner shares the database with;
- the Maker event repository and its `checked_headers` bookkeeping
  (`src/pkg/transformers/cat_file/chop_lump/repository.go`);
- the streaming subscriber (`src/pkg/eth/streamer.go`) with its channel,
  workers, reconnects and back-fill.

## 1. The system and how its parts interact

The indexer turns Ethereum block payloads into two kinds of stored data. They
live in two stores inside one Postgres database:

- **Blob store** (`public.blocks`): IPLD objects keyed by `mh_key`, the
  multihash of their content. Because the store is content-addressed, two
  blocks whose state node (or any object) has the same bytes share one row.
- **Metadata store** (`eth.header_cids`, `uncle_cids`, `transaction_cids`,
  `receipt_cids`, `state_cids`, `storage_cids`): one row per object, each
  naming its blob by `mh_key`. Child rows reference their parents with foreign
  keys that have `ON DELETE CASCADE`:
  - header → uncle, tx, state;
  - tx → receipt;
  - state → storage.

The parts, from the spec and the sources:

| Part | Source | What it does to shared state |
|---|---|---|
| Streamer | `src/pkg/eth/streamer.go` | Subscribes to the node and fills a channel of 20000 payloads. |
| Converter | only its test, `cleaner.go` 364-416 | A pure conversion from a payload to IPLDs and CID models. |
| Publisher | not under `src/` (spec 4.2) | One transaction that inserts the payload's blobs. |
| Indexer | not under `src/` (spec 4.3) | One transaction that upserts the header (`times_validated` + 1) and inserts the child rows. |
| Back-fill | config only, `documentation/super_node/setup.md` | Re-fetches gaps and low-validation ranges and feeds them through publish and index again. |
| Cleaner | `src/pkg/eth/cleaner.go` | `Clean(rngs, t)`: one transaction of per-range DELETE statements. `ResetValidation(rngs)`: one UPDATE transaction. |
| Maker repositories | `pkg/transformers/.../repository.go` | Insert event rows and mark `checked_headers`. |
| CLI / config | `src/unnamed/part_000`, `cmd/version.go` | Flags and logging. |

The parts interact through the database only. Ingest workers, back-fill and
the cleaner run as concurrent clients. Each runs its own transactions at read
committed, and they contend on row locks:

- A DELETE of the cleaner that has not yet committed locks the rows and blobs
  it removed.
- An ingest INSERT of the same primary key waits until the cleaner commits or
  rolls back. It then inserts the row again, or finds it still there.

## 2. Modules

| Module | Models | State (VARIABLES) | Actions |
|---|---|---|---|
| `EthSchema` | The tables, the join and cascade structure of the DELETE statements, and the statement and VACUUM sequences that `clean`, `cleanFull` and `vacuumAnalyze` run for each `DataType`. | constants only | operators `CleanSteps`, `CleanFullSteps`, `VacuumSteps`, `VacuumFull`, `RowsIn`, `Cascade` |
| `CIDIndexer` | The write path (spec-modelled): publish, then index, as two transactions per payload, waiting on locked rows and blobs. | `rows`, `blobs`, `timesValidated`, `payloadOf` | `Publish`, `Index`, `IndexFails` |
| `EthCleaner` | `DBCleaner.Clean` statement by statement, and `ResetValidation`. | `cleanerState`, `cleanRanges`, `cleanType`, `rangeIdx`, `stepIdx`, `pendingRows`, `pendingBlobs` (the uncommitted deletes), `touched`, `vacuumed` | `CleanBegin`, `CleanStatement`, `CleanStatementFails`/`Rollback`, `CleanCommit`, `CleanCommitFails`, `Vacuum`, `VacuumDone`, `VacuumFails`, `ResetValidation` |
| `EthStore` | The abstract store. It states what a Clean promises: an atomic removal of the range's rows of the type, their cascaded children, and the blobs nothing else still references. | `rows`, `blobs`, `timesValidated` | `PublishBlobs`, `IndexPayload`, `CleanAtomically`, `ResetAll` |
| `EthIndexer` | The composition. It instantiates `CIDIndexer`, whose locks are the cleaner's pending deletes, and `EthCleaner`. It also holds the policy constant `PauseIngestDuringClean`, the fairness, and the properties. | union | `PublishStep`, `IndexStep`, `CleanStart`, `CleanerStep` |
| `MC_EthIndexer` | The two-block fixture of `cleaner_test.go`. | — | — |
| `CheckedHeaders` | The Maker event repository `cat_file/chop_lump/repository.go` (`Create`, `MarkHeaderChecked`, `MissingHeaders`). It is driven by transformer processes whose `Execute` loop follows `vat_move/transformer_test.go`, against Postgres unique-key and row-lock waits. | `events` (rows per event key), `checkedRow` (a header's `checked_headers` row, or `NoRow`), and per runner `pc`, `todo`, `cur`, `pending`, `ckLocked`, `errors` | `ExecuteBegin` (the `MissingHeaders` query), `ExecuteDone`, `ExecuteFails`, `MarkHeaderChecked`, `CreateBegin`, `CreateInsert`, `CreateDuplicate`, `CreateMarkChecked`, `CreateCommit`, `CreateFails`, `OtherMarkHeaderChecked` |
| `CheckedHeadersStore` | The abstract event repository. It states what `Create` and `MarkHeaderChecked` promise: a header's events are stored once, all together, in the step that marks the header checked; a column once true stays true. | `events`, `checkedRow` | `RecordEvents`, `MarkChecked`, `MarkOther` |
| `MC_CheckedHeaders` | Three headers: one with two logs, one with none, one of another node. | — | — |
| `LivePipeline` | The streaming subscriber (`PayloadStreamer.Stream`), the bounded payload channel, the worker pool, teardown and reconnect, and the back-fill controller (a tick lists the missing blocks, then ingests them one by one). Apart from `Stream` and `StreamFails`, this is modelled from spec 4.4, 4.5, 5 and 7. `Deliver` is go-ethereum's rpc client pushing into `payloadChan`, which is outside `src/`; it follows spec 5's blocking send. Payloads are abstracted to block numbers, and the index is the set of indexed numbers. | `head`, `sent`, `sub`, `chan`, `held`, `indexed`, `bfTodo`, `errors` | `NewHead`, `Deliver`, `SubscriptionFails`, `Stream`, `StreamFails`, `TakePayload`, `IndexPayload`, `IndexPayloadFails`, `BackfillStart`, `BackfillBlock`, `BackfillBlockFails` |
| `MC_LivePipeline` | The channel capacity scaled down to one. | — | — |

How the code maps to the model:

- **Statements.** Each DELETE of `clean*IPLDs` or `clean*MetaData` is one
  `CleanStatement` step.
  - It sees the committed rows minus the transaction's own earlier deletes
    (`Visible`).
  - It adds the rows it deletes, with the rows they cascade to, to
    `pendingRows`. The blobs it deletes go to `pendingBlobs`.
- **Transaction outcome.**
  - `tx.Commit()` applies the pending deletes (`CleanCommit`).
  - An error in any statement rolls back (`CleanStatementFails`). So does an
    unknown type, which takes the `default:` branch of `clean`.
  - A failing commit releases the locks and changes nothing
    (`CleanCommitFails`).
- **Vacuum.** After the commit, `vacuumAnalyze` runs the VACUUM statements of
  `VacuumSteps(t)` one by one. The steps are `Vacuum`, `VacuumDone` and
  `VacuumFails`; their failure returns an error after the deletes are
  committed.
- **Exclusions.** `Beginx` failing is a stutter and is not modelled.
  `ResetValidation` is one atomic step: a failure rolls back to no change.
- **Refinement.** `EthIndexer` checks `Store!Spec` under a refinement mapping
  that is the identity on `rows`, `blobs` and `timesValidated`:
  - every step other than `CleanCommit` leaves these unchanged or matches an
    abstract publish, index or reset;
  - `CleanCommit` must match `CleanAtomically`.

  `CheckedHeaders` checks `CheckedHeadersStore`'s `Spec` the same way, with
  the identity on `events` and `checkedRow`. `CreateCommit` must match
  `RecordEvents`, `MarkHeaderChecked` must match `MarkChecked`, and the other
  transformers' upserts must match `MarkOther`. Every other step (the
  `MissingHeaders` query, inserts pending in the open transaction, lock
  waits, rollbacks) leaves both unchanged.

## 3. Runs

Fixture of the `MC_EthIndexer` runs: the two blocks of `cleaner_test.go`.

- Block 0 (h1) has every kind of row.
- Block 1 (h2) has a header, a transaction, a receipt, and a state node at
  the same path as a state node of block 0.

Bounds of the `MC_EthIndexer` runs:

- One worker (`Workers = {w1}`).
- `MaxValidated = 1`, which lets each block be ingested, cleaned and
  re-ingested.
- Range lists `<<>>`, `[0,0]`, `[0,1]` and `[0,0],[1,1]`. These cover:
  - the empty list;
  - a range that holds one block;
  - a range that holds both blocks;
  - two ranges, where the second sees the first's uncommitted deletes.
- Every `DataType`, including one the switch does not know.

| Run | cfg | Expect | Checks | Shows |
|---|---|---|---|---|
| `paused_clean` | `MC_EthIndexer_paused.cfg` | pass (931k states, about 70 s) | `TypeOK`, `BlobBeforeRow`, `StoreRefinement` | With ingest paused while a Clean runs and no shared blobs, every Clean, with a failure possible at every statement, commit or VACUUM, is the atomic clean of `EthStore`, and no row is left without its blob. This depends on the order of the statements in `clean` and `cleanFull`: IPLDs before the metadata whose cascade would remove the rows the IPLD delete joins on. |
| `index_not_blocked` | `MC_EthIndexer_progress.cfg` | pass (171623 states) | `IndexNotBlockedForever` | Ingest runs concurrently with a Clean over two ranges, and an indexed block can be delivered again. An index transaction that waits on the cleaner's locks always becomes runnable again, whether Clean commits, fails to commit, or fails in the second range after the first range's rows are deleted: that error path calls `shared.Rollback` (`cleaner.go:75`), which releases the locks. Without the rollback (the mutant), the worker waits forever. |
| `concurrent_clean_race` | `MC_EthIndexer_concurrent.cfg` | violation of `BlobBeforeRow` | | A block is indexed, its validation reset, and the block published again (its blobs already exist). A Clean(Uncles) then commits, and the index commits after it, re-inserting an uncle row whose blob the Clean deleted. |
| `shared_blob_clean` | `MC_EthIndexer_shared.cfg` | violation of `BlobBeforeRow` | | Clean(State) of [0,0] deletes the state blob that block 1's state row still references. |
| `vacuum_after_clean` | `MC_EthIndexer_vacuum.cfg` | violation of `CleanedTablesVacuumed` | | A Headers (or Full) Clean deletes from `public.blocks` and returns without vacuum-analyzing it. |

| `per_range_transaction` | `MC_EthIndexer_perrange.cfg` | violation of `EarlierRangesStayCleaned` | | Clean over `[0,0],[1,1]` deletes block 0, then fails on a statement of `[1,1]`. The rollback restores block 0's rows, which spec 4.6 (one transaction per range) keeps deleted. |
| `checked_headers` | `MC_CheckedHeaders.cfg` | pass (4864 states) | `TypeOK`, `CheckedIffStored`, `NoCircularWait`, `ExecuteNilCoversRange`, `StoreRefinement` | Two runners share the database. They work from stale `MissingHeaders` results, any statement of `Create` can fail, and another transformer marks its own column at any time. Even so: <ul><li>an event row is never stored twice;</li><li>a header's events are never half stored;</li><li>a header is never checked without its events;</li><li>two `Create` transactions never wait on each other, because models are inserted in log order;</li><li>an `Execute` that returns nil leaves every header of this node in the range checked;</li><li>the repository refines `CheckedHeadersStore` (`CheckedHeaders!StoreRefinement`): each commit or autocommit is one atomic store-and-mark step, and no upsert clears another transformer's column.</li></ul> |
| `live_pipeline` | `MC_LivePipeline.cfg` | pass (16831 states) | `TypeOK`, `GapsEventuallyFilled`, `SubscriptionEventuallyRestored` | The setup has a one-slot channel, two workers, two errors, and reconnects that skip the blocks mined meanwhile. Every block outside the validation window is eventually indexed, including interior gaps below the highest indexed block, although back-fill fetches can fail too. After every subscription error the drain completes and the subscriber streams again. |

Bounds of the new runs:

- `checked_headers`:
  - two runners, which is the least that can race;
  - two logs on one header, the least that can order two INSERTs differently;
  - one error per runner;
  - one other transformer column.
- `live_pipeline`:
  - a chain of five blocks with a window of two, so the window holds
    more than one block;
  - capacity 1, so the channel is often full;
  - two errors, so a gap can open below a later indexed block, or a
    back-fill fetch can fail and leave its block for the next tick.

The progress run uses a smaller set of operations to stay in reach: the
range list `[0,0],[1,1]`, and the types Full and Transactions. With two ranges,
a statement of the second range can fail while block 0's rows are deleted and
locked. `MaxValidated = 2` lets an indexed block be delivered again, so a
worker can re-index block 0 and wait on those locks. With one range, or one
delivery per block, no worker ever waits on a failing Clean, and the property
would hold however the error path ended.

### Fairness

`Fairness` is weak fairness on the cleaner's progress steps only (statement,
commit, vacuum, and their failures).

- Every database call of the cleaner either returns or errors: the
  connection has deadlines, and Postgres aborts a statement that waits on a
  deadlock.
- The workers get no fairness. A worker may stop forever, since nothing in
  the code forces it to index. So `IndexNotBlockedForever` says only that the
  *cleaner* never holds a worker up for ever.
- `CheckedHeaders` checks only safety and has no fairness. Whether the
  caller re-runs `Execute` is not in the sources.
- `LivePipeline` has weak fairness on:
  - delivery into a channel with room;
  - `Stream` after the drain;
  - each worker's take and index;
  - starting a back-fill tick, and ingesting a listed block.

  Spec 5 gives every call a deadline, and the back-fill controller ticks
  every `frequency` seconds. The chain itself is not required to grow.
  Errors are bounded by `MaxErrors`, so a failing step cannot recur forever.

## 4. Findings

1. **spec_gap** (`cleaner.go:72`). Clean is one transaction; publish and index
   are two. Re-ingest interleaved with a Clean leaves metadata rows whose blob
   is gone. This breaks spec §3.1, while spec §9 leaves the isolation policy
   open. Pausing ingest while Clean runs, the policy of the `paused_clean` run,
   closes the race.
2. **spec_code_divergence** (`cleaner.go:271`, and the same join in every
   `clean*IPLDs`). Blobs are deleted through any in-range row that references
   them, even when a row outside the range shares the blob. Spec §8.3 deletes
   only blobs referenced by nothing else.
3. **code_bug** (`cleaner.go:129`). `vacuumAnalyze` for Full/Headers returns
   `vacuumFull()` and never vacuums `public.blocks`, although `cleanFull`
   deletes from it. The comment at line 82 and spec §4.6 say otherwise.
4. **spec_code_divergence** (`cleaner.go:68`). `Clean` calls `Beginx` once,
   before the range loop, so all ranges share one transaction. A failure in a
   later range rolls back the earlier ranges too. Spec §4.6 uses one
   transaction per range and rolls back only the current one.

## 5. Not modelled

- **Back-fill details.** Not modelled:
  - the concurrency inside one batch (its fetches are separate steps, in any
    order);
  - backoff timing and the minimum gap threshold.
- **times_validated under a per-statement ResetValidation**
  (`cleaner.go:55`). Each UPDATE locks the header rows it resets until the
  commit, and a header upsert on such a row waits. A header row that an
  upsert creates after the UPDATE ran is not reset. Every outcome equals
  the reset and the upserts run in some serial order, as spec 8.5 asks,
  but not always in commit order. So a per-statement reset cannot be
  checked step by step against `EthStore`'s atomic `ResetAll`. The model
  keeps `ResetValidation` as one atomic step, and no property separates
  the orders.
- **VACUUM failure after commit** (`cleaner.go:83`). It is modelled
  (`VacuumFails`), but what a caller does with that error is outside the
  sources.
- **Uint64 range bounds above 2^63-1** (`cleaner.go:358`). Go's
  `database/sql` refuses a uint64 argument with the high bit set, so a
  range ending at `math.MaxUint64` makes the first statement of Clean or
  ResetValidation fail, and the whole call rolls back. That behaviour
  belongs to the driver, not to the sources, and the spec says nothing about
  open-ended ranges. A failing first statement is already a modelled path
  (`CleanStatementFails`), so a property here would only restate it.
- **Wider checks.** Two ranges that overlap (`[0,1],[1,1]`) were tried in
  `paused_clean`: the run passes but takes about two minutes (1.25M states).
  It is left out to keep the run well inside its time limit. Two workers
  with ingest concurrent to Clean are out of reach for the same reason.
- **Back-fill threshold.** Spec 4.5 lists blocks only when the gap to the
  head exceeds a minimum threshold. On a chain bounded by `MaxHead`, a
  threshold above the window only leaves the last blocks unlisted because
  the chain stops growing, so it is not modelled.
- **Converter, CLI, Dockerfile, `cmd/version.go`.** These are pure functions,
  I/O or build files. They have no concurrent state for a model checker to
  explore.
- **Code outside this repository.** The publisher, the indexer, go-ethereum's rpc client push, the worker
  pool, the subscriber's teardown and the back-fill controller are not
  under `src/`. They are modelled from the spec (entries marked
  `spec_modelled` in `PROJECT.json`), so their components stay `partly`.
  The model of everything under `src/` that changes state is complete:
  `Clean`, `ResetValidation`, the vacuum sequence, `Stream`, `Create`,
  `MarkHeaderChecked` and `MissingHeaders`.
