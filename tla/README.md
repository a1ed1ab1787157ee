# turbovec0 in TLA+

`turbovec-sqlite` is a SQLite extension that keeps a TurboVec index (quantised
vectors, searched by similarity) in a virtual table, `turbovec0`. The index of
a table lives twice: as chunks in shadow tables inside the database file, and
as an in-memory copy in every connection that uses the table. The program is
about keeping the two in step, through transactions, savepoints, failed
statements, other connections and crashes, without rewriting the whole index
on every commit. That is what is modelled, model-checked and proved here.

Paths below are relative to `src/` of the repository: `src/chunked.rs` is the
virtual table, `src/lib.rs` the scalar functions, `docs/DESIGN.md` the design.

## 1. Inventory

| part | state it keeps | operations | modelled |
|---|---|---|---|
| shadow storage | `_info` (generation, byte length, row count, delta totals), `_ids`, `_chunks` (base >= 0, deltas < 0); `_meta` in the 0.2.0 layout | `read_index`, `write_index`, `write_delta`, `record_compaction`, `record_delta`, `upgrade_storage`, `create_storage`, `validate_chunks` | `TurboVecStorage` |
| change log | a list of `Change` in `TransactionState` | `replay`, `undo_insert_prefix`, `net_rows` | `TurboVecStorage`, `TurboVecLog` |
| delta codec | none | `encode_delta`, `decode_delta`, `delta_encoded_len` | `TurboVecCodec` |
| instance | `State` behind a mutex: layout, generation, index, transaction, dirty, base and delta sizes, row count | xConnect, xBegin, xSync, xCommit, xRollback, xSavepoint, xRelease, xRollbackTo, xUpdate, xFilter | `TurboVecState` |
| host (SQLite, external) | snapshot, write lock, savepoint stack, committed file | statements, savepoints, COMMIT, ROLLBACK, crash, schema changes, join orders | `TurboVecTable`, `TurboVecReload`, `TurboVecKnn` |
| integrity check | none | `integrity` | `Integrity` in `TurboVecTable` |
| opening, layouts | none | `open_storage`, `detect_layout` | partly (`OpenStorage`, two layouts) |
| chunk streaming | a buffer and a chunk number; positions in a chunk | `ChunkWriter`, `write_index`, `validate_chunks`, `ChunkReader` | `TurboVecImage` |
| planner, KNN arguments | a plan, a cursor | `xBestIndex`, `xFilter`, `xNext` | `TurboVecKnn` |
| rename, drop | names | `xRename`, `destroy` | rename in `TurboVecReload` |
| `turbovec_info()` | none | a read outside a transaction | its read, in `TurboVecImage` |
| `src/lib.rs`: BLOB functions, `turbovec_build` | none, or one aggregate | pure functions of their arguments | `TurboVecBlob` |
| `turbovec_knn` | a cursor | `xBestIndex`, `xFilter`, `xNext` | `TurboVecKnn` |
| extension entry points | none | registration | no |
| TurboVec library (external) | an id-to-vector map | add, remove, contains, search, serialise | as a map |

**How they interact.** SQLite calls the instance; a callback takes the mutex,
reads and writes the shadow tables through the same connection, and returns
with the mutex released, so each callback is atomic with respect to the others.
Nothing inside the extension runs concurrently. What interleaves is what
SQLite lets interleave: statements of several connections, each with its own
instance and its own snapshot. Instances share nothing but the file, and learn
of each other only through the `generation` they read there. `_ids` is written
by each statement; the index image and `_info` only in xSync; the in-memory
index and the log with each statement. A SQLite rollback restores the tables
and leaves the memory to the callback.

**What is hard**, with the property that says what must hold. The complete
list, with lines, is `hazards` in `PROJECT.json`.

- *Stale copies.* A reader trusts its copy when the generations agree
  (`refresh`): `GenerationIdentifiesCopy`; every committed write advances the
  generation: `GenerationAdvances`.
- *Catch-up.* A copy is brought forward by replaying deltas, only when the
  base is still its own: `ImplementsSqlTable`, `CatchUpIsReload` (both proved).
- *Savepoints and failed statements.* The loaded index is undone in place,
  restored from a checkpoint, or dropped and later rebuilt from storage and
  log (`restore_to`): `TransactionIndexExact`, `RollbackNeverRefused`,
  `UndoReturns` (proved).
- *Vectors the log does not keep.* With a small base the log keeps no vector
  until the first destructive change; every path that replays must still have
  what it needs: `RollbackNeverRefused`, `CommitNeverRefused`, `PathsAgree`.
- *The delta chain.* xSync names a delta after the generation of its own State;
  a State that drifted from its storage would leave a gap that only the next
  load notices: `ChainUnbroken` (proved).
- *Three things that must agree*: `_ids`, the chunks and the row count in
  `_info`, written at different moments: `IntegrityCheckPasses`.
- *A commit in two steps.* xSync has written; then the commit succeeds, is busy
  and stays open, fails and is rolled back, or the process dies:
  `CommitNeverRefused`, `PathsAgree`, `ImplementsSqlTable`.
- *An image in chunks.* The writer skips chunks that did not change, patches
  others, and cuts the tail; the library cuts its reads and writes anywhere:
  `StoredImageWhole`, `HandsOutImage` (both proved), `ReadEnds`.
- *A read in several statements.* Without a transaction around it another
  connection may commit between two of them, and the copy may be put together
  from two images: `TrustedCopyIsStored` (proved).
- *Arguments by position.* xFilter has to find what xBestIndex numbered, in
  whatever join order, and leave nothing of an earlier row of a join:
  `AnswerIsAskedFor` (except where a rowid filter is not usable yet, see section
  4), `NothingLeftToTheHost` (both proved).
- *Two instances of one table in one transaction*, after a schema change:
  `CommittedIntegrity` in `schema_reload`.
- *A damaged or foreign delta*: `CodecRoundTrip` (proved).
- *A second road to the same index*, the scalar functions on a BLOB:
  `BlobMirrorsTable` (proved).
- *Delta budget*: `DeltasStayInBudget`. *Layout upgrade*, seen by another
  connection: `connections`.

## 2. Modules

```
TurboVecStorage      values: index images, logs, shadow tables, commit writes
  TurboVecLog        the closed forms against the loops of the code
    TurboVecCodec    a log as a delta batch, field by field
    TurboVecBlob     a log as calls of the scalar BLOB functions
  TurboVecState      one instance: State and every callback, as operators
    TurboVecTable    several connections under SQLite; the properties
      TurboVecRefinement ---- implements ----> SqlTable (abstract)
      TurboVecReload a schema change inside a write transaction
TurboVecImage        the base as bytes in chunks: writer, reader, copies
TurboVecKnn          a SELECT: plan, arguments, search, cursor
MCLog, MCTurboVecTable, MCRefinement,
MCTurboVecImage, MCTurboVecKnn                  values and symmetry of the runs
TurboVecStorageProofs, TurboVecTableProofs,
TurboVecExactProofs, TurboVecCountProofs,
TurboVecRefinementProofs, TurboVecLogProofs,
TurboVecImageProofs, TurboVecKnnProofs          the proofs
```

**TurboVecStorage** has no variables. A vector is a model value, an index a
function from rowids to vectors or `None`. `replay` and `undo_insert_prefix`
are loops over the log; here they are closed forms (the last change that
touches an id decides). `TurboVecLog` folds the loops' own bodies over
every log up to a length and compares, so that the closed form is checked and
not believed; `TurboVecLogProofs` proves it for logs of any length. A `Storage` record is one version of the shadow tables. A delta
batch is the log as `decode_delta` gives it back: each insert marked as a
replacement. `byteLen` keeps the code's encoding (negative, off by one, while
deltas exist). Lengths are linear in the number of rows, changes and vectors,
with the coefficients as constants, because only comparisons of lengths decide
anything (`MIN_DELTA_BASE_BYTES`, the budget in `sync`).

**TurboVecState** has one operator per function of `src/chunked.rs`, with the
function's order of checks: `Refresh`, `CatchesUp`/`CaughtUp`, `EnsureLoaded`,
`Prepare`, `Insert`, `Delete`, `EnsureCheckpoint`, `Savepoint`, `Release`,
`RestoreTo`, `RollbackTo`, `Upgrade`, `Sync`, `Committed`, `RolledBack`. A
callback that can fail returns `ok` with the state it leaves behind, which is
not always the state it found: `restore_to` takes the transaction out of the
state and loses it when an undo fails; `Insert` claims its row in `_ids` before
it reports a conflict.

**TurboVecTable** composes instances under the host. Its actions are what SQLite
does, each with the callbacks it makes, in order; no callback is left for the
model to take or not to take. `view[c]` is the shadow tables as connection `c`
sees them, `marks[c]` its savepoint stack, in which a statement journal is one
more mark. What is assumed of SQLite:

- xBegin is called at the first write of a transaction to the table, then
  xSavepoint for the innermost mark that is already open, and for no other;
- for ROLLBACK TO, SQLite restores the tables first and then calls xRollbackTo;
  if that fails in a user's ROLLBACK TO, the transaction stays open; if
  it fails for an aborted statement, everything is rolled back;
- ROLLBACK TO the savepoint that opened the transaction passes -1;
- in rollback-journal mode, COMMIT can be refused as busy after xSync, and
  leaves the transaction open; any other failure of xSync rolls it back;
- the write lock is given to one connection, and only on the latest snapshot.

`Reopen` is a crash or a close followed by xConnect, at any moment.

**SqlTable** is what a user is promised: one committed table, snapshots, one
writer, savepoints that restore, commits that happen whole or not at all. It has
no index, generation, log or cache. **TurboVecRefinement** adds two history
variables, `shown` (what a search would return on each connection) and `stored`
(what can be read from the file), and maps them to the abstract table;
`MarkRecord.rows` is the same kind of history. They guard nothing.

**TurboVecReload** adds to `TurboVecTable` the instances a reload leaves behind.
ALTER TABLE on any table of the database clears SQLite's schema. If the
turbovec0 table was written in the transaction its instance stays enlisted, and
the next statement connects another (`SchemaChange`, `OpenStorage` on the
uncommitted tables); COMMIT calls xSync on each in order, on the tables as the
one before left them (`SyncEach`). After a rollback every instance is gone.

**TurboVecImage** looks inside what is one value elsewhere. `ChunkWriter` is a
buffer and a chunk number; the library calls it with pieces of any size
(`WriteCall`, `Fill`, `Flush`), and each full buffer goes to `WriteChunk`, which
skips an equal chunk, patches one of the same length and replaces any other.
`WriteFails` is an error anywhere, and SQLite restores the tables. The reader is
`validate_chunks`, then `ChunkReader` read in pieces of any size, then the
deltas, each a statement of its own: `held` says whether a transaction holds one
snapshot, and if not, `Look` sees what was committed in between. The library
knows where an image ends from its first bytes (`StartsWith`), as it does. A
copy then lives as in `refresh`: trusted, brought forward or dropped. Deltas
are numbers here, and a batch is replayed or not.

**TurboVecKnn** is one statement at a time: SQLite offers the terms that are
usable in a join order (`Offer`), `BestIndex` picks and numbers some, `Filter`
finds its arguments by position (`Place`), and the host applies what was left to
it (`ByHost`). `Answer` says what the statement asks for, without a plan.
LIMIT is offered only when the module can take every other term, as SQLite does
in the versions the extension supports.

**TurboVecCodec** and **TurboVecBlob** run over the logs of `TurboVecLog`. A
cell of a delta is a field: an operation, an id, a coordinate. The checksum is
taken to tell any two contents apart. `Damaged` loses, adds or changes a field,
with the checksum left as it was or computed anew.

### Abstractions

- The index is a map: quantisation, scoring, slot order and the bytes of an
  image are left out, and so are validation of vectors and geometry.
- A newly created table and one just opened have the same state up to what the
  first statement adopts, so `Init` opens it.
- A database starts from a compact table, or from a 0.2.0 table with or without
  one delta, as that release wrote it.
- DROP TABLE is not modelled, nor savepoints in a transaction that changes the
  schema; in `TurboVecReload` a connection is alone.
- An image has at most a handful of bytes, but chunk size, calls and reads are
  parameters; the proofs are for all of them.

## 3. Runs

| run | instance | asks |
|---|---|---|
| `transactions` | 1 connection, 2 marks, log of 3, one commit, start with 1 row | base too small for deltas, so the log drops vectors: exactness of the loaded index, nothing refused, `ImplementsSqlTable`, under every order of writes, savepoints, failed statements, searches, commits, failed commits and crashes |
| `deltas` | 1 connection, 2 marks, log of 2, two commits, start with 2 rows | base large enough for deltas: types, integrity, an unbroken chain in the file, in every view and behind every mark, the carried row count, budget and compaction, under the same events |
| `connections` | 2 connections, WAL, log of 1, generations to 4, both layouts | stale snapshots, warm copies, deltas, compaction, catch-up, upgrade, budget |
| `busy` | 2 connections, rollback journal, log of 2 | COMMIT refused after xSync, retried, extended or rolled back |
| `log` | logs of up to 4 changes from every index | closed forms against loops; the algebra; the codec with damage to any one field; the BLOB functions in three formats and two shapes |
| `image` | chunks of 2 bytes, five images of 2 to 5 bytes, calls of 0, 1 and 3 bytes, generations to 3 | what is stored, what the loader is given, which copies are trusted, and that a load ends |
| `knn` | rankings of up to 3 ids; k, LIMIT and OFFSET negative, zero, small and at the limit of a usize | the answer, and what is left to the host |
| `early_savepoints` | 1 connection, 2 marks open before the first write | finding 1 |
| `busy_rollback_to` | 2 connections, 1 mark | finding 2 |
| `busy_dirty` | 2 connections, 1 mark | finding 3 |
| `catch_up_first_delta` | 2 connections, WAL | finding 4 |
| `schema_reload` | 1 connection, log of 1, start with 0 or 2 rows | finding 5 |

**Why the bounds are enough.** Two ids and two vectors give conflicts,
replacements by the same and by another vector, and rows that are not touched.
A row is 4 bytes and `MinDeltaBase` is 8: an index of one row is below it, so
the log drops vectors and each commit compacts; an index of two is at it, so
commits write deltas, and deletes and inserts cross the line both ways within a
run. `OperationFloor` 3 and the byte budget are met by two or three changes, so
chains of deltas end in compactions. Three changes in a transaction are the
least in which an append, a replacement and a change after a checkpoint occur
on either side of a mark; two marks are the least with nesting. `MaxGeneration`
also stands for `i64::MAX`: the last commit is refused, as `sync` does.
Every bound is a constant: `MaxMarks`, `MaxChanges`, `MaxLog`, `MaxGeneration`,
and `EarlyMarks` (marks open when a transaction first writes).

`connections` and `busy` have no savepoints: they are explored one connection at
a time in `transactions` and `deltas`, where each combination of index, log, checkpoint and
marks occurs. The passing runs have `EarlyMarks` at most 1 and
`PartialAfterBusy` FALSE, because beyond those values the code has the faults
of section 4. `PartialAfterBusy` governs every rollback of part of a
transaction whose COMMIT was busy: ROLLBACK TO, and the rollback of a
statement that fails. The code can meet both, and goes back by the same
xRollbackTo; where the constant is FALSE, runs and theorems say nothing of
either. The whole transaction can still be rolled back, the COMMIT retried, and
more written before that. `log` stops
at its length bound, hence `CHECK_DEADLOCK FALSE` there and nowhere else.

In `image` the lengths are chosen against the chunk size: images that end with
a chunk, inside one and in a later one, equal in their first, middle or last
chunk, so that chunks are skipped, patched, replaced and cut. The call sizes
fill less than a chunk, exactly one and more than one. In `log` the ids and
coordinates have the values of operation codes, so that a decoder out of step
would go on.

**Fairness.** One assumption: `WF(Load)` in `image`. `read_index` is one
synchronous call, and its loop, driven by the library and by `ChunkReader`, is
the only one in the program that has an end to reach; nothing is assumed of the
other connections, which may commit between any two of its statements for as
long as they like. Elsewhere the extension has no
thread, queue, timer or retry of its own: each callback runs to its end, and
whether there is another call is the application's affair. "Eventually"
properties are replaced there by their state form: a commit or a rollback that
is asked for is not refused (`CommitNeverRefused`, `RollbackNeverRefused`).

Each property has a mutant in `PROJECT.json`: a plausible slip in the code (an
index that survives a rollback, a count that is not adopted, a chain replayed
over a gap) under which the run finds the property violated.

## 4. Findings

1. **Savepoints opened before the first write** (`early_savepoints`). SQLite
   tells the table of the innermost mark only. ROLLBACK TO an outer one ends
   in `unknown turbovec0 savepoint` after the shadow tables were restored; a
   COMMIT then writes an index with a row `_ids` does not have.
2. **ROLLBACK TO after a busy COMMIT keeps the generation** (`busy_rollback_to`).
   `restore_to` cuts the log and not `generation`, `row_count` and the sizes
   xSync advanced. The next delta is named one generation too far; its COMMIT
   succeeds, and every later load of the committed file is refused with
   `non-contiguous turbovec0 delta generations`.
3. **ROLLBACK TO after a busy COMMIT sets `dirty`** (`busy_dirty`) when the
   changes left were already written; the retried COMMIT is refused and rolled
   back. A statement that fails after the busy COMMIT, and is undone by its
   journal, does the same without any ROLLBACK TO. It never goes back across
   the busy COMMIT itself, so finding 2 needs the ROLLBACK TO.
4. **The first delta after a compaction is not caught up**
   (`catch_up_first_delta`): the guard is conservative, as a comment says, and
   DESIGN.md says a warm copy survives whenever only deltas have appeared.

5. **A schema change inside a write transaction loses rows** (`schema_reload`).
   A row is inserted, any table of the database is altered, another row is
   inserted. The second goes through a new instance whose log does not know the
   first. COMMIT syncs both; each writes generation g+1 from its own log, so
   the second compaction replaces the first. The commit succeeds, `_ids` has
   both rows and the index one. With a base large enough for deltas
   the second batch collides with the first at the same chunk id and
   the COMMIT is refused.

Three more observations, for which no property stands:

- `turbovec_info()` holds no snapshot. If another connection commits while it
  reads, it may report the older generation for newer content of the same
  length, although the comment on `check_chunk_len` expects a concurrent rewrite
  to be reported. No copy is kept, so nothing later goes wrong:
  `TrustedCopyIsStored`.
- In a join where the query is in scope and the `k` beside it is not yet,
  `best_index` fails with the message for a missing `k`, which ends the
  statement, although it declines the similar case of a query not yet in scope
  so that SQLite can try another order (comment at `src/chunked.rs:2403`).
- In a join where the rowid to filter by comes from a later table, the k nearest
  are taken before the filter; with the other order, after it. The answer
  depends on the plan; `AnswerIsAskedFor` promises nothing there.

## 5. Proofs

TLAPS checks these for every value of the constants that satisfies the named
assumptions: `NoneAssumption` (None is no vector and no index),
`SizeAssumption` (finitely many ids, sizes natural numbers), `MarkAssumption`,
`BatchAssumption` (None is no delta batch), `TransactionAssumption` (None is
no transaction, checkpoint or number), `TableAssumption`. The two theorems about
stored forms have their own: `CodecAssumption` (ids and the fields of a batch are
unsigned numbers, a coordinate being the number its bytes make; every vector of
the table has its dimensions) and `BlobAssumption` (None is no blob; a row for
`turbovec_build` can name the dimensions of its vector). TLC evaluates
them in every run.

- **`TypeCorrect`** (`TurboVecTableProofs`): `Spec => []TypeOK`. What the types
  say is not obvious in two places. Row counts and base lengths are
  naturals although computed by adding signed differences and decoding a signed
  field; generations stay within range although each commit adds one. And an
  aborted statement names mark `Len - 1`, which exists only because a
  statement journal is always one of the open marks: that conjunct of `TypeOK`
  makes it inductive. `TurboVecStorageProofs` has what each storage operator
  returns, `TurboVecTableProofs` one lemma per callback (given a state and a
  version of the tables, it returns a state, and tables where it writes) and
  one per action of `Next`.
- **`ChainAlways`** (`TurboVecTableProofs`): `Spec => []ChainUnbroken`, assuming
  `PartialAfterBusy = FALSE`: after a busy COMMIT neither ROLLBACK TO nor the
  rollback of a failed statement. The assumption is needed: without it finding 2
  is a counterexample. `ChainUnbroken` is about storage only and is not inductive,
  because xSync takes the number of the new delta from the State. The
  strengthening `GenerationsAgree` says that there is one writer; that a State
  enlisted in a transaction is at the generation its connection sees; that one
  not enlisted has no transaction, so that xBegin's refresh brings it there;
  and that until xSync has written, every mark is at the committed generation,
  so that going back to one keeps the agreement. A read keeps it
  (`ReadsKeep`), savepoints and rollbacks never touch the generation
  (`MarksKeep`, `RollbackKeeps`), a write leaves it (`InsertInStep`,
  `DeleteInStep`), and a commit moves State and storage one on together
  (`SyncInStep`), by a compaction that starts a new chain (`CompactionChain`), or
  by a delta that extends the old one (`DeltaChain`).
- **`BudgetAlways`** (`TurboVecTableProofs`): `Spec => DeltasStayInBudget`,
  assuming `PartialAfterBusy = FALSE` (finding 2 again) and `MinDeltaBase > 0`.
  xSync decides by the sizes its State remembers and never looks at storage, so
  the theorem is about every way a State comes to them. In `BudgetInv`, storage
  in the current layout records the sizes of its deltas and is in budget
  (`Balanced`), and storage in the old one is what the database started with,
  since nothing of this code writes it (`Accounted`). An enlisted State has the
  sizes of the tables its connection sees (`Sized`), a warm copy of an old table
  those of that first storage (`Remembers`). Until xSync has written, the
  writer's view and every mark are the committed file but for the rows
  (`OneFile`, `SameFile`), so a rollback that reloads finds the same sizes.
  `LoadSized`, `RefreshedSizes` and `RollbackSizes` are the ways in;
  `CompactionSizes` and `DeltaSizes` the two ways out.
- **`TransactionIndexAlways`, `GenerationIdentifiesAlways`, `RollbackAlways`,
  `GenerationAlwaysAdvances`** (`TurboVecExactProofs`), from one invariant,
  `ExactInv`, assuming `PartialAfterBusy = FALSE` (no ROLLBACK TO and no rollback
  of a failed statement after a busy COMMIT), `EarlyMarks <= 1` and
  `MinDeltaBase > 0`. Findings 2 and 3 (`busy_rollback_to`, `busy_dirty`) and 1
  (`early_savepoints`) are the counterexamples without the first two. None of
  the four is inductive, and they cannot be separated: a transaction starts from
  a copy, and a commit makes a copy of a transaction's index.
  - Of the writer (`Working`): the part of the log not yet written is
    `Truthful` about the rows storage holds, `_ids` has the ids that log leaves,
    and a loaded index is storage with that log on top (`Exact`; a vector that a
    checkpoint let the log forget may be any). Until xSync has written,
    `Recoverable` and `MarkFits` say that every mark can be gone back to: the
    log before the checkpoint appends only, after it every insert has its
    vector, and each mark's `_ids` are those of the log cut at its length.
    `RestoreWorks` and `RollbackToWorks` follow the three ways back.
  - Of storage (`Writes`): until xSync has written, the writer's view and marks
    differ from the committed tables in `_ids` at most; afterwards they
    `Extends` them.
  - Of a copy (`CopyOf`): its rows are what the tables held at its generation,
    whenever the tables still cover that generation (`Faithful`). `Extends` is
    transitive, and a compaction or a delta extends what it replaces, so a copy
    made under an old snapshot stays a faithful one. `CatchUpIsReload` does the
    rest.
  - `GenerationAdvances` follows from `SyncLeaves` (an xSync that writes nothing
    leaves storage alone, since then `_ids` are those of the index) and, for the
    0.2.0 layout, from `Accounted`.
- **`IntegrityAlways`, `CommittedIntegrityAlways`, `CommitAlways`,
  `PathsAgreeAlways`** (`TurboVecCountProofs`), from one invariant, `CountInv`,
  which is `ExactInv` with the counts, under the same assumptions. A count is
  computed in three ways: xSync adds and subtracts along the log, a load counts
  what it read, `_info` says what was recorded; each refuses to go on if another
  disagrees.
  - `TruthfulCount` is why they agree: along a truthful log the sum of the
    changes is the number of rows. It would be an induction over the log; the
    proof takes the greatest prefix for which it holds instead.
  - Of storage (`Counts`): each delta can be replayed where it stands, and
    `_info` has the number of rows. Of the writer (`CanEnd`): its count is that
    of the storage it sees (`Tallied`), and wherever no index, or none large
    enough, can stand in for the log, the log kept its vectors (`Retains`). The
    second is what a delta and a reload in mid-transaction rest on, and what
    `RollbackCount` has to find again each time an index is dropped.
  - `SyncCounts` then says that xSync does not refuse and leaves counted
    storage, by an upgrade, a compaction or a delta.
  - Of the others (`Behind`, `Snapshot`): a connection is never in a newer layout
    than the tables it sees, nor these than the committed ones, since
    xRollback goes back to the old layout whenever the upgrade was not
    committed (`Marked`). Without it a refresh would fail.
- **`ImplementsAlways`** (`TurboVecRefinementProofs`): `RecordedSpec =>
  ImplementsSqlTable`, under the assumptions of `ExactInv`. It is the statement
  a user of the table relies on, and the others are on the way to it.
  - A savepoint of `SqlTable` holds rows; one of turbovec0 holds a length of the
    log, and xRollbackTo finds the rows by undoing appends in the loaded index,
    from a checkpoint, or by dropping the index and replaying storage and log
    later. `BackAt` is the rows that going back to a length would show, by
    whichever of these `restore_to` would choose. That value must not move
    while the mark is open, although a load, a checkpoint and every write change
    what it is computed from: `SameBack`, `LogShows`, `InsertShows`,
    `DeleteShows`, `RestoreShows`, `RollbackShows`.
  - The invariant, `RefInv`, is `CountInv` with the history variables being what
    they record (`ShownNow`) and, for each connection, `MarksHold`: a mark's
    `rows` are `BackAt` its savepoint's length; before xBegin, the committed
    rows; after xSync has written, nothing is claimed, since no mark is gone
    back to then (`PartialAfterBusy = FALSE`).
  - `ReadsNow` says that the search `shown` records, which may refresh, catch up
    or load, returns the rows already there (`Now`); so a read is a stutter.
    `SyncShows` says that what xSync writes reads back as what the writer saw,
    whether by an upgrade, a compaction, a delta or nothing at all.
  - There is one lemma per group of actions (`SnapshotRefines` to
    `CommitRefines`); `StepRefines` puts them together. Steps on the concrete
    side that change nothing promised, such as a busy COMMIT, a conflict or the
    upgrade, are stutters; a failed COMMIT, a crash and ROLLBACK are `Abandon`.
- **`CatchUpIsReload`** (`TurboVecTableProofs`): a copy equal to the stored base
  with the deltas up to its generation becomes, by `catch_up`, what a reload
  would build. It rests on `ReplayDeltasCompose`: replaying up to g and from g
  on is replaying all, since the greatest generation that touches an id is
  found in the later part if that has one.
- **`ReplayComposesAlways`** (`TurboVecLogProofs`): `LogSpec => []ReplayComposes`.
  A log cut anywhere, its first part read back from storage (`Decoded`), replays
  as it does in one. The argument is `SplitLastTouch` (the last change to an id
  in the whole is the last in the second part, or else in the first) and
  `SplitReplayOK` (a row a delete needs is there, since before the cut the last
  change left a vector).
- **`UndoReturnsAlways`** (`TurboVecLogProofs`): `LogSpec => []UndoReturns`. In a
  truthful log, one that marks replacements as `insert()` does, a tail of
  appends touches each id once and none that was there (`AppendsAreNew`), so
  undoing in place never stops and gives the rows at the mark. The invariant
  `LogTypeOK` adds that a delete carries no vector, without which the
  row before an append could not be shown to be absent.
- **`ReplayIsTheLoopAlways`, `UndoIsTheLoopAlways`, `NetRowsCountsAlways`**
  (`TurboVecLogProofs`): `LogSpec => []...`. Every other module takes
  `apply_to_index`, `undo_insert_prefix` and `net_rows` as closed formulas over
  the last change to an id; these three say that the formulas are the loops of
  the code, for logs of every length.
  - `FoldLeft` is defined by a recursive function on the sets of positions of the
    log. `LoopFolds` shows that such a function exists (`IteratesExists`) and
    that any two end alike (`SameEnd`), so that `ReplayLoopIs`, `UndoLoopIs` and
    `NetRowsLoopIs` give each loop a value to reason about. The library's
    induction theorems cannot be instantiated here; `CountingUp` does without
    them, taking the greatest number reached.
  - Then the induction is along the behaviour: the log grows by one change in a
    step, which is one more turn of a loop that runs forward (`FoldedAppend`,
    `ReplayLoopMore`, `NetRowsLoopMore`) and changes the closed form alike
    (`ReplayMore`, `NetMore`).
  - The undo loop runs backward, so the new change comes first (`FoldedPrepend`)
    and leaves a shorter log to be undone from other rows. `UndoIsTheLoop` is
    therefore not inductive; `UndoneByTheLoop` states it for all rows at once.
- **`BlobMirrorsAlways`** (`TurboVecLogProofs`): `LogSpec => []BlobMirrorsTable`.
  - `AppliedAll`, `BuildFrom`, `EncodedChanges` and `DecodeLoop` are recursive
    functions of a position. `Passes` is the equation they have in common;
    `PassesExist` shows by `CountingUp` that it has a solution and `PassesAgree`
    that any two agree as far as they do the same, so that a log longer by one
    change is one more turn (`AppliedAllMore`, `EncodedMore`).
  - The invariant is `MirrorsAll`: for every header and shape, the blob is the
    one of the rows the log leaves, or there is none. It says more than
    `BlobMirrorsTable` does of an empty log, when nothing has read the header
    yet. `AppliedIs` is the step for one change, `MirrorsMore` for a log.
  - `BuildMirrors` is an induction over the rows of the aggregate: after each,
    both have the same blob as long as the shapes agree, and from the first that
    differs on the aggregate has none.
- **`CodecRoundTripAlways`** (`TurboVecLogProofs`): `LogSpec => []CodecRoundTrip`.
  - Forward (`ReadBack`): the fields of the first changes are where those of all
    begin (`CellsAlong`), so each turn of the decoder finds what the encoder
    wrote for that change (`WrittenWhere`, `ReadsWhatIsWritten`), and the number
    of operations in the header is within what the length allows.
  - `BudgetedLen`: a batch has the length `delta_encoded_len` computes, since each
    change adds two fields and an insert its coordinates (`EncodedLen`).
  - Backward (`OnlyEncodings`), for every list of fields, damaged or made up: a
    turn that refuses nothing has passed over exactly the fields of the change it
    returns (`DecodedTurn`). `Faithful` carries that along the loop; with the
    header and the check that nothing follows, the batch is the encoding of what
    was read.

- **`ImageTypeCorrect`, `StoredImageIsWhole`, `LoaderGetsOneImage`,
  `TrustedCopyIsTheIndex`** (`TurboVecImageProofs`), from one invariant,
  `ImageInv`. The file is `Whole`:
  its chunks are its image cut by `Split`, and its deltas run from
  `baseAt`, the generation of the compaction that wrote the base, to its own. Of
  the writer (`WriterOK`): the chunks before its own are those of the new image,
  and its buffer is the beginning of the next, so a chunk that is skipped is
  the right one (`WriteChunkIs`), a loop of fills ends in the same form
  (`Filling`), and cutting the tail leaves the image (`Compacting`). Of the
  reader (`Streaming`): what it handed over is the image up to its position, and
  a chunk seen later than the one before is of the same file version in
  length (`SeenChunk`, `Delivering`). `Before` is what makes
  `TrustedCopyIsStored` inductive: a snapshot no older than the stored base has
  that base. A load whose statements saw several commits ends with the
  generation of the first and the base of a later one; then `baseAt` is beyond
  its generation, and neither equality nor `catch_up` will ever trust it.
- **`NothingIsLeft`** (`TurboVecKnnProofs`): `KnnSpec => []NothingLeftToTheHost`,
  for every set of rankings, numbers and rowids. The strengthening
  `PlansAreAnswers` ties a plan to the statement and to an offer it was made
  for; the rest is which terms `Numbered` keeps.
- **`AnswersAlways`** (`TurboVecKnnProofs`): `KnnSpec => []AnswerIsAskedFor`, for
  rankings of any length, any k, LIMIT and OFFSET in `Int` and any `MaxUsize` that
  is at least the length of a ranking. Nothing is claimed for the join orders in
  which the rowid filter of a MATCH statement is not usable: the k nearest are
  then taken before the filter. `PlacesMatch` shows that xFilter finds each
  argument where xBestIndex put it, for every combination of flags;
  `CandidatesAre` what it asks the library for; `Window` that LIMIT and OFFSET
  look no further into a list than their sum, so that asking for fewer rows loses
  none of those the host keeps. `Those`, the rows on a list of ids, is a
  recursive function; that it exists and what it returns (`SiftsExists`,
  `ThoseAll`, `ThoseOfThose`) is shown with `CountingUp`, an induction by the least
  counterexample. `RowsInOrder` adds the cursor: it holds what the last call
  found, and the statement has had the rows up to its position.

**Only model-checked.** `ReadEnds`, since liveness under fairness is
beyond the prover. Every other property of a passing run
has its theorem; what one supposes beyond the named assumptions is said with it.

**Not modelled.** Registration, the version check and the calls into the host's
API table have no behaviour of their own to state. DROP TABLE leaves no state.
Validation of vectors and geometry, wording of messages, the planner's costs and
row estimates, quantisation and scores decide nothing the properties speak of.
`turbovec_f32`, `turbovec_len` and their like return a field of their argument.
ROLLBACK TO after a busy COMMIT that upgraded a 0.2.0 table is covered by the
definitions (`busy_dirty` with `InitialLayouts = {"legacy"}` ends there); it has
no run of its own because the cause is that of findings 2 and 3.

## 6. What could come next

1. `TurboVecReload` with savepoints, whose callbacks reach every instance, and
   with several connections.
