--------------------------- MODULE TurboVecState ---------------------------
(***************************************************************************)
(* The in-memory half of a turbovec0 table: the State behind the mutex of  *)
(* one connection's instance, and every callback that reads or writes it.  *)
(* A callback is an operator on the state st and the storage s the         *)
(* connection sees at that moment; it returns the new state, and a record  *)
(* [ok, st] or [ok, st, s] when it can fail or write.  A callback runs     *)
(* under the mutex from start to end, so each one is atomic.               *)
(***************************************************************************)
EXTENDS TurboVecStorage

CONSTANT Mark             \* the savepoint numbers SQLite hands out
ASSUME MarkAssumption == Mark \subseteq Nat

Checkpoint == [position : Nat, payload : Rows]

Txn == [startGeneration : Generation, startBaseBytes : Nat,
        startDeltaBytes : Int, startDeltaOps : Int, startRowCount : Nat,
        changes : Seq(Change), checkpoint : Checkpoint \cup {None},
        savepoints : [Mark -> Nat \cup {None}], synced : Nat,
        upgraded : BOOLEAN]

(* A transaction or a checkpoint that is there is told from one that is not. *)
ASSUME TransactionAssumption ==
  None \notin Txn /\ None \notin Checkpoint /\ None \notin Nat

State == [layout : {"legacy", "current"}, generation : Generation,
          index : Rows \cup {None}, txn : Txn \cup {None}, dirty : BOOLEAN,
          baseBytes : Nat, deltaBytes : Int, deltaOps : Int, rowCount : Nat]

(* TransactionState::start.  `savepoints` is the list of (number, change   *)
(* index) pairs; its numbers are distinct, so it is a function here.       *)
NoSavepoints == [m \in Mark |-> None]
StartTxn(st) ==
  [startGeneration |-> st.generation, startBaseBytes |-> st.baseBytes,
   startDeltaBytes |-> st.deltaBytes, startDeltaOps |-> st.deltaOps,
   startRowCount |-> st.rowCount, changes |-> <<>>, checkpoint |-> None,
   savepoints |-> NoSavepoints, synced |-> 0, upgraded |-> FALSE]
EnsureTxn(st) == IF st.txn = None THEN [st EXCEPT !.txn = StartTxn(st)] ELSE st

Changes(st) == IF st.txn = None THEN <<>> ELSE st.txn.changes
(* Mutant: what xSync has written is taken for unwritten. *)
WholeLog(st) == Changes(st)
Unsynced(st) ==
  IF st.txn = None THEN <<>>
  ELSE SubSeq(st.txn.changes, st.txn.synced + 1, Len(st.txn.changes))

Result(ok, st) == [ok |-> ok, st |-> st]
Written(ok, st, s) == [ok |-> ok, st |-> st, s |-> s]
-----------------------------------------------------------------------------
(* ensure_loaded.  Success is an index; every error leaves none.           *)

Loadable(st, s) ==
  /\ Readable(s)
  /\ st.layout = s.layout
  /\ (st.txn = None /\ st.layout = "legacy") \/ s.generation = st.generation
  /\ st.layout = "current" => Cardinality(Keys(Content(s))) = st.rowCount

(* content is what read_index returned.                                    *)
Loaded(st, s, content) ==
  [st EXCEPT
     !.generation = s.generation,
     !.rowCount = Cardinality(Keys(content)),
     !.baseBytes = BaseBytes(s),
     !.deltaBytes = BytesUpTo(s, s.generation),
     !.deltaOps = OpsUpTo(s, s.generation),
     !.index = IF ReplayOK(content, Unsynced(st))
               THEN Replay(content, Unsynced(st)) ELSE None]

EnsureLoaded(st, s) ==
  IF st.index = None /\ Loadable(st, s) THEN Loaded(st, s, Content(s)) ELSE st

LoadResult(loaded) == Result(loaded.index # None, loaded)
-----------------------------------------------------------------------------
(* catch_up: bring a loaded index forward by the deltas newer than it.     *)
(* Only when the oldest surviving delta is no newer than the index itself  *)
(* is the base known to be the one the index was loaded from.              *)

(* Mutant: deltas are replayed without looking for a gap. *)
AnyDeltaCatchesUp(st, s) ==
  s.generation > st.generation /\ Stored(s) # {}

CatchesUp(st, s) ==
  LET newer == DeltasAfter(s, st.generation)
  IN  /\ s.generation > st.generation
      /\ \E d \in Stored(s) : d <= st.generation
      /\ newer = st.generation + 1 .. s.generation

(* Mutant: the new generation is adopted and the deltas are not. *)
CaughtUpOnPaper(st, s) == [st EXCEPT !.generation = s.generation]

CaughtUp(st, s) ==
  [st EXCEPT
     !.index = ReplayDeltas(st.index, s, st.generation, s.generation),
     !.generation = s.generation,
     !.deltaBytes = @ + (BytesUpTo(s, s.generation) - BytesUpTo(s, st.generation)),
     !.deltaOps = @ + (OpsUpTo(s, s.generation) - OpsUpTo(s, st.generation))]

(* refresh, outside a transaction.  A copy that cannot be brought forward  *)
(* is dropped.  A delta that does not replay is an error, and so is a      *)
(* connection in the current layout that finds no _info.                   *)
Dropped(st) == [st EXCEPT !.index = None]
(* Mutant: the row count of the last visit is kept. *)
AdoptKeepingCount(st, s) ==
  [st EXCEPT !.generation = s.generation, !.baseBytes = BaseBytes(s),
             !.deltaBytes = s.deltaBytes, !.deltaOps = s.deltaOps]
Adopt(st, s) ==
  [st EXCEPT !.generation = s.generation, !.baseBytes = BaseBytes(s),
             !.deltaBytes = s.deltaBytes, !.deltaOps = s.deltaOps,
             !.rowCount = s.rowCount]

Recounted(st) == [st EXCEPT !.rowCount = Cardinality(Keys(st.index))]

RefreshLegacy(st, s) ==
  IF st.index # None /\ s.generation = st.generation THEN Result(TRUE, st)
  ELSE IF st.index # None /\ CatchesUp(st, s)
  THEN IF DeltasReplayOK(st.index, s, st.generation)
       THEN Result(TRUE, Recounted(CaughtUp(st, s)))
       ELSE Result(FALSE, Dropped(st))
  ELSE LoadResult(EnsureLoaded(Dropped(st), s))

RefreshCurrent(st, s) ==
  IF st.index = None \/ s.generation = st.generation
  THEN Result(TRUE, Adopt(st, s))
  ELSE IF ~CatchesUp(st, s) THEN Result(TRUE, Adopt(Dropped(st), s))
  ELSE IF DeltasReplayOK(st.index, s, st.generation)
       THEN Result(TRUE, Adopt(CaughtUp(st, s), s))
       ELSE Result(FALSE, Dropped(st))

Refresh(st, s) ==
  IF st.txn # None THEN Result(TRUE, st)
  ELSE IF st.layout = "legacy"
  THEN IF s.layout = "legacy" THEN RefreshLegacy(st, s)
       ELSE RefreshCurrent([Dropped(st) EXCEPT !.layout = "current"], s)
  ELSE IF s.layout = "legacy" THEN Result(FALSE, st)
  ELSE RefreshCurrent(st, s)
-----------------------------------------------------------------------------
(* xConnect: open_storage.  A legacy table is loaded at once.              *)

Unread(s) ==
  [layout |-> s.layout, generation |-> 0, index |-> None, txn |-> None,
   dirty |-> FALSE, baseBytes |-> 0, deltaBytes |-> 0, deltaOps |-> 0,
   rowCount |-> 0]
OpenStorage(s) ==
  IF s.layout = "current" THEN Adopt(Unread(s), s) ELSE EnsureLoaded(Unread(s), s)

(* What a KNN search and a full scan do to the state, and the rows they    *)
(* see.  A scan of the current layout needs no index: it reads _ids.       *)
SearchedAfter(fresh, s) ==
  IF fresh.ok THEN LoadResult(EnsureLoaded(fresh.st, s)) ELSE fresh
Searched(st, s) == SearchedAfter(Refresh(st, s), s)

(* The rows a search would see, None if it would fail. *)
FoundRows(searched) == IF searched.ok THEN searched.st.index ELSE None
SeenRows(st, s) == FoundRows(Searched(st, s))

ScannedAfter(fresh, s) ==
  IF fresh.ok /\ fresh.st.layout = "legacy"
  THEN EnsureLoaded(fresh.st, s) ELSE fresh.st
Scanned(st, s) == ScannedAfter(Refresh(st, s), s)

FoundKeys(scanned, s) ==
  IF scanned.index # None THEN Keys(scanned.index) ELSE s.ids
ScanKeys(st, s) == FoundKeys(Scanned(st, s), s)

(* prepare_write, after the refresh every write starts with. *)
PreparedAfter(fresh, s) ==
  IF fresh.ok /\ (fresh.st.layout = "legacy" \/ fresh.st.baseBytes < MinDeltaBase)
  THEN LoadResult(EnsureLoaded(fresh.st, s)) ELSE fresh
Prepare(st, s) == PreparedAfter(Refresh(st, s), s)
-----------------------------------------------------------------------------
(* xUpdate. *)

(* ensure_destructive_checkpoint: only when inserts kept no vector, so     *)
(* that the operations before the first destructive one cannot be replayed.*)
(* Mutant: no image is kept before a destructive change. *)
NoCheckpoint(st) == EnsureTxn(st)
EnsureCheckpoint(st) ==
  LET open == EnsureTxn(st)
      cs == open.txn.changes
  IN  IF /\ open.txn.checkpoint = None
         /\ \E i \in Inserts(cs) : cs[i].vector = None
         /\ open.index # None
      THEN [open EXCEPT !.txn.checkpoint =
              [position |-> Len(cs), payload |-> open.index]]
      ELSE open

Logged(st, change) ==
  LET open == EnsureTxn(st)
  IN  [open EXCEPT !.txn.changes = Append(@, change), !.dirty = TRUE]

Destructive(change) == change.op = "delete" \/ change.replaces

(* Whether the log must keep an inserted vector. *)
(* Mutant: an insert after a destructive change keeps no vector. *)
RetainsIfExists(st, exists) ==
  st.index = None \/ st.baseBytes >= MinDeltaBase \/ exists
RetainsVector(st, exists) ==
  \/ st.index = None
  \/ st.baseBytes >= MinDeltaBase
  \/ exists
  \/ /\ st.txn # None
     /\ \/ st.txn.checkpoint # None
        \/ \E i \in DOMAIN st.txn.changes : Destructive(st.txn.changes[i])

(* Whether the row is there: _ids says so, or the index before it existed. *)
Exists(st, s, id) ==
  IF st.layout = "current" THEN id \in s.ids
                           ELSE st.index # None /\ st.index[id] # None
(* _ids and a loaded index say different things: the write is refused.     *)
Disagree(st, s, id) ==
  /\ st.layout = "current" /\ st.index # None
  /\ (st.index[id] # None) # (id \in s.ids)
SetId(st, id, value) ==
  IF st.index = None THEN st ELSE [st EXCEPT !.index[id] = value]

(* insert: the row is claimed in _ids before a conflict is reported.  A    *)
(* state whose layout is not the stored one fails at its first statement   *)
(* on a shadow table that is not there.                                    *)
Claimed(st, s, id) ==
  IF st.layout = "current" THEN [s EXCEPT !.ids = @ \cup {id}] ELSE s
Inserted(open, id, vector, exists) ==
  Logged(SetId(open, id, vector),
         InsertOf(id, IF RetainsVector(open, exists) THEN vector ELSE None, exists))

InsertPrepared(st, s, id, vector, replace) ==
  IF st.layout # s.layout THEN Written(FALSE, st, s)
  ELSE IF Disagree(st, s, id) \/ (Exists(st, s, id) /\ ~replace)
  THEN Written(FALSE, st, Claimed(st, s, id))
  ELSE Written(TRUE,
         Inserted(IF st.index # None /\ Exists(st, s, id)
                  THEN EnsureCheckpoint(st) ELSE EnsureTxn(st),
                  id, vector, Exists(st, s, id)),
         Claimed(st, s, id))
InsertAfter(ready, s, id, vector, replace) ==
  IF ready.ok THEN InsertPrepared(ready.st, s, id, vector, replace)
              ELSE Written(FALSE, ready.st, s)
Insert(st, s, id, vector, replace) ==
  InsertAfter(Prepare(st, s), s, id, vector, replace)

(* delete: an unknown rowid is an error, after _ids was asked to drop it.  *)
Unclaimed(st, s, id) ==
  IF st.layout = "current" THEN [s EXCEPT !.ids = @ \ {id}] ELSE s

DeletePrepared(st, s, id) ==
  IF st.layout # s.layout THEN Written(FALSE, st, s)
  ELSE IF Disagree(st, s, id) \/ ~Exists(st, s, id)
  THEN Written(FALSE, st, Unclaimed(st, s, id))
  ELSE Written(TRUE,
         Logged(IF st.index = None THEN st ELSE SetId(EnsureCheckpoint(st), id, None),
                DeleteOf(id)),
         Unclaimed(st, s, id))
DeleteAfter(ready, s, id) ==
  IF ready.ok THEN DeletePrepared(ready.st, s, id) ELSE Written(FALSE, ready.st, s)
Delete(st, s, id) == DeleteAfter(Prepare(st, s), s, id)
-----------------------------------------------------------------------------
(* xBegin, xSavepoint, xRelease, xRollbackTo. *)

BegunAfter(fresh) == IF fresh.ok THEN Result(TRUE, EnsureTxn(fresh.st)) ELSE fresh
Begin(st, s) == BegunAfter(Refresh(st, s))

Forget(savepoints, keep) == [m \in Mark |-> IF m \in keep THEN savepoints[m] ELSE None]
Below(j) == {m \in Mark : m < j}

Savepoint(st, j) ==
  LET open == EnsureTxn(st)
  IN  [open EXCEPT !.txn.savepoints =
         [Forget(@, Below(j)) EXCEPT ![j] = Len(open.txn.changes)]]

(* An error of xRelease changes nothing. *)
Release(st, j) ==
  IF st.txn = None THEN st
  ELSE [st EXCEPT !.txn.savepoints = Forget(@, Below(j))]

(* restore_to: from the checkpoint, by undoing appends, or by dropping the *)
(* index.  The transaction is taken out of the state and lost when an undo *)
(* or a replay fails.                                                      *)
(* Mutant: the log keeps what was rolled back. *)
Untruncated(st, n, index, checkpoint) ==
  Result(TRUE, [st EXCEPT !.index = index, !.txn.checkpoint = checkpoint])
Truncated(st, n, index, checkpoint) ==
  Result(TRUE, [st EXCEPT
    !.index = index,
    !.txn = [st.txn EXCEPT !.changes = SubSeq(@, 1, n), !.checkpoint = checkpoint,
                           !.synced = IF @ < n THEN @ ELSE n],
    !.dirty = n > 0])

RestoreFromCheckpoint(st, n) ==
  LET cp == st.txn.checkpoint
      cs == st.txn.changes
      undo == SubSeq(cs, n + 1, cp.position)
      redo == SubSeq(cs, cp.position + 1, n)
      lost == Result(FALSE, [st EXCEPT !.txn = None])
  IN  IF n < cp.position
      THEN IF UndoFaults(cp.payload, undo) # {} THEN lost
           ELSE Truncated(st, n, UndoInserts(cp.payload, undo), None)
      ELSE IF ~ReplayOK(cp.payload, redo) THEN lost
           ELSE Truncated(st, n, Replay(cp.payload, redo), cp)

(* Mutant: the index survives a rollback it cannot undo. *)
RestoreTailInPlace(st, n) == Truncated(st, n, st.index, None)
RestoreTail(st, n) ==
  LET tail == SubSeq(st.txn.changes, n + 1, Len(st.txn.changes))
  IN  IF st.index # None /\ AppendOnly(tail)
      THEN LET index == UndoInserts(st.index, tail)
           IN  IF UndoFaults(st.index, tail) = {} THEN Truncated(st, n, index, None)
               ELSE Result(FALSE, [st EXCEPT !.index = index, !.txn = None])
      ELSE IF tail = <<>> THEN Truncated(st, n, st.index, None)
      ELSE IF st.txn.synced # 0 THEN Result(FALSE, st)
      ELSE Truncated(st, n, None, None)

RestoreTo(st, n) ==
  IF st.txn = None \/ n > Len(Changes(st)) THEN Result(FALSE, st)
  ELSE IF st.txn.checkpoint # None THEN RestoreFromCheckpoint(st, n)
  ELSE RestoreTail(st, n)

Reset(restored, keep) ==
  IF restored.ok
  THEN Result(TRUE, [restored.st EXCEPT !.txn.savepoints = Forget(@, keep)])
  ELSE restored

RollbackTo(st, j) ==
  IF st.txn = None \/ st.txn.savepoints[j] = None THEN Result(FALSE, st)
  ELSE Reset(RestoreTo(st, st.txn.savepoints[j]), Below(j + 1))

(* The same callback with -1: back to the beginning of the transaction.    *)
RollbackToStart(st) == Reset(RestoreTo(st, 0), {})
-----------------------------------------------------------------------------
(* xSync: write the unsynced changes as a delta or, when the base is small *)
(* or the deltas have reached their budget, as a new base.                 *)

UpgradeLoaded(loaded, s) ==
  IF loaded.index = None \/ loaded.layout # s.layout THEN Written(FALSE, loaded, s)
  ELSE Written(TRUE,
         [loaded EXCEPT !.layout = "current", !.txn.upgraded = TRUE],
         Upgraded(s, loaded.generation, loaded.index, loaded.rowCount,
                  loaded.deltaBytes, loaded.deltaOps))
Upgrade(st, s) == UpgradeLoaded(EnsureLoaded(st, s), s)

(* Mutant: the written changes are not marked as written. *)
SyncedUnmarked(st, generation, rowCount) ==
  [st EXCEPT !.generation = generation, !.rowCount = rowCount, !.dirty = FALSE]
Synced(st, generation, rowCount) ==
  [st EXCEPT !.txn.synced = Len(st.txn.changes), !.generation = generation,
             !.rowCount = rowCount, !.dirty = FALSE]

Compact(loaded, s, generation, rowCount) ==
  IF loaded.index = None THEN Written(FALSE, loaded, s)
  ELSE Written(TRUE,
         Synced([loaded EXCEPT !.baseBytes = ImageLen(loaded.index),
                               !.deltaBytes = 0, !.deltaOps = 0],
                generation, rowCount),
         RecordCompaction(WriteIndex(s, loaded.index), generation,
                          ImageLen(loaded.index), rowCount))
SyncCompaction(st, s, rowCount) ==
  Compact(EnsureLoaded(st, s), s, st.generation + 1, rowCount)

SyncDelta(st, s, rowCount, deltaBytes, deltaOps) ==
  LET generation == st.generation + 1
  IN  IF ~Encodable(Unsynced(st)) \/ generation \in Stored(s)
      THEN Written(FALSE, st, s)
      ELSE Written(TRUE,
             Synced([st EXCEPT !.deltaBytes = deltaBytes, !.deltaOps = deltaOps],
                    generation, rowCount),
             RecordDelta(WriteDelta(s, generation, Unsynced(st)), generation,
                         rowCount, deltaBytes, deltaOps))

SyncPending(st, s) ==
  LET pending == Unsynced(st)
      rowCount == st.rowCount + NetRows(pending)
      deltaBytes == st.deltaBytes + DeltaLen(pending)
      deltaOps == st.deltaOps + Len(pending)
  IN  IF \/ st.layout # s.layout
         \/ rowCount < 0
         \/ st.index # None /\ Cardinality(Keys(st.index)) # rowCount
      THEN Written(FALSE, st, s)
      ELSE IF MustCompact(st.baseBytes, deltaBytes, deltaOps, rowCount)
      THEN SyncCompaction(st, s, rowCount)
      ELSE SyncDelta(st, s, rowCount, deltaBytes, deltaOps)

SyncUpgraded(up) == IF up.ok THEN SyncPending(up.st, up.s) ELSE up

Sync(st, s) ==
  IF ~st.dirty THEN Written(TRUE, st, s)
  ELSE IF st.generation = MaxGeneration \/ Unsynced(st) = <<>>
  THEN Written(FALSE, st, s)
  ELSE IF st.layout = "legacy"
  THEN SyncUpgraded(Upgrade(st, s))
  ELSE SyncPending(st, s)

(* xCommit and xRollback. *)
Committed(st) ==
  IF st.dirty THEN st ELSE [st EXCEPT !.txn = None]

(* Mutant: the index of the transaction outlives its rollback. *)
RolledBackWarm(st) ==
  IF st.txn = None THEN [st EXCEPT !.dirty = FALSE]
  ELSE [st EXCEPT
          !.dirty = FALSE, !.txn = None,
          !.generation = st.txn.startGeneration,
          !.rowCount = st.txn.startRowCount,
          !.layout = IF st.txn.upgraded THEN "legacy" ELSE @]
(* Mutant: the upgrade of a rolled back commit is remembered. *)
RolledBackUpgraded(st) ==
  IF st.txn = None THEN [st EXCEPT !.dirty = FALSE]
  ELSE [st EXCEPT
          !.dirty = FALSE, !.txn = None, !.index = None,
          !.generation = st.txn.startGeneration,
          !.rowCount = st.txn.startRowCount]
RolledBack(st) ==
  IF st.txn = None THEN [st EXCEPT !.dirty = FALSE]
  ELSE [st EXCEPT
          !.dirty = FALSE, !.txn = None, !.index = None,
          !.generation = st.txn.startGeneration,
          !.baseBytes = st.txn.startBaseBytes,
          !.deltaBytes = st.txn.startDeltaBytes,
          !.deltaOps = st.txn.startDeltaOps,
          !.rowCount = st.txn.startRowCount,
          !.layout = IF st.txn.upgraded THEN "legacy" ELSE @]
=============================================================================
