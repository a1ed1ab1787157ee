------------------------ MODULE TurboVecTableProofs ------------------------
(***************************************************************************)
(* Type correctness of turbovec0, for every number of connections, every   *)
(* set of ids and vectors, every size and budget, and both journal modes.  *)
(* It is what the code relies on without a check: row counts and lengths   *)
(* stay natural numbers, generations in range, the log and the checkpoint  *)
(* well formed, and every savepoint callback names a savepoint.            *)
(* It rests on what each callback of TurboVecState returns, given a State  *)
(* and the shadow tables it looks at: a State, and storage where it writes.*)
(* Then, from a State that stays at the generation of the storage it       *)
(* writes to, that every version of the tables has an unbroken chain; and  *)
(* from one that knows its sizes, that every commit keeps the budget.      *)
(***************************************************************************)
EXTENDS TurboVecTable, TurboVecStorageProofs

(* A callback's result when it reads, and when it writes.                  *)
ReadResult == [ok : BOOLEAN, st : State]
WriteResult == [ok : BOOLEAN, st : State, s : Storage]

LEMMA Results ==
  ASSUME NEW ok \in BOOLEAN, NEW st \in State, NEW s \in Storage
  PROVE  Result(ok, st) \in ReadResult /\ Written(ok, st, s) \in WriteResult
PROOF
  BY DEF Result, Written, ReadResult, WriteResult
-----------------------------------------------------------------------------
(* The log. *)

LEMMA SubLog ==
  ASSUME NEW cs \in Seq(Change), NEW m \in Nat, NEW n \in Nat, n <= Len(cs)
  PROVE  SubSeq(cs, m + 1, n) \in Seq(Change)
PROOF
  <1>1. \A i \in m + 1 .. n : cs[i] \in Change
    OBVIOUS
  <1>2. m + 1 \in Int /\ n \in Int
    OBVIOUS
  <1> QED
    BY <1>1, <1>2, SubSeqProperties

LEMMA LogType ==
  ASSUME NEW st \in State
  PROVE  /\ Changes(st) \in Seq(Change)
         /\ Unsynced(st) \in Seq(Change)
PROOF
  <1>1. CASE st.txn = None
    BY <1>1 DEF Changes, Unsynced
  <1>2. CASE st.txn # None
    <2>1. st.txn \in Txn
      BY <1>2 DEF State
    <2>2. st.txn.changes \in Seq(Change) /\ st.txn.synced \in Nat
      BY <2>1 DEF Txn
    <2>3. Len(st.txn.changes) \in Nat
      BY <2>2
    <2> QED
      BY <1>2, <2>2, <2>3, SubLog DEF Changes, Unsynced
  <1> QED
    BY <1>1, <1>2
-----------------------------------------------------------------------------
(* Loading and refreshing. *)

LEMMA EnsureLoadedType ==
  ASSUME NEW st \in State, NEW s \in Storage
  PROVE  /\ EnsureLoaded(st, s) \in State
         /\ EnsureLoaded(st, s).layout = st.layout
         /\ EnsureLoaded(st, s).txn = st.txn
         /\ st.txn # None => EnsureLoaded(st, s).generation = st.generation
PROOF
  <1>1. CASE st.index = None /\ Loadable(st, s)
    <2> DEFINE rows == Content(s)
               log == Unsynced(st)
               index == IF ReplayOK(rows, log) THEN Replay(rows, log) ELSE None
    <2>1. rows \in Rows /\ log \in Seq(Change)
      BY ContentType, LogType
    <2>2. Replay(rows, log) \in Rows
      <3> HIDE DEF rows, log
      <3> QED BY <2>1, ReplayType
    <2>3. index \in Rows \cup {None}
      BY <2>2
    <2>4. Cardinality(Keys(rows)) \in Nat
      BY CountOfKeys
    <2>5. BaseBytes(s) \in Nat
      BY BaseBytesType
    <2>6. BytesUpTo(s, s.generation) \in Int /\ OpsUpTo(s, s.generation) \in Int
      BY UpToType
    <2>7. s.generation \in Generation
      BY DEF Storage
    <2>8. EnsureLoaded(st, s) =
            [st EXCEPT !.generation = s.generation,
                       !.rowCount = Cardinality(Keys(rows)),
                       !.baseBytes = BaseBytes(s),
                       !.deltaBytes = BytesUpTo(s, s.generation),
                       !.deltaOps = OpsUpTo(s, s.generation),
                       !.index = index]
      BY <1>1 DEF EnsureLoaded, Loaded
    <2> HIDE DEF rows, log, index
    <2>9. st.txn # None => s.generation = st.generation
      BY <1>1 DEF Loadable
    <2> DEFINE new == EnsureLoaded(st, s)
    <2>10. new \in State
      BY <2>3, <2>4, <2>5, <2>6, <2>7, <2>8 DEF State
    <2>11. new.layout = st.layout /\ new.txn = st.txn /\ new.generation = s.generation
      BY <2>8 DEF State
    <2> QED
      BY <2>9, <2>10, <2>11
  <1>2. CASE ~(st.index = None /\ Loadable(st, s))
    BY <1>2 DEF EnsureLoaded
  <1> QED
    BY <1>1, <1>2

LEMMA DroppedType ==
  ASSUME NEW st \in State
  PROVE  Dropped(st) \in State
PROOF
  BY DEF Dropped, State

LEMMA CaughtUpType ==
  ASSUME NEW st \in State, NEW s \in Storage, st.index # None
  PROVE  CaughtUp(st, s) \in State
PROOF
  <1> DEFINE index == ReplayDeltas(st.index, s, st.generation, s.generation)
             bytes == st.deltaBytes + (BytesUpTo(s, s.generation) - BytesUpTo(s, st.generation))
             ops == st.deltaOps + (OpsUpTo(s, s.generation) - OpsUpTo(s, st.generation))
  <1>1. index \in Rows
    BY ReplayDeltasType DEF State
  <1>2. bytes \in Int /\ ops \in Int
    BY UpToType DEF State
  <1>3. s.generation \in Generation
    BY DEF Storage
  <1>4. CaughtUp(st, s) =
          [st EXCEPT !.index = index, !.generation = s.generation,
                     !.deltaBytes = bytes, !.deltaOps = ops]
    BY DEF CaughtUp
  <1> HIDE DEF index, bytes, ops
  <1> QED
    BY <1>1, <1>2, <1>3, <1>4 DEF State

(* catch_up against a reload: a copy that holds the storage's base with the *)
(* deltas up to its own generation becomes, after catch_up, exactly what a *)
(* reload of the storage would build, whatever the deltas are.             *)
THEOREM CatchUpIsReload ==
  ASSUME NEW st \in State, NEW s \in Storage, st.generation <= s.generation,
         st.index = ReplayDeltas(s.base, s, -1, st.generation)
  PROVE  CaughtUp(st, s).index = Content(s)
PROOF
  <1>1. s.base \in Rows
    BY DEF Storage
  <1>2. -1 \in Int /\ st.generation \in Int /\ s.generation \in Int /\ -1 <= st.generation
    BY DEF State, Storage, Generation
  <1>3. CaughtUp(st, s).index = ReplayDeltas(st.index, s, st.generation, s.generation)
    BY DEF CaughtUp, State
  <1> QED
    BY <1>1, <1>2, <1>3, ReplayDeltasCompose DEF Content

LEMMA AdoptType ==
  ASSUME NEW st \in State, NEW s \in Storage
  PROVE  Adopt(st, s) \in State
PROOF
  BY BaseBytesType DEF Adopt, State, Storage

LEMMA RefreshLegacyType ==
  ASSUME NEW st \in State, NEW s \in Storage
  PROVE  RefreshLegacy(st, s) \in ReadResult
PROOF
  <1> DEFINE up == CaughtUp(st, s)
             counted == [up EXCEPT !.rowCount = Cardinality(Keys(up.index))]
             loaded == EnsureLoaded(Dropped(st), s)
  <1>1. st.index # None => counted \in State
    <2>1. SUFFICES ASSUME st.index # None PROVE counted \in State
      OBVIOUS
    <2>2. up \in State
      BY <2>1, CaughtUpType
    <2>3. Cardinality(Keys(up.index)) \in Nat
      BY CountOfKeys
    <2> HIDE DEF up
    <2> QED BY <2>2, <2>3 DEF State
  <1>2. Dropped(st) \in State /\ loaded \in State
    BY DroppedType, EnsureLoadedType
  <1>3. \/ RefreshLegacy(st, s) = Result(TRUE, st)
        \/ st.index # None /\ RefreshLegacy(st, s) = Result(TRUE, counted)
        \/ RefreshLegacy(st, s) = Result(FALSE, Dropped(st))
        \/ RefreshLegacy(st, s) = Result(loaded.index # None, loaded)
    BY DEF RefreshLegacy, Recounted, LoadResult
  <1> HIDE DEF counted, loaded, up
  <1>4. \A ok \in BOOLEAN, x \in State : Result(ok, x) \in ReadResult
    BY DEF Result, ReadResult
  <1>5. (loaded.index # None) \in BOOLEAN
    OBVIOUS
  <1>6. Result(loaded.index # None, loaded) \in ReadResult
    BY <1>2, <1>4, <1>5
  <1> QED
    BY <1>1, <1>2, <1>3, <1>4, <1>6

LEMMA RefreshCurrentType ==
  ASSUME NEW st \in State, NEW s \in Storage
  PROVE  RefreshCurrent(st, s) \in ReadResult
PROOF
  <1>1. Dropped(st) \in State
    BY DroppedType
  <1>2. Adopt(st, s) \in State /\ Adopt(Dropped(st), s) \in State
    BY <1>1, AdoptType
  <1>3. st.index # None => Adopt(CaughtUp(st, s), s) \in State
    BY CaughtUpType, AdoptType
  <1> QED
    BY <1>1, <1>2, <1>3 DEF RefreshCurrent, Result, ReadResult

LEMMA RefreshType ==
  ASSUME NEW st \in State, NEW s \in Storage
  PROVE  Refresh(st, s) \in ReadResult
PROOF
  <1> DEFINE moved == [Dropped(st) EXCEPT !.layout = "current"]
  <1>1. moved \in State
    BY DroppedType DEF State
  <1>2. \/ Refresh(st, s) = Result(TRUE, st)
        \/ Refresh(st, s) = RefreshLegacy(st, s)
        \/ Refresh(st, s) = RefreshCurrent(moved, s)
        \/ Refresh(st, s) = Result(FALSE, st)
        \/ Refresh(st, s) = RefreshCurrent(st, s)
    BY DEF Refresh
  <1> HIDE DEF moved
  <1>3. /\ RefreshLegacy(st, s) \in ReadResult
        /\ RefreshCurrent(st, s) \in ReadResult
        /\ RefreshCurrent(moved, s) \in ReadResult
    BY <1>1, RefreshLegacyType, RefreshCurrentType
  <1>4. Result(TRUE, st) \in ReadResult /\ Result(FALSE, st) \in ReadResult
    BY DEF Result, ReadResult
  <1> QED
    BY <1>2, <1>3, <1>4

LEMMA OpenStorageType ==
  ASSUME NEW s \in Storage
  PROVE  OpenStorage(s) \in State
PROOF
  <1>1. 0 \in Generation
    BY SizeAssumption DEF Generation
  <1>2. Unread(s) \in State
    BY <1>1 DEF Unread, State, Storage
  <1> QED
    BY <1>2, AdoptType, EnsureLoadedType DEF OpenStorage

LEMMA LoadResultType ==
  ASSUME NEW st \in State
  PROVE  LoadResult(st) \in ReadResult
PROOF
  <1> DEFINE ok == st.index # None
  <1>1. ok \in BOOLEAN
    OBVIOUS
  <1>2. LoadResult(st) = Result(ok, st)
    BY DEF LoadResult
  <1> HIDE DEF ok
  <1> QED
    BY <1>1, <1>2 DEF Result, ReadResult

LEMMA SearchedType ==
  ASSUME NEW st \in State, NEW s \in Storage
  PROVE  Searched(st, s) \in ReadResult
PROOF
  <1> DEFINE fresh == Refresh(st, s)
  <1>1. fresh \in ReadResult
    BY RefreshType
  <1> HIDE DEF fresh
  <1>2. LoadResult(EnsureLoaded(fresh.st, s)) \in ReadResult
    BY <1>1, EnsureLoadedType, LoadResultType DEF ReadResult
  <1>3. SearchedAfter(fresh, s) \in ReadResult
    BY <1>1, <1>2 DEF SearchedAfter
  <1> QED
    BY <1>3 DEF Searched, fresh

LEMMA SeenRowsType ==
  ASSUME NEW st \in State, NEW s \in Storage
  PROVE  SeenRows(st, s) \in Rows \cup {None}
PROOF
  <1> DEFINE searched == Searched(st, s)
  <1>1. searched \in ReadResult
    BY SearchedType
  <1>2. SeenRows(st, s) = FoundRows(searched)
    BY DEF SeenRows
  <1> HIDE DEF searched
  <1> QED
    BY <1>1, <1>2 DEF FoundRows, ReadResult, State

LEMMA ScannedType ==
  ASSUME NEW st \in State, NEW s \in Storage
  PROVE  Scanned(st, s) \in State
PROOF
  <1> DEFINE fresh == Refresh(st, s)
  <1>1. fresh.st \in State
    BY RefreshType DEF ReadResult
  <1>2. EnsureLoaded(fresh.st, s) \in State
    BY <1>1, EnsureLoadedType
  <1> QED
    BY <1>1, <1>2 DEF Scanned, ScannedAfter

LEMMA PrepareType ==
  ASSUME NEW st \in State, NEW s \in Storage
  PROVE  Prepare(st, s) \in ReadResult
PROOF
  <1> DEFINE fresh == Refresh(st, s)
  <1>1. fresh \in ReadResult
    BY RefreshType
  <1> HIDE DEF fresh
  <1>2. LoadResult(EnsureLoaded(fresh.st, s)) \in ReadResult
    BY <1>1, EnsureLoadedType, LoadResultType DEF ReadResult
  <1>3. PreparedAfter(fresh, s) \in ReadResult
    BY <1>1, <1>2 DEF PreparedAfter
  <1> QED
    BY <1>3 DEF Prepare, fresh
-----------------------------------------------------------------------------
(* xUpdate. *)

LEMMA EnsureTxnType ==
  ASSUME NEW st \in State
  PROVE  /\ EnsureTxn(st) \in State
         /\ EnsureTxn(st).txn \in Txn
         /\ EnsureTxn(st).index = st.index
PROOF
  <1>1. CASE st.txn # None
    BY <1>1 DEF EnsureTxn, State
  <1>2. CASE st.txn = None
    <2>1. <<>> \in Seq(Change) /\ 0 \in Nat
      OBVIOUS
    <2>2. NoSavepoints \in [Mark -> Nat \cup {None}]
      BY DEF NoSavepoints
    <2>3. StartTxn(st) \in Txn
      BY <2>1, <2>2 DEF StartTxn, Txn, State
    <2> QED
      BY <1>2, <2>3 DEF EnsureTxn, State
  <1> QED
    BY <1>1, <1>2

LEMMA LogLength ==
  ASSUME NEW txn \in Txn
  PROVE  txn.changes \in Seq(Change) /\ Len(txn.changes) \in Nat
PROOF
  <1>1. txn.changes \in Seq(Change)
    BY DEF Txn
  <1> QED
    BY <1>1

LEMMA EnsureCheckpointType ==
  ASSUME NEW st \in State
  PROVE  /\ EnsureCheckpoint(st) \in State
         /\ EnsureCheckpoint(st).txn \in Txn
         /\ EnsureCheckpoint(st).index = st.index
PROOF
  <1> DEFINE open == EnsureTxn(st)
             cp == [position |-> Len(open.txn.changes), payload |-> open.index]
             kept == [open EXCEPT !.txn.checkpoint = cp]
  <1>1. open \in State /\ open.txn \in Txn /\ open.index = st.index
    BY EnsureTxnType
  <1>2. CASE open.index # None
    <2>1. Len(open.txn.changes) \in Nat
      BY <1>1, LogLength
    <2>2. open.index \in Rows
      BY <1>1, <1>2 DEF State
    <2>3. cp \in Checkpoint
      BY <2>1, <2>2 DEF Checkpoint
    <2> HIDE DEF open, cp
    <2>4. [open.txn EXCEPT !.checkpoint = cp] \in Txn
      BY <1>1, <2>3 DEF Txn
    <2>5. kept = [open EXCEPT !.txn = [open.txn EXCEPT !.checkpoint = cp]]
      BY <1>1 DEF State
    <2>6. kept \in State /\ kept.txn \in Txn /\ kept.index = st.index
      BY <1>1, <2>4, <2>5 DEF State
    <2>7. EnsureCheckpoint(st) = kept \/ EnsureCheckpoint(st) = open
      BY DEF EnsureCheckpoint, open, cp
    <2> QED
      BY <1>1, <2>6, <2>7
  <1>3. CASE open.index = None
    BY <1>1, <1>3 DEF EnsureCheckpoint
  <1> QED
    BY <1>2, <1>3

LEMMA LoggedType ==
  ASSUME NEW st \in State, NEW change \in Change
  PROVE  Logged(st, change) \in State
PROOF
  <1> DEFINE open == EnsureTxn(st)
             log == Append(open.txn.changes, change)
  <1>1. open \in State /\ open.txn \in Txn
    BY EnsureTxnType
  <1>2. log \in Seq(Change)
    BY <1>1, LogLength
  <1>3. Logged(st, change) = [open EXCEPT !.txn.changes = log, !.dirty = TRUE]
    BY DEF Logged
  <1> HIDE DEF open, log
  <1>4. [open.txn EXCEPT !.changes = log] \in Txn
    BY <1>1, <1>2 DEF Txn
  <1>5. Logged(st, change) =
          [open EXCEPT !.txn = [open.txn EXCEPT !.changes = log], !.dirty = TRUE]
    BY <1>1, <1>3 DEF State
  <1> QED
    BY <1>1, <1>4, <1>5 DEF State

LEMMA IndexChangeType ==
  ASSUME NEW st \in State, st.index # None, NEW id \in Rowid,
         NEW value \in Vector \cup {None}
  PROVE  [st EXCEPT !.index[id] = value] \in State
PROOF
  <1>1. [st.index EXCEPT ![id] = value] \in Rows
    BY DEF State, Rows
  <1>2. [st EXCEPT !.index[id] = value] = [st EXCEPT !.index = [st.index EXCEPT ![id] = value]]
    BY DEF State
  <1> QED
    BY <1>1, <1>2 DEF State

LEMMA SetIdType ==
  ASSUME NEW st \in State, NEW id \in Rowid, NEW value \in Vector \cup {None}
  PROVE  SetId(st, id, value) \in State
PROOF
  BY IndexChangeType DEF SetId

LEMMA ClaimedType ==
  ASSUME NEW st \in State, NEW s \in Storage, NEW id \in Rowid
  PROVE  Claimed(st, s, id) \in Storage /\ Unclaimed(st, s, id) \in Storage
PROOF
  BY DEF Claimed, Unclaimed, Storage

LEMMA ExistsType ==
  ASSUME NEW st, NEW s, NEW id
  PROVE  Exists(st, s, id) \in BOOLEAN
PROOF
  <1> DEFINE stored == id \in s.ids
             loaded == st.index # None /\ st.index[id] # None
  <1>1. stored \in BOOLEAN /\ loaded \in BOOLEAN
    OBVIOUS
  <1>2. Exists(st, s, id) = IF st.layout = "current" THEN stored ELSE loaded
    BY DEF Exists
  <1> HIDE DEF stored, loaded
  <1> QED
    BY <1>1, <1>2

LEMMA InsertedType ==
  ASSUME NEW open \in State, NEW id \in Rowid, NEW vector \in Vector,
         NEW exists \in BOOLEAN
  PROVE  Inserted(open, id, vector, exists) \in State
PROOF
  <1> DEFINE kept == IF RetainsVector(open, exists) THEN vector ELSE None
  <1>1. kept \in Vector \cup {None}
    OBVIOUS
  <1>2. Inserted(open, id, vector, exists)
          = Logged(SetId(open, id, vector), InsertOf(id, kept, exists))
    BY DEF Inserted
  <1> HIDE DEF kept
  <1>3. InsertOf(id, kept, exists) \in Change
    BY <1>1 DEF InsertOf, Change
  <1> QED
    BY <1>2, <1>3, SetIdType, LoggedType

LEMMA InsertType ==
  ASSUME NEW st0 \in State, NEW s \in Storage, NEW id \in Rowid,
         NEW vector \in Vector, NEW replace \in BOOLEAN
  PROVE  Insert(st0, s, id, vector, replace) \in WriteResult
PROOF
  <1> DEFINE ready == Prepare(st0, s)
  <1>1. ready \in ReadResult
    BY PrepareType
  <1> HIDE DEF ready
  <1>2. ready.st \in State
    BY <1>1 DEF ReadResult
  <1>3. ASSUME NEW st \in State
        PROVE  InsertPrepared(st, s, id, vector, replace) \in WriteResult
    <2> DEFINE exists == Exists(st, s, id)
               open == IF st.index # None /\ exists THEN EnsureCheckpoint(st)
                                                    ELSE EnsureTxn(st)
               inserted == Inserted(open, id, vector, exists)
    <2>1. exists \in BOOLEAN
      BY ExistsType
    <2>2. open \in State
      BY <1>3, EnsureCheckpointType, EnsureTxnType
    <2>3. inserted \in State
      <3> HIDE DEF open, exists
      <3> QED BY <2>1, <2>2, InsertedType
    <2>4. Claimed(st, s, id) \in Storage
      BY <1>3, ClaimedType
    <2>5. \/ InsertPrepared(st, s, id, vector, replace) = Written(FALSE, st, s)
          \/ InsertPrepared(st, s, id, vector, replace)
               = Written(FALSE, st, Claimed(st, s, id))
          \/ InsertPrepared(st, s, id, vector, replace)
               = Written(TRUE, inserted, Claimed(st, s, id))
      BY DEF InsertPrepared
    <2> HIDE DEF inserted
    <2> QED
      BY <1>3, <2>3, <2>4, <2>5, Results
  <1>4. InsertAfter(ready, s, id, vector, replace) \in WriteResult
    BY <1>2, <1>3, Results DEF InsertAfter
  <1> QED
    BY <1>4 DEF Insert, ready

LEMMA DeleteType ==
  ASSUME NEW st0 \in State, NEW s \in Storage, NEW id \in Rowid
  PROVE  Delete(st0, s, id) \in WriteResult
PROOF
  <1> DEFINE ready == Prepare(st0, s)
  <1>1. ready \in ReadResult
    BY PrepareType
  <1> HIDE DEF ready
  <1>2. ready.st \in State
    BY <1>1 DEF ReadResult
  <1>3. ASSUME NEW st \in State
        PROVE  DeletePrepared(st, s, id) \in WriteResult
    <2> DEFINE unindexed == IF st.index = None THEN st
                            ELSE SetId(EnsureCheckpoint(st), id, None)
               deleted == Logged(unindexed, DeleteOf(id))
    <2>1. unindexed \in State
      BY <1>3, EnsureCheckpointType, SetIdType
    <2>2. DeleteOf(id) \in Change
      BY DEF DeleteOf, Change
    <2>3. deleted \in State
      <3> HIDE DEF unindexed
      <3> QED BY <2>1, <2>2, LoggedType
    <2>4. Unclaimed(st, s, id) \in Storage
      BY <1>3, ClaimedType
    <2>5. \/ DeletePrepared(st, s, id) = Written(FALSE, st, s)
          \/ DeletePrepared(st, s, id) = Written(FALSE, st, Unclaimed(st, s, id))
          \/ DeletePrepared(st, s, id) = Written(TRUE, deleted, Unclaimed(st, s, id))
      BY DEF DeletePrepared
    <2> HIDE DEF deleted
    <2> QED
      BY <1>3, <2>3, <2>4, <2>5, Results
  <1>4. DeleteAfter(ready, s, id) \in WriteResult
    BY <1>2, <1>3, Results DEF DeleteAfter
  <1> QED
    BY <1>4 DEF Delete, ready
-----------------------------------------------------------------------------
(* xBegin, xSavepoint, xRelease, xRollbackTo. *)

LEMMA BeginType ==
  ASSUME NEW st \in State, NEW s \in Storage
  PROVE  Begin(st, s) \in ReadResult
PROOF
  <1>1. Refresh(st, s) \in ReadResult
    BY RefreshType
  <1>2. EnsureTxn(Refresh(st, s).st) \in State
    BY <1>1, EnsureTxnType DEF ReadResult
  <1> QED
    BY <1>1, <1>2 DEF Begin, BegunAfter, Result, ReadResult

LEMMA ForgetType ==
  ASSUME NEW savepoints \in [Mark -> Nat \cup {None}], NEW keep
  PROVE  Forget(savepoints, keep) \in [Mark -> Nat \cup {None}]
PROOF
  BY DEF Forget

(* The savepoints of a transaction may be replaced by others.              *)
LEMMA SavepointsType ==
  ASSUME NEW st \in State, st.txn \in Txn,
         NEW savepoints \in [Mark -> Nat \cup {None}]
  PROVE  [st EXCEPT !.txn.savepoints = savepoints] \in State
PROOF
  <1>1. [st.txn EXCEPT !.savepoints = savepoints] \in Txn
    BY DEF Txn
  <1>2. [st EXCEPT !.txn.savepoints = savepoints]
          = [st EXCEPT !.txn = [st.txn EXCEPT !.savepoints = savepoints]]
    BY DEF State
  <1> QED
    BY <1>1, <1>2 DEF State

LEMMA SavepointType ==
  ASSUME NEW st \in State, NEW j
  PROVE  Savepoint(st, j) \in State
PROOF
  <1> DEFINE open == EnsureTxn(st)
             old == Forget(open.txn.savepoints, Below(j))
             new == [old EXCEPT ![j] = Len(open.txn.changes)]
  <1>1. open \in State /\ open.txn \in Txn
    BY EnsureTxnType
  <1>2. Len(open.txn.changes) \in Nat
    BY <1>1, LogLength
  <1>3. old \in [Mark -> Nat \cup {None}]
    BY <1>1, ForgetType DEF Txn
  <1>4. new \in [Mark -> Nat \cup {None}]
    <2> HIDE DEF old
    <2> QED BY <1>2, <1>3
  <1>5. [open.txn EXCEPT !.savepoints = new] \in Txn
    <2> HIDE DEF new, open
    <2> QED BY <1>1, <1>4 DEF Txn
  <1>6. Savepoint(st, j) = [open EXCEPT !.txn = [open.txn EXCEPT !.savepoints = new]]
    <2>1. Savepoint(st, j) = [open EXCEPT !.txn.savepoints =
                               [Forget(@, Below(j)) EXCEPT ![j] = Len(open.txn.changes)]]
      BY DEF Savepoint
    <2> HIDE DEF open
    <2> QED BY <1>1, <2>1 DEF State
  <1> HIDE DEF open, new
  <1> QED
    BY <1>1, <1>5, <1>6 DEF State

LEMMA ReleaseType ==
  ASSUME NEW st \in State, NEW j
  PROVE  Release(st, j) \in State
PROOF
  <1>1. CASE st.txn = None
    BY <1>1 DEF Release
  <1>2. CASE st.txn # None
    <2> DEFINE new == Forget(st.txn.savepoints, Below(j))
    <2>1. st.txn \in Txn /\ st.txn.savepoints \in [Mark -> Nat \cup {None}]
      BY <1>2 DEF State, Txn
    <2>2. new \in [Mark -> Nat \cup {None}]
      BY <2>1, ForgetType
    <2>3. Release(st, j) = [st EXCEPT !.txn.savepoints = new]
      BY <1>2 DEF Release
    <2> HIDE DEF new
    <2> QED
      BY <2>1, <2>2, <2>3, SavepointsType
  <1> QED
    BY <1>1, <1>2

(* A rollback that succeeds has kept the transaction.                      *)
KeptResult == {r \in ReadResult : r.ok => r.st.txn \in Txn}

LEMMA TruncatedType ==
  ASSUME NEW st \in State, st.txn # None, NEW n \in Nat, n <= Len(st.txn.changes),
         NEW index \in Rows \cup {None}, NEW checkpoint \in Checkpoint \cup {None}
  PROVE  Truncated(st, n, index, checkpoint) \in KeptResult
PROOF
  <1> DEFINE prefix == SubSeq(st.txn.changes, 1, n)
             synced == IF st.txn.synced < n THEN st.txn.synced ELSE n
             txn == [st.txn EXCEPT !.changes = prefix, !.checkpoint = checkpoint,
                                   !.synced = synced]
             new == [st EXCEPT !.index = index, !.txn = txn, !.dirty = n > 0]
  <1>1. st.txn \in Txn
    BY DEF State
  <1>2. prefix \in Seq(Change)
    <2>1. st.txn.changes \in Seq(Change) /\ 0 \in Nat /\ 0 + 1 = 1
      BY <1>1, LogLength
    <2> QED
      BY <2>1, SubLog
  <1>3. synced \in Nat
    BY <1>1 DEF Txn
  <1>4. txn \in Txn
    <2> HIDE DEF prefix, synced
    <2> QED BY <1>1, <1>2, <1>3 DEF Txn
  <1>5. (n > 0) \in BOOLEAN
    OBVIOUS
  <1>6. new \in State /\ new.txn \in Txn
    <2> HIDE DEF txn
    <2> QED BY <1>4, <1>5 DEF State
  <1>7. Truncated(st, n, index, checkpoint) = Result(TRUE, new)
    <2>1. [st.txn EXCEPT !.changes = SubSeq(@, 1, n), !.checkpoint = checkpoint,
                         !.synced = IF @ < n THEN @ ELSE n] = txn
      BY <1>1 DEF Txn
    <2>2. Truncated(st, n, index, checkpoint) =
            Result(TRUE, [st EXCEPT !.index = index,
              !.txn = [st.txn EXCEPT !.changes = SubSeq(@, 1, n), !.checkpoint = checkpoint,
                                     !.synced = IF @ < n THEN @ ELSE n],
              !.dirty = n > 0])
      BY DEF Truncated
    <2> QED
      BY <2>1, <2>2
  <1> HIDE DEF new
  <1> QED
    BY <1>6, <1>7 DEF Result, KeptResult, ReadResult, State

LEMMA LostType ==
  ASSUME NEW st \in State, NEW index \in Rows \cup {None}
  PROVE  Result(FALSE, [st EXCEPT !.index = index, !.txn = None]) \in KeptResult
PROOF
  BY DEF Result, KeptResult, ReadResult, State

LEMMA RestoreFromCheckpointType ==
  ASSUME NEW st \in State, st.txn # None, st.txn.checkpoint # None,
         NEW n \in Nat, n <= Len(st.txn.changes)
  PROVE  RestoreFromCheckpoint(st, n) \in KeptResult
PROOF
  <1> DEFINE cp == st.txn.checkpoint
             cs == st.txn.changes
             undo == SubSeq(cs, n + 1, cp.position)
             redo == SubSeq(cs, cp.position + 1, n)
             lost == Result(FALSE, [st EXCEPT !.txn = None])
  <1>1. st.txn \in Txn
    BY DEF State
  <1>2. cp \in Checkpoint /\ cp.position \in Nat /\ cp.payload \in Rows
    BY <1>1 DEF Txn, Checkpoint
  <1>3. cs \in Seq(Change)
    BY <1>1, LogLength
  <1>4. lost \in KeptResult
    BY DEF Result, KeptResult, ReadResult, State
  <1>5. UndoInserts(cp.payload, undo) \in Rows
    BY <1>2, UndoInsertsType
  <1>6. Replay(cp.payload, redo) \in Rows
    BY <1>2, <1>3, SubLog, ReplayType
  <1>7. /\ Truncated(st, n, UndoInserts(cp.payload, undo), None) \in KeptResult
        /\ Truncated(st, n, Replay(cp.payload, redo), cp) \in KeptResult
    BY <1>2, <1>5, <1>6, TruncatedType
  <1>8. \/ RestoreFromCheckpoint(st, n) = lost
        \/ RestoreFromCheckpoint(st, n) = Truncated(st, n, UndoInserts(cp.payload, undo), None)
        \/ RestoreFromCheckpoint(st, n) = Truncated(st, n, Replay(cp.payload, redo), cp)
    BY DEF RestoreFromCheckpoint
  <1> QED
    BY <1>4, <1>7, <1>8

LEMMA RestoreTailType ==
  ASSUME NEW st \in State, st.txn # None, NEW n \in Nat, n <= Len(st.txn.changes)
  PROVE  RestoreTail(st, n) \in KeptResult
PROOF
  <1> DEFINE tail == SubSeq(st.txn.changes, n + 1, Len(st.txn.changes))
             index == UndoInserts(st.index, tail)
  <1>1. st.index \in Rows \cup {None}
    BY DEF State
  <1>2. st.index # None => index \in Rows
    BY <1>1, UndoInsertsType
  <1>3. st.index # None =>
          /\ Truncated(st, n, index, None) \in KeptResult
          /\ Result(FALSE, [st EXCEPT !.index = index, !.txn = None]) \in KeptResult
    <2> HIDE DEF index
    <2> QED BY <1>2, TruncatedType, LostType
  <1>4. /\ Truncated(st, n, st.index, None) \in KeptResult
        /\ Truncated(st, n, None, None) \in KeptResult
    BY <1>1, TruncatedType
  <1>5. Result(FALSE, st) \in KeptResult
    BY DEF Result, KeptResult, ReadResult
  <1>6. \/ /\ st.index # None
           /\ \/ RestoreTail(st, n) = Truncated(st, n, index, None)
              \/ RestoreTail(st, n) = Result(FALSE, [st EXCEPT !.index = index, !.txn = None])
        \/ RestoreTail(st, n) = Truncated(st, n, st.index, None)
        \/ RestoreTail(st, n) = Result(FALSE, st)
        \/ RestoreTail(st, n) = Truncated(st, n, None, None)
    BY DEF RestoreTail
  <1> HIDE DEF index, tail
  <1> QED
    BY <1>3, <1>4, <1>5, <1>6

LEMMA RestoreToType ==
  ASSUME NEW st \in State, NEW n \in Nat
  PROVE  RestoreTo(st, n) \in KeptResult
PROOF
  <1>1. CASE st.txn = None \/ n > Len(Changes(st))
    BY <1>1 DEF RestoreTo, Result, KeptResult, ReadResult
  <1>2. CASE ~(st.txn = None \/ n > Len(Changes(st)))
    <2>1. st.txn # None /\ Changes(st) = st.txn.changes
      BY <1>2 DEF Changes
    <2>2. st.txn \in Txn
      BY <2>1 DEF State
    <2>3. n <= Len(st.txn.changes)
      BY <1>2, <2>1, <2>2, LogLength
    <2> QED
      BY <1>2, <2>1, <2>3, RestoreFromCheckpointType, RestoreTailType DEF RestoreTo
  <1> QED
    BY <1>1, <1>2

(* What rolling back to a mark keeps of the savepoints.                    *)
LEMMA CutSavepointsType ==
  ASSUME NEW st \in State, st.txn \in Txn, NEW keep
  PROVE  [st EXCEPT !.txn.savepoints = Forget(@, keep)] \in State
PROOF
  <1> DEFINE new == Forget(st.txn.savepoints, keep)
  <1>1. new \in [Mark -> Nat \cup {None}]
    BY ForgetType DEF Txn
  <1>2. [st.txn EXCEPT !.savepoints = new] \in Txn
    <2> HIDE DEF new
    <2> QED BY <1>1 DEF Txn
  <1>3. [st EXCEPT !.txn.savepoints = Forget(@, keep)]
          = [st EXCEPT !.txn = [st.txn EXCEPT !.savepoints = new]]
    BY DEF State
  <1> HIDE DEF new
  <1> QED
    BY <1>2, <1>3 DEF State

LEMMA ResetType ==
  ASSUME NEW restored \in KeptResult, NEW keep
  PROVE  Reset(restored, keep) \in ReadResult
PROOF
  <1> DEFINE cut == [restored.st EXCEPT !.txn.savepoints = Forget(@, keep)]
  <1>1. restored.ok => cut \in State
    BY CutSavepointsType DEF KeptResult, ReadResult
  <1>2. Reset(restored, keep) = IF restored.ok THEN Result(TRUE, cut) ELSE restored
    BY DEF Reset
  <1> HIDE DEF cut
  <1> QED
    BY <1>1, <1>2 DEF KeptResult, Result, ReadResult

LEMMA RollbackToType ==
  ASSUME NEW st \in State, NEW j \in Mark
  PROVE  RollbackTo(st, j) \in ReadResult
PROOF
  <1>1. CASE st.txn = None \/ st.txn.savepoints[j] = None
    BY <1>1 DEF RollbackTo, Result, ReadResult
  <1>2. CASE ~(st.txn = None \/ st.txn.savepoints[j] = None)
    <2>1. st.txn.savepoints[j] \in Nat
      BY <1>2 DEF State, Txn
    <2>2. RestoreTo(st, st.txn.savepoints[j]) \in KeptResult
      BY <2>1, RestoreToType
    <2> QED
      BY <1>2, <2>2, ResetType DEF RollbackTo
  <1> QED
    BY <1>1, <1>2

LEMMA RollbackToStartType ==
  ASSUME NEW st \in State
  PROVE  RollbackToStart(st) \in ReadResult
PROOF
  <1>1. RestoreTo(st, 0) \in KeptResult
    BY RestoreToType
  <1> QED
    BY <1>1, ResetType DEF RollbackToStart
-----------------------------------------------------------------------------
(* xSync, xCommit and xRollback. *)

LEMMA UpgradeType ==
  ASSUME NEW st \in State, st.txn # None, NEW s \in Storage
  PROVE  /\ Upgrade(st, s) \in WriteResult
         /\ Upgrade(st, s).st.generation = st.generation
         /\ Upgrade(st, s).ok => Upgrade(st, s).st.txn \in Txn
PROOF
  <1> DEFINE loaded == EnsureLoaded(st, s)
             moved == [loaded EXCEPT !.layout = "current", !.txn.upgraded = TRUE]
             stored == Upgraded(s, loaded.generation, loaded.index, loaded.rowCount,
                                loaded.deltaBytes, loaded.deltaOps)
  <1>1. loaded \in State /\ loaded.txn \in Txn
    BY EnsureLoadedType DEF State
  <1>2. loaded.generation = st.generation
    BY EnsureLoadedType
  <1>3. moved \in State /\ moved.txn \in Txn /\ moved.generation = st.generation
    <2> HIDE DEF loaded
    <2>1. [loaded.txn EXCEPT !.upgraded = TRUE] \in Txn
      BY <1>1 DEF Txn
    <2>2. moved = [loaded EXCEPT !.layout = "current",
                                 !.txn = [loaded.txn EXCEPT !.upgraded = TRUE]]
      BY <1>1 DEF State
    <2> QED
      BY <1>1, <1>2, <2>1, <2>2 DEF State
  <1>4. stored \in Storage
    BY <1>1, UpgradedType DEF State
  <1>5. \/ Upgrade(st, s) = Written(FALSE, loaded, s)
        \/ Upgrade(st, s) = Written(TRUE, moved, stored)
    BY DEF Upgrade, UpgradeLoaded
  <1> HIDE DEF loaded, moved, stored
  <1>6. /\ Written(FALSE, loaded, s) \in WriteResult
        /\ Written(TRUE, moved, stored) \in WriteResult
    BY <1>1, <1>3, <1>4, Results
  <1>7. /\ Written(FALSE, loaded, s).st = loaded /\ Written(FALSE, loaded, s).ok = FALSE
        /\ Written(TRUE, moved, stored).st = moved
    BY DEF Written
  <1> QED
    BY <1>2, <1>3, <1>5, <1>6, <1>7

LEMMA SyncedType ==
  ASSUME NEW st \in State, st.txn \in Txn, NEW generation \in Generation,
         NEW rowCount \in Nat
  PROVE  Synced(st, generation, rowCount) \in State
PROOF
  <1> DEFINE txn == [st.txn EXCEPT !.synced = Len(st.txn.changes)]
  <1>1. Len(st.txn.changes) \in Nat
    BY LogLength
  <1>2. txn \in Txn
    BY <1>1 DEF Txn
  <1>3. Synced(st, generation, rowCount) =
          [st EXCEPT !.txn = txn, !.generation = generation,
                     !.rowCount = rowCount, !.dirty = FALSE]
    BY DEF Synced, State
  <1> HIDE DEF txn
  <1> QED
    BY <1>2, <1>3 DEF State

LEMMA SyncCompactionType ==
  ASSUME NEW st \in State, st.txn \in Txn, NEW s \in Storage, NEW rowCount \in Nat,
         st.generation # MaxGeneration
  PROVE  SyncCompaction(st, s, rowCount) \in WriteResult
PROOF
  <1> DEFINE loaded == EnsureLoaded(st, s)
             generation == st.generation + 1
             length == ImageLen(loaded.index)
             fresh == [loaded EXCEPT !.baseBytes = length,
                                     !.deltaBytes = 0, !.deltaOps = 0]
             stored == RecordCompaction(WriteIndex(s, loaded.index), generation,
                                        ImageLen(loaded.index), rowCount)
  <1>1. loaded \in State /\ loaded.txn \in Txn
    BY EnsureLoadedType
  <1>2. generation \in Generation
    BY SizeAssumption DEF Generation, State
  <1>3. loaded.index # None => Synced(fresh, generation, rowCount) \in State
    <2>1. length \in Nat
      BY ImageLenType
    <2> HIDE DEF loaded, generation, length
    <2>2. fresh \in State /\ fresh.txn = loaded.txn
      <3> DEFINE zero == 0
      <3>1. zero \in Int
        OBVIOUS
      <3>2. fresh = [loaded EXCEPT !.baseBytes = length, !.deltaBytes = zero, !.deltaOps = zero]
        OBVIOUS
      <3> HIDE DEF zero, fresh
      <3> QED
        BY <1>1, <2>1, <3>1, <3>2 DEF State
    <2> HIDE DEF fresh
    <2> QED
      BY <1>1, <1>2, <2>2, SyncedType
  <1>4. loaded.index # None => stored \in Storage
    <2>1. ImageLen(loaded.index) \in Nat
      BY ImageLenType
    <2>2. loaded.index # None => loaded.index \in Rows
      BY <1>1 DEF State
    <2> HIDE DEF loaded, generation
    <2> QED
      BY <1>2, <2>1, <2>2, RecordCompactionType
  <1>5. \/ SyncCompaction(st, s, rowCount) = Written(FALSE, loaded, s)
        \/ /\ loaded.index # None
           /\ SyncCompaction(st, s, rowCount)
                = Written(TRUE, Synced(fresh, generation, rowCount), stored)
    BY DEF SyncCompaction, Compact
  <1> HIDE DEF loaded, generation, fresh, stored
  <1> QED
    BY <1>1, <1>3, <1>4, <1>5, Results

LEMMA SyncDeltaType ==
  ASSUME NEW st \in State, st.txn \in Txn, NEW s \in Storage, NEW rowCount \in Nat,
         NEW deltaBytes \in Int, NEW deltaOps \in Int,
         st.generation # MaxGeneration
  PROVE  SyncDelta(st, s, rowCount, deltaBytes, deltaOps) \in WriteResult
PROOF
  <1> DEFINE generation == st.generation + 1
             fresh == [st EXCEPT !.deltaBytes = deltaBytes, !.deltaOps = deltaOps]
             stored == RecordDelta(WriteDelta(s, generation, Unsynced(st)), generation,
                                   rowCount, deltaBytes, deltaOps)
  <1>1. generation \in Generation
    BY SizeAssumption DEF Generation, State
  <1>2. fresh \in State /\ fresh.txn \in Txn
    BY DEF State
  <1>3. Synced(fresh, generation, rowCount) \in State
    <2> HIDE DEF fresh, generation
    <2> QED BY <1>1, <1>2, SyncedType
  <1>4. stored \in Storage
    <2> HIDE DEF generation
    <2> QED BY <1>1, LogType, WriteDeltaType, RecordDeltaType
  <1>5. \/ SyncDelta(st, s, rowCount, deltaBytes, deltaOps) = Written(FALSE, st, s)
        \/ SyncDelta(st, s, rowCount, deltaBytes, deltaOps)
             = Written(TRUE, Synced(fresh, generation, rowCount), stored)
    BY DEF SyncDelta
  <1> HIDE DEF fresh, generation, stored
  <1> QED
    BY <1>3, <1>4, <1>5, Results

LEMMA SyncPendingType ==
  ASSUME NEW st \in State, st.txn \in Txn, NEW s \in Storage,
         st.generation # MaxGeneration
  PROVE  SyncPending(st, s) \in WriteResult
PROOF
  <1> DEFINE pending == Unsynced(st)
             rowCount == st.rowCount + NetRows(pending)
             deltaBytes == st.deltaBytes + DeltaLen(pending)
             deltaOps == st.deltaOps + Len(pending)
  <1>1. pending \in Seq(Change)
    BY LogType
  <1>2. Len(pending) \in Nat
    <2> HIDE DEF pending
    <2> QED BY <1>1
  <1>3. rowCount \in Int /\ deltaBytes \in Int /\ deltaOps \in Int
    <2>1. NetRows(pending) \in Int /\ DeltaLen(pending) \in Int
      BY <1>1, NetRowsType, DeltaLenType
    <2> HIDE DEF pending
    <2> QED BY <1>2, <2>1 DEF State
  <1>4. \/ SyncPending(st, s) = Written(FALSE, st, s)
        \/ ~(rowCount < 0) /\ SyncPending(st, s) = SyncCompaction(st, s, rowCount)
        \/ ~(rowCount < 0) /\ SyncPending(st, s) = SyncDelta(st, s, rowCount, deltaBytes, deltaOps)
    BY DEF SyncPending
  <1> HIDE DEF pending, rowCount, deltaBytes, deltaOps
  <1>5. ~(rowCount < 0) => rowCount \in Nat
    BY <1>3
  <1> QED
    BY <1>3, <1>4, <1>5, Results, SyncCompactionType, SyncDeltaType

LEMMA SyncType ==
  ASSUME NEW st \in State, NEW s \in Storage
  PROVE  Sync(st, s) \in WriteResult
PROOF
  <1> DEFINE up == Upgrade(st, s)
  <1>1. CASE ~st.dirty
    BY <1>1, Results DEF Sync
  <1>2. CASE st.dirty /\ (st.generation = MaxGeneration \/ Unsynced(st) = <<>>)
    BY <1>2, Results DEF Sync
  <1>3. CASE st.dirty /\ ~(st.generation = MaxGeneration \/ Unsynced(st) = <<>>)
    <2>1. st.txn # None
      BY <1>3 DEF Unsynced
    <2>2. st.txn \in Txn
      BY <2>1 DEF State
    <2>3. /\ up \in WriteResult
          /\ up.st.generation # MaxGeneration
          /\ up.ok => up.st.txn \in Txn
      BY <1>3, <2>1, UpgradeType
    <2>4. Sync(st, s) = IF st.layout = "legacy" THEN SyncUpgraded(up)
                                                ELSE SyncPending(st, s)
      BY <1>3 DEF Sync
    <2> HIDE DEF up
    <2>5. SyncUpgraded(up) \in WriteResult
      BY <2>3, SyncPendingType DEF SyncUpgraded, WriteResult
    <2> QED
      BY <1>3, <2>2, <2>4, <2>5, SyncPendingType
  <1> QED
    BY <1>1, <1>2, <1>3

LEMMA CommittedType ==
  ASSUME NEW st \in State
  PROVE  Committed(st) \in State
PROOF
  BY DEF Committed, State

LEMMA RolledBackType ==
  ASSUME NEW st \in State
  PROVE  RolledBack(st) \in State
PROOF
  <1>1. CASE st.txn = None
    BY <1>1 DEF RolledBack, State
  <1>2. CASE st.txn # None
    <2>1. st.txn \in Txn
      BY <1>2 DEF State
    <2>2. /\ st.txn.startGeneration \in Generation
          /\ st.txn.startBaseBytes \in Nat
          /\ st.txn.startDeltaBytes \in Int
          /\ st.txn.startDeltaOps \in Int
          /\ st.txn.startRowCount \in Nat
      BY <2>1 DEF Txn
    <2>3. (IF st.txn.upgraded THEN "legacy" ELSE st.layout) \in {"legacy", "current"}
      BY DEF State
    <2> QED
      BY <1>2, <2>2, <2>3 DEF RolledBack, State
  <1> QED
    BY <1>1, <1>2
-----------------------------------------------------------------------------
(* Type correctness. *)

(* TypeOK without the instances' own state. *)
SharedTypeOK ==
  /\ disk \in Storage
  /\ mode \in [Connections -> {"idle", "read", "write"}]
  /\ view \in [Connections -> Storage]
  /\ marks \in [Connections -> Seq(MarkRecord)]
  /\ \A c \in Connections : Len(marks[c]) <= MaxMarks
  /\ statement \in [Connections -> BOOLEAN]
  /\ \A c \in Connections : statement[c] => marks[c] # <<>>
  /\ enlisted \in [Connections -> BOOLEAN]

LEMMA SplitType ==
  /\ TypeOK <=> SharedTypeOK /\ state \in [Connections -> State]
  /\ TypeOK' <=> SharedTypeOK' /\ state' \in [Connections -> State]
PROOF
  BY DEF TypeOK, SharedTypeOK

LEMMA StateType ==
  ASSUME TypeOK, NEW c \in Connections
  PROVE  state[c] \in State /\ view[c] \in Storage /\ disk \in Storage
PROOF
  BY DEF TypeOK

LEMMA SetStateType ==
  ASSUME TypeOK, NEW c \in Connections, NEW st \in State, SetState(c, st)
  PROVE  state' \in [Connections -> State]
PROOF
  BY DEF TypeOK, SetState

LEMMA EndedType ==
  ASSUME TypeOK, NEW c \in Connections, NEW s \in Storage, Ended(c, s)
  PROVE  SharedTypeOK'
PROOF
  <1>1. disk' \in Storage
    BY DEF Ended
  <1>2. mode' \in [Connections -> {"idle", "read", "write"}]
    BY DEF TypeOK, Ended
  <1>3. view' \in [Connections -> Storage]
    BY DEF TypeOK, Ended
  <1>4. /\ marks' \in [Connections -> Seq(MarkRecord)]
        /\ \A d \in Connections : Len(marks'[d]) <= MaxMarks
    <2>1. <<>> \in Seq(MarkRecord) /\ Len(<<>>) = 0 /\ 0 <= MaxMarks
      BY TableAssumption
    <2>2. marks' = [marks EXCEPT ![c] = <<>>]
      BY DEF Ended
    <2> QED
      BY <2>1, <2>2 DEF TypeOK
  <1>5. /\ statement' \in [Connections -> BOOLEAN]
        /\ \A d \in Connections : statement'[d] => marks'[d] # <<>>
    BY DEF TypeOK, Ended
  <1>6. enlisted' \in [Connections -> BOOLEAN]
    BY DEF TypeOK, Ended
  <1> QED
    BY <1>1, <1>2, <1>3, <1>4, <1>5, <1>6 DEF SharedTypeOK

(* The end of a transaction, whatever becomes of the instance's state.     *)
LEMMA EndType ==
  ASSUME TypeOK, NEW c \in Connections, NEW s \in Storage, NEW st \in State,
         Ended(c, s), SetState(c, st)
  PROVE  TypeOK'
PROOF
  BY EndedType, SetStateType, SplitType
-----------------------------------------------------------------------------
(* The initial states. *)

LEMMA InitialStorageType == InitialStorage \subseteq Storage
PROOF
  <1> DEFINE rows == {r \in Rows : Cardinality(Keys(r)) \in InitialCounts}
             stored(r) == {x \in Change :
                             \/ x.op = "insert" /\ x.vector # None /\ x.replaces
                             \/ x.id \in Keys(r) /\ x = DeleteOf(x.id)}
             new == {NewStorage(r) : r \in rows}
             old == {LegacyStorage(r) : r \in rows}
             logged == UNION {{LegacyWithDelta(r, <<x>>) : x \in stored(r)} :
                                r \in rows \ {EmptyRows}}
  <1>1. MaxGeneration >= 1 /\ MaxGeneration >= 2
    BY TableAssumption, SizeAssumption
  <1>2. \A r \in rows : NewStorage(r) \in Storage /\ LegacyStorage(r) \in Storage
    BY <1>1, NewStorageType
  <1>3. \A r \in rows : \A x \in stored(r) : LegacyWithDelta(r, <<x>>) \in Storage
    <2>1. \A x \in Change : <<x>> \in Seq(Change)
      OBVIOUS
    <2> QED
      BY <1>1, <2>1, LegacyWithDeltaType
  <1>4. InitialStorage = (IF "current" \in InitialLayouts THEN new ELSE {})
                           \cup (IF "legacy" \in InitialLayouts THEN old \cup logged ELSE {})
    BY DEF InitialStorage
  <1> HIDE DEF rows, stored
  <1>5. new \subseteq Storage /\ old \subseteq Storage
    BY <1>2
  <1>6. logged \subseteq Storage
    <2>1. SUFFICES ASSUME NEW s \in logged PROVE s \in Storage
      OBVIOUS
    <2>2. PICK r \in rows : s \in {LegacyWithDelta(r, <<x>>) : x \in stored(r)}
      BY <2>1
    <2>3. PICK x \in stored(r) : s = LegacyWithDelta(r, <<x>>)
      BY <2>2
    <2> QED
      BY <1>3, <2>3
  <1> HIDE DEF new, old, logged
  <1> QED
    BY <1>4, <1>5, <1>6

LEMMA InitType == Init => TypeOK
PROOF
  <1>1. SUFFICES ASSUME Init PROVE TypeOK
    OBVIOUS
  <1>2. disk \in Storage
    BY <1>1, InitialStorageType DEF Init
  <1>3. OpenStorage(disk) \in State
    BY <1>2, OpenStorageType
  <1>4. /\ <<>> \in Seq(MarkRecord)
        /\ \A c \in Connections : Len(marks[c]) <= MaxMarks
    BY <1>1, TableAssumption DEF Init
  <1> QED
    BY <1>1, <1>2, <1>3, <1>4 DEF Init, TypeOK
-----------------------------------------------------------------------------
(* Marks. *)

LEMMA MarkIndex ==
  ASSUME TypeOK, NEW c \in Connections
  PROVE  /\ Len(marks[c]) \in Nat
         /\ \A j \in 0 .. TopMark(c) : j \in Mark /\ j + 1 \in 1 .. Len(marks[c])
         /\ statement[c] => TopMark(c) \in 0 .. TopMark(c)
PROOF
  <1>1. marks[c] \in Seq(MarkRecord) /\ Len(marks[c]) <= MaxMarks
    BY DEF TypeOK
  <1>2. Len(marks[c]) \in Nat
    BY <1>1
  <1>3. statement[c] => Len(marks[c]) # 0
    BY <1>1 DEF TypeOK
  <1> QED
    BY <1>1, <1>2, <1>3, TableAssumption DEF TopMark

LEMMA MarkPrefix ==
  ASSUME NEW m \in Seq(MarkRecord), NEW j \in 0 .. Len(m)
  PROVE  SubSeq(m, 1, j) \in Seq(MarkRecord) /\ Len(SubSeq(m, 1, j)) = j
PROOF
  <1>1. \A i \in 1 .. j : m[i] \in MarkRecord
    OBVIOUS
  <1>2. j \in Int /\ j >= 0
    OBVIOUS
  <1> QED
    BY <1>1, <1>2, SubSeqProperties

(* Cutting the stack of marks down to its first j keeps its type.          *)
LEMMA CutMarksType ==
  ASSUME TypeOK, NEW c \in Connections, NEW j \in 0 .. Len(marks[c]),
         marks' = [marks EXCEPT ![c] = SubSeq(marks[c], 1, j)]
  PROVE  /\ marks' \in [Connections -> Seq(MarkRecord)]
         /\ \A d \in Connections : Len(marks'[d]) <= MaxMarks
         /\ Len(marks'[c]) = j
         /\ \A d \in Connections \ {c} : marks'[d] = marks[d]
PROOF
  <1> DEFINE cut == SubSeq(marks[c], 1, j)
  <1>1. marks[c] \in Seq(MarkRecord) /\ Len(marks[c]) <= MaxMarks
    BY DEF TypeOK
  <1>2. cut \in Seq(MarkRecord) /\ Len(cut) = j
    BY <1>1, MarkPrefix
  <1>3. j <= MaxMarks
    BY <1>1, TableAssumption
  <1> HIDE DEF cut
  <1>4. marks' = [marks EXCEPT ![c] = cut]
    BY DEF cut
  <1> QED
    BY <1>2, <1>3, <1>4 DEF TypeOK
-----------------------------------------------------------------------------
(* The actions, in the order of Next. *)

(* An action that touches nothing but the instance's state.                *)
LEMMA OnlyStateType ==
  ASSUME TypeOK, NEW c \in Connections, NEW st \in State, SetState(c, st),
         UNCHANGED <<disk, mode, view, marks, statement, enlisted>>
  PROVE  TypeOK'
PROOF
  <1>1. state' \in [Connections -> State]
    BY SetStateType
  <1>2. SharedTypeOK'
    BY SplitType DEF SharedTypeOK
  <1> QED
    BY <1>1, <1>2, SplitType

LEMMA SnapshotType ==
  ASSUME TypeOK, NEW c \in Connections, BeginRead(c) \/ EndRead(c) \/ BeginWrite(c)
  PROVE  TypeOK'
PROOF
  <1>1. CASE BeginRead(c)
    BY <1>1 DEF BeginRead, TypeOK
  <1>2. CASE EndRead(c)
    <2>1. SharedTypeOK'
      BY <1>2, StateType, EndedType DEF EndRead
    <2>2. state' \in [Connections -> State]
      BY <1>2 DEF EndRead, TypeOK
    <2> QED
      BY <2>1, <2>2, SplitType
  <1>3. CASE BeginWrite(c)
    BY <1>3 DEF BeginWrite, TypeOK
  <1> QED
    BY <1>1, <1>2, <1>3

LEMMA ReadType ==
  ASSUME TypeOK, NEW c \in Connections, Search(c) \/ Scan(c) \/ CatchUpFails(c)
  PROVE  TypeOK'
PROOF
  <1>1. state[c] \in State /\ view[c] \in Storage
    BY StateType
  <1>2. /\ Searched(state[c], view[c]).st \in State
        /\ Scanned(state[c], view[c]) \in State
        /\ Dropped(state[c]) \in State
    BY <1>1, SearchedType, ScannedType, DroppedType DEF ReadResult
  <1>3. CASE Search(c)
    BY <1>2, <1>3, OnlyStateType DEF Search
  <1>4. CASE Scan(c)
    BY <1>2, <1>4, OnlyStateType DEF Scan
  <1>5. CASE CatchUpFails(c)
    BY <1>2, <1>5, OnlyStateType DEF CatchUpFails
  <1> QED
    BY <1>3, <1>4, <1>5

LEMMA EnlistType ==
  ASSUME TypeOK, NEW c \in Connections, Enlist(c)
  PROVE  TypeOK'
PROOF
  <1> DEFINE begun == Begin(state[c], view[c])
             st == IF begun.ok /\ marks[c] # <<>>
                   THEN Savepoint(begun.st, TopMark(c)) ELSE begun.st
  <1>1. begun \in ReadResult
    BY StateType, BeginType
  <1>2. st \in State
    BY <1>1, SavepointType DEF ReadResult
  <1>3. /\ SetState(c, st)
        /\ enlisted' = [enlisted EXCEPT ![c] = begun.ok]
        /\ UNCHANGED <<disk, mode, view, marks, statement>>
    BY DEF Enlist, EnlistBegun
  <1>4. begun.ok \in BOOLEAN
    BY <1>1 DEF ReadResult
  <1> HIDE DEF begun, st
  <1>5. state' \in [Connections -> State]
    BY <1>2, <1>3, SetStateType
  <1>6. SharedTypeOK'
    BY <1>3, <1>4, SplitType DEF SharedTypeOK
  <1> QED
    BY <1>5, <1>6, SplitType

LEMMA UpdateType ==
  ASSUME TypeOK, NEW c \in Connections, NEW result \in WriteResult, Update(c, result)
  PROVE  TypeOK'
PROOF
  <1>1. result.st \in State /\ result.s \in Storage
    BY DEF WriteResult
  <1>2. state' \in [Connections -> State]
    BY <1>1, SetStateType DEF Update
  <1>3. SharedTypeOK'
    BY <1>1, SplitType DEF Update, SharedTypeOK
  <1> QED
    BY <1>2, <1>3, SplitType

LEMMA WriteType ==
  ASSUME TypeOK, NEW c \in Connections, InsertRow(c) \/ DeleteRow(c)
  PROVE  TypeOK'
PROOF
  <1>1. state[c] \in State /\ view[c] \in Storage
    BY StateType
  <1>2. CASE InsertRow(c)
    <2>1. PICK id \in Rowid, vector \in Vector, replace \in BOOLEAN :
            Update(c, Insert(state[c], view[c], id, vector, replace))
      BY <1>2 DEF InsertRow
    <2> QED
      BY <1>1, <2>1, InsertType, UpdateType
  <1>3. CASE DeleteRow(c)
    <2>1. PICK id \in Rowid : Update(c, Delete(state[c], view[c], id))
      BY <1>3 DEF DeleteRow
    <2> QED
      BY <1>1, <2>1, DeleteType, UpdateType
  <1> QED
    BY <1>2, <1>3

LEMMA PushMarkType ==
  ASSUME TypeOK, NEW c \in Connections, OpenSavepoint(c) \/ OpenStatement(c)
  PROVE  TypeOK'
PROOF
  <1> DEFINE mark == [storage |-> view[c], rows |-> SeenRows(state[c], view[c])]
             pushed == Append(marks[c], mark)
             st == IF enlisted[c] THEN Savepoint(state[c], Len(marks[c])) ELSE state[c]
  <1>1. PushMark(c)
    BY DEF OpenSavepoint, OpenStatement
  <1>2. state[c] \in State /\ view[c] \in Storage
    BY StateType
  <1>3. mark \in MarkRecord
    BY <1>2, SeenRowsType DEF MarkRecord
  <1>4. st \in State
    BY <1>2, SavepointType
  <1>5. /\ Len(marks[c]) < MaxMarks
        /\ marks' = [marks EXCEPT ![c] = pushed]
        /\ SetState(c, st)
        /\ UNCHANGED <<disk, mode, view, enlisted>>
    BY <1>1 DEF PushMark, TypeOK
  <1>6. pushed \in Seq(MarkRecord) /\ Len(pushed) <= MaxMarks /\ pushed # <<>>
    <2>1. marks[c] \in Seq(MarkRecord)
      BY DEF TypeOK
    <2> HIDE DEF mark
    <2>2. pushed \in Seq(MarkRecord) /\ Len(pushed) = Len(marks[c]) + 1
      BY <1>3, <2>1
    <2>3. Len(marks[c]) \in Nat /\ MaxMarks \in Nat
      BY <2>1, TableAssumption
    <2>4. Len(pushed) <= MaxMarks /\ Len(pushed) # 0
      <3> HIDE DEF pushed
      <3> QED BY <1>5, <2>2, <2>3
    <2>5. Len(<<>>) = 0
      OBVIOUS
    <2> HIDE DEF pushed
    <2> QED
      BY <2>2, <2>4, <2>5
  <1> HIDE DEF mark, pushed, st
  <1>7. state' \in [Connections -> State]
    BY <1>4, <1>5, SetStateType
  <1>8. \/ statement' = statement
        \/ statement' = [statement EXCEPT ![c] = TRUE]
    BY DEF OpenSavepoint, OpenStatement
  <1>9. SharedTypeOK'
    BY <1>5, <1>6, <1>8, SplitType DEF SharedTypeOK
  <1> QED
    BY <1>7, <1>9, SplitType

LEMMA ReleaseMarkType ==
  ASSUME TypeOK, NEW c \in Connections, NEW j \in 0 .. TopMark(c), ReleaseMark(c, j)
  PROVE  TypeOK'
PROOF
  <1> DEFINE st == IF enlisted[c] THEN Release(state[c], j) ELSE state[c]
  <1>1. st \in State
    BY StateType, ReleaseType
  <1>2. /\ marks' = [marks EXCEPT ![c] = SubSeq(marks[c], 1, j)]
        /\ statement' = [statement EXCEPT ![c] = FALSE]
        /\ SetState(c, st)
        /\ UNCHANGED <<disk, mode, view, enlisted>>
    BY DEF ReleaseMark, TypeOK
  <1>3. j \in 0 .. Len(marks[c])
    BY MarkIndex
  <1> HIDE DEF st
  <1>4. /\ marks' \in [Connections -> Seq(MarkRecord)]
        /\ \A d \in Connections : Len(marks'[d]) <= MaxMarks
        /\ \A d \in Connections \ {c} : marks'[d] = marks[d]
    BY <1>2, <1>3, CutMarksType
  <1>5. state' \in [Connections -> State]
    BY <1>1, <1>2, SetStateType
  <1>6. SharedTypeOK'
    BY <1>2, <1>4, SplitType DEF SharedTypeOK
  <1> QED
    BY <1>5, <1>6, SplitType

LEMMA ReleaseMarksType ==
  ASSUME TypeOK, NEW c \in Connections, ReleaseSavepoint(c) \/ CloseStatement(c)
  PROVE  TypeOK'
PROOF
  <1>1. PICK j \in 0 .. TopMark(c) : ReleaseMark(c, j)
    BY MarkIndex DEF ReleaseSavepoint, CloseStatement
  <1> QED
    BY <1>1, ReleaseMarkType

LEMMA RollbackToSavepointType ==
  ASSUME TypeOK, NEW c \in Connections, RollbackToSavepoint(c)
  PROVE  TypeOK'
PROOF
  <1>1. PICK j \in 0 .. TopMark(c) :
          /\ view' = [view EXCEPT ![c] = marks[c][j + 1].storage]
          /\ marks' = [marks EXCEPT ![c] = SubSeq(@, 1, j + 1)]
          /\ SetState(c, IF enlisted[c] THEN RollbackTo(state[c], j).st ELSE state[c])
    BY DEF RollbackToSavepoint
  <1> DEFINE st == IF enlisted[c] THEN RollbackTo(state[c], j).st ELSE state[c]
  <1>2. j \in Mark /\ j + 1 \in 1 .. Len(marks[c]) /\ j + 1 \in 0 .. Len(marks[c])
    BY MarkIndex
  <1>3. st \in State
    BY <1>2, StateType, RollbackToType DEF ReadResult
  <1>4. marks[c][j + 1].storage \in Storage
    <2>1. marks[c][j + 1] \in MarkRecord
      BY <1>2 DEF TypeOK
    <2> QED
      BY <2>1 DEF MarkRecord
  <1>5. marks' = [marks EXCEPT ![c] = SubSeq(marks[c], 1, j + 1)]
    BY <1>1 DEF TypeOK
  <1>6. SetState(c, st)
    BY <1>1
  <1> HIDE DEF st
  <1>7. /\ marks' \in [Connections -> Seq(MarkRecord)]
        /\ \A d \in Connections : Len(marks'[d]) <= MaxMarks
        /\ \A d \in Connections \ {c} : marks'[d] = marks[d]
    BY <1>2, <1>5, CutMarksType
  <1>8. state' \in [Connections -> State]
    BY <1>3, <1>6, SetStateType
  <1>9. /\ statement[c] = FALSE
        /\ UNCHANGED <<disk, mode, statement, enlisted>>
    BY DEF RollbackToSavepoint, Writing, TypeOK
  <1>10. \A d \in Connections : statement'[d] => marks'[d] # <<>>
    BY <1>7, <1>9 DEF TypeOK
  <1>11. view' \in [Connections -> Storage]
    BY <1>1, <1>4 DEF TypeOK
  <1>12. SharedTypeOK'
    BY <1>7, <1>9, <1>10, <1>11, SplitType DEF SharedTypeOK
  <1> QED
    BY <1>8, <1>12, SplitType

LEMMA RollbackToBeginType ==
  ASSUME TypeOK, NEW c \in Connections, RollbackToBegin(c)
  PROVE  TypeOK'
PROOF
  <1> DEFINE st == IF enlisted[c] THEN RollbackToStart(state[c]).st ELSE state[c]
  <1>1. st \in State
    BY StateType, RollbackToStartType DEF ReadResult
  <1>2. /\ view' = [view EXCEPT ![c] = disk]
        /\ marks' = [marks EXCEPT ![c] = <<>>]
        /\ SetState(c, st)
        /\ UNCHANGED <<disk, mode, statement, enlisted>>
        /\ ~statement[c]
    BY DEF RollbackToBegin, Writing
  <1> HIDE DEF st
  <1>3. state' \in [Connections -> State]
    BY <1>1, <1>2, SetStateType
  <1>4. <<>> \in Seq(MarkRecord) /\ Len(<<>>) = 0 /\ 0 <= MaxMarks
    BY TableAssumption
  <1>5. SharedTypeOK'
    BY <1>2, <1>4, SplitType DEF SharedTypeOK
  <1> QED
    BY <1>3, <1>5, SplitType

LEMMA AbortToType ==
  ASSUME TypeOK, NEW c \in Connections, NEW j \in 0 .. TopMark(c),
         NEW back \in ReadResult, AbortTo(c, j, back)
  PROVE  TypeOK'
PROOF
  <1> DEFINE released == IF enlisted[c] THEN Release(back.st, j) ELSE back.st
  <1>1. j + 1 \in 1 .. Len(marks[c]) /\ j \in 0 .. Len(marks[c])
    BY MarkIndex
  <1>2. back.st \in State /\ released \in State /\ RolledBack(back.st) \in State
    BY ReleaseType, RolledBackType DEF ReadResult
  <1>3. CASE back.ok
    <2>1. /\ view' = [view EXCEPT ![c] = marks[c][j + 1].storage]
          /\ marks' = [marks EXCEPT ![c] = SubSeq(marks[c], 1, j)]
          /\ statement' = [statement EXCEPT ![c] = FALSE]
          /\ SetState(c, released)
          /\ UNCHANGED <<disk, mode, enlisted>>
      BY <1>3 DEF AbortTo, TypeOK
    <2> HIDE DEF released
    <2>2. marks[c][j + 1].storage \in Storage
      <3>1. marks[c][j + 1] \in MarkRecord
        BY <1>1 DEF TypeOK
      <3> QED
        BY <3>1 DEF MarkRecord
    <2>3. /\ marks' \in [Connections -> Seq(MarkRecord)]
          /\ \A d \in Connections : Len(marks'[d]) <= MaxMarks
          /\ \A d \in Connections \ {c} : marks'[d] = marks[d]
      BY <1>1, <2>1, CutMarksType
    <2>4. state' \in [Connections -> State]
      BY <1>2, <2>1, SetStateType
    <2>5. SharedTypeOK'
      BY <2>1, <2>2, <2>3, SplitType DEF SharedTypeOK
    <2> QED
      BY <2>4, <2>5, SplitType
  <1>4. CASE ~back.ok
    BY <1>2, <1>4, StateType, EndType DEF AbortTo
  <1> QED
    BY <1>3, <1>4

LEMMA AbortStatementType ==
  ASSUME TypeOK, NEW c \in Connections, AbortStatement(c)
  PROVE  TypeOK'
PROOF
  <1> DEFINE j == TopMark(c)
             back == IF enlisted[c] THEN RollbackTo(state[c], j)
                                    ELSE Result(TRUE, state[c])
  <1>1. j \in 0 .. TopMark(c) /\ j \in Mark
    BY MarkIndex DEF AbortStatement
  <1>2. back \in ReadResult
    BY <1>1, StateType, RollbackToType DEF Result, ReadResult
  <1>3. AbortTo(c, j, back)
    BY DEF AbortStatement
  <1> HIDE DEF j, back
  <1> QED
    BY <1>1, <1>2, <1>3, AbortToType DEF j

LEMMA CommitSyncedType ==
  ASSUME TypeOK, NEW c \in Connections, NEW synced \in WriteResult,
         CommitSynced(c, synced)
  PROVE  TypeOK'
PROOF
  <1>1. synced.st \in State /\ synced.s \in Storage
    BY DEF WriteResult
  <1>2. RolledBack(synced.st) \in State /\ Committed(synced.st) \in State
    BY <1>1, RolledBackType, CommittedType
  <1>3. \/ Ended(c, disk) /\ SetState(c, RolledBack(synced.st))
        \/ /\ view' = [view EXCEPT ![c] = synced.s]
           /\ SetState(c, synced.st)
           /\ UNCHANGED <<disk, mode, marks, statement, enlisted>>
        \/ Ended(c, synced.s) /\ SetState(c, Committed(synced.st))
    BY DEF CommitSynced
  <1>4. CASE Ended(c, disk) /\ SetState(c, RolledBack(synced.st))
    BY <1>2, <1>4, StateType, EndType
  <1>5. CASE /\ view' = [view EXCEPT ![c] = synced.s]
             /\ SetState(c, synced.st)
             /\ UNCHANGED <<disk, mode, marks, statement, enlisted>>
    <2>1. state' \in [Connections -> State]
      BY <1>1, <1>5, SetStateType
    <2>2. SharedTypeOK'
      BY <1>1, <1>5, SplitType DEF SharedTypeOK
    <2> QED
      BY <2>1, <2>2, SplitType
  <1>6. CASE Ended(c, synced.s) /\ SetState(c, Committed(synced.st))
    BY <1>1, <1>2, <1>6, EndType
  <1> QED
    BY <1>3, <1>4, <1>5, <1>6

LEMMA CommitType ==
  ASSUME TypeOK, NEW c \in Connections, Commit(c)
  PROVE  TypeOK'
PROOF
  <1>1. Sync(state[c], view[c]) \in WriteResult
    BY StateType, SyncType
  <1> QED
    BY <1>1, CommitSyncedType DEF Commit

LEMMA PartialSyncType ==
  ASSUME NEW st \in State, NEW s \in Storage
  PROVE  PartialSync(st, s) \subseteq State
PROOF
  <1>1. EnsureLoaded(st, s) \in State
    BY EnsureLoadedType
  <1>2. st.txn # None => Upgrade(st, s).st \in State
    BY UpgradeType DEF WriteResult
  <1> QED
    BY <1>1, <1>2 DEF PartialSync

LEMMA RolledBackEndType ==
  ASSUME TypeOK, NEW c \in Connections, Reopen(c) \/ CommitFails(c) \/ Rollback(c)
  PROVE  TypeOK'
PROOF
  <1>1. state[c] \in State /\ view[c] \in Storage /\ disk \in Storage
    BY StateType
  <1>2. CASE Reopen(c)
    BY <1>1, <1>2, OpenStorageType, EndType DEF Reopen
  <1>3. CASE CommitFails(c)
    <2>1. PICK st \in PartialSync(state[c], view[c]) : SetState(c, RolledBack(st))
      BY <1>3 DEF CommitFails
    <2>2. RolledBack(st) \in State
      BY <1>1, PartialSyncType, RolledBackType
    <2> QED
      BY <1>1, <1>3, <2>1, <2>2, EndType DEF CommitFails
  <1>4. CASE Rollback(c)
    <2>1. (IF enlisted[c] THEN RolledBack(state[c]) ELSE state[c]) \in State
      BY <1>1, RolledBackType
    <2> QED
      BY <1>1, <1>4, <2>1, EndType DEF Rollback
  <1> QED
    BY <1>2, <1>3, <1>4
-----------------------------------------------------------------------------
LEMMA NextType == TypeOK /\ [Next]_vars => TypeOK'
PROOF
  <1>1. SUFFICES ASSUME TypeOK, [Next]_vars PROVE TypeOK'
    OBVIOUS
  <1>2. CASE UNCHANGED vars
    BY <1>1, <1>2 DEF vars, TypeOK
  <1>3. CASE Next
    <2>1. PICK c \in Connections :
            \/ Reopen(c) \/ BeginRead(c) \/ EndRead(c) \/ BeginWrite(c)
            \/ Search(c) \/ Scan(c) \/ CatchUpFails(c)
            \/ Enlist(c) \/ InsertRow(c) \/ DeleteRow(c)
            \/ OpenSavepoint(c) \/ ReleaseSavepoint(c)
            \/ RollbackToSavepoint(c) \/ RollbackToBegin(c)
            \/ OpenStatement(c) \/ CloseStatement(c) \/ AbortStatement(c)
            \/ Commit(c) \/ CommitFails(c) \/ Rollback(c)
      BY <1>3 DEF Next
    <2> QED
      BY <1>1, <2>1, SnapshotType, ReadType, EnlistType, WriteType, PushMarkType,
         ReleaseMarksType, RollbackToSavepointType, RollbackToBeginType,
         AbortStatementType, CommitType, RolledBackEndType
  <1> QED
    BY <1>1, <1>2, <1>3

(* In every reachable state of the connections and the database each state *)
(* behind a mutex, each snapshot and each open savepoint has its type, and *)
(* a statement journal is one of the open savepoints.                      *)
THEOREM TypeCorrect == Spec => []TypeOK
PROOF
  BY InitType, NextType, PTL DEF Spec
-----------------------------------------------------------------------------
(* The delta chain never breaks.  xSync names a delta batch after the      *)
(* generation of the connection's own State, not after what it finds in    *)
(* storage, so the chain is whole only if the two agree whenever a commit  *)
(* is reached, through every savepoint, failed statement and busy COMMIT.  *)
(* A ROLLBACK TO after a busy COMMIT breaks that agreement (the run        *)
(* busy_rollback_to), so the theorem is about PartialAfterBusy = FALSE,    *)
(* which leaves out statements that fail after a busy COMMIT as well.      *)

(* The write lock has one holder. *)
OneWriter ==
  \A c, d \in Connections : mode[c] = "write" /\ mode[d] = "write" => c = d

(* The generation a connection would commit on is the one it sees, and so  *)
(* is that of every mark until xSync has written in this transaction.      *)
Agrees(c) ==
  /\ enlisted[c] => mode[c] = "write" /\ state[c].generation = view[c].generation
  /\ ~enlisted[c] => state[c].txn = None
  /\ marks[c] # <<>> => mode[c] = "write"
  /\ mode[c] = "write" =>
       /\ view[c].generation >= disk.generation
       /\ ~enlisted[c] => view[c].generation = disk.generation
       /\ view[c].generation = disk.generation =>
            \A j \in DOMAIN marks[c] : marks[c][j].storage.generation = disk.generation
GenerationsAgree == OneWriter /\ \A c \in Connections : Agrees(c)

(* ChainUnbroken, for the versions one connection can reach.               *)
Whole(c) ==
  /\ Chained(view[c])
  /\ \A j \in DOMAIN marks[c] : Chained(marks[c][j].storage)

ChainInv == TypeOK /\ ChainUnbroken /\ GenerationsAgree
-----------------------------------------------------------------------------
(* One version of the shadow tables. *)

(* Only the base, the deltas, their length and the generation matter.      *)
LEMMA SameChain ==
  ASSUME NEW s, NEW t, s.base = t.base, s.deltas = t.deltas,
         s.byteLen = t.byteLen, s.generation = t.generation
  PROVE  Chained(s) <=> Chained(t)
PROOF
  BY DEF Chained, BaseComplete, BaseBytes, HasDeltas, Stored

LEMMA ClaimedChain ==
  ASSUME NEW st, NEW s \in Storage, NEW id, Chained(s)
  PROVE  /\ Chained(Claimed(st, s, id)) /\ Claimed(st, s, id).generation = s.generation
         /\ Chained(Unclaimed(st, s, id)) /\ Unclaimed(st, s, id).generation = s.generation
PROOF
  <1> DEFINE with == [s EXCEPT !.ids = @ \cup {id}]
             without == [s EXCEPT !.ids = @ \ {id}]
  <1>1. /\ with.base = s.base /\ with.deltas = s.deltas
        /\ with.byteLen = s.byteLen /\ with.generation = s.generation
        /\ without.base = s.base /\ without.deltas = s.deltas
        /\ without.byteLen = s.byteLen /\ without.generation = s.generation
    BY DEF Storage
  <1>2. Claimed(st, s, id) \in {s, with} /\ Unclaimed(st, s, id) \in {s, without}
    BY DEF Claimed, Unclaimed
  <1> HIDE DEF with, without
  <1>3. Chained(with) /\ Chained(without)
    BY <1>1, SameChain
  <1> QED
    BY <1>1, <1>2, <1>3

(* A compaction starts a new chain: a base and no deltas.                  *)
LEMMA CompactionChain ==
  ASSUME NEW s \in Storage, NEW rows \in Rows, NEW g \in Generation,
         NEW rowCount \in Nat
  PROVE  LET t == RecordCompaction(WriteIndex(s, rows), g, ImageLen(rows), rowCount)
         IN  Chained(t) /\ t.generation = g
PROOF
  <1> DEFINE t == RecordCompaction(WriteIndex(s, rows), g, ImageLen(rows), rowCount)
  <1>1. /\ t.base = rows /\ t.deltas = NoDeltas /\ t.byteLen = ImageLen(rows)
        /\ t.generation = g
    BY DEF RecordCompaction, WriteIndex, Storage
  <1> HIDE DEF t
  <1>2. Stored(t) = {}
    BY <1>1 DEF Stored, NoDeltas
  <1>3. ~HasDeltas(t) /\ BaseBytes(t) = ImageLen(rows)
    BY <1>1, ImageLenType DEF HasDeltas, BaseBytes
  <1>4. BaseComplete(t)
    BY <1>1, <1>3 DEF BaseComplete
  <1>5. Contiguous(Stored(t))
    BY <1>2 DEF Contiguous
  <1>6. Chained(t)
    BY <1>2, <1>3, <1>4, <1>5 DEF Chained
  <1> QED
    BY <1>1, <1>6 DEF t

(* The greatest element of a set is the one that bounds it.                *)
LEMMA MaxOf ==
  ASSUME NEW S, S \subseteq Int, NEW m \in S, \A x \in S : x <= m
  PROVE  Max(S) = m
PROOF
  <1>1. Max(S) \in S /\ \A x \in S : x <= Max(S)
    BY MaxExists
  <1>2. Max(S) \in Int /\ m \in Int /\ m <= Max(S) /\ Max(S) <= m
    BY <1>1
  <1> QED
    BY <1>2

(* A delta named after the next generation extends the chain by one link.  *)
LEMMA DeltaChain ==
  ASSUME NEW s \in Storage, Chained(s), NEW cs \in Seq(Change),
         NEW g \in Generation, g = s.generation + 1,
         NEW rowCount, NEW bytes, NEW ops
  PROVE  /\ Chained(RecordDelta(WriteDelta(s, g, cs), g, rowCount, bytes, ops))
         /\ RecordDelta(WriteDelta(s, g, cs), g, rowCount, bytes, ops).generation = g
PROOF
  <1> DEFINE w == WriteDelta(s, g, cs)
             t == RecordDelta(w, g, rowCount, bytes, ops)
             length == IF s.byteLen >= 0 THEN -s.byteLen - 1 ELSE s.byteLen
             batch == BatchOf(s, cs)
  <1>1. batch # None
    <2>1. w \in Storage /\ w.deltas[g] = batch
      BY WriteDeltaType DEF WriteDelta, Storage, Deltas
    <2>2. BatchOf(s, cs) \in Batch
      BY BatchType
    <2> QED
      BY <2>2, BatchAssumption
  <1>2. /\ t.base = s.base /\ t.deltas = [s.deltas EXCEPT ![g] = batch]
        /\ t.byteLen = length /\ t.generation = g
    BY DEF RecordDelta, WriteDelta, Storage
  <1>3. s.byteLen \in Int /\ s.deltas \in [Generation -> Batch \cup {None}]
    BY DEF Storage, Deltas
  <1> HIDE DEF t, w, batch
  <1>4. Stored(t) = Stored(s) \cup {g}
    BY <1>1, <1>2, <1>3 DEF Stored
  <1>5. HasDeltas(t) /\ BaseBytes(t) = BaseBytes(s)
    BY <1>2, <1>3 DEF HasDeltas, BaseBytes
  <1>6. BaseComplete(t)
    BY <1>2, <1>5 DEF BaseComplete, Chained
  <1>7. s.generation \in Int /\ g \in Int /\ Stored(s) \subseteq Int
    BY DEF Storage, Generation, Stored
  <1>8. Stored(s) # {} => /\ s.generation \in Stored(s)
                          /\ \A d \in Stored(s) : d <= s.generation
    <2>1. SUFFICES ASSUME Stored(s) # {}
                   PROVE  /\ s.generation \in Stored(s)
                          /\ \A d \in Stored(s) : d <= s.generation
      OBVIOUS
    <2>2. Stored(s) \subseteq 0 .. MaxGeneration /\ 0 \in Int /\ MaxGeneration \in Int
      BY SizeAssumption DEF Stored, Generation
    <2>3. Max(Stored(s)) \in Stored(s) /\ \A d \in Stored(s) : d <= Max(Stored(s))
      BY <2>1, <2>2, MaxInRange
    <2> QED
      BY <2>1, <2>3 DEF Chained
  <1>9. Max(Stored(t)) = g
    <2>1. Stored(t) \subseteq Int /\ g \in Stored(t)
      BY <1>4, <1>7
    <2>2. \A x \in Stored(t) : x <= g
      BY <1>4, <1>7, <1>8
    <2> QED
      BY <2>1, <2>2, MaxOf
  <1>10. Contiguous(Stored(t))
    <2>1. Contiguous(Stored(s))
      BY DEF Chained
    <2>2. ASSUME NEW d \in Stored(t), NEW e \in Stored(t), NEW i \in d .. e
          PROVE  i \in Stored(t)
      <3>1. d \in Int /\ e \in Int /\ i \in Int /\ d <= i /\ i <= e
        BY <1>4, <1>7
      <3>2. CASE i = g
        BY <1>4, <3>2
      <3>3. CASE i # g
        <4>1. e <= g
          BY <1>4, <1>7, <1>8
        <4>2. i <= s.generation /\ d # g
          BY <1>7, <3>1, <3>3, <4>1
        <4>3. d \in Stored(s)
          BY <1>4, <4>2
        <4>4. s.generation \in Stored(s) /\ i \in d .. s.generation
          BY <1>7, <1>8, <3>1, <4>2, <4>3
        <4>5. i \in Stored(s)
          BY <2>1, <4>3, <4>4 DEF Contiguous
        <4> QED
          BY <1>4, <4>5
      <3> QED
        BY <3>2, <3>3
    <2> QED
      BY <2>2 DEF Contiguous
  <1>11. Stored(t) # {} /\ Max(Stored(t)) = t.generation
    BY <1>2, <1>4, <1>9
  <1>12. Chained(t)
    BY <1>5, <1>6, <1>10, <1>11 DEF Chained
  <1> QED
    BY <1>2, <1>12 DEF t, w

LEMMA UpgradedChain ==
  ASSUME NEW s \in Storage, Chained(s), NEW rows, NEW rowCount,
         NEW bytes, NEW ops
  PROVE  LET t == Upgraded(s, s.generation, rows, rowCount, bytes, ops)
         IN  Chained(t) /\ t.generation = s.generation
PROOF
  <1> DEFINE t == Upgraded(s, s.generation, rows, rowCount, bytes, ops)
  <1>1. /\ t.base = s.base /\ t.deltas = s.deltas /\ t.byteLen = s.byteLen
        /\ t.generation = s.generation
    BY DEF Upgraded, Storage
  <1> HIDE DEF t
  <1>2. Chained(t)
    BY <1>1, SameChain
  <1> QED
    BY <1>1, <1>2 DEF t

(* The tables a database may start with.                                   *)
LEMMA NewChain ==
  ASSUME NEW rows \in Rows
  PROVE  Chained(NewStorage(rows)) /\ Chained(LegacyStorage(rows))
PROOF
  <1>1. ASSUME NEW s, s.base = rows, s.deltas = NoDeltas, s.byteLen = ImageLen(rows)
        PROVE  Chained(s)
    <2>1. Stored(s) = {}
      BY <1>1 DEF Stored, NoDeltas
    <2>2. ~HasDeltas(s) /\ BaseBytes(s) = ImageLen(rows)
      BY <1>1, ImageLenType DEF HasDeltas, BaseBytes
    <2> QED
      BY <1>1, <2>1, <2>2 DEF Chained, BaseComplete, Contiguous
  <1>2. /\ NewStorage(rows).base = rows /\ NewStorage(rows).deltas = NoDeltas
        /\ NewStorage(rows).byteLen = ImageLen(rows)
    BY DEF NewStorage
  <1>3. /\ LegacyStorage(rows).base = rows /\ LegacyStorage(rows).deltas = NoDeltas
        /\ LegacyStorage(rows).byteLen = ImageLen(rows)
    BY <1>2 DEF LegacyStorage, NewStorage
  <1> QED
    BY <1>1, <1>2, <1>3

LEMMA LegacyDeltaChain ==
  ASSUME NEW rows \in Rows, NEW cs \in Seq(Change), MaxGeneration >= 2
  PROVE  Chained(LegacyWithDelta(rows, cs))
PROOF
  <1> DEFINE s == LegacyStorage(rows)
             w == WriteDelta(s, 2, cs)
             batch == BatchOf(s, cs)
             t == LegacyWithDelta(rows, cs)
  <1>1. 2 \in Generation /\ MaxGeneration >= 1
    BY SizeAssumption DEF Generation
  <1>2. s \in Storage
    BY <1>1, NewStorageType
  <1>3. s.base = rows /\ s.deltas = NoDeltas /\ s.byteLen = ImageLen(rows)
    BY DEF LegacyStorage, NewStorage
  <1>4. batch # None
    <2> HIDE DEF s
    <2> QED BY <1>2, BatchType, BatchAssumption
  <1>5. /\ t.base = rows /\ t.deltas = [NoDeltas EXCEPT ![2] = batch]
        /\ t.byteLen = -ImageLen(rows) - 1 /\ t.generation = 2
    <2> HIDE DEF s, batch
    <2>1. w \in Storage
      BY <1>1, <1>2, WriteDeltaType
    <2>2. w.base = rows /\ w.deltas = [NoDeltas EXCEPT ![2] = batch]
          /\ w.byteLen = ImageLen(rows)
      BY <1>2, <1>3 DEF WriteDelta, Storage, batch
    <2>3. t = [w EXCEPT !.generation = 2, !.byteLen = -w.byteLen - 1]
      BY DEF LegacyWithDelta, s
    <2> HIDE DEF w, t
    <2> QED
      BY <2>1, <2>2, <2>3 DEF Storage
  <1> HIDE DEF s, w, batch, t
  <1>6. Stored(t) = {2}
    BY <1>1, <1>4, <1>5 DEF Stored, NoDeltas
  <1>7. Max(Stored(t)) = 2
    BY <1>6, MaxOf
  <1>8. HasDeltas(t) /\ BaseBytes(t) = ImageLen(rows)
    BY <1>5, ImageLenType DEF HasDeltas, BaseBytes
  <1>9. BaseComplete(t)
    BY <1>5, <1>8 DEF BaseComplete
  <1>10. Contiguous(Stored(t))
    BY <1>6 DEF Contiguous
  <1>11. Chained(t)
    BY <1>5, <1>6, <1>7, <1>8, <1>9, <1>10 DEF Chained
  <1> QED
    BY <1>11 DEF t

LEMMA InitialChain ==
  ASSUME NEW s \in InitialStorage
  PROVE  Chained(s)
PROOF
  <1> DEFINE rows == {r \in Rows : Cardinality(Keys(r)) \in InitialCounts}
             stored(r) == {x \in Change :
                            \/ x.op = "insert" /\ x.vector # None /\ x.replaces
                            \/ x.id \in Keys(r) /\ x = DeleteOf(x.id)}
  <1>1. \/ \E r \in Rows : s = NewStorage(r) \/ s = LegacyStorage(r)
        \/ \E r \in Rows : s \in {LegacyWithDelta(r, <<x>>) : x \in stored(r)}
    BY DEF InitialStorage
  <1>2. ASSUME NEW r \in Rows, s \in {LegacyWithDelta(r, <<x>>) : x \in stored(r)}
        PROVE  Chained(s)
    <2>1. PICK x \in stored(r) : s = LegacyWithDelta(r, <<x>>)
      BY <1>2
    <2>2. <<x>> \in Seq(Change)
      BY <2>1
    <2> QED
      BY <2>1, <2>2, LegacyDeltaChain, TableAssumption
  <1> QED
    BY <1>1, <1>2, NewChain
-----------------------------------------------------------------------------
(* The generation of a State, through each callback. *)

LEMMA EnsureLoadedGeneration ==
  ASSUME NEW st \in State, NEW s \in Storage
  PROVE  /\ EnsureLoaded(st, s).generation \in {st.generation, s.generation}
         /\ st.index = None /\ EnsureLoaded(st, s).index # None =>
              EnsureLoaded(st, s).generation = s.generation
         /\ EnsureLoaded(st, s).txn = st.txn
PROOF
  <1>1. \A rows : Loaded(st, s, rows).generation = s.generation
    BY DEF Loaded, State
  <1>2. EnsureLoaded(st, s) = st \/ EnsureLoaded(st, s).generation = s.generation
    BY <1>1 DEF EnsureLoaded
  <1> QED
    BY <1>2, EnsureLoadedType

LEMMA LoadGeneration ==
  ASSUME NEW st \in State, NEW s \in Storage
  PROVE  /\ LoadResult(EnsureLoaded(st, s)).st = EnsureLoaded(st, s)
         /\ LoadResult(EnsureLoaded(st, s)).ok => EnsureLoaded(st, s).index # None
PROOF
  BY DEF LoadResult, Result

(* A refresh that succeeds outside a transaction takes the generation that *)
(* is stored; one that fails leaves a State at it or where it was.         *)
RefreshTo(fresh, st, s) ==
  /\ fresh.st.generation \in {st.generation, s.generation}
  /\ fresh.ok => fresh.st.generation = s.generation
  /\ fresh.st.txn = st.txn

LEMMA RefreshLegacyGeneration ==
  ASSUME NEW st \in State, NEW s \in Storage
  PROVE  RefreshTo(RefreshLegacy(st, s), st, s)
PROOF
  <1> DEFINE loaded == EnsureLoaded(Dropped(st), s)
             counted == Recounted(CaughtUp(st, s))
  <1>1. /\ Dropped(st) \in State /\ Dropped(st).index = None
        /\ Dropped(st).generation = st.generation /\ Dropped(st).txn = st.txn
    BY DroppedType DEF Dropped, State
  <1>2. counted.generation = s.generation /\ counted.txn = st.txn
    BY DEF Recounted, CaughtUp, State
  <1>3. RefreshTo(Result(TRUE, counted), st, s)
    <2> HIDE DEF counted
    <2> QED BY <1>2 DEF RefreshTo, Result
  <1>4. RefreshTo(LoadResult(loaded), st, s)
    <2>1. /\ loaded.generation \in {st.generation, s.generation}
          /\ loaded.index # None => loaded.generation = s.generation
          /\ loaded.txn = st.txn
      BY <1>1, EnsureLoadedGeneration
    <2>2. LoadResult(loaded).st = loaded /\ (LoadResult(loaded).ok => loaded.index # None)
      BY <1>1, LoadGeneration
    <2> HIDE DEF loaded
    <2> QED
      BY <2>1, <2>2 DEF RefreshTo
  <1>5. RefreshTo(Result(FALSE, Dropped(st)), st, s)
    BY <1>1 DEF RefreshTo, Result
  <1>6. s.generation = st.generation => RefreshTo(Result(TRUE, st), st, s)
    BY DEF RefreshTo, Result
  <1>7. \/ s.generation = st.generation /\ RefreshLegacy(st, s) = Result(TRUE, st)
        \/ RefreshLegacy(st, s) = Result(TRUE, counted)
        \/ RefreshLegacy(st, s) = Result(FALSE, Dropped(st))
        \/ RefreshLegacy(st, s) = LoadResult(loaded)
    BY DEF RefreshLegacy
  <1> HIDE DEF counted, loaded
  <1> QED
    BY <1>3, <1>4, <1>5, <1>6, <1>7

LEMMA RefreshCurrentGeneration ==
  ASSUME NEW st \in State, NEW s \in Storage
  PROVE  RefreshTo(RefreshCurrent(st, s), st, s)
PROOF
  <1>1. /\ Dropped(st) \in State
        /\ Dropped(st).generation = st.generation /\ Dropped(st).txn = st.txn
    BY DroppedType DEF Dropped, State
  <1>2. \A x \in State : Adopt(x, s).generation = s.generation /\ Adopt(x, s).txn = x.txn
    BY DEF Adopt, State
  <1>3. st.index # None => CaughtUp(st, s) \in State /\ CaughtUp(st, s).txn = st.txn
    BY CaughtUpType DEF CaughtUp, State
  <1>4. \A x \in State : x.txn = st.txn => RefreshTo(Result(TRUE, Adopt(x, s)), st, s)
    BY <1>2 DEF RefreshTo, Result
  <1>5. \/ RefreshCurrent(st, s) = Result(TRUE, Adopt(st, s))
        \/ RefreshCurrent(st, s) = Result(TRUE, Adopt(Dropped(st), s))
        \/ st.index # None /\ RefreshCurrent(st, s) = Result(TRUE, Adopt(CaughtUp(st, s), s))
        \/ RefreshCurrent(st, s) = Result(FALSE, Dropped(st))
    BY DEF RefreshCurrent
  <1>6. RefreshTo(Result(FALSE, Dropped(st)), st, s)
    BY <1>1 DEF RefreshTo, Result
  <1> QED
    BY <1>1, <1>3, <1>4, <1>5, <1>6

LEMMA RefreshGeneration ==
  ASSUME NEW st \in State, NEW s \in Storage
  PROVE  /\ st.txn = None => RefreshTo(Refresh(st, s), st, s)
         /\ st.txn # None => Refresh(st, s) = Result(TRUE, st)
PROOF
  <1> DEFINE moved == [Dropped(st) EXCEPT !.layout = "current"]
  <1>1. SUFFICES ASSUME st.txn = None PROVE RefreshTo(Refresh(st, s), st, s)
    BY DEF Refresh
  <1>2. moved \in State /\ moved.generation = st.generation /\ moved.txn = st.txn
    BY DEF Dropped, State
  <1>3. \/ Refresh(st, s) = RefreshLegacy(st, s)
        \/ Refresh(st, s) = RefreshCurrent(moved, s)
        \/ Refresh(st, s) = Result(FALSE, st)
        \/ Refresh(st, s) = RefreshCurrent(st, s)
    BY <1>1 DEF Refresh
  <1> HIDE DEF moved
  <1>4. RefreshTo(RefreshCurrent(moved, s), moved, s)
    BY <1>2, RefreshCurrentGeneration
  <1>5. RefreshTo(RefreshCurrent(moved, s), st, s)
    BY <1>2, <1>4 DEF RefreshTo
  <1>6. RefreshTo(Result(FALSE, st), st, s)
    BY DEF RefreshTo, Result
  <1> QED
    BY <1>3, <1>5, <1>6, RefreshLegacyGeneration, RefreshCurrentGeneration

(* What a read leaves: the transaction as it was, and a State at the       *)
(* stored generation if it was there.                                      *)
ReadKeeps(new, st, s) ==
  /\ new.txn = st.txn
  /\ st.generation = s.generation => new.generation = s.generation

LEMMA RefreshKeeps ==
  ASSUME NEW st \in State, NEW s \in Storage
  PROVE  ReadKeeps(Refresh(st, s).st, st, s)
PROOF
  <1>1. CASE st.txn = None
    BY <1>1, RefreshGeneration DEF RefreshTo, ReadKeeps
  <1>2. CASE st.txn # None
    BY <1>2, RefreshGeneration DEF Result, ReadKeeps
  <1> QED
    BY <1>1, <1>2

(* A load after the refresh changes neither. *)
LEMMA LoadKeeps ==
  ASSUME NEW st \in State, NEW s \in Storage
  PROVE  /\ Refresh(st, s).st \in State
         /\ ReadKeeps(EnsureLoaded(Refresh(st, s).st, s), st, s)
PROOF
  <1> DEFINE fresh == Refresh(st, s).st
  <1>1. fresh \in State
    BY RefreshType DEF ReadResult
  <1>2. ReadKeeps(fresh, st, s)
    BY RefreshKeeps
  <1> HIDE DEF fresh
  <1>3. ReadKeeps(EnsureLoaded(fresh, s), st, s)
    BY <1>1, <1>2, EnsureLoadedGeneration DEF ReadKeeps
  <1> QED
    BY <1>1, <1>3 DEF fresh

LEMMA ReadsKeep ==
  ASSUME NEW st \in State, NEW s \in Storage
  PROVE  /\ ReadKeeps(Searched(st, s).st, st, s)
         /\ ReadKeeps(Scanned(st, s), st, s)
         /\ ReadKeeps(Prepare(st, s).st, st, s)
PROOF
  <1>1. Searched(st, s).st \in {Refresh(st, s).st, EnsureLoaded(Refresh(st, s).st, s)}
    BY DEF Searched, SearchedAfter, LoadResult, Result
  <1>2. Scanned(st, s) \in {Refresh(st, s).st, EnsureLoaded(Refresh(st, s).st, s)}
    BY DEF Scanned, ScannedAfter
  <1>3. Prepare(st, s).st \in {Refresh(st, s).st, EnsureLoaded(Refresh(st, s).st, s)}
    BY DEF Prepare, PreparedAfter, LoadResult, Result
  <1> QED
    BY <1>1, <1>2, <1>3, RefreshKeeps, LoadKeeps

LEMMA BeginGeneration ==
  ASSUME NEW st \in State, NEW s \in Storage, st.txn = None
  PROVE  /\ Begin(st, s).ok => Begin(st, s).st.generation = s.generation
         /\ ~Begin(st, s).ok => Begin(st, s).st.txn = None
PROOF
  <1> DEFINE fresh == Refresh(st, s)
  <1>1. fresh.st \in State
    BY RefreshType DEF ReadResult
  <1>2. fresh.ok => fresh.st.generation = s.generation
    BY RefreshGeneration DEF RefreshTo
  <1>3. fresh.st.txn = None
    BY RefreshGeneration DEF RefreshTo
  <1>4. Begin(st, s) = IF fresh.ok THEN Result(TRUE, EnsureTxn(fresh.st)) ELSE fresh
    BY DEF Begin, BegunAfter
  <1> HIDE DEF fresh
  <1>5. EnsureTxn(fresh.st).generation = fresh.st.generation
    BY <1>1 DEF EnsureTxn, State
  <1> QED
    BY <1>2, <1>3, <1>4, <1>5 DEF Result

(* The callbacks that only touch the transaction and the index.            *)
LEMMA EnsureTxnKeeps ==
  ASSUME NEW st \in State
  PROVE  /\ EnsureTxn(st).generation = st.generation
         /\ EnsureCheckpoint(st).generation = st.generation
PROOF
  <1>1. EnsureTxn(st).generation = st.generation
    BY DEF EnsureTxn, State
  <1>2. EnsureTxn(st) \in State
    BY EnsureTxnType
  <1>3. \A cp : [EnsureTxn(st) EXCEPT !.txn.checkpoint = cp].generation
                  = EnsureTxn(st).generation
    BY <1>2 DEF State
  <1>4. EnsureCheckpoint(st).generation = EnsureTxn(st).generation
    BY <1>3 DEF EnsureCheckpoint
  <1> QED
    BY <1>1, <1>4

LEMMA SetIdKeeps ==
  ASSUME NEW st \in State, NEW id, NEW value
  PROVE  SetId(st, id, value).generation = st.generation
PROOF
  BY DEF SetId, State

LEMMA LoggedKeeps ==
  ASSUME NEW st \in State, NEW change
  PROVE  Logged(st, change).generation = st.generation
PROOF
  <1>1. EnsureTxn(st) \in State /\ EnsureTxn(st).generation = st.generation
    BY EnsureTxnType, EnsureTxnKeeps
  <1> QED
    BY <1>1 DEF Logged, State

LEMMA MarksKeep ==
  ASSUME NEW st \in State, NEW j
  PROVE  /\ Savepoint(st, j).generation = st.generation
         /\ Release(st, j).generation = st.generation
PROOF
  <1>1. EnsureTxn(st) \in State /\ EnsureTxn(st).generation = st.generation
    BY EnsureTxnType, EnsureTxnKeeps
  <1>2. Savepoint(st, j).generation = st.generation
    BY <1>1 DEF Savepoint, State
  <1>3. Release(st, j).generation = st.generation
    BY DEF Release, State
  <1> QED
    BY <1>2, <1>3

LEMMA RestoreKeeps ==
  ASSUME NEW st \in State, NEW n
  PROVE  RestoreTo(st, n).st.generation = st.generation
PROOF
  <1>1. \A index, checkpoint :
          Truncated(st, n, index, checkpoint).st.generation = st.generation
    BY DEF Truncated, Result, State
  <1>2. \A ok : Result(ok, st).st.generation = st.generation
    BY DEF Result
  <1>3. \A ok, index :
          Result(ok, [st EXCEPT !.index = index, !.txn = None]).st.generation = st.generation
    BY DEF Result, State
  <1>4. \A ok : Result(ok, [st EXCEPT !.txn = None]).st.generation = st.generation
    BY DEF Result, State
  <1>5. RestoreFromCheckpoint(st, n).st.generation = st.generation
    BY <1>1, <1>4 DEF RestoreFromCheckpoint
  <1>6. RestoreTail(st, n).st.generation = st.generation
    BY <1>1, <1>2, <1>3 DEF RestoreTail
  <1> QED
    BY <1>2, <1>5, <1>6 DEF RestoreTo

LEMMA ResetKeeps ==
  ASSUME NEW restored, restored.st \in State, NEW keep
  PROVE  Reset(restored, keep).st.generation = restored.st.generation
PROOF
  BY DEF Reset, Result, State

LEMMA RollbackKeeps ==
  ASSUME NEW st \in State
  PROVE  /\ \A j \in Mark : RollbackTo(st, j).st.generation = st.generation
         /\ RollbackToStart(st).st.generation = st.generation
PROOF
  <1>1. \A n \in Nat : RestoreTo(st, n).st \in State
    BY RestoreToType DEF KeptResult, ReadResult
  <1>2. \A n \in Nat : \A keep : Reset(RestoreTo(st, n), keep).st.generation = st.generation
    BY <1>1, ResetKeeps, RestoreKeeps
  <1>3. RollbackToStart(st).st.generation = st.generation
    BY <1>2 DEF RollbackToStart
  <1>4. ASSUME NEW j \in Mark
        PROVE  RollbackTo(st, j).st.generation = st.generation
    <2>1. CASE st.txn = None \/ st.txn.savepoints[j] = None
      BY <2>1 DEF RollbackTo, Result
    <2>2. CASE ~(st.txn = None \/ st.txn.savepoints[j] = None)
      <3>1. st.txn.savepoints[j] \in Nat
        BY <2>2 DEF State, Txn
      <3> QED
        BY <1>2, <2>2, <3>1 DEF RollbackTo
    <2> QED
      BY <2>1, <2>2
  <1> QED
    BY <1>3, <1>4
-----------------------------------------------------------------------------
(* The callbacks that write. *)

(* A State at the stored generation stays there, and the chain is whole.   *)
InStep(result, s) ==
  /\ result.st.generation = s.generation
  /\ result.s.generation = s.generation
  /\ Chained(result.s)

LEMMA InsertedKeeps ==
  ASSUME NEW st \in State, NEW id \in Rowid, NEW vector \in Vector, NEW exists \in BOOLEAN
  PROVE  /\ Inserted(EnsureTxn(st), id, vector, exists).generation = st.generation
         /\ Inserted(EnsureCheckpoint(st), id, vector, exists).generation = st.generation
PROOF
  <1>1. \A open \in State : Inserted(open, id, vector, exists).generation = open.generation
    <2>1. SUFFICES ASSUME NEW open \in State
                   PROVE  Inserted(open, id, vector, exists).generation = open.generation
      OBVIOUS
    <2>2. SetId(open, id, vector) \in State /\ SetId(open, id, vector).generation = open.generation
      BY SetIdType, SetIdKeeps
    <2> QED
      BY <2>2, LoggedKeeps DEF Inserted
  <1> QED
    BY <1>1, EnsureTxnType, EnsureCheckpointType, EnsureTxnKeeps

LEMMA InsertInStep ==
  ASSUME NEW st0 \in State, NEW s \in Storage, NEW id \in Rowid,
         NEW vector \in Vector, NEW replace \in BOOLEAN,
         st0.generation = s.generation, Chained(s)
  PROVE  InStep(Insert(st0, s, id, vector, replace), s)
PROOF
  <1> DEFINE ready == Prepare(st0, s)
             st == ready.st
             exists == Exists(st, s, id)
  <1>1. st \in State /\ st.generation = s.generation
    BY PrepareType, ReadsKeep DEF ReadResult, ReadKeeps
  <1>2. Chained(Claimed(st, s, id)) /\ Claimed(st, s, id).generation = s.generation
    BY ClaimedChain
  <1>3. exists \in BOOLEAN
    BY ExistsType
  <1>4. \/ Insert(st0, s, id, vector, replace) = Written(FALSE, st, s)
        \/ Insert(st0, s, id, vector, replace) = Written(FALSE, st, Claimed(st, s, id))
        \/ Insert(st0, s, id, vector, replace)
             = Written(TRUE, Inserted(EnsureTxn(st), id, vector, exists), Claimed(st, s, id))
        \/ Insert(st0, s, id, vector, replace)
             = Written(TRUE, Inserted(EnsureCheckpoint(st), id, vector, exists),
                       Claimed(st, s, id))
    BY DEF Insert, InsertAfter, InsertPrepared
  <1> HIDE DEF ready, st, exists
  <1> QED
    BY <1>1, <1>2, <1>3, <1>4, InsertedKeeps DEF InStep, Written

LEMMA DeleteInStep ==
  ASSUME NEW st0 \in State, NEW s \in Storage, NEW id \in Rowid,
         st0.generation = s.generation, Chained(s)
  PROVE  InStep(Delete(st0, s, id), s)
PROOF
  <1> DEFINE ready == Prepare(st0, s)
             st == ready.st
             cleared == SetId(EnsureCheckpoint(st), id, None)
  <1>1. st \in State /\ st.generation = s.generation
    BY PrepareType, ReadsKeep DEF ReadResult, ReadKeeps
  <1>2. Chained(Unclaimed(st, s, id)) /\ Unclaimed(st, s, id).generation = s.generation
    BY ClaimedChain
  <1>3. cleared \in State /\ cleared.generation = st.generation
    <2> HIDE DEF st
    <2>1. EnsureCheckpoint(st) \in State /\ EnsureCheckpoint(st).generation = st.generation
      BY <1>1, EnsureCheckpointType, EnsureTxnKeeps
    <2> QED
      BY <2>1, SetIdType, SetIdKeeps
  <1>4. \/ Delete(st0, s, id) = Written(FALSE, st, s)
        \/ Delete(st0, s, id) = Written(FALSE, st, Unclaimed(st, s, id))
        \/ Delete(st0, s, id) = Written(TRUE, Logged(st, DeleteOf(id)), Unclaimed(st, s, id))
        \/ Delete(st0, s, id) = Written(TRUE, Logged(cleared, DeleteOf(id)), Unclaimed(st, s, id))
    BY DEF Delete, DeleteAfter, DeletePrepared
  <1> HIDE DEF ready, st, cleared
  <1> QED
    BY <1>1, <1>2, <1>3, <1>4, LoggedKeeps DEF InStep, Written

(* What writing the pending changes leaves: State and storage in step, one *)
(* generation on, and nothing left to write.                               *)
OneOn(result, s) ==
  result.ok => /\ result.st.generation = result.s.generation
               /\ Chained(result.s)
               /\ result.s.generation = s.generation + 1
               /\ ~result.st.dirty

LEMMA SyncedKeeps ==
  ASSUME NEW st \in State, NEW generation, NEW rowCount
  PROVE  /\ Synced(st, generation, rowCount).generation = generation
         /\ ~Synced(st, generation, rowCount).dirty
PROOF
  BY DEF Synced, State

LEMMA CompactionInStep ==
  ASSUME NEW st \in State, st.txn \in Txn, NEW s \in Storage, NEW rowCount \in Nat,
         st.generation = s.generation, st.generation # MaxGeneration
  PROVE  OneOn(SyncCompaction(st, s, rowCount), s)
PROOF
  <1> DEFINE loaded == EnsureLoaded(st, s)
             generation == st.generation + 1
             fresh == [loaded EXCEPT !.baseBytes = ImageLen(loaded.index),
                                     !.deltaBytes = 0, !.deltaOps = 0]
             stored == RecordCompaction(WriteIndex(s, loaded.index), generation,
                                        ImageLen(loaded.index), rowCount)
  <1>1. loaded \in State
    BY EnsureLoadedType
  <1>2. generation \in Generation /\ generation = s.generation + 1
        /\ generation # s.generation
    BY SizeAssumption DEF Generation, State
  <1>3. loaded.index # None => Chained(stored) /\ stored.generation = generation
    <2>1. loaded.index # None => loaded.index \in Rows
      BY <1>1 DEF State
    <2> HIDE DEF loaded, generation
    <2> QED BY <1>2, <2>1, CompactionChain
  <1>4. loaded.index # None => /\ Synced(fresh, generation, rowCount).generation = generation
                               /\ ~Synced(fresh, generation, rowCount).dirty
    <2>1. ImageLen(loaded.index) \in Nat
      BY ImageLenType
    <2>2. fresh \in State
      <3> DEFINE zero == 0
                 length == ImageLen(loaded.index)
      <3>1. zero \in Int /\ length \in Nat
        BY <2>1
      <3>2. fresh = [loaded EXCEPT !.baseBytes = length, !.deltaBytes = zero, !.deltaOps = zero]
        OBVIOUS
      <3> HIDE DEF zero, length, fresh, loaded
      <3> QED
        BY <1>1, <3>1, <3>2 DEF State
    <2> HIDE DEF fresh, generation
    <2> QED BY <2>2, SyncedKeeps
  <1>5. \/ SyncCompaction(st, s, rowCount) = Written(FALSE, loaded, s)
        \/ /\ loaded.index # None
           /\ SyncCompaction(st, s, rowCount)
                = Written(TRUE, Synced(fresh, generation, rowCount), stored)
    BY DEF SyncCompaction, Compact
  <1> HIDE DEF loaded, generation, fresh, stored
  <1> QED
    BY <1>2, <1>3, <1>4, <1>5 DEF OneOn, Written

LEMMA DeltaInStep ==
  ASSUME NEW st \in State, NEW s \in Storage, NEW rowCount \in Nat,
         NEW deltaBytes \in Int, NEW deltaOps \in Int,
         st.generation = s.generation, st.generation # MaxGeneration, Chained(s)
  PROVE  OneOn(SyncDelta(st, s, rowCount, deltaBytes, deltaOps), s)
PROOF
  <1> DEFINE generation == st.generation + 1
             fresh == [st EXCEPT !.deltaBytes = deltaBytes, !.deltaOps = deltaOps]
             stored == RecordDelta(WriteDelta(s, generation, Unsynced(st)), generation,
                                   rowCount, deltaBytes, deltaOps)
  <1>1. generation \in Generation /\ generation = s.generation + 1
        /\ generation # s.generation
    BY SizeAssumption DEF Generation, State
  <1>2. Chained(stored) /\ stored.generation = generation
    <2>1. Unsynced(st) \in Seq(Change)
      BY LogType
    <2> HIDE DEF generation
    <2> QED BY <1>1, <2>1, DeltaChain
  <1>3. /\ Synced(fresh, generation, rowCount).generation = generation
        /\ ~Synced(fresh, generation, rowCount).dirty
    <2>1. fresh \in State
      BY DEF State
    <2> HIDE DEF fresh, generation
    <2> QED BY <2>1, SyncedKeeps
  <1>4. \/ SyncDelta(st, s, rowCount, deltaBytes, deltaOps) = Written(FALSE, st, s)
        \/ SyncDelta(st, s, rowCount, deltaBytes, deltaOps)
             = Written(TRUE, Synced(fresh, generation, rowCount), stored)
    BY DEF SyncDelta
  <1> HIDE DEF fresh, generation, stored
  <1> QED
    BY <1>1, <1>2, <1>3, <1>4 DEF OneOn, Written

LEMMA PendingInStep ==
  ASSUME NEW st \in State, st.txn \in Txn, NEW s \in Storage,
         st.generation = s.generation, st.generation # MaxGeneration, Chained(s)
  PROVE  OneOn(SyncPending(st, s), s)
PROOF
  <1> DEFINE pending == Unsynced(st)
             rowCount == st.rowCount + NetRows(pending)
             deltaBytes == st.deltaBytes + DeltaLen(pending)
             deltaOps == st.deltaOps + Len(pending)
  <1>1. rowCount \in Int /\ deltaBytes \in Int /\ deltaOps \in Int
    <2>1. pending \in Seq(Change)
      BY LogType
    <2>2. NetRows(pending) \in Int /\ DeltaLen(pending) \in Int
      BY <2>1, NetRowsType, DeltaLenType
    <2> HIDE DEF pending
    <2>3. Len(pending) \in Nat
      BY <2>1
    <2> QED
      BY <2>2, <2>3 DEF State
  <1>2. \/ SyncPending(st, s) = Written(FALSE, st, s)
        \/ ~(rowCount < 0) /\ SyncPending(st, s) = SyncCompaction(st, s, rowCount)
        \/ ~(rowCount < 0) /\ SyncPending(st, s) = SyncDelta(st, s, rowCount, deltaBytes, deltaOps)
    BY DEF SyncPending
  <1> HIDE DEF pending, rowCount, deltaBytes, deltaOps
  <1>3. OneOn(Written(FALSE, st, s), s)
    BY DEF OneOn, Written
  <1>4. ~(rowCount < 0) => rowCount \in Nat
    BY <1>1
  <1> QED
    BY <1>1, <1>2, <1>3, <1>4, CompactionInStep, DeltaInStep

LEMMA UpgradeInStep ==
  ASSUME NEW st \in State, st.txn # None, NEW s \in Storage,
         st.generation = s.generation, Chained(s), Upgrade(st, s).ok
  PROVE  /\ Chained(Upgrade(st, s).s)
         /\ Upgrade(st, s).s.generation = s.generation
PROOF
  <1> DEFINE loaded == EnsureLoaded(st, s)
             moved == [loaded EXCEPT !.layout = "current", !.txn.upgraded = TRUE]
             stored == Upgraded(s, loaded.generation, loaded.index, loaded.rowCount,
                                loaded.deltaBytes, loaded.deltaOps)
  <1>1. loaded.generation = s.generation
    BY EnsureLoadedType
  <1>2. Chained(stored) /\ stored.generation = s.generation
    <2> HIDE DEF loaded
    <2> QED BY <1>1, UpgradedChain
  <1>3. \/ Upgrade(st, s) = Written(FALSE, loaded, s)
        \/ Upgrade(st, s) = Written(TRUE, moved, stored)
    BY DEF Upgrade, UpgradeLoaded
  <1> HIDE DEF loaded, moved, stored
  <1> QED
    BY <1>2, <1>3 DEF Written

LEMMA SyncInStep ==
  ASSUME NEW st \in State, NEW s \in Storage, st.generation = s.generation, Chained(s)
  PROVE  \/ ~st.dirty /\ Sync(st, s) = Written(TRUE, st, s)
         \/ OneOn(Sync(st, s), s)
PROOF
  <1> DEFINE up == Upgrade(st, s)
  <1>1. CASE ~st.dirty
    BY <1>1 DEF Sync
  <1>2. CASE st.dirty /\ (st.generation = MaxGeneration \/ Unsynced(st) = <<>>)
    BY <1>2 DEF Sync, OneOn, Written
  <1>3. CASE st.dirty /\ ~(st.generation = MaxGeneration \/ Unsynced(st) = <<>>)
    <2>1. st.txn # None /\ st.txn \in Txn
      BY <1>3 DEF Unsynced, State
    <2>2. /\ up \in WriteResult
          /\ up.st.generation = st.generation
          /\ up.ok => up.st.txn \in Txn /\ Chained(up.s) /\ up.s.generation = s.generation
      BY <2>1, UpgradeType, UpgradeInStep
    <2>3. Sync(st, s) = IF st.layout = "legacy" THEN SyncUpgraded(up)
                                                ELSE SyncPending(st, s)
      BY <1>3 DEF Sync
    <2> HIDE DEF up
    <2>4. OneOn(SyncPending(st, s), s)
      BY <1>3, <2>1, PendingInStep
    <2>5. up.ok => OneOn(SyncPending(up.st, up.s), s)
      BY <1>3, <2>2, PendingInStep DEF WriteResult, OneOn
    <2>6. ~up.ok => OneOn(up, s)
      BY DEF OneOn
    <2> QED
      BY <2>3, <2>4, <2>5, <2>6 DEF SyncUpgraded
  <1> QED
    BY <1>1, <1>2, <1>3
-----------------------------------------------------------------------------
(* The end of a transaction leaves none. *)

LEMMA NoTransaction ==
  ASSUME NEW st \in State, NEW s \in Storage
  PROVE  /\ RolledBack(st).txn = None
         /\ OpenStorage(s).txn = None
         /\ ~st.dirty => Committed(st).txn = None
PROOF
  <1>1. RolledBack(st).txn = None
    BY DEF RolledBack, State
  <1>2. OpenStorage(s).txn = None
    <2>1. 0 \in Generation /\ Unread(s).txn = None
      BY SizeAssumption DEF Generation, Unread
    <2>2. Unread(s) \in State
      BY <2>1 DEF Unread, State, Storage
    <2>3. Adopt(Unread(s), s).txn = None
      BY <2>1, <2>2 DEF Adopt, State
    <2> QED
      BY <2>1, <2>2, <2>3, EnsureLoadedType DEF OpenStorage
  <1>3. ~st.dirty => Committed(st).txn = None
    BY DEF Committed, State
  <1> QED
    BY <1>1, <1>2, <1>3
-----------------------------------------------------------------------------
(* The invariant, connection by connection. *)

LEMMA ChainParts ==
  /\ ChainInv <=> /\ TypeOK /\ Chained(disk) /\ OneWriter
                  /\ \A c \in Connections : Whole(c) /\ Agrees(c)
  /\ ChainInv' <=> /\ TypeOK' /\ Chained(disk)' /\ OneWriter'
                   /\ \A c \in Connections : Whole(c)' /\ Agrees(c)'
PROOF
  BY DEF ChainInv, ChainUnbroken, GenerationsAgree, Whole

LEMMA InitChain == Init => ChainInv
PROOF
  <1>1. SUFFICES ASSUME Init PROVE ChainInv
    OBVIOUS
  <1>2. TypeOK
    BY <1>1, InitType
  <1>3. Chained(disk)
    BY <1>1, InitialChain DEF Init
  <1>4. ASSUME NEW c \in Connections PROVE Whole(c) /\ Agrees(c)
    <2>1. /\ view[c] = disk /\ marks[c] = <<>> /\ mode[c] = "idle" /\ ~enlisted[c]
          /\ state[c] = OpenStorage(disk)
      BY <1>1 DEF Init
    <2>2. state[c].txn = None
      BY <1>2, <2>1, StateType, NoTransaction
    <2>3. DOMAIN marks[c] = {}
      BY <2>1
    <2> QED
      BY <1>3, <2>1, <2>2, <2>3 DEF Whole, Agrees
  <1>5. OneWriter
    BY <1>1 DEF Init, OneWriter
  <1> QED
    BY <1>2, <1>3, <1>4, <1>5, ChainParts

(* A step that moves one connection and keeps the file and the lock.       *)
LEMMA OneMoves ==
  ASSUME ChainInv, TypeOK', NEW c \in Connections,
         UNCHANGED <<disk, mode>>,
         \A d \in Connections \ {c} :
           /\ view'[d] = view[d] /\ marks'[d] = marks[d]
           /\ enlisted'[d] = enlisted[d] /\ state'[d] = state[d],
         Whole(c)', Agrees(c)'
  PROVE  ChainInv'
PROOF
  <1>1. Chained(disk)' /\ OneWriter'
    BY ChainParts DEF OneWriter
  <1>2. ASSUME NEW d \in Connections \ {c} PROVE Whole(d)' /\ Agrees(d)'
    <2>1. Whole(d) /\ Agrees(d)
      BY ChainParts
    <2>2. Whole(d)'
      BY <2>1 DEF Whole
    <2>3. Agrees(d)'
      BY <2>1 DEF Agrees
    <2> QED
      BY <2>2, <2>3
  <1> QED
    BY <1>1, <1>2, ChainParts

(* The end of a transaction: only the writer changes what is committed.    *)
LEMMA EndChain ==
  ASSUME ChainInv, TypeOK', NEW c \in Connections, NEW s \in Storage, NEW st \in State,
         Ended(c, s), SetState(c, st), st.txn = None,
         s = disk \/ (mode[c] = "write" /\ Chained(s))
  PROVE  ChainInv'
PROOF
  <1>1. TypeOK /\ Chained(disk) /\ OneWriter
    BY ChainParts
  <1>2. Chained(disk)'
    BY <1>1 DEF Ended
  <1>3. OneWriter'
    BY <1>1 DEF OneWriter, Ended, TypeOK
  <1>4. Whole(c)' /\ Agrees(c)'
    <2>1. /\ view'[c] = s /\ marks'[c] = <<>> /\ mode'[c] = "idle" /\ ~enlisted'[c]
          /\ state'[c] = st /\ disk' = s
      BY <1>1 DEF Ended, SetState, TypeOK
    <2>2. DOMAIN marks'[c] = {}
      BY <2>1
    <2> QED
      BY <1>2, <2>1, <2>2 DEF Whole, Agrees
  <1>5. ASSUME NEW d \in Connections \ {c} PROVE Whole(d)' /\ Agrees(d)'
    <2>1. Whole(d) /\ Agrees(d)
      BY ChainParts
    <2>2. /\ mode'[d] = mode[d] /\ marks'[d] = marks[d] /\ enlisted'[d] = enlisted[d]
          /\ state'[d] = state[d] /\ disk' = s
          /\ view'[d] = IF mode[d] = "idle" THEN s ELSE view[d]
      BY <1>1 DEF Ended, SetState, TypeOK
    <2>3. Whole(d)'
      BY <1>1, <1>2, <2>1, <2>2 DEF Whole
    <2>4. mode[d] = "write" => s = disk
      BY <1>1 DEF OneWriter
    <2>5. mode[d] = "write" => view'[d] = view[d]
      BY <2>2
    <2>6. Agrees(d)'
      BY <2>1, <2>2, <2>4, <2>5 DEF Agrees
    <2> QED
      BY <2>3, <2>6
  <1> QED
    BY <1>2, <1>3, <1>4, <1>5, ChainParts
-----------------------------------------------------------------------------
(* The actions, in the order of Next. *)

LEMMA SnapshotChain ==
  ASSUME ChainInv, NEW c \in Connections, BeginRead(c) \/ EndRead(c) \/ BeginWrite(c)
  PROVE  ChainInv'
PROOF
  <1>1. TypeOK /\ Chained(disk) /\ OneWriter /\ \A d \in Connections : Whole(d) /\ Agrees(d)
    BY ChainParts
  <1>2. TypeOK'
    BY <1>1, SnapshotType
  <1>3. CASE BeginRead(c)
    <2>1. /\ UNCHANGED <<disk, view, marks, statement, enlisted, state>>
          /\ \A d \in Connections : mode'[d] = IF d = c THEN "read" ELSE mode[d]
          /\ mode[c] = "idle"
      BY <1>1, <1>3 DEF BeginRead, TypeOK
    <2>2. Chained(disk)' /\ \A d \in Connections : Whole(d)'
      BY <1>1, <2>1 DEF Whole
    <2>3. OneWriter' /\ \A d \in Connections : Agrees(d)'
      BY <1>1, <2>1 DEF OneWriter, Agrees
    <2> QED
      BY <1>2, <2>2, <2>3, ChainParts
  <1>4. CASE EndRead(c)
    <2>1. /\ state[c] \in State /\ disk \in Storage /\ state[c].txn = None
          /\ SetState(c, state[c])
      BY <1>1, <1>4, StateType DEF EndRead, Agrees, SetState, TypeOK
    <2> QED
      BY <1>2, <1>4, <2>1, EndChain DEF EndRead
  <1>5. CASE BeginWrite(c)
    <2>1. /\ UNCHANGED <<disk, view, marks, statement, enlisted, state>>
          /\ \A d \in Connections : mode'[d] = IF d = c THEN "write" ELSE mode[d]
          /\ \A d \in Connections : mode[d] # "write"
          /\ view[c] = disk
      BY <1>1, <1>5 DEF BeginWrite, TypeOK
    <2>2. Chained(disk)' /\ \A d \in Connections : Whole(d)'
      BY <1>1, <2>1 DEF Whole
    <2>3. OneWriter'
      BY <2>1 DEF OneWriter
    <2>4. \A d \in Connections \ {c} : Agrees(d)'
      BY <1>1, <2>1 DEF Agrees
    <2>5. Agrees(c)'
      <3>1. ~enlisted[c] /\ marks[c] = <<>> /\ DOMAIN marks[c] = {}
        BY <1>1, <2>1 DEF Agrees
      <3>2. disk.generation >= disk.generation
        BY <1>1 DEF TypeOK, Storage, Generation
      <3> QED
        BY <1>1, <2>1, <3>1, <3>2 DEF Agrees
    <2> QED
      BY <1>2, <2>2, <2>3, <2>4, <2>5, ChainParts
  <1> QED
    BY <1>3, <1>4, <1>5

(* A step of one instance's state that keeps its transaction.              *)
LEMMA OnlyStateChain ==
  ASSUME ChainInv, NEW c \in Connections, NEW st \in State, SetState(c, st),
         ReadKeeps(st, state[c], view[c]),
         UNCHANGED <<disk, mode, view, marks, statement, enlisted>>
  PROVE  ChainInv'
PROOF
  <1>1. TypeOK /\ Whole(c) /\ Agrees(c)
    BY ChainParts
  <1>2. TypeOK'
    BY <1>1, OnlyStateType
  <1>3. \A d \in Connections : state'[d] = IF d = c THEN st ELSE state[d]
    BY <1>1 DEF SetState, TypeOK
  <1>4. Whole(c)'
    BY <1>1 DEF Whole
  <1>5. Agrees(c)'
    BY <1>1, <1>3 DEF Agrees, ReadKeeps
  <1> QED
    BY <1>2, <1>3, <1>4, <1>5, OneMoves

LEMMA ReadChain ==
  ASSUME ChainInv, NEW c \in Connections, Search(c) \/ Scan(c) \/ CatchUpFails(c)
  PROVE  ChainInv'
PROOF
  <1>1. state[c] \in State /\ view[c] \in Storage
    BY ChainParts, StateType
  <1>2. /\ Searched(state[c], view[c]).st \in State
        /\ Scanned(state[c], view[c]) \in State
        /\ Dropped(state[c]) \in State
    BY <1>1, SearchedType, ScannedType, DroppedType DEF ReadResult
  <1>3. ReadKeeps(Dropped(state[c]), state[c], view[c])
    BY <1>1 DEF ReadKeeps, Dropped, State
  <1>4. /\ ReadKeeps(Searched(state[c], view[c]).st, state[c], view[c])
        /\ ReadKeeps(Scanned(state[c], view[c]), state[c], view[c])
    BY <1>1, ReadsKeep
  <1> QED
    BY <1>2, <1>3, <1>4, OnlyStateChain DEF Search, Scan, CatchUpFails

LEMMA EnlistChain ==
  ASSUME ChainInv, NEW c \in Connections, Enlist(c)
  PROVE  ChainInv'
PROOF
  <1> DEFINE begun == Begin(state[c], view[c])
             st == IF begun.ok /\ marks[c] # <<>>
                   THEN Savepoint(begun.st, TopMark(c)) ELSE begun.st
  <1>1. TypeOK /\ Whole(c) /\ Agrees(c)
    BY ChainParts
  <1>2. TypeOK'
    BY <1>1, EnlistType
  <1>3. /\ state[c] \in State /\ view[c] \in Storage /\ state[c].txn = None
        /\ mode[c] = "write" /\ ~enlisted[c]
    BY <1>1, StateType DEF Enlist, Agrees
  <1>4. /\ begun.ok => begun.st.generation = view[c].generation
        /\ ~begun.ok => begun.st.txn = None
        /\ begun.st \in State /\ begun.ok \in BOOLEAN
    BY <1>3, BeginGeneration, BeginType DEF ReadResult
  <1>5. /\ SetState(c, st)
        /\ enlisted' = [enlisted EXCEPT ![c] = begun.ok]
        /\ UNCHANGED <<disk, mode, view, marks, statement>>
    BY DEF Enlist, EnlistBegun
  <1> HIDE DEF begun
  <1>6. /\ begun.ok => st.generation = view[c].generation
        /\ ~begun.ok => st.txn = None
    BY <1>4, MarksKeep
  <1> HIDE DEF st
  <1>7. /\ \A d \in Connections : state'[d] = IF d = c THEN st ELSE state[d]
        /\ \A d \in Connections : enlisted'[d] = IF d = c THEN begun.ok ELSE enlisted[d]
    BY <1>1, <1>5 DEF SetState, TypeOK
  <1>8. Whole(c)'
    BY <1>1, <1>5 DEF Whole
  <1>9. Agrees(c)'
    BY <1>1, <1>3, <1>5, <1>6, <1>7 DEF Agrees
  <1> QED
    BY <1>2, <1>5, <1>7, <1>8, <1>9, OneMoves

LEMMA UpdateChain ==
  ASSUME ChainInv, NEW c \in Connections, NEW result \in WriteResult,
         Update(c, result), InStep(result, view[c])
  PROVE  ChainInv'
PROOF
  <1>1. TypeOK /\ Whole(c) /\ Agrees(c)
    BY ChainParts
  <1>2. TypeOK'
    BY <1>1, UpdateType
  <1>3. /\ \A d \in Connections : state'[d] = IF d = c THEN result.st ELSE state[d]
        /\ \A d \in Connections : view'[d] = IF d = c THEN result.s ELSE view[d]
        /\ UNCHANGED <<disk, mode, marks, statement, enlisted>>
        /\ mode[c] = "write" /\ enlisted[c]
    BY <1>1 DEF Update, Updating, SetState, TypeOK
  <1>4. Whole(c)'
    BY <1>1, <1>3 DEF Whole, InStep
  <1>5. Agrees(c)'
    BY <1>1, <1>3 DEF Agrees, InStep
  <1> QED
    BY <1>2, <1>3, <1>4, <1>5, OneMoves

LEMMA WriteChain ==
  ASSUME ChainInv, NEW c \in Connections, InsertRow(c) \/ DeleteRow(c)
  PROVE  ChainInv'
PROOF
  <1>1. Updating(c)
    BY DEF InsertRow, DeleteRow, Update
  <1>2. /\ state[c] \in State /\ view[c] \in Storage /\ Chained(view[c])
        /\ state[c].generation = view[c].generation
    BY <1>1, ChainParts, StateType DEF Updating, Whole, Agrees
  <1>3. CASE InsertRow(c)
    <2>1. PICK id \in Rowid, vector \in Vector, replace \in BOOLEAN :
            Update(c, Insert(state[c], view[c], id, vector, replace))
      BY <1>3 DEF InsertRow
    <2>2. /\ Insert(state[c], view[c], id, vector, replace) \in WriteResult
          /\ InStep(Insert(state[c], view[c], id, vector, replace), view[c])
      BY <1>2, InsertType, InsertInStep
    <2> QED
      BY <2>1, <2>2, UpdateChain
  <1>4. CASE DeleteRow(c)
    <2>1. PICK id \in Rowid : Update(c, Delete(state[c], view[c], id))
      BY <1>4 DEF DeleteRow
    <2>2. /\ Delete(state[c], view[c], id) \in WriteResult
          /\ InStep(Delete(state[c], view[c], id), view[c])
      BY <1>2, DeleteType, DeleteInStep
    <2> QED
      BY <2>1, <2>2, UpdateChain
  <1> QED
    BY <1>3, <1>4

LEMMA PushMarkChain ==
  ASSUME ChainInv, NEW c \in Connections, OpenSavepoint(c) \/ OpenStatement(c)
  PROVE  ChainInv'
PROOF
  <1> DEFINE mark == [storage |-> view[c], rows |-> SeenRows(state[c], view[c])]
             st == IF enlisted[c] THEN Savepoint(state[c], Len(marks[c])) ELSE state[c]
  <1>1. TypeOK /\ Whole(c) /\ Agrees(c) /\ PushMark(c)
    BY ChainParts DEF OpenSavepoint, OpenStatement
  <1>2. TypeOK'
    BY <1>1, PushMarkType
  <1>3. st.generation = state[c].generation /\ (~enlisted[c] => st = state[c])
    BY <1>1, StateType, MarksKeep
  <1>4. mark.storage = view[c]
    OBVIOUS
  <1>5. /\ mode[c] = "write"
        /\ marks' = [marks EXCEPT ![c] = Append(marks[c], mark)]
        /\ SetState(c, st)
        /\ UNCHANGED <<disk, mode, view, enlisted>>
    BY <1>1 DEF PushMark, Writing, TypeOK
  <1> HIDE DEF mark, st
  <1>6. /\ \A d \in Connections : state'[d] = IF d = c THEN st ELSE state[d]
        /\ \A d \in Connections :
             marks'[d] = IF d = c THEN Append(marks[c], mark) ELSE marks[d]
    BY <1>1, <1>5 DEF SetState, TypeOK
  <1>7. \A j \in DOMAIN marks'[c] :
          marks'[c][j].storage = view[c] \/ (j \in DOMAIN marks[c] /\ marks'[c][j] = marks[c][j])
    <2>1. marks[c] \in Seq(MarkRecord)
      BY <1>1 DEF TypeOK
    <2>2. \A j \in DOMAIN Append(marks[c], mark) :
            \/ Append(marks[c], mark)[j] = mark
            \/ j \in DOMAIN marks[c] /\ Append(marks[c], mark)[j] = marks[c][j]
      BY <2>1
    <2> QED
      BY <1>4, <1>6, <2>2
  <1>8. Whole(c)'
    BY <1>1, <1>5, <1>7 DEF Whole
  <1>9. Agrees(c)'
    BY <1>1, <1>3, <1>5, <1>6, <1>7 DEF Agrees
  <1> QED
    BY <1>2, <1>5, <1>6, <1>8, <1>9, OneMoves

(* The first marks of a stack. *)
LEMMA FirstMarks ==
  ASSUME NEW m \in Seq(MarkRecord), NEW j \in 0 .. Len(m)
  PROVE  \A i \in DOMAIN SubSeq(m, 1, j) : i \in DOMAIN m /\ SubSeq(m, 1, j)[i] = m[i]
PROOF
  <1>1. j \in Int /\ j >= 0 /\ j <= Len(m) /\ Len(m) \in Nat /\ DOMAIN m = 1 .. Len(m)
    OBVIOUS
  <1>2. \A i \in 1 .. j : m[i] \in MarkRecord
    OBVIOUS
  <1>3. /\ Len(SubSeq(m, 1, j)) = j /\ SubSeq(m, 1, j) \in Seq(MarkRecord)
        /\ \A i \in 1 .. j : SubSeq(m, 1, j)[i] = m[i]
    BY <1>1, <1>2, SubSeqProperties
  <1>4. DOMAIN SubSeq(m, 1, j) = 1 .. j
    BY <1>3
  <1> QED
    BY <1>1, <1>3, <1>4

LEMMA ReleaseChain ==
  ASSUME ChainInv, NEW c \in Connections, ReleaseSavepoint(c) \/ CloseStatement(c)
  PROVE  ChainInv'
PROOF
  <1>1. TypeOK /\ Whole(c) /\ Agrees(c)
    BY ChainParts
  <1>2. TypeOK'
    BY <1>1, ReleaseMarksType
  <1>3. mode[c] = "write"
    BY <1>1 DEF ReleaseSavepoint, CloseStatement, Writing, Agrees, TypeOK
  <1>4. PICK j \in 0 .. TopMark(c) : ReleaseMark(c, j)
    BY <1>1, MarkIndex DEF ReleaseSavepoint, CloseStatement
  <1> DEFINE st == IF enlisted[c] THEN Release(state[c], j) ELSE state[c]
             cut == SubSeq(marks[c], 1, j)
  <1>5. st.generation = state[c].generation /\ (~enlisted[c] => st = state[c])
    BY <1>1, StateType, MarksKeep
  <1>6. /\ \A d \in Connections : marks'[d] = IF d = c THEN cut ELSE marks[d]
        /\ SetState(c, st)
        /\ UNCHANGED <<disk, mode, view, enlisted>>
    BY <1>1, <1>4 DEF ReleaseMark, TypeOK
  <1> HIDE DEF st
  <1>7. \A d \in Connections : state'[d] = IF d = c THEN st ELSE state[d]
    BY <1>1, <1>6 DEF SetState, TypeOK
  <1>8. \A i \in DOMAIN cut : i \in DOMAIN marks[c] /\ cut[i] = marks[c][i]
    BY <1>1, MarkIndex, FirstMarks DEF TypeOK
  <1> HIDE DEF cut
  <1>9. Whole(c)'
    BY <1>1, <1>6, <1>8 DEF Whole
  <1>10. Agrees(c)'
    BY <1>1, <1>3, <1>5, <1>6, <1>7, <1>8 DEF Agrees
  <1> QED
    BY <1>2, <1>6, <1>7, <1>9, <1>10, OneMoves

(* Going back to the storage of a mark, or to what is committed, and to as *)
(* many of the first marks as stay open, before xSync has written.         *)
LEMMA GoBack ==
  ASSUME ChainInv, TypeOK', NEW c \in Connections, NEW back \in Storage, NEW n \in 0 .. Len(marks[c]),
         NEW st,
         mode[c] = "write", view[c].generation = disk.generation,
         Chained(back), back.generation = disk.generation,
         st.generation = state[c].generation, ~enlisted[c] => st = state[c],
         SetState(c, st),
         view' = [view EXCEPT ![c] = back],
         marks' = [marks EXCEPT ![c] = SubSeq(marks[c], 1, n)],
         UNCHANGED <<disk, mode, enlisted>>
  PROVE  ChainInv'
PROOF
  <1> DEFINE cut == SubSeq(marks[c], 1, n)
  <1>1. TypeOK /\ Whole(c) /\ Agrees(c)
    BY ChainParts
  <1>2. \A i \in DOMAIN cut : i \in DOMAIN marks[c] /\ cut[i] = marks[c][i]
    BY <1>1, FirstMarks DEF TypeOK
  <1>3. /\ \A d \in Connections : state'[d] = IF d = c THEN st ELSE state[d]
        /\ \A d \in Connections : view'[d] = IF d = c THEN back ELSE view[d]
        /\ \A d \in Connections : marks'[d] = IF d = c THEN cut ELSE marks[d]
    BY <1>1 DEF SetState, TypeOK
  <1> HIDE DEF cut
  <1>4. Whole(c)'
    BY <1>1, <1>2, <1>3 DEF Whole
  <1>5. disk.generation >= disk.generation
    BY <1>1 DEF TypeOK, Storage, Generation
  <1>6. Agrees(c)'
    BY <1>1, <1>2, <1>3, <1>5 DEF Agrees
  <1> QED
    BY <1>3, <1>4, <1>6, OneMoves

(* The storage of a mark is one to go back to. *)
LEMMA MarkChain ==
  ASSUME ChainInv, NEW c \in Connections, NEW j \in 0 .. TopMark(c), mode[c] = "write",
         view[c].generation = disk.generation
  PROVE  /\ j \in Mark /\ j \in 0 .. Len(marks[c]) /\ j + 1 \in 0 .. Len(marks[c])
         /\ marks[c][j + 1].storage \in Storage
         /\ Chained(marks[c][j + 1].storage)
         /\ marks[c][j + 1].storage.generation = disk.generation
PROOF
  <1>1. TypeOK /\ Whole(c) /\ Agrees(c)
    BY ChainParts
  <1>2. j \in Mark /\ j + 1 \in 1 .. Len(marks[c]) /\ Len(marks[c]) \in Nat
    BY <1>1, MarkIndex
  <1>3. j + 1 \in DOMAIN marks[c] /\ marks[c][j + 1] \in MarkRecord
    BY <1>1, <1>2 DEF TypeOK
  <1>4. j \in 0 .. Len(marks[c]) /\ j + 1 \in 0 .. Len(marks[c])
    BY <1>2
  <1> QED
    BY <1>1, <1>2, <1>3, <1>4 DEF Whole, Agrees, MarkRecord

LEMMA RollbackToSavepointChain ==
  ASSUME ChainInv, PartialAfterBusy = FALSE, NEW c \in Connections, RollbackToSavepoint(c)
  PROVE  ChainInv'
PROOF
  <1>1. TypeOK /\ TypeOK' /\ mode[c] = "write" /\ view[c].generation = disk.generation
    BY ChainParts, RollbackToSavepointType DEF RollbackToSavepoint, Writing, PartialAllowed
  <1>2. PICK j \in 0 .. TopMark(c) :
          /\ view' = [view EXCEPT ![c] = marks[c][j + 1].storage]
          /\ marks' = [marks EXCEPT ![c] = SubSeq(@, 1, j + 1)]
          /\ SetState(c, IF enlisted[c] THEN RollbackTo(state[c], j).st ELSE state[c])
    BY DEF RollbackToSavepoint
  <1> DEFINE st == IF enlisted[c] THEN RollbackTo(state[c], j).st ELSE state[c]
             back == marks[c][j + 1].storage
  <1>3. /\ j \in Mark /\ j + 1 \in 0 .. Len(marks[c])
        /\ back \in Storage /\ Chained(back) /\ back.generation = disk.generation
    BY <1>1, MarkChain
  <1>4. st.generation = state[c].generation /\ (~enlisted[c] => st = state[c])
    BY <1>1, <1>3, StateType, RollbackKeeps
  <1>5. /\ marks' = [marks EXCEPT ![c] = SubSeq(marks[c], 1, j + 1)]
        /\ view' = [view EXCEPT ![c] = back]
        /\ SetState(c, st)
        /\ UNCHANGED <<disk, mode, enlisted>>
    BY <1>1, <1>2 DEF RollbackToSavepoint, TypeOK
  <1> HIDE DEF st, back
  <1> QED
    BY <1>1, <1>3, <1>4, <1>5, GoBack

LEMMA RollbackToBeginChain ==
  ASSUME ChainInv, PartialAfterBusy = FALSE, NEW c \in Connections, RollbackToBegin(c)
  PROVE  ChainInv'
PROOF
  <1> DEFINE st == IF enlisted[c] THEN RollbackToStart(state[c]).st ELSE state[c]
  <1>1. /\ TypeOK /\ TypeOK' /\ Chained(disk) /\ disk \in Storage
        /\ mode[c] = "write" /\ view[c].generation = disk.generation
    BY ChainParts, StateType, RollbackToBeginType DEF RollbackToBegin, Writing, PartialAllowed
  <1>2. st.generation = state[c].generation /\ (~enlisted[c] => st = state[c])
    BY <1>1, StateType, RollbackKeeps
  <1>3. /\ view' = [view EXCEPT ![c] = disk]
        /\ marks' = [marks EXCEPT ![c] = <<>>]
        /\ SetState(c, st)
        /\ UNCHANGED <<disk, mode, enlisted>>
    BY DEF RollbackToBegin
  <1> HIDE DEF st
  <1>4. 0 \in 0 .. Len(marks[c]) /\ SubSeq(marks[c], 1, 0) = <<>>
    <2>1. marks[c] \in Seq(MarkRecord)
      BY <1>1 DEF TypeOK
    <2> QED
      BY <2>1
  <1> QED
    BY <1>1, <1>2, <1>3, <1>4, GoBack

LEMMA AbortStatementChain ==
  ASSUME ChainInv, PartialAfterBusy = FALSE, NEW c \in Connections, AbortStatement(c)
  PROVE  ChainInv'
PROOF
  <1> DEFINE j == TopMark(c)
             back == IF enlisted[c] THEN RollbackTo(state[c], j)
                                    ELSE Result(TRUE, state[c])
             st == IF enlisted[c] THEN Release(back.st, j) ELSE back.st
             storage == marks[c][j + 1].storage
  <1>1. TypeOK /\ TypeOK' /\ Agrees(c)
    BY ChainParts, AbortStatementType
  <1>2. mode[c] = "write" /\ view[c].generation = disk.generation
    BY <1>1 DEF AbortStatement, PartialAllowed, Agrees, TypeOK
  <1>3. j \in 0 .. TopMark(c)
    BY <1>1, MarkIndex DEF AbortStatement
  <1>4. /\ j \in Mark /\ j \in 0 .. Len(marks[c])
        /\ storage \in Storage /\ Chained(storage) /\ storage.generation = disk.generation
    BY <1>2, <1>3, MarkChain
  <1>5. /\ back.st \in State /\ back.st.generation = state[c].generation
        /\ ~enlisted[c] => back = Result(TRUE, state[c]) /\ back.st = state[c]
    BY <1>1, <1>4, StateType, RollbackToType, RollbackKeeps DEF ReadResult, Result
  <1>6. st.generation = state[c].generation /\ (~enlisted[c] => st = state[c])
    <2> HIDE DEF back
    <2> QED BY <1>5, MarksKeep
  <1>7. AbortTo(c, j, back)
    BY DEF AbortStatement
  <1> HIDE DEF j, back, storage
  <1>8. CASE back.ok
    <2>1. /\ view' = [view EXCEPT ![c] = storage]
          /\ marks' = [marks EXCEPT ![c] = SubSeq(marks[c], 1, j)]
          /\ SetState(c, st)
          /\ UNCHANGED <<disk, mode, enlisted>>
      BY <1>1, <1>7, <1>8 DEF AbortTo, TypeOK, storage
    <2> HIDE DEF st
    <2> QED
      BY <1>1, <1>2, <1>4, <1>6, <2>1, GoBack
  <1>9. CASE ~back.ok
    <2>1. Ended(c, disk) /\ SetState(c, RolledBack(back.st))
      BY <1>7, <1>9 DEF AbortTo
    <2>2. disk \in Storage /\ RolledBack(back.st) \in State /\ RolledBack(back.st).txn = None
      BY <1>1, <1>5, StateType, RolledBackType, NoTransaction
    <2> QED
      BY <1>1, <2>1, <2>2, EndChain
  <1> QED
    BY <1>8, <1>9

LEMMA CommitChain ==
  ASSUME ChainInv, NEW c \in Connections, Commit(c)
  PROVE  ChainInv'
PROOF
  <1> DEFINE synced == Sync(state[c], view[c])
  <1>1. TypeOK /\ TypeOK' /\ Whole(c) /\ Agrees(c) /\ Chained(disk)
    BY ChainParts, CommitType
  <1>2. /\ state[c] \in State /\ view[c] \in Storage /\ disk \in Storage
        /\ mode[c] = "write" /\ enlisted[c]
        /\ state[c].generation = view[c].generation /\ Chained(view[c])
    BY <1>1, StateType DEF Commit, Updating, Whole, Agrees
  <1>3. synced.st \in State /\ synced.s \in Storage
    BY <1>2, SyncType DEF WriteResult
  <1>4. synced.ok =>
          /\ synced.st.generation = synced.s.generation /\ Chained(synced.s)
          /\ synced.s = view[c] \/ synced.s.generation = view[c].generation + 1
          /\ ~synced.st.dirty
    BY <1>2, SyncInStep DEF OneOn, Written
  <1>5. \/ Ended(c, disk) /\ SetState(c, RolledBack(synced.st))
        \/ /\ synced.ok
           /\ view' = [view EXCEPT ![c] = synced.s]
           /\ SetState(c, synced.st)
           /\ UNCHANGED <<disk, mode, marks, statement, enlisted>>
        \/ synced.ok /\ Ended(c, synced.s) /\ SetState(c, Committed(synced.st))
    BY DEF Commit, CommitSynced
  <1> HIDE DEF synced
  <1>6. CASE Ended(c, disk) /\ SetState(c, RolledBack(synced.st))
    BY <1>1, <1>2, <1>3, <1>6, RolledBackType, NoTransaction, EndChain
  <1>7. CASE /\ synced.ok
             /\ view' = [view EXCEPT ![c] = synced.s]
             /\ SetState(c, synced.st)
             /\ UNCHANGED <<disk, mode, marks, statement, enlisted>>
    <2>1. /\ \A d \in Connections : state'[d] = IF d = c THEN synced.st ELSE state[d]
          /\ \A d \in Connections : view'[d] = IF d = c THEN synced.s ELSE view[d]
      BY <1>1, <1>7 DEF SetState, TypeOK
    <2>2. Whole(c)'
      BY <1>1, <1>4, <1>7, <2>1 DEF Whole
    <2>3. /\ view[c].generation \in Int /\ disk.generation \in Int
          /\ view[c].generation >= disk.generation
      BY <1>1, <1>2 DEF Storage, Generation, Agrees
    <2>4. \/ synced.s = view[c]
          \/ synced.s.generation >= disk.generation /\ synced.s.generation # disk.generation
      BY <1>4, <1>7, <2>3
    <2>5. Agrees(c)'
      BY <1>1, <1>2, <1>4, <1>7, <2>1, <2>4 DEF Agrees
    <2> QED
      BY <1>1, <1>7, <2>1, <2>2, <2>5, OneMoves
  <1>8. CASE synced.ok /\ Ended(c, synced.s) /\ SetState(c, Committed(synced.st))
    BY <1>1, <1>2, <1>3, <1>4, <1>8, CommittedType, NoTransaction, EndChain
  <1> QED
    BY <1>5, <1>6, <1>7, <1>8

LEMMA RolledBackEndChain ==
  ASSUME ChainInv, NEW c \in Connections, Reopen(c) \/ CommitFails(c) \/ Rollback(c)
  PROVE  ChainInv'
PROOF
  <1>1. TypeOK /\ TypeOK' /\ Agrees(c)
    BY ChainParts, RolledBackEndType
  <1>2. state[c] \in State /\ view[c] \in Storage /\ disk \in Storage
    BY <1>1, StateType
  <1>3. CASE Reopen(c)
    BY <1>1, <1>2, <1>3, OpenStorageType, NoTransaction, EndChain DEF Reopen
  <1>4. CASE CommitFails(c)
    <2>1. PICK st \in PartialSync(state[c], view[c]) : SetState(c, RolledBack(st))
      BY <1>4 DEF CommitFails
    <2>2. st \in State
      BY <1>2, PartialSyncType
    <2>3. RolledBack(st) \in State /\ RolledBack(st).txn = None
      BY <1>2, <2>2, RolledBackType, NoTransaction
    <2> QED
      BY <1>1, <1>2, <1>4, <2>1, <2>3, EndChain DEF CommitFails
  <1>5. CASE Rollback(c)
    <2> DEFINE st == IF enlisted[c] THEN RolledBack(state[c]) ELSE state[c]
    <2>1. st \in State /\ st.txn = None
      BY <1>1, <1>2, RolledBackType, NoTransaction DEF Agrees
    <2>2. Ended(c, disk) /\ SetState(c, st)
      BY <1>5 DEF Rollback
    <2> HIDE DEF st
    <2> QED
      BY <1>1, <1>2, <2>1, <2>2, EndChain
  <1> QED
    BY <1>3, <1>4, <1>5
-----------------------------------------------------------------------------
LEMMA NextChain ==
  ASSUME PartialAfterBusy = FALSE
  PROVE  ChainInv /\ [Next]_vars => ChainInv'
PROOF
  <1>1. SUFFICES ASSUME ChainInv, [Next]_vars PROVE ChainInv'
    OBVIOUS
  <1>2. CASE UNCHANGED vars
    <2>1. TypeOK'
      BY <1>1, <1>2, ChainParts, NextType
    <2> QED
      BY <1>1, <1>2, <2>1, ChainParts DEF vars, OneWriter, Whole, Agrees
  <1>3. CASE Next
    <2>1. PICK c \in Connections :
            \/ Reopen(c) \/ BeginRead(c) \/ EndRead(c) \/ BeginWrite(c)
            \/ Search(c) \/ Scan(c) \/ CatchUpFails(c)
            \/ Enlist(c) \/ InsertRow(c) \/ DeleteRow(c)
            \/ OpenSavepoint(c) \/ ReleaseSavepoint(c)
            \/ RollbackToSavepoint(c) \/ RollbackToBegin(c)
            \/ OpenStatement(c) \/ CloseStatement(c) \/ AbortStatement(c)
            \/ Commit(c) \/ CommitFails(c) \/ Rollback(c)
      BY <1>3 DEF Next
    <2> QED
      BY <1>1, <2>1, SnapshotChain, ReadChain, EnlistChain, WriteChain, PushMarkChain,
         ReleaseChain, RollbackToSavepointChain, RollbackToBeginChain,
         AbortStatementChain, CommitChain, RolledBackEndChain
  <1> QED
    BY <1>1, <1>2, <1>3

(* When neither ROLLBACK TO nor the rollback of a failed statement follows *)
(* a busy COMMIT in its transaction, every version of the shadow tables    *)
(* that is committed, seen or could be gone back to has a whole base and   *)
(* an unbroken run of deltas up to its generation: read_index never meets  *)
(* a gap, and xSync never names a delta past one.                          *)
THEOREM ChainAlways ==
  ASSUME PartialAfterBusy = FALSE
  PROVE  Spec => []ChainUnbroken
PROOF
  <1>1. Init => ChainInv
    BY InitChain
  <1>2. ChainInv /\ [Next]_vars => ChainInv'
    BY NextChain
  <1>3. ChainInv => ChainUnbroken
    BY DEF ChainInv
  <1> QED
    BY <1>1, <1>2, <1>3, PTL DEF Spec
-----------------------------------------------------------------------------
(***************************************************************************)
(* The deltas never outgrow their budget.  xSync chooses between a delta   *)
(* and a compaction by the sizes the connection's own State remembers,     *)
(* never by what it finds in storage, so the budget holds only if every    *)
(* path that ends in a commit - a warm copy brought forward, a cold one    *)
(* that adopted _info, an upgrade, a rollback, a commit after a busy one - *)
(* left those sizes true.  Like the chain, they do not survive a           *)
(* ROLLBACK TO after a busy COMMIT; failed statements after one are left   *)
(* out with it (PartialAfterBusy = FALSE).                                 *)
(***************************************************************************)

(* What a State must know of the storage it is about to commit on.         *)
Sized(st, s) ==
  /\ st.layout = s.layout /\ st.generation = s.generation
  /\ st.baseBytes = BaseBytes(s) /\ st.deltaBytes = BytesUpTo(s, s.generation)
  /\ st.deltaOps = OpsUpTo(s, s.generation)
SameSizes(new, st) ==
  /\ new.layout = st.layout /\ new.generation = st.generation
  /\ new.baseBytes = st.baseBytes /\ new.deltaBytes = st.deltaBytes
  /\ new.deltaOps = st.deltaOps

(* Storage in the current layout records the length of its deltas and      *)
(* keeps it in budget.  Storage in the old one has never been written by   *)
(* this code: it is the storage the database started with.                 *)
InBudget(s) ==
  \/ BytesUpTo(s, s.generation) < MinDeltaBase
  \/ BytesUpTo(s, s.generation) < BaseBytes(s)
Balanced(s) ==
  /\ s.deltaBytes = BytesUpTo(s, s.generation)
  /\ s.deltaOps = OpsUpTo(s, s.generation) /\ InBudget(s)
Accounted(s, first) == IF s.layout = "legacy" THEN s = first ELSE Balanced(s)

(* A warm copy of a table in the old layout has the sizes of that storage. *)
Remembers(st, first) ==
  st.layout = "legacy" /\ st.index # None =>
    /\ st.generation = first.generation /\ st.baseBytes = BaseBytes(first)
    /\ st.deltaBytes = BytesUpTo(first, first.generation)
    /\ st.deltaOps = OpsUpTo(first, first.generation)

(* Two versions of storage that differ in their rows at most.              *)
SameFile(s, t) ==
  /\ s.layout = t.layout /\ s.generation = t.generation
  /\ s.byteLen = t.byteLen /\ s.deltas = t.deltas
  /\ s.deltaBytes = t.deltaBytes /\ s.deltaOps = t.deltaOps
-----------------------------------------------------------------------------
(* Sizes. *)

LEMMA SameFileSizes ==
  ASSUME NEW s, NEW t, SameFile(s, t)
  PROVE  /\ BaseBytes(s) = BaseBytes(t)
         /\ BytesUpTo(s, s.generation) = BytesUpTo(t, t.generation)
         /\ Balanced(s) <=> Balanced(t)
         /\ \A st : Sized(st, s) <=> Sized(st, t)
PROOF
  <1>1. BaseBytes(s) = BaseBytes(t) /\ Stored(s) = Stored(t)
    BY DEF SameFile, BaseBytes, HasDeltas, Stored
  <1>2. BytesUpTo(s, s.generation) = BytesUpTo(t, t.generation)
    BY <1>1 DEF SameFile, BytesUpTo
  <1>3. OpsUpTo(s, s.generation) = OpsUpTo(t, t.generation)
    BY <1>1 DEF SameFile, OpsUpTo
  <1> QED
    BY <1>1, <1>2, <1>3 DEF SameFile, Balanced, InBudget, Sized

LEMMA SizedRemembers ==
  ASSUME NEW st, NEW s, NEW first, Sized(st, s), Accounted(s, first)
  PROVE  Remembers(st, first)
PROOF
  BY DEF Sized, Accounted, Remembers

(* ensure_loaded either does nothing or takes the sizes from storage.      *)
LEMMA LoadSized ==
  ASSUME NEW st \in State, NEW s \in Storage
  PROVE  EnsureLoaded(st, s) = st \/ Sized(EnsureLoaded(st, s), s)
PROOF
  <1>1. \A rows : /\ Loaded(st, s, rows).layout = st.layout
                  /\ Loaded(st, s, rows).generation = s.generation
                  /\ Loaded(st, s, rows).baseBytes = BaseBytes(s)
                  /\ Loaded(st, s, rows).deltaBytes = BytesUpTo(s, s.generation)
                  /\ Loaded(st, s, rows).deltaOps = OpsUpTo(s, s.generation)
    BY DEF Loaded, State
  <1>2. Loadable(st, s) => st.layout = s.layout
    BY DEF Loadable
  <1> QED
    BY <1>1, <1>2 DEF EnsureLoaded, Sized

LEMMA AdoptSized ==
  ASSUME NEW st \in State, NEW s \in Storage, st.layout = "current",
         s.layout = "current", Balanced(s)
  PROVE  Sized(Adopt(st, s), s)
PROOF
  BY DEF Adopt, State, Sized, Balanced

(* A refresh that succeeds leaves the sizes that are stored, and one that  *)
(* fails no warm copy of the old layout with others.                       *)
RefreshSizes(fresh, st, s, first) ==
  /\ fresh.ok => Sized(fresh.st, s)
  /\ Remembers(fresh.st, first)
  /\ Sized(st, s) => Sized(fresh.st, s)

LEMMA RefreshLegacySizes ==
  ASSUME NEW st \in State, NEW s \in Storage, st.layout = "legacy", s.layout = "legacy",
         Remembers(st, s)
  PROVE  RefreshSizes(RefreshLegacy(st, s), st, s, s)
PROOF
  <1> DEFINE loaded == EnsureLoaded(Dropped(st), s)
  <1>1. /\ Dropped(st) \in State /\ Dropped(st).index = None /\ SameSizes(Dropped(st), st)
    BY DroppedType DEF Dropped, State, SameSizes
  <1>2. st.index # None => Sized(st, s) /\ ~CatchesUp(st, s)
    BY DEF Remembers, Sized, CatchesUp, State, Generation
  <1>3. RefreshLegacy(st, s) \in {Result(TRUE, st), LoadResult(loaded)}
        /\ (st.index = None => RefreshLegacy(st, s) = LoadResult(loaded))
    BY <1>2 DEF RefreshLegacy
  <1>4. st.index # None => RefreshSizes(Result(TRUE, st), st, s, s)
    BY <1>2 DEF RefreshSizes, Result, Remembers
  <1>5. RefreshSizes(LoadResult(loaded), st, s, s)
    <2>1. loaded = Dropped(st) \/ Sized(loaded, s)
      BY <1>1, LoadSized
    <2>2. LoadResult(loaded).st = loaded /\ (LoadResult(loaded).ok => loaded.index # None)
      BY <1>1, LoadGeneration
    <2>3. Sized(st, s) => Sized(Dropped(st), s)
      BY <1>1 DEF Sized, SameSizes
    <2> HIDE DEF loaded
    <2>4. Remembers(loaded, s)
      BY <1>1, <2>1 DEF Remembers, Sized
    <2> QED
      BY <1>1, <2>1, <2>2, <2>3, <2>4 DEF RefreshSizes
  <1> HIDE DEF loaded
  <1> QED
    BY <1>3, <1>4, <1>5

LEMMA RefreshCurrentSizes ==
  ASSUME NEW st \in State, NEW s \in Storage, st.layout = "current",
         s.layout = "current", Balanced(s), NEW first
  PROVE  RefreshSizes(RefreshCurrent(st, s), st, s, first)
PROOF
  <1>1. /\ Dropped(st) \in State /\ SameSizes(Dropped(st), st)
    BY DroppedType DEF Dropped, State, SameSizes
  <1>2. st.index # None => CaughtUp(st, s) \in State /\ CaughtUp(st, s).layout = "current"
    BY CaughtUpType DEF CaughtUp, State
  <1>3. ASSUME NEW x \in State, x.layout = "current"
        PROVE  RefreshSizes(Result(TRUE, Adopt(x, s)), st, s, first)
    <2>1. Sized(Adopt(x, s), s)
      BY <1>3, AdoptSized
    <2> QED
      BY <2>1 DEF RefreshSizes, Result, Sized, Remembers
  <1>4. RefreshSizes(Result(FALSE, Dropped(st)), st, s, first)
    BY <1>1 DEF RefreshSizes, Result, Sized, SameSizes, Remembers
  <1>5. \/ RefreshCurrent(st, s) = Result(TRUE, Adopt(st, s))
        \/ RefreshCurrent(st, s) = Result(TRUE, Adopt(Dropped(st), s))
        \/ st.index # None /\ RefreshCurrent(st, s) = Result(TRUE, Adopt(CaughtUp(st, s), s))
        \/ RefreshCurrent(st, s) = Result(FALSE, Dropped(st))
    BY DEF RefreshCurrent
  <1>6. Dropped(st).layout = "current"
    BY <1>1 DEF SameSizes
  <1> QED
    BY <1>1, <1>2, <1>3, <1>4, <1>5, <1>6

LEMMA RefreshedSizes ==
  ASSUME NEW st \in State, NEW s \in Storage, NEW first, Accounted(s, first),
         Remembers(st, first), st.txn = None
  PROVE  RefreshSizes(Refresh(st, s), st, s, first)
PROOF
  <1> DEFINE moved == [Dropped(st) EXCEPT !.layout = "current"]
  <1>1. moved \in State /\ moved.layout = "current"
    BY DEF Dropped, State
  <1> HIDE DEF moved
  <1>2. st.layout \in {"legacy", "current"} /\ s.layout \in {"legacy", "current"}
    BY DEF State, Storage
  <1>3. CASE st.layout = "legacy" /\ s.layout = "legacy"
    <2>1. s = first /\ Refresh(st, s) = RefreshLegacy(st, s)
      BY <1>3 DEF Accounted, Refresh
    <2> QED
      BY <1>3, <2>1, RefreshLegacySizes
  <1>4. CASE st.layout = "legacy" /\ s.layout = "current"
    <2>1. Balanced(s) /\ Refresh(st, s) = RefreshCurrent(moved, s) /\ ~Sized(st, s)
      BY <1>4 DEF Accounted, Refresh, Sized, moved
    <2>2. RefreshSizes(RefreshCurrent(moved, s), moved, s, first)
      BY <1>1, <1>4, <2>1, RefreshCurrentSizes
    <2> QED
      BY <2>1, <2>2 DEF RefreshSizes
  <1>5. CASE st.layout = "current" /\ s.layout = "legacy"
    <2>1. Refresh(st, s) = Result(FALSE, st)
      BY <1>5 DEF Refresh
    <2> QED
      BY <1>5, <2>1 DEF RefreshSizes, Result, Remembers
  <1>6. CASE st.layout = "current" /\ s.layout = "current"
    <2>1. Balanced(s) /\ Refresh(st, s) = RefreshCurrent(st, s)
      BY <1>6 DEF Accounted, Refresh
    <2> QED
      BY <1>6, <2>1, RefreshCurrentSizes
  <1> QED
    BY <1>2, <1>3, <1>4, <1>5, <1>6

(* What the reads leave, in a transaction and outside one.                 *)
LEMMA ReadsSized ==
  ASSUME NEW st \in State, NEW s \in Storage, NEW first, Accounted(s, first),
         NEW new \in {Searched(st, s).st, Scanned(st, s), Prepare(st, s).st, Dropped(st)}
  PROVE  /\ Sized(st, s) => Sized(new, s)
         /\ Remembers(st, first) /\ st.txn = None => Remembers(new, first)
PROOF
  <1> DEFINE fresh == Refresh(st, s).st
  <1>1. fresh \in State
    BY RefreshType DEF ReadResult
  <1>2. Searched(st, s).st \in {fresh, EnsureLoaded(fresh, s)}
    BY DEF Searched, SearchedAfter, LoadResult, Result
  <1>3. Scanned(st, s) \in {fresh, EnsureLoaded(fresh, s)}
    BY DEF Scanned, ScannedAfter
  <1>4. Prepare(st, s).st \in {fresh, EnsureLoaded(fresh, s)}
    BY DEF Prepare, PreparedAfter, LoadResult, Result
  <1>5. Sized(st, s) => Remembers(st, first)
    BY SizedRemembers
  <1>6. st.txn # None => fresh = st
    BY RefreshGeneration DEF Result
  <1>7. /\ Sized(st, s) => Sized(fresh, s)
        /\ Remembers(st, first) /\ st.txn = None => Remembers(fresh, first)
    BY <1>5, <1>6, RefreshedSizes DEF RefreshSizes
  <1> HIDE DEF fresh
  <1>8. EnsureLoaded(fresh, s) = fresh \/ Sized(EnsureLoaded(fresh, s), s)
    BY <1>1, LoadSized
  <1>9. Sized(EnsureLoaded(fresh, s), s) => Remembers(EnsureLoaded(fresh, s), first)
    BY SizedRemembers
  <1>10. /\ Sized(st, s) => Sized(Dropped(st), s)
         /\ Remembers(Dropped(st), first)
    BY DEF Dropped, State, Sized, Remembers
  <1> QED
    BY <1>2, <1>3, <1>4, <1>7, <1>8, <1>9, <1>10

LEMMA BeginSized ==
  ASSUME NEW st \in State, NEW s \in Storage, NEW first, Accounted(s, first),
         Remembers(st, first), st.txn = None
  PROVE  /\ Begin(st, s).ok => Sized(Begin(st, s).st, s)
         /\ ~Begin(st, s).ok => Remembers(Begin(st, s).st, first)
PROOF
  <1> DEFINE fresh == Refresh(st, s)
  <1>1. fresh.st \in State /\ RefreshSizes(fresh, st, s, first)
    BY RefreshType, RefreshedSizes DEF ReadResult
  <1>2. Begin(st, s) = IF fresh.ok THEN Result(TRUE, EnsureTxn(fresh.st)) ELSE fresh
    BY DEF Begin, BegunAfter
  <1> HIDE DEF fresh
  <1>3. fresh.ok => Sized(EnsureTxn(fresh.st), s)
    BY <1>1 DEF EnsureTxn, State, Sized, RefreshSizes
  <1> QED
    BY <1>1, <1>2, <1>3 DEF Result, RefreshSizes
-----------------------------------------------------------------------------
(* The callbacks that change the log, the marks and the index keep the     *)
(* sizes.                                                                  *)

LEMMA SameSizesSized ==
  ASSUME NEW new, NEW st, SameSizes(new, st)
  PROVE  \A s : Sized(st, s) => Sized(new, s)
PROOF
  BY DEF SameSizes, Sized

LEMMA TxnSizes ==
  ASSUME NEW st \in State
  PROVE  /\ SameSizes(EnsureTxn(st), st)
         /\ SameSizes(EnsureCheckpoint(st), st)
PROOF
  <1>1. SameSizes(EnsureTxn(st), st)
    BY DEF EnsureTxn, State, SameSizes
  <1>2. EnsureTxn(st) \in State
    BY EnsureTxnType
  <1>3. \A cp : SameSizes([EnsureTxn(st) EXCEPT !.txn.checkpoint = cp], EnsureTxn(st))
    BY <1>2 DEF State, SameSizes
  <1>4. SameSizes(EnsureCheckpoint(st), EnsureTxn(st))
    BY <1>3 DEF EnsureCheckpoint, SameSizes
  <1> QED
    BY <1>1, <1>4 DEF SameSizes

LEMMA SetIdSizes ==
  ASSUME NEW st \in State, NEW id, NEW value
  PROVE  SameSizes(SetId(st, id, value), st)
PROOF
  BY DEF SetId, State, SameSizes

LEMMA LoggedSizes ==
  ASSUME NEW st \in State, NEW change
  PROVE  SameSizes(Logged(st, change), st)
PROOF
  <1>1. EnsureTxn(st) \in State /\ SameSizes(EnsureTxn(st), st)
    BY EnsureTxnType, TxnSizes
  <1> QED
    BY <1>1 DEF Logged, State, SameSizes

LEMMA MarksSizes ==
  ASSUME NEW st \in State, NEW j
  PROVE  SameSizes(Savepoint(st, j), st) /\ SameSizes(Release(st, j), st)
PROOF
  <1>1. EnsureTxn(st) \in State /\ SameSizes(EnsureTxn(st), st)
    BY EnsureTxnType, TxnSizes
  <1>2. SameSizes(Savepoint(st, j), st)
    BY <1>1 DEF Savepoint, State, SameSizes
  <1>3. SameSizes(Release(st, j), st)
    BY DEF Release, State, SameSizes
  <1> QED
    BY <1>2, <1>3

LEMMA RestoreSizes ==
  ASSUME NEW st \in State, NEW n
  PROVE  SameSizes(RestoreTo(st, n).st, st)
PROOF
  <1>1. \A index, checkpoint : SameSizes(Truncated(st, n, index, checkpoint).st, st)
    BY DEF Truncated, Result, State, SameSizes
  <1>2. \A ok : SameSizes(Result(ok, st).st, st)
    BY DEF Result, SameSizes
  <1>3. \A ok, index :
          SameSizes(Result(ok, [st EXCEPT !.index = index, !.txn = None]).st, st)
    BY DEF Result, State, SameSizes
  <1>4. \A ok : SameSizes(Result(ok, [st EXCEPT !.txn = None]).st, st)
    BY DEF Result, State, SameSizes
  <1>5. SameSizes(RestoreFromCheckpoint(st, n).st, st)
    BY <1>1, <1>4 DEF RestoreFromCheckpoint
  <1>6. SameSizes(RestoreTail(st, n).st, st)
    BY <1>1, <1>2, <1>3 DEF RestoreTail
  <1> QED
    BY <1>2, <1>5, <1>6 DEF RestoreTo

LEMMA RollbackSizes ==
  ASSUME NEW st \in State
  PROVE  /\ \A j \in Mark : SameSizes(RollbackTo(st, j).st, st)
         /\ SameSizes(RollbackToStart(st).st, st)
PROOF
  <1>1. \A n \in Nat : RestoreTo(st, n).st \in State
    BY RestoreToType DEF KeptResult, ReadResult
  <1>2. ASSUME NEW restored, restored.st \in State, NEW keep
        PROVE  SameSizes(Reset(restored, keep).st, restored.st)
    BY <1>2 DEF Reset, Result, State, SameSizes
  <1>3. \A n \in Nat : \A keep : SameSizes(Reset(RestoreTo(st, n), keep).st, st)
    BY <1>1, <1>2, RestoreSizes DEF SameSizes
  <1>4. SameSizes(RollbackToStart(st).st, st)
    BY <1>3 DEF RollbackToStart
  <1>5. ASSUME NEW j \in Mark
        PROVE  SameSizes(RollbackTo(st, j).st, st)
    <2>1. CASE st.txn = None \/ st.txn.savepoints[j] = None
      BY <2>1 DEF RollbackTo, Result, SameSizes
    <2>2. CASE ~(st.txn = None \/ st.txn.savepoints[j] = None)
      <3>1. st.txn.savepoints[j] \in Nat
        BY <2>2 DEF State, Txn
      <3> QED
        BY <1>3, <2>2, <3>1 DEF RollbackTo
    <2> QED
      BY <2>1, <2>2
  <1> QED
    BY <1>4, <1>5
-----------------------------------------------------------------------------
(* xUpdate. *)

LEMMA ClaimedFile ==
  ASSUME NEW st, NEW s \in Storage, NEW id, NEW first, Accounted(s, first),
         st.layout = s.layout,
         NEW t \in {Claimed(st, s, id), Unclaimed(st, s, id)}
  PROVE  SameFile(t, s) /\ Accounted(t, first)
PROOF
  <1>1. \A ids : SameFile([s EXCEPT !.ids = ids], s)
    BY DEF Storage, SameFile
  <1>2. SameFile(s, s)
    BY DEF SameFile
  <1>3. SameFile(t, s) /\ (s.layout = "legacy" => t = s)
    BY <1>1, <1>2 DEF Claimed, Unclaimed
  <1> QED
    BY <1>3, SameFileSizes DEF Accounted, SameFile

(* A State that knew the sizes still does, of storage that is the same     *)
(* file.                                                                   *)
KeepsSizes(result, s, first) ==
  /\ Sized(result.st, result.s) /\ SameFile(result.s, s) /\ Accounted(result.s, first)

LEMMA WrittenSizes ==
  ASSUME NEW ok, NEW new, NEW st, NEW s, NEW t, NEW first,
         SameSizes(new, st), Sized(st, s), SameFile(t, s), Accounted(t, first)
  PROVE  KeepsSizes(Written(ok, new, t), s, first)
PROOF
  <1>1. Sized(new, t)
    BY SameSizesSized, SameFileSizes
  <1> QED
    BY <1>1 DEF KeepsSizes, Written

LEMMA InsertSizes ==
  ASSUME NEW st0 \in State, NEW s \in Storage, NEW id \in Rowid,
         NEW vector \in Vector, NEW replace \in BOOLEAN, NEW first,
         Sized(st0, s), Accounted(s, first)
  PROVE  KeepsSizes(Insert(st0, s, id, vector, replace), s, first)
PROOF
  <1> DEFINE ready == Prepare(st0, s)
             st == ready.st
             exists == Exists(st, s, id)
             new(open) == Inserted(open, id, vector, exists)
  <1>1. st \in State /\ Sized(st, s)
    BY PrepareType, ReadsSized DEF ReadResult
  <1>2. SameFile(Claimed(st, s, id), s) /\ Accounted(Claimed(st, s, id), first)
    BY <1>1, ClaimedFile DEF Sized
  <1>3. SameFile(s, s) /\ SameSizes(st, st)
    BY DEF SameFile, SameSizes
  <1>4. \/ Insert(st0, s, id, vector, replace) = Written(FALSE, st, s)
        \/ Insert(st0, s, id, vector, replace) = Written(FALSE, st, Claimed(st, s, id))
        \/ Insert(st0, s, id, vector, replace)
             = Written(TRUE, new(EnsureTxn(st)), Claimed(st, s, id))
        \/ Insert(st0, s, id, vector, replace)
             = Written(TRUE, new(EnsureCheckpoint(st)), Claimed(st, s, id))
    BY DEF Insert, InsertAfter, InsertPrepared
  <1> HIDE DEF ready, st, exists
  <1>5. ASSUME NEW open \in State PROVE SameSizes(new(open), open)
    <2>1. SetId(open, id, vector) \in State /\ SameSizes(SetId(open, id, vector), open)
      BY SetIdType, SetIdSizes
    <2> QED
      BY <2>1, LoggedSizes DEF Inserted, SameSizes
  <1>6. SameSizes(new(EnsureTxn(st)), st) /\ SameSizes(new(EnsureCheckpoint(st)), st)
    BY <1>1, <1>5, EnsureTxnType, EnsureCheckpointType, TxnSizes DEF SameSizes
  <1> HIDE DEF new
  <1> QED
    BY <1>1, <1>2, <1>3, <1>4, <1>6, WrittenSizes

LEMMA DeleteSizes ==
  ASSUME NEW st0 \in State, NEW s \in Storage, NEW id \in Rowid, NEW first,
         Sized(st0, s), Accounted(s, first)
  PROVE  KeepsSizes(Delete(st0, s, id), s, first)
PROOF
  <1> DEFINE ready == Prepare(st0, s)
             st == ready.st
             cleared == SetId(EnsureCheckpoint(st), id, None)
             new(open) == Logged(open, DeleteOf(id))
  <1>1. st \in State /\ Sized(st, s)
    BY PrepareType, ReadsSized DEF ReadResult
  <1>2. SameFile(Unclaimed(st, s, id), s) /\ Accounted(Unclaimed(st, s, id), first)
    BY <1>1, ClaimedFile DEF Sized
  <1>3. SameFile(s, s) /\ SameSizes(st, st)
    BY DEF SameFile, SameSizes
  <1>4. \/ Delete(st0, s, id) = Written(FALSE, st, s)
        \/ Delete(st0, s, id) = Written(FALSE, st, Unclaimed(st, s, id))
        \/ Delete(st0, s, id) = Written(TRUE, new(st), Unclaimed(st, s, id))
        \/ Delete(st0, s, id) = Written(TRUE, new(cleared), Unclaimed(st, s, id))
    BY DEF Delete, DeleteAfter, DeletePrepared
  <1>5. cleared \in State /\ SameSizes(cleared, st)
    <2> HIDE DEF st
    <2>1. EnsureCheckpoint(st) \in State /\ SameSizes(EnsureCheckpoint(st), st)
      BY <1>1, EnsureCheckpointType, TxnSizes
    <2> QED
      BY <2>1, SetIdType, SetIdSizes DEF SameSizes
  <1> HIDE DEF ready, st, cleared
  <1>6. SameSizes(new(st), st) /\ SameSizes(new(cleared), st)
    BY <1>1, <1>5, LoggedSizes DEF SameSizes
  <1> HIDE DEF new
  <1> QED
    BY <1>1, <1>2, <1>3, <1>4, <1>6, WrittenSizes
-----------------------------------------------------------------------------
(* xSync. *)

LEMMA UpgradeSizes ==
  ASSUME NEW st \in State, st.txn # None, NEW s \in Storage, Sized(st, s),
         Upgrade(st, s).ok
  PROVE  Sized(Upgrade(st, s).st, Upgrade(st, s).s)
PROOF
  <1> DEFINE loaded == EnsureLoaded(st, s)
             moved == [loaded EXCEPT !.layout = "current", !.txn.upgraded = TRUE]
             stored == Upgraded(s, loaded.generation, loaded.index, loaded.rowCount,
                                loaded.deltaBytes, loaded.deltaOps)
  <1>1. loaded \in State /\ Sized(loaded, s)
    BY EnsureLoadedType, LoadSized
  <1>2. /\ stored.layout = "current" /\ stored.generation = loaded.generation
        /\ stored.byteLen = s.byteLen /\ stored.deltas = s.deltas
    BY DEF Upgraded, Storage
  <1>3. /\ moved.layout = "current" /\ moved.generation = loaded.generation
        /\ moved.baseBytes = loaded.baseBytes /\ moved.deltaBytes = loaded.deltaBytes
        /\ moved.deltaOps = loaded.deltaOps
    <2> HIDE DEF loaded
    <2> QED BY <1>1 DEF State
  <1>4. \/ Upgrade(st, s) = Written(FALSE, loaded, s)
        \/ Upgrade(st, s) = Written(TRUE, moved, stored)
    BY DEF Upgrade, UpgradeLoaded
  <1> HIDE DEF loaded, moved, stored
  <1>5. BaseBytes(stored) = BaseBytes(s) /\ Stored(stored) = Stored(s)
    BY <1>2 DEF BaseBytes, HasDeltas, Stored
  <1>6. Sized(moved, stored)
    BY <1>1, <1>2, <1>3, <1>5 DEF Sized, BytesUpTo, OpsUpTo
  <1> QED
    BY <1>4, <1>6 DEF Written

(* What writing the pending changes leaves.                                *)
Settles(result) ==
  result.ok => Sized(result.st, result.s) /\ result.s.layout = "current" /\ Balanced(result.s)

(* A compaction leaves no deltas. *)
LEMMA CompactionSizes ==
  ASSUME NEW st \in State, st.txn \in Txn, NEW s \in Storage, NEW rowCount \in Nat,
         Sized(st, s), s.layout = "current", st.generation # MaxGeneration,
         MinDeltaBase > 0
  PROVE  Settles(SyncCompaction(st, s, rowCount))
PROOF
  <1> DEFINE loaded == EnsureLoaded(st, s)
             generation == st.generation + 1
             length == ImageLen(loaded.index)
             fresh == [loaded EXCEPT !.baseBytes = length, !.deltaBytes = 0, !.deltaOps = 0]
             new == Synced(fresh, generation, rowCount)
             stored == RecordCompaction(WriteIndex(s, loaded.index), generation,
                                        length, rowCount)
  <1>1. loaded \in State /\ loaded.layout = "current"
    BY EnsureLoadedType DEF Sized
  <1>2. length \in Nat
    BY ImageLenType
  <1>3. \/ SyncCompaction(st, s, rowCount) = Written(FALSE, loaded, s)
        \/ SyncCompaction(st, s, rowCount) = Written(TRUE, new, stored)
    BY DEF SyncCompaction, Compact
  <1>4. /\ stored.layout = "current" /\ stored.generation = generation
        /\ stored.byteLen = length /\ stored.deltas = NoDeltas /\ stored.deltaBytes = 0
        /\ stored.deltaOps = 0
    BY DEF RecordCompaction, WriteIndex, Storage
  <1> HIDE DEF loaded, generation, length
  <1>5. /\ new.layout = "current" /\ new.generation = generation
        /\ new.baseBytes = length /\ new.deltaBytes = 0 /\ new.deltaOps = 0
    <2>1. /\ fresh.layout = "current" /\ fresh.baseBytes = length /\ fresh.deltaBytes = 0
          /\ fresh.deltaOps = 0
          /\ DOMAIN fresh = DOMAIN loaded
      BY <1>1 DEF State
    <2> HIDE DEF fresh
    <2> QED BY <1>1, <2>1 DEF Synced, State
  <1> HIDE DEF fresh, new, stored
  <1>6. BaseBytes(stored) = length /\ Stored(stored) = {}
    BY <1>2, <1>4 DEF BaseBytes, HasDeltas, Stored, NoDeltas
  <1>7. BytesUpTo(stored, generation) = 0 /\ OpsUpTo(stored, generation) = 0
    BY <1>6 DEF BytesUpTo, OpsUpTo
  <1>8. Sized(new, stored) /\ Balanced(stored)
    BY <1>4, <1>5, <1>6, <1>7 DEF Sized, Balanced, InBudget
  <1> QED
    BY <1>3, <1>4, <1>8 DEF Settles, Written

(* The byte limit is at most the base, once the base may have deltas.      *)
LEMMA LimitWithinBase ==
  ASSUME NEW baseBytes \in Nat, baseBytes >= MinDeltaBase
  PROVE  ByteLimit(baseBytes) \in Int /\ ByteLimit(baseBytes) <= baseBytes
PROOF
  <1> DEFINE quarter == baseBytes \div 4
             low == Max({quarter, MinCompactionDelta})
             cap == Max({baseBytes, MinDeltaBase})
  <1>1. quarter \in Int /\ MinCompactionDelta \in Int /\ MinDeltaBase \in Int
    BY SizeAssumption
  <1>2. cap = baseBytes
    BY <1>1, MaxOf
  <1>3. low \in Int
    <2> HIDE DEF quarter
    <2>1. CASE quarter <= MinCompactionDelta
      BY <1>1, <2>1, MaxOf
    <2>2. CASE ~(quarter <= MinCompactionDelta)
      BY <1>1, <2>2, MaxOf
    <2> QED
      BY <2>1, <2>2
  <1>4. ByteLimit(baseBytes) = Min({low, cap})
    BY DEF ByteLimit
  <1> HIDE DEF low, cap
  <1>5. Min({low, cap}) \in {low, cap} /\ Min({low, cap}) <= cap
    <2>1. \E x \in {low, cap} : \A y \in {low, cap} : x <= y
      BY <1>2, <1>3
    <2> QED
      BY <2>1 DEF Min
  <1> QED
    BY <1>2, <1>3, <1>4, <1>5

(* The chain has nothing past the generation it ends at.                   *)
LEMMA AllUpTo ==
  ASSUME NEW s \in Storage, Chained(s)
  PROVE  /\ BytesUpTo(s, MaxGeneration) = BytesUpTo(s, s.generation)
         /\ OpsUpTo(s, MaxGeneration) = OpsUpTo(s, s.generation)
PROOF
  <1>1. Stored(s) \subseteq 0 .. MaxGeneration /\ 0 \in Int /\ MaxGeneration \in Int
    BY SizeAssumption DEF Stored, Generation
  <1>2. \A d \in Stored(s) : d <= s.generation
    <2>1. Stored(s) # {} => \A d \in Stored(s) : d <= Max(Stored(s))
      BY <1>1, MaxInRange
    <2> QED
      BY <2>1 DEF Chained
  <1>3. {d \in Stored(s) : d <= MaxGeneration} = {d \in Stored(s) : d <= s.generation}
    BY <1>1, <1>2
  <1> QED
    BY <1>3 DEF BytesUpTo, OpsUpTo

(* A delta within the limit: its batch carries the length of the run, and  *)
(* so does _info.                                                          *)
LEMMA DeltaSizes ==
  ASSUME NEW st \in State, NEW s \in Storage, NEW rowCount \in Nat,
         NEW deltaOps \in Int, deltaOps = st.deltaOps + Len(Unsynced(st)),
         NEW deltaBytes \in Int, deltaBytes = st.deltaBytes + DeltaLen(Unsynced(st)),
         Sized(st, s), Chained(s), s.layout = "current", st.generation # MaxGeneration,
         deltaBytes < ByteLimit(st.baseBytes), st.baseBytes >= MinDeltaBase
  PROVE  Settles(SyncDelta(st, s, rowCount, deltaBytes, deltaOps))
PROOF
  <1> DEFINE generation == st.generation + 1
             cs == Unsynced(st)
             fresh == [st EXCEPT !.deltaBytes = deltaBytes, !.deltaOps = deltaOps]
             new == Synced(fresh, generation, rowCount)
             batch == BatchOf(s, cs)
             length == IF s.byteLen >= 0 THEN -s.byteLen - 1 ELSE s.byteLen
             written == WriteDelta(s, generation, cs)
             stored == RecordDelta(written, generation, rowCount, deltaBytes, deltaOps)
  <1>1. generation \in Generation /\ generation = s.generation + 1
    BY SizeAssumption DEF Generation, State, Sized
  <1>2. cs \in Seq(Change)
    BY LogType
  <1>3. \/ SyncDelta(st, s, rowCount, deltaBytes, deltaOps) = Written(FALSE, st, s)
        \/ SyncDelta(st, s, rowCount, deltaBytes, deltaOps) = Written(TRUE, new, stored)
    BY DEF SyncDelta
  <1>4. /\ new.layout = st.layout /\ new.generation = generation
        /\ new.baseBytes = st.baseBytes /\ new.deltaBytes = deltaBytes
        /\ new.deltaOps = deltaOps
    <2>1. fresh \in State /\ fresh.layout = st.layout /\ fresh.baseBytes = st.baseBytes
          /\ fresh.deltaBytes = deltaBytes /\ fresh.deltaOps = deltaOps
      BY DEF State
    <2> HIDE DEF fresh, generation
    <2> QED BY <2>1 DEF Synced, State
  <1>5. batch \in Batch /\ batch # None /\ batch.bytes = deltaBytes /\ batch.ops = deltaOps
    <2> HIDE DEF cs
    <2>1. batch \in Batch /\ batch # None
      BY <1>2, BatchType, BatchAssumption
    <2>2. BytesUpTo(s, MaxGeneration) = st.deltaBytes
          /\ OpsUpTo(s, MaxGeneration) = st.deltaOps
      BY AllUpTo DEF Sized
    <2> QED
      BY <2>1, <2>2 DEF BatchOf, cs
  <1>6. /\ stored.layout = "current" /\ stored.generation = generation
        /\ stored.byteLen = length /\ stored.deltaBytes = deltaBytes
        /\ stored.deltaOps = deltaOps
        /\ stored.deltas = [s.deltas EXCEPT ![generation] = batch]
    BY DEF RecordDelta, WriteDelta, Storage
  <1>7. s.byteLen \in Int /\ s.deltas \in [Generation -> Batch \cup {None}]
        /\ s.generation \in Int /\ Stored(s) \subseteq Int
    BY DEF Storage, Deltas, Generation, Stored
  <1> HIDE DEF generation, cs, fresh, new, batch, written, stored
  <1>8. BaseBytes(stored) = BaseBytes(s) /\ BaseBytes(s) = st.baseBytes
    BY <1>6, <1>7 DEF HasDeltas, BaseBytes, Sized
  <1>9. BytesUpTo(stored, generation) = deltaBytes /\ OpsUpTo(stored, generation) = deltaOps
    <2> DEFINE G == {d \in Stored(stored) : d <= generation}
    <2>1. Stored(stored) = Stored(s) \cup {generation}
      BY <1>1, <1>5, <1>6, <1>7 DEF Stored
    <2>2. G \subseteq Int /\ generation \in G /\ \A d \in G : d <= generation
      BY <1>1, <1>7, <2>1
    <2>3. G # {} /\ Max(G) = generation
      BY <2>2, MaxOf
    <2>4. stored.deltas[generation].bytes = deltaBytes
          /\ stored.deltas[generation].ops = deltaOps
      BY <1>1, <1>5, <1>6, <1>7
    <2> QED
      BY <2>3, <2>4 DEF BytesUpTo, OpsUpTo
  <1>10. deltaBytes < BaseBytes(stored)
    BY <1>8, LimitWithinBase, SizeAssumption DEF State
  <1>11. Sized(new, stored) /\ Balanced(stored)
    BY <1>4, <1>6, <1>8, <1>9, <1>10 DEF Sized, Balanced, InBudget
  <1> QED
    BY <1>3, <1>6, <1>11 DEF Settles, Written

LEMMA PendingSizes ==
  ASSUME NEW st \in State, st.txn \in Txn, NEW s \in Storage, Sized(st, s), Chained(s),
         s.layout = "current", st.generation # MaxGeneration, MinDeltaBase > 0
  PROVE  Settles(SyncPending(st, s))
PROOF
  <1> DEFINE pending == Unsynced(st)
             rowCount == st.rowCount + NetRows(pending)
             deltaBytes == st.deltaBytes + DeltaLen(pending)
             deltaOps == st.deltaOps + Len(pending)
  <1>1. rowCount \in Int /\ deltaBytes \in Int /\ deltaOps \in Int
    <2>1. pending \in Seq(Change)
      BY LogType
    <2>2. NetRows(pending) \in Int /\ DeltaLen(pending) \in Int
      BY <2>1, NetRowsType, DeltaLenType
    <2> HIDE DEF pending
    <2>3. Len(pending) \in Nat
      BY <2>1
    <2> QED
      BY <2>2, <2>3 DEF State
  <1>2. \/ SyncPending(st, s) = Written(FALSE, st, s)
        \/ ~(rowCount < 0) /\ SyncPending(st, s) = SyncCompaction(st, s, rowCount)
        \/ /\ ~(rowCount < 0) /\ ~MustCompact(st.baseBytes, deltaBytes, deltaOps, rowCount)
           /\ SyncPending(st, s) = SyncDelta(st, s, rowCount, deltaBytes, deltaOps)
    BY DEF SyncPending
  <1>3. /\ deltaBytes = st.deltaBytes + DeltaLen(Unsynced(st))
        /\ deltaOps = st.deltaOps + Len(Unsynced(st))
    OBVIOUS
  <1> HIDE DEF pending, rowCount, deltaBytes, deltaOps
  <1>4. Settles(Written(FALSE, st, s))
    BY DEF Settles, Written
  <1>5. ~(rowCount < 0) => rowCount \in Nat
    BY <1>1
  <1>6. CASE SyncPending(st, s) = Written(FALSE, st, s)
    BY <1>4, <1>6
  <1>7. CASE ~(rowCount < 0) /\ SyncPending(st, s) = SyncCompaction(st, s, rowCount)
    BY <1>5, <1>7, CompactionSizes
  <1>8. CASE /\ ~(rowCount < 0) /\ ~MustCompact(st.baseBytes, deltaBytes, deltaOps, rowCount)
             /\ SyncPending(st, s) = SyncDelta(st, s, rowCount, deltaBytes, deltaOps)
    <2>1. st.baseBytes \in Nat /\ st.baseBytes >= MinDeltaBase
      BY <1>8, SizeAssumption DEF MustCompact, State
    <2>2. deltaBytes < ByteLimit(st.baseBytes)
      BY <1>1, <1>8, <2>1, LimitWithinBase DEF MustCompact
    <2> QED
      BY <1>1, <1>3, <1>5, <1>8, <2>1, <2>2, DeltaSizes
  <1> QED
    BY <1>2, <1>6, <1>7, <1>8

LEMMA SyncSizes ==
  ASSUME NEW st \in State, NEW s \in Storage, Sized(st, s), Chained(s), MinDeltaBase > 0
  PROVE  \/ ~st.dirty /\ Sync(st, s) = Written(TRUE, st, s)
         \/ Settles(Sync(st, s))
PROOF
  <1> DEFINE up == Upgrade(st, s)
  <1>1. CASE ~st.dirty
    BY <1>1 DEF Sync
  <1>2. CASE st.dirty /\ (st.generation = MaxGeneration \/ Unsynced(st) = <<>>)
    BY <1>2 DEF Sync, Settles, Written
  <1>3. CASE st.dirty /\ ~(st.generation = MaxGeneration \/ Unsynced(st) = <<>>)
    <2>1. st.txn # None /\ st.txn \in Txn
      BY <1>3 DEF Unsynced, State
    <2>2. /\ up \in WriteResult /\ up.st.generation = st.generation
          /\ up.ok => /\ up.st.txn \in Txn /\ Chained(up.s) /\ Sized(up.st, up.s)
                      /\ up.s.layout = "current"
      <3>1. /\ up \in WriteResult /\ up.st.generation = st.generation
            /\ up.ok => up.st.txn \in Txn /\ Chained(up.s) /\ Sized(up.st, up.s)
        BY <2>1, UpgradeType, UpgradeInStep, UpgradeSizes DEF Sized
      <3>2. up.ok => up.s.layout = "current"
        BY DEF Upgrade, UpgradeLoaded, Upgraded, Written, Storage
      <3> QED
        BY <3>1, <3>2
    <2>3. Sync(st, s) = IF st.layout = "legacy" THEN SyncUpgraded(up)
                                                ELSE SyncPending(st, s)
      BY <1>3 DEF Sync
    <2> HIDE DEF up
    <2>4. st.layout # "legacy" => Settles(SyncPending(st, s))
      BY <1>3, <2>1, PendingSizes DEF Sized, State
    <2>5. up.ok => Settles(SyncPending(up.st, up.s))
      BY <1>3, <2>2, PendingSizes DEF WriteResult
    <2>6. ~up.ok => Settles(up)
      BY DEF Settles
    <2> QED
      BY <2>3, <2>4, <2>5, <2>6 DEF SyncUpgraded
  <1> QED
    BY <1>1, <1>2, <1>3

(* The State after the end of a transaction, and of a new connection.      *)
LEMMA EndSizes ==
  ASSUME NEW st \in State, NEW s \in Storage, NEW first, Accounted(s, first)
  PROVE  /\ st.layout = "current" \/ Sized(st, s) => Remembers(RolledBack(st), first)
         /\ Sized(st, s) => Remembers(Committed(st), first)
         /\ Remembers(OpenStorage(s), first)
PROOF
  <1>1. st.txn # None => RolledBack(st).index = None
    BY DEF RolledBack, State
  <1>2. st.txn = None => /\ SameSizes(RolledBack(st), st) /\ RolledBack(st).index = st.index
    BY DEF RolledBack, State, SameSizes
  <1>3. Sized(st, s) => Remembers(st, first)
    BY SizedRemembers
  <1>4. SameSizes(Committed(st), st) /\ Committed(st).index = st.index
    BY DEF Committed, State, SameSizes
  <1>5. Remembers(OpenStorage(s), first)
    <2>1. /\ Unread(s) \in State /\ Unread(s).index = None /\ Unread(s).layout = s.layout
      BY SizeAssumption DEF Unread, State, Storage, Generation
    <2>2. CASE s.layout = "current"
      <3>1. Adopt(Unread(s), s).layout = "current"
        BY <2>1, <2>2 DEF Adopt, State
      <3> QED
        BY <2>2, <3>1 DEF OpenStorage, Remembers
    <2>3. CASE s.layout # "current"
      <3>1. EnsureLoaded(Unread(s), s) = Unread(s) \/ Sized(EnsureLoaded(Unread(s), s), s)
        BY <2>1, LoadSized
      <3>2. Remembers(EnsureLoaded(Unread(s), s), first)
        BY <2>1, <3>1, SizedRemembers DEF Remembers
      <3> QED
        BY <2>3, <3>2 DEF OpenStorage
    <2> QED
      BY <2>2, <2>3
  <1> QED
    BY <1>1, <1>2, <1>3, <1>4, <1>5 DEF Remembers, SameSizes

(* A COMMIT that fails leaves a State with the sizes of the storage, or    *)
(* one that xSync has moved to the current layout.                         *)
LEMMA FailedSync ==
  ASSUME NEW st \in State, NEW s \in Storage, Sized(st, s),
         NEW x, (x = Sync(st, s).st /\ ~Sync(st, s).ok) \/ x \in PartialSync(st, s)
  PROVE  x.layout = "current" \/ Sized(x, s)
PROOF
  <1> DEFINE up == Upgrade(st, s)
             Ends(y) == y.layout = "current" \/ Sized(y, s)
  <1>1. ASSUME NEW y \in State, y.layout = "current", NEW t \in Storage,
               ~SyncPending(y, t).ok
        PROVE  SyncPending(y, t).st.layout = "current"
    <2>1. EnsureLoaded(y, t).layout = "current"
      BY <1>1, EnsureLoadedType
    <2>2. \A rowCount, bytes, ops :
            /\ ~SyncCompaction(y, t, rowCount).ok =>
                 SyncCompaction(y, t, rowCount).st.layout = "current"
            /\ ~SyncDelta(y, t, rowCount, bytes, ops).ok =>
                 SyncDelta(y, t, rowCount, bytes, ops).st.layout = "current"
      BY <1>1, <2>1 DEF SyncCompaction, Compact, SyncDelta, Written
    <2> QED
      BY <1>1, <2>2 DEF SyncPending, Written
  <1>2. EnsureLoaded(st, s) \in State /\ Ends(EnsureLoaded(st, s)) /\ Ends(st)
    BY EnsureLoadedType, LoadSized
  <1>3. /\ Ends(up.st) /\ (up.ok => up.st.layout = "current")
    <2> DEFINE loaded == EnsureLoaded(st, s)
    <2>1. [loaded EXCEPT !.layout = "current", !.txn.upgraded = TRUE].layout = "current"
      BY <1>2 DEF State
    <2> QED
      BY <1>2, <2>1 DEF Upgrade, UpgradeLoaded, Written
  <1>4. x \in PartialSync(st, s) => Ends(x)
    BY <1>2, <1>3 DEF PartialSync
  <1>5. ~Sync(st, s).ok => Ends(Sync(st, s).st)
    <2>1. SUFFICES ASSUME ~Sync(st, s).ok PROVE Ends(Sync(st, s).st)
      OBVIOUS
    <2>2. CASE Sync(st, s) = Written(FALSE, st, s)
      BY <1>2, <2>2 DEF Written
    <2>3. CASE Sync(st, s) # Written(FALSE, st, s)
      <3>1. st.dirty /\ Unsynced(st) # <<>>
        BY <2>1, <2>3 DEF Sync, Written
      <3>2. st.txn # None
        BY <3>1 DEF Unsynced
      <3>3. up \in WriteResult
        BY <3>2, UpgradeType
      <3>4. Sync(st, s) = IF st.layout = "legacy" THEN SyncUpgraded(up) ELSE SyncPending(st, s)
        BY <2>1, <2>3, <3>1 DEF Sync
      <3> HIDE DEF up
      <3>5. CASE st.layout = "legacy"
        BY <1>1, <1>3, <2>1, <3>3, <3>4, <3>5 DEF SyncUpgraded, WriteResult
      <3>6. CASE st.layout # "legacy"
        BY <1>1, <2>1, <3>4, <3>6 DEF State
      <3> QED
        BY <3>5, <3>6
    <2> QED
      BY <2>2, <2>3
  <1> QED
    BY <1>4, <1>5
-----------------------------------------------------------------------------
(* The invariant, connection by connection. *)

(* Until xSync has written, the writer sees the committed file and so does *)
(* each of its marks; afterwards it sees the current layout.               *)
OneFile(c) ==
  mode[c] = "write" =>
    IF view[c].generation = disk.generation
    THEN /\ SameFile(view[c], disk)
         /\ \A j \in DOMAIN marks[c] : SameFile(marks[c][j].storage, disk)
    ELSE view[c].layout = "current"

Kept(c, first) ==
  /\ Accounted(view[c], first)
  /\ \A j \in DOMAIN marks[c] : Accounted(marks[c][j].storage, first)
  /\ IF enlisted[c] THEN Sized(state[c], view[c]) ELSE Remembers(state[c], first)
  /\ OneFile(c)

BudgetOf(first) ==
  ChainInv /\ Accounted(disk, first) /\ \A c \in Connections : Kept(c, first)
BudgetInv == \E first \in Storage : BudgetOf(first)

LEMMA InitBudget ==
  ASSUME MinDeltaBase > 0
  PROVE  Init => BudgetInv
PROOF
  <1>1. SUFFICES ASSUME Init PROVE BudgetInv
    OBVIOUS
  <1>2. ChainInv /\ TypeOK
    BY <1>1, InitChain, ChainParts
  <1>3. PICK first \in Storage : first = disk
    BY <1>2 DEF TypeOK
  <1>4. disk.layout = "legacy" \/ \E rows \in Rows : disk = NewStorage(rows)
    <2>1. \A rows : LegacyStorage(rows).layout = "legacy"
      BY DEF LegacyStorage, NewStorage
    <2>2. ASSUME NEW rows \in Rows, NEW cs PROVE LegacyWithDelta(rows, cs).layout = "legacy"
      BY DEF LegacyWithDelta, LegacyStorage, NewStorage, WriteDelta
    <2> DEFINE stored(r) == {x \in Change :
                              \/ x.op = "insert" /\ x.vector # None /\ x.replaces
                              \/ x.id \in Keys(r) /\ x = DeleteOf(x.id)}
    <2>3. \/ \E r \in Rows : disk = NewStorage(r) \/ disk = LegacyStorage(r)
          \/ \E r \in Rows : disk \in {LegacyWithDelta(r, <<x>>) : x \in stored(r)}
      BY <1>1 DEF Init, InitialStorage
    <2> HIDE DEF stored
    <2> QED
      BY <2>1, <2>2, <2>3
  <1>5. Accounted(disk, first)
    <2>1. ASSUME NEW rows \in Rows PROVE Balanced(NewStorage(rows))
      <3>1. /\ NewStorage(rows).deltas = NoDeltas /\ NewStorage(rows).deltaBytes = 0
            /\ NewStorage(rows).deltaOps = 0
        BY DEF NewStorage
      <3>2. Stored(NewStorage(rows)) = {}
        BY <3>1 DEF Stored, NoDeltas
      <3> QED
        BY <3>1, <3>2 DEF Balanced, InBudget, BytesUpTo, OpsUpTo
    <2> QED
      BY <1>3, <1>4, <2>1 DEF Accounted
  <1>6. ASSUME NEW c \in Connections PROVE Kept(c, first)
    <2>1. /\ view[c] = disk /\ marks[c] = <<>> /\ mode[c] = "idle" /\ ~enlisted[c]
          /\ state[c] = OpenStorage(disk) /\ DOMAIN marks[c] = {}
      BY <1>1 DEF Init
    <2>2. state[c] \in State /\ Remembers(state[c], first)
      BY <1>2, <1>3, <1>5, <2>1, StateType, EndSizes
    <2> QED
      BY <1>5, <2>1, <2>2 DEF Kept, OneFile
  <1> QED
    BY <1>2, <1>3, <1>5, <1>6 DEF BudgetInv, BudgetOf

(* A step that moves one connection and keeps the file and the lock.       *)
LEMMA OneKept ==
  ASSUME NEW first, BudgetOf(first), ChainInv', NEW c \in Connections,
         UNCHANGED <<disk, mode>>,
         \A d \in Connections \ {c} :
           /\ view'[d] = view[d] /\ marks'[d] = marks[d]
           /\ enlisted'[d] = enlisted[d] /\ state'[d] = state[d],
         Kept(c, first)'
  PROVE  BudgetOf(first)'
PROOF
  <1>1. ASSUME NEW d \in Connections \ {c} PROVE Kept(d, first)'
    <2>1. Kept(d, first)
      BY DEF BudgetOf
    <2> QED
      BY <2>1 DEF Kept, OneFile
  <1> QED
    BY <1>1 DEF BudgetOf

(* The end of a transaction. *)
LEMMA EndBudget ==
  ASSUME NEW first, BudgetOf(first), ChainInv', NEW c \in Connections,
         NEW s \in Storage, NEW st \in State,
         Ended(c, s), SetState(c, st), Remembers(st, first), Accounted(s, first),
         s = disk \/ mode[c] = "write"
  PROVE  BudgetOf(first)'
PROOF
  <1>1. TypeOK /\ OneWriter /\ Accounted(disk, first)
    BY ChainParts DEF BudgetOf
  <1>2. Kept(c, first)'
    <2>1. /\ view'[c] = s /\ marks'[c] = <<>> /\ mode'[c] = "idle" /\ ~enlisted'[c]
          /\ state'[c] = st
      BY <1>1 DEF Ended, SetState, TypeOK
    <2>2. DOMAIN marks'[c] = {}
      BY <2>1
    <2> QED
      BY <2>1, <2>2 DEF Kept, OneFile
  <1>3. ASSUME NEW d \in Connections \ {c} PROVE Kept(d, first)'
    <2>1. Kept(d, first)
      BY DEF BudgetOf
    <2>2. /\ mode'[d] = mode[d] /\ marks'[d] = marks[d] /\ enlisted'[d] = enlisted[d]
          /\ state'[d] = state[d] /\ disk' = s
          /\ view'[d] = IF mode[d] = "idle" THEN s ELSE view[d]
      BY <1>1 DEF Ended, SetState, TypeOK
    <2>3. mode[d] = "write" => s = disk
      BY <1>1 DEF OneWriter
    <2>4. enlisted[d] => mode[d] = "write"
      BY ChainParts DEF BudgetOf, Agrees
    <2>5. mode[d] = "write" => view'[d] = view[d]
      BY <2>2
    <2> QED
      BY <2>1, <2>2, <2>3, <2>4, <2>5 DEF Kept, OneFile
  <1> QED
    BY <1>2, <1>3 DEF BudgetOf, Ended

-----------------------------------------------------------------------------
(* The actions, in the order of Next. *)

LEMMA KeptParts ==
  ASSUME NEW first, BudgetOf(first), NEW c \in Connections
  PROVE  /\ TypeOK /\ OneWriter /\ Whole(c) /\ Agrees(c) /\ Kept(c, first)
         /\ Accounted(disk, first) /\ Accounted(view[c], first)
         /\ state[c] \in State /\ view[c] \in Storage /\ disk \in Storage
         /\ enlisted[c] => Sized(state[c], view[c])
         /\ ~enlisted[c] => Remembers(state[c], first) /\ state[c].txn = None
         /\ Remembers(state[c], first)
PROOF
  <1>1. /\ TypeOK /\ OneWriter /\ Whole(c) /\ Agrees(c) /\ Kept(c, first)
        /\ Accounted(disk, first)
    BY ChainParts DEF BudgetOf
  <1>2. /\ Accounted(view[c], first)
        /\ enlisted[c] => Sized(state[c], view[c])
        /\ ~enlisted[c] => Remembers(state[c], first) /\ state[c].txn = None
    BY <1>1 DEF Kept, Agrees
  <1>3. enlisted[c] => Remembers(state[c], first)
    BY <1>2, SizedRemembers
  <1> QED
    BY <1>1, <1>2, <1>3, StateType

LEMMA SnapshotBudget ==
  ASSUME NEW first, BudgetOf(first), ChainInv', NEW c \in Connections,
         BeginRead(c) \/ EndRead(c) \/ BeginWrite(c)
  PROVE  BudgetOf(first)'
PROOF
  <1>1. /\ TypeOK /\ Agrees(c) /\ Accounted(disk, first) /\ Remembers(state[c], first)
        /\ state[c] \in State /\ disk \in Storage
    BY KeptParts
  <1>2. CASE EndRead(c)
    <2>1. SetState(c, state[c]) /\ Ended(c, disk)
      BY <1>1, <1>2 DEF EndRead, SetState, TypeOK
    <2> QED
      BY <1>1, <2>1, EndBudget
  <1>3. CASE BeginRead(c) \/ BeginWrite(c)
    <2>1. /\ UNCHANGED <<disk, view, marks, statement, enlisted, state>>
          /\ \A d \in Connections \ {c} : mode'[d] = mode[d]
          /\ mode'[c] = "write" => view[c] = disk /\ mode[c] # "write"
      BY <1>1, <1>3 DEF BeginRead, BeginWrite, TypeOK
    <2>2. marks[c] # <<>> => mode[c] = "write"
      BY <1>1 DEF Agrees
    <2>3. OneFile(c)'
      <3>1. SUFFICES ASSUME mode'[c] = "write" PROVE OneFile(c)'
        BY DEF OneFile
      <3>2. view[c] = disk /\ DOMAIN marks[c] = {}
        BY <2>1, <2>2, <3>1
      <3> QED
        BY <2>1, <3>2 DEF OneFile, SameFile
    <2>4. ASSUME NEW d \in Connections PROVE Kept(d, first)'
      <3>1. Kept(d, first)
        BY KeptParts
      <3>2. OneFile(d)'
        BY <2>1, <2>3, <3>1 DEF OneFile, Kept
      <3> QED
        BY <2>1, <3>1, <3>2 DEF Kept
    <2> QED
      BY <1>1, <2>1, <2>4 DEF BudgetOf
  <1> QED
    BY <1>2, <1>3

LEMMA ReadBudget ==
  ASSUME NEW first, BudgetOf(first), ChainInv', NEW c \in Connections,
         Search(c) \/ Scan(c) \/ CatchUpFails(c)
  PROVE  BudgetOf(first)'
PROOF
  <1>1. /\ TypeOK /\ Kept(c, first) /\ Accounted(view[c], first)
        /\ state[c] \in State /\ view[c] \in Storage
        /\ ~enlisted[c] => Remembers(state[c], first) /\ state[c].txn = None
    BY KeptParts
  <1>2. PICK new \in {Searched(state[c], view[c]).st, Scanned(state[c], view[c]),
                      Prepare(state[c], view[c]).st, Dropped(state[c])} :
          SetState(c, new) /\ UNCHANGED <<disk, mode, view, marks, statement, enlisted>>
    BY DEF Search, Scan, CatchUpFails
  <1>3. /\ Sized(state[c], view[c]) => Sized(new, view[c])
        /\ Remembers(state[c], first) /\ state[c].txn = None => Remembers(new, first)
    BY <1>1, ReadsSized
  <1>4. \A d \in Connections : state'[d] = IF d = c THEN new ELSE state[d]
    BY <1>1, <1>2 DEF SetState, TypeOK
  <1>5. Kept(c, first)'
    BY <1>1, <1>2, <1>3, <1>4 DEF Kept, OneFile
  <1> QED
    BY <1>2, <1>4, <1>5, OneKept

LEMMA EnlistBudget ==
  ASSUME NEW first, BudgetOf(first), ChainInv', NEW c \in Connections, Enlist(c)
  PROVE  BudgetOf(first)'
PROOF
  <1> DEFINE begun == Begin(state[c], view[c])
             st == IF begun.ok /\ marks[c] # <<>>
                   THEN Savepoint(begun.st, TopMark(c)) ELSE begun.st
  <1>1. /\ TypeOK /\ Kept(c, first) /\ Accounted(view[c], first) /\ ~enlisted[c]
        /\ state[c] \in State /\ view[c] \in Storage
        /\ Remembers(state[c], first) /\ state[c].txn = None
    BY KeptParts DEF Enlist
  <1>2. /\ begun.ok => Sized(begun.st, view[c])
        /\ ~begun.ok => Remembers(begun.st, first)
        /\ begun.st \in State /\ begun.ok \in BOOLEAN
    BY <1>1, BeginSized, BeginType DEF ReadResult
  <1>3. /\ SetState(c, st)
        /\ enlisted' = [enlisted EXCEPT ![c] = begun.ok]
        /\ UNCHANGED <<disk, mode, view, marks, statement>>
    BY DEF Enlist, EnlistBegun
  <1> HIDE DEF begun
  <1>4. /\ begun.ok => Sized(st, view[c])
        /\ ~begun.ok => Remembers(st, first)
    BY <1>2, MarksSizes, SameSizesSized
  <1> HIDE DEF st
  <1>5. /\ \A d \in Connections : state'[d] = IF d = c THEN st ELSE state[d]
        /\ \A d \in Connections : enlisted'[d] = IF d = c THEN begun.ok ELSE enlisted[d]
    BY <1>1, <1>3 DEF SetState, TypeOK
  <1>6. Kept(c, first)'
    BY <1>1, <1>3, <1>4, <1>5 DEF Kept, OneFile
  <1> QED
    BY <1>3, <1>5, <1>6, OneKept

LEMMA SameFileOrder ==
  ASSUME NEW s, NEW t, NEW u, SameFile(s, t)
  PROVE  SameFile(t, u) => SameFile(s, u)
PROOF
  BY DEF SameFile

LEMMA WriteBudget ==
  ASSUME NEW first, BudgetOf(first), ChainInv', NEW c \in Connections,
         InsertRow(c) \/ DeleteRow(c)
  PROVE  BudgetOf(first)'
PROOF
  <1>1. Updating(c)
    BY DEF InsertRow, DeleteRow, Update
  <1>2. /\ TypeOK /\ Kept(c, first) /\ Accounted(view[c], first) /\ enlisted[c]
        /\ state[c] \in State /\ view[c] \in Storage /\ Sized(state[c], view[c])
    BY <1>1, KeptParts DEF Updating
  <1>3. PICK result : Update(c, result) /\ KeepsSizes(result, view[c], first)
    BY <1>2, InsertSizes, DeleteSizes DEF InsertRow, DeleteRow
  <1>4. /\ \A d \in Connections : state'[d] = IF d = c THEN result.st ELSE state[d]
        /\ \A d \in Connections : view'[d] = IF d = c THEN result.s ELSE view[d]
        /\ UNCHANGED <<disk, mode, marks, statement, enlisted>>
    BY <1>2, <1>3 DEF Update, SetState, TypeOK
  <1>5. OneFile(c)'
    BY <1>2, <1>3, <1>4, SameFileOrder DEF Kept, OneFile, KeepsSizes, SameFile
  <1>6. Kept(c, first)'
    BY <1>2, <1>3, <1>4, <1>5 DEF Kept, KeepsSizes
  <1> QED
    BY <1>4, <1>6, OneKept

LEMMA PushMarkBudget ==
  ASSUME NEW first, BudgetOf(first), ChainInv', NEW c \in Connections,
         OpenSavepoint(c) \/ OpenStatement(c)
  PROVE  BudgetOf(first)'
PROOF
  <1> DEFINE mark == [storage |-> view[c], rows |-> SeenRows(state[c], view[c])]
             st == IF enlisted[c] THEN Savepoint(state[c], Len(marks[c])) ELSE state[c]
  <1>1. /\ TypeOK /\ Kept(c, first) /\ Accounted(view[c], first) /\ state[c] \in State
        /\ PushMark(c)
    BY KeptParts DEF OpenSavepoint, OpenStatement
  <1>2. IF enlisted[c] THEN Sized(st, view[c]) ELSE Remembers(st, first)
    BY <1>1, MarksSizes, SameSizesSized DEF Kept
  <1>3. mark.storage = view[c]
    OBVIOUS
  <1>4. /\ marks' = [marks EXCEPT ![c] = Append(marks[c], mark)]
        /\ SetState(c, st)
        /\ UNCHANGED <<disk, mode, view, enlisted>>
    BY <1>1 DEF PushMark, TypeOK
  <1> HIDE DEF mark, st
  <1>5. /\ \A d \in Connections : state'[d] = IF d = c THEN st ELSE state[d]
        /\ \A d \in Connections :
             marks'[d] = IF d = c THEN Append(marks[c], mark) ELSE marks[d]
    BY <1>1, <1>4 DEF SetState, TypeOK
  <1>6. \A j \in DOMAIN marks'[c] :
          marks'[c][j].storage = view[c] \/ (j \in DOMAIN marks[c] /\ marks'[c][j] = marks[c][j])
    <2>1. marks[c] \in Seq(MarkRecord)
      BY <1>1 DEF TypeOK
    <2>2. \A j \in DOMAIN Append(marks[c], mark) :
            \/ Append(marks[c], mark)[j] = mark
            \/ j \in DOMAIN marks[c] /\ Append(marks[c], mark)[j] = marks[c][j]
      BY <2>1
    <2> QED
      BY <1>3, <1>5, <2>2
  <1>7. Kept(c, first)'
    <2>1. OneFile(c)'
      BY <1>1, <1>4, <1>6 DEF Kept, OneFile
    <2>2. \A j \in DOMAIN marks'[c] : Accounted(marks'[c][j].storage, first)
      BY <1>1, <1>6 DEF Kept
    <2> QED
      BY <1>1, <1>2, <1>4, <1>5, <2>1, <2>2 DEF Kept
  <1> QED
    BY <1>4, <1>5, <1>7, OneKept

LEMMA ReleaseBudget ==
  ASSUME NEW first, BudgetOf(first), ChainInv', NEW c \in Connections,
         ReleaseSavepoint(c) \/ CloseStatement(c)
  PROVE  BudgetOf(first)'
PROOF
  <1>1. /\ TypeOK /\ Kept(c, first) /\ state[c] \in State
    BY KeptParts
  <1>2. PICK j \in 0 .. TopMark(c) : ReleaseMark(c, j)
    BY <1>1, MarkIndex DEF ReleaseSavepoint, CloseStatement
  <1> DEFINE st == IF enlisted[c] THEN Release(state[c], j) ELSE state[c]
             cut == SubSeq(marks[c], 1, j)
  <1>3. IF enlisted[c] THEN Sized(st, view[c]) ELSE Remembers(st, first)
    BY <1>1, MarksSizes, SameSizesSized DEF Kept
  <1>4. /\ \A d \in Connections : marks'[d] = IF d = c THEN cut ELSE marks[d]
        /\ SetState(c, st)
        /\ UNCHANGED <<disk, mode, view, enlisted>>
    BY <1>1, <1>2 DEF ReleaseMark, TypeOK
  <1> HIDE DEF st
  <1>5. \A d \in Connections : state'[d] = IF d = c THEN st ELSE state[d]
    BY <1>1, <1>4 DEF SetState, TypeOK
  <1>6. \A i \in DOMAIN cut : i \in DOMAIN marks[c] /\ cut[i] = marks[c][i]
    BY <1>1, MarkIndex, FirstMarks DEF TypeOK
  <1> HIDE DEF cut
  <1>7. OneFile(c)'
    BY <1>1, <1>4, <1>6 DEF Kept, OneFile
  <1>8. Kept(c, first)'
    BY <1>1, <1>3, <1>4, <1>5, <1>6, <1>7 DEF Kept
  <1> QED
    BY <1>4, <1>5, <1>8, OneKept

(* Going back before xSync has written. *)
LEMMA GoBackBudget ==
  ASSUME NEW first, BudgetOf(first), ChainInv', NEW c \in Connections,
         NEW back, NEW n \in 0 .. Len(marks[c]), NEW st,
         mode[c] = "write", view[c].generation = disk.generation,
         SameFile(back, disk), Accounted(back, first),
         SameSizes(st, state[c]), ~enlisted[c] => st = state[c],
         SetState(c, st),
         view' = [view EXCEPT ![c] = back],
         marks' = [marks EXCEPT ![c] = SubSeq(marks[c], 1, n)],
         UNCHANGED <<disk, mode, enlisted>>
  PROVE  BudgetOf(first)'
PROOF
  <1> DEFINE cut == SubSeq(marks[c], 1, n)
  <1>1. TypeOK /\ Kept(c, first)
    BY KeptParts
  <1>2. \A i \in DOMAIN cut : i \in DOMAIN marks[c] /\ cut[i] = marks[c][i]
    BY <1>1, FirstMarks DEF TypeOK
  <1>3. /\ \A d \in Connections : state'[d] = IF d = c THEN st ELSE state[d]
        /\ \A d \in Connections : view'[d] = IF d = c THEN back ELSE view[d]
        /\ \A d \in Connections : marks'[d] = IF d = c THEN cut ELSE marks[d]
    BY <1>1 DEF SetState, TypeOK
  <1> HIDE DEF cut
  <1>4. /\ SameFile(view[c], disk)
        /\ \A j \in DOMAIN marks[c] : SameFile(marks[c][j].storage, disk)
    BY <1>1 DEF Kept, OneFile
  <1>5. enlisted[c] => Sized(st, back)
    <2>1. enlisted[c] => Sized(st, view[c])
      BY <1>1, SameSizesSized DEF Kept
    <2> QED
      BY <1>4, <2>1, SameFileSizes
  <1>6. OneFile(c)'
    BY <1>2, <1>3, <1>4 DEF OneFile, SameFile
  <1>7. Kept(c, first)'
    BY <1>1, <1>2, <1>3, <1>5, <1>6 DEF Kept
  <1> QED
    BY <1>3, <1>7, OneKept

LEMMA MarkBudget ==
  ASSUME NEW first, BudgetOf(first), NEW c \in Connections, NEW j \in 0 .. TopMark(c),
         mode[c] = "write", view[c].generation = disk.generation
  PROVE  /\ j \in Mark /\ j \in 0 .. Len(marks[c]) /\ j + 1 \in 0 .. Len(marks[c])
         /\ SameFile(marks[c][j + 1].storage, disk)
         /\ Accounted(marks[c][j + 1].storage, first)
PROOF
  <1>1. TypeOK /\ Kept(c, first)
    BY KeptParts
  <1>2. j \in Mark /\ j + 1 \in 1 .. Len(marks[c]) /\ Len(marks[c]) \in Nat
    BY <1>1, MarkIndex
  <1>3. j + 1 \in DOMAIN marks[c]
    BY <1>1, <1>2 DEF TypeOK
  <1>4. j \in 0 .. Len(marks[c]) /\ j + 1 \in 0 .. Len(marks[c])
    BY <1>2
  <1> QED
    BY <1>1, <1>2, <1>3, <1>4 DEF Kept, OneFile

LEMMA RollbackToBudget ==
  ASSUME NEW first, BudgetOf(first), ChainInv', PartialAfterBusy = FALSE,
         NEW c \in Connections, RollbackToSavepoint(c) \/ RollbackToBegin(c)
  PROVE  BudgetOf(first)'
PROOF
  <1>1. /\ TypeOK /\ state[c] \in State /\ Accounted(disk, first)
        /\ mode[c] = "write" /\ view[c].generation = disk.generation
    BY KeptParts DEF RollbackToSavepoint, RollbackToBegin, Writing, PartialAllowed
  <1>2. SameFile(disk, disk) /\ SameSizes(state[c], state[c])
    BY DEF SameFile, SameSizes
  <1>3. CASE RollbackToSavepoint(c)
    <2>1. PICK j \in 0 .. TopMark(c) :
            /\ view' = [view EXCEPT ![c] = marks[c][j + 1].storage]
            /\ marks' = [marks EXCEPT ![c] = SubSeq(@, 1, j + 1)]
            /\ SetState(c, IF enlisted[c] THEN RollbackTo(state[c], j).st ELSE state[c])
      BY <1>3 DEF RollbackToSavepoint
    <2> DEFINE st == IF enlisted[c] THEN RollbackTo(state[c], j).st ELSE state[c]
               back == marks[c][j + 1].storage
    <2>2. /\ j \in Mark /\ j + 1 \in 0 .. Len(marks[c])
          /\ SameFile(back, disk) /\ Accounted(back, first)
      BY <1>1, MarkBudget
    <2>3. SameSizes(st, state[c]) /\ (~enlisted[c] => st = state[c])
      BY <1>1, <1>2, <2>2, RollbackSizes
    <2>4. /\ marks' = [marks EXCEPT ![c] = SubSeq(marks[c], 1, j + 1)]
          /\ view' = [view EXCEPT ![c] = back] /\ SetState(c, st)
          /\ UNCHANGED <<disk, mode, enlisted>>
      BY <1>1, <1>3, <2>1 DEF RollbackToSavepoint, TypeOK
    <2> HIDE DEF st, back
    <2> QED
      BY <1>1, <2>2, <2>3, <2>4, GoBackBudget
  <1>4. CASE RollbackToBegin(c)
    <2> DEFINE st == IF enlisted[c] THEN RollbackToStart(state[c]).st ELSE state[c]
    <2>1. SameSizes(st, state[c]) /\ (~enlisted[c] => st = state[c])
      BY <1>1, <1>2, RollbackSizes
    <2>2. /\ view' = [view EXCEPT ![c] = disk] /\ marks' = [marks EXCEPT ![c] = <<>>]
          /\ SetState(c, st) /\ UNCHANGED <<disk, mode, enlisted>>
      BY <1>4 DEF RollbackToBegin
    <2> HIDE DEF st
    <2>3. 0 \in 0 .. Len(marks[c]) /\ SubSeq(marks[c], 1, 0) = <<>>
      <3>1. marks[c] \in Seq(MarkRecord)
        BY <1>1 DEF TypeOK
      <3> QED
        BY <3>1
    <2> QED
      BY <1>1, <1>2, <2>1, <2>2, <2>3, GoBackBudget
  <1> QED
    BY <1>3, <1>4

LEMMA AbortStatementBudget ==
  ASSUME NEW first, BudgetOf(first), ChainInv', PartialAfterBusy = FALSE,
         NEW c \in Connections, AbortStatement(c)
  PROVE  BudgetOf(first)'
PROOF
  <1> DEFINE j == TopMark(c)
             back == IF enlisted[c] THEN RollbackTo(state[c], j)
                                    ELSE Result(TRUE, state[c])
             st == IF enlisted[c] THEN Release(back.st, j) ELSE back.st
             storage == marks[c][j + 1].storage
  <1>1. /\ TypeOK /\ Agrees(c) /\ Accounted(disk, first) /\ disk \in Storage
        /\ state[c] \in State /\ view[c] \in Storage /\ Accounted(view[c], first)
        /\ enlisted[c] => Sized(state[c], view[c])
    BY KeptParts
  <1>2. mode[c] = "write" /\ view[c].generation = disk.generation
    BY <1>1 DEF AbortStatement, PartialAllowed, Agrees, TypeOK
  <1>3. j \in 0 .. TopMark(c)
    BY <1>1, MarkIndex DEF AbortStatement
  <1>4. /\ j \in Mark /\ j \in 0 .. Len(marks[c])
        /\ SameFile(storage, disk) /\ Accounted(storage, first)
    BY <1>2, <1>3, MarkBudget
  <1>5. /\ back.st \in State /\ SameSizes(back.st, state[c])
        /\ ~enlisted[c] => back.ok /\ back.st = state[c]
    <2>1. SameSizes(state[c], state[c])
      BY DEF SameSizes
    <2> QED
      BY <1>1, <1>4, <2>1, RollbackToType, RollbackSizes DEF ReadResult, Result
  <1>6. AbortTo(c, j, back)
    BY DEF AbortStatement
  <1> HIDE DEF j, back, storage
  <1>7. SameSizes(st, state[c]) /\ (~enlisted[c] => st = state[c])
    BY <1>5, MarksSizes DEF SameSizes
  <1>8. CASE back.ok
    <2>1. /\ view' = [view EXCEPT ![c] = storage]
          /\ marks' = [marks EXCEPT ![c] = SubSeq(marks[c], 1, j)]
          /\ SetState(c, st)
          /\ UNCHANGED <<disk, mode, enlisted>>
      BY <1>1, <1>6, <1>8 DEF AbortTo, TypeOK, storage
    <2> HIDE DEF st
    <2> QED
      BY <1>1, <1>2, <1>4, <1>7, <2>1, GoBackBudget
  <1>9. CASE ~back.ok
    <2>1. Ended(c, disk) /\ SetState(c, RolledBack(back.st))
      BY <1>6, <1>9 DEF AbortTo
    <2>2. Sized(back.st, view[c])
      BY <1>1, <1>5, <1>9, SameSizesSized
    <2>3. RolledBack(back.st) \in State /\ Remembers(RolledBack(back.st), first)
      BY <1>1, <1>5, <2>2, RolledBackType, EndSizes
    <2> QED
      BY <1>1, <2>1, <2>3, EndBudget
  <1> QED
    BY <1>8, <1>9

(* What a COMMIT can do, to the file and to the State.                     *)
LEMMA CommitSizes ==
  ASSUME NEW first, BudgetOf(first), MinDeltaBase > 0, NEW c \in Connections,
         Updating(c), Sync(state[c], view[c]).ok
  PROVE  LET synced == Sync(state[c], view[c])
         IN  /\ synced.st \in State /\ synced.s \in Storage
             /\ Sized(synced.st, synced.s) /\ Accounted(synced.s, first)
             /\ \/ synced.s = view[c]
                \/ /\ synced.s.layout = "current" /\ Balanced(synced.s)
                   /\ synced.s.generation # disk.generation
PROOF
  <1> DEFINE synced == Sync(state[c], view[c])
  <1>1. /\ TypeOK /\ Whole(c) /\ Agrees(c) /\ Accounted(view[c], first)
        /\ state[c] \in State /\ view[c] \in Storage /\ disk \in Storage
        /\ Sized(state[c], view[c])
    BY KeptParts DEF Updating
  <1>2. synced.st \in State /\ synced.s \in Storage
    BY <1>1, SyncType DEF WriteResult
  <1>3. \/ synced.st = state[c] /\ synced.s = view[c]
        \/ Settles(synced) /\ OneOn(synced, view[c])
    <2>1. \/ ~state[c].dirty /\ synced = Written(TRUE, state[c], view[c])
          \/ Settles(synced)
      BY <1>1, SyncSizes DEF Whole
    <2>2. \/ ~state[c].dirty /\ synced = Written(TRUE, state[c], view[c])
          \/ OneOn(synced, view[c])
      BY <1>1, SyncInStep DEF Whole, Sized
    <2> HIDE DEF synced
    <2> QED
      BY <2>1, <2>2 DEF Written
  <1>4. OneOn(synced, view[c]) => synced.s.generation # disk.generation
    <2>1. /\ view[c].generation \in Int /\ disk.generation \in Int
          /\ view[c].generation >= disk.generation
      BY <1>1 DEF Storage, Generation, Agrees, Updating
    <2>2. OneOn(synced, view[c]) => synced.s.generation = view[c].generation + 1
      BY DEF OneOn
    <2> HIDE DEF synced
    <2> QED
      BY <2>1, <2>2
  <1>5. synced.ok
    OBVIOUS
  <1> HIDE DEF synced
  <1>6. CASE synced.st = state[c] /\ synced.s = view[c]
    BY <1>1, <1>2, <1>6 DEF synced
  <1>7. CASE Settles(synced) /\ OneOn(synced, view[c])
    <2>1. /\ Sized(synced.st, synced.s) /\ synced.s.layout = "current"
          /\ Balanced(synced.s) /\ synced.s.generation # disk.generation
      BY <1>4, <1>5, <1>7 DEF Settles
    <2>2. Accounted(synced.s, first)
      BY <2>1 DEF Accounted
    <2> QED
      BY <1>2, <2>1, <2>2 DEF synced
  <1> QED
    BY <1>3, <1>6, <1>7

LEMMA CommitBudget ==
  ASSUME NEW first, BudgetOf(first), ChainInv', MinDeltaBase > 0,
         NEW c \in Connections, Commit(c)
  PROVE  BudgetOf(first)'
PROOF
  <1> DEFINE synced == Sync(state[c], view[c])
  <1>1. /\ TypeOK /\ Kept(c, first) /\ Accounted(disk, first) /\ Accounted(view[c], first)
        /\ state[c] \in State /\ view[c] \in Storage /\ disk \in Storage
        /\ Updating(c) /\ mode[c] = "write" /\ enlisted[c] /\ Sized(state[c], view[c])
    BY KeptParts DEF Commit, Updating
  <1>2. synced.st \in State
    BY <1>1, SyncType DEF WriteResult
  <1>3. synced.ok => /\ synced.s \in Storage
                     /\ Sized(synced.st, synced.s) /\ Accounted(synced.s, first)
                     /\ \/ synced.s = view[c]
                        \/ /\ synced.s.layout = "current"
                           /\ synced.s.generation # disk.generation
    BY <1>1, CommitSizes
  <1>4. ~synced.ok => synced.st.layout = "current" \/ Sized(synced.st, view[c])
    BY <1>1, FailedSync
  <1>5. \/ ~synced.ok /\ Ended(c, disk) /\ SetState(c, RolledBack(synced.st))
        \/ /\ synced.ok
           /\ view' = [view EXCEPT ![c] = synced.s]
           /\ SetState(c, synced.st)
           /\ UNCHANGED <<disk, mode, marks, statement, enlisted>>
        \/ synced.ok /\ Ended(c, synced.s) /\ SetState(c, Committed(synced.st))
    BY DEF Commit, CommitSynced
  <1> HIDE DEF synced
  <1>6. CASE ~synced.ok /\ Ended(c, disk) /\ SetState(c, RolledBack(synced.st))
    <2>1. RolledBack(synced.st) \in State /\ Remembers(RolledBack(synced.st), first)
      BY <1>1, <1>2, <1>4, <1>6, RolledBackType, EndSizes
    <2> QED
      BY <1>1, <1>6, <2>1, EndBudget
  <1>7. CASE /\ synced.ok
             /\ view' = [view EXCEPT ![c] = synced.s]
             /\ SetState(c, synced.st)
             /\ UNCHANGED <<disk, mode, marks, statement, enlisted>>
    <2>1. /\ \A d \in Connections : state'[d] = IF d = c THEN synced.st ELSE state[d]
          /\ \A d \in Connections : view'[d] = IF d = c THEN synced.s ELSE view[d]
      BY <1>1, <1>7 DEF SetState, TypeOK
    <2>2. OneFile(c)'
      BY <1>1, <1>3, <1>7, <2>1 DEF Kept, OneFile
    <2>3. Kept(c, first)'
      BY <1>1, <1>3, <1>7, <2>1, <2>2 DEF Kept
    <2> QED
      BY <1>7, <2>1, <2>3, OneKept
  <1>8. CASE synced.ok /\ Ended(c, synced.s) /\ SetState(c, Committed(synced.st))
    <2>1. Committed(synced.st) \in State /\ Remembers(Committed(synced.st), first)
      BY <1>2, <1>3, <1>8, CommittedType, EndSizes
    <2> QED
      BY <1>1, <1>3, <1>8, <2>1, EndBudget
  <1> QED
    BY <1>5, <1>6, <1>7, <1>8

LEMMA RolledBackEndBudget ==
  ASSUME NEW first, BudgetOf(first), ChainInv', NEW c \in Connections,
         Reopen(c) \/ CommitFails(c) \/ Rollback(c)
  PROVE  BudgetOf(first)'
PROOF
  <1>1. /\ Accounted(disk, first) /\ Accounted(view[c], first)
        /\ state[c] \in State /\ view[c] \in Storage /\ disk \in Storage
        /\ Remembers(state[c], first) /\ (enlisted[c] => Sized(state[c], view[c]))
    BY KeptParts
  <1>2. CASE Reopen(c)
    <2>1. OpenStorage(disk) \in State /\ Remembers(OpenStorage(disk), first)
      BY <1>1, OpenStorageType, EndSizes
    <2> QED
      BY <1>1, <1>2, <2>1, EndBudget DEF Reopen
  <1>3. CASE CommitFails(c)
    <2>1. PICK st \in PartialSync(state[c], view[c]) : SetState(c, RolledBack(st))
      BY <1>3 DEF CommitFails
    <2>2. st \in State /\ (st.layout = "current" \/ Sized(st, view[c]))
      BY <1>1, <1>3, PartialSyncType, FailedSync DEF CommitFails, Updating
    <2>3. RolledBack(st) \in State /\ Remembers(RolledBack(st), first)
      BY <1>1, <2>2, RolledBackType, EndSizes
    <2> QED
      BY <1>1, <1>3, <2>1, <2>3, EndBudget DEF CommitFails
  <1>4. CASE Rollback(c)
    <2> DEFINE st == IF enlisted[c] THEN RolledBack(state[c]) ELSE state[c]
    <2>1. st \in State /\ Remembers(st, first)
      BY <1>1, RolledBackType, EndSizes
    <2>2. Ended(c, disk) /\ SetState(c, st)
      BY <1>4 DEF Rollback
    <2> HIDE DEF st
    <2> QED
      BY <1>1, <2>1, <2>2, EndBudget
  <1> QED
    BY <1>2, <1>3, <1>4
-----------------------------------------------------------------------------
LEMMA NextBudget ==
  ASSUME PartialAfterBusy = FALSE, MinDeltaBase > 0
  PROVE  BudgetInv /\ [Next]_vars => BudgetInv'
PROOF
  <1>1. SUFFICES ASSUME NEW first \in Storage, BudgetOf(first), [Next]_vars
                 PROVE  BudgetOf(first)'
    BY DEF BudgetInv
  <1>2. ChainInv'
    BY <1>1, NextChain DEF BudgetOf
  <1>3. CASE UNCHANGED vars
    BY <1>1, <1>2, <1>3 DEF vars, BudgetOf, Kept, OneFile
  <1>4. CASE Next
    <2>1. PICK c \in Connections :
            \/ Reopen(c) \/ BeginRead(c) \/ EndRead(c) \/ BeginWrite(c)
            \/ Search(c) \/ Scan(c) \/ CatchUpFails(c)
            \/ Enlist(c) \/ InsertRow(c) \/ DeleteRow(c)
            \/ OpenSavepoint(c) \/ ReleaseSavepoint(c)
            \/ RollbackToSavepoint(c) \/ RollbackToBegin(c)
            \/ OpenStatement(c) \/ CloseStatement(c) \/ AbortStatement(c)
            \/ Commit(c) \/ CommitFails(c) \/ Rollback(c)
      BY <1>4 DEF Next
    <2> QED
      BY <1>1, <1>2, <2>1, SnapshotBudget, ReadBudget, EnlistBudget, WriteBudget,
         PushMarkBudget, ReleaseBudget, RollbackToBudget, AbortStatementBudget,
         CommitBudget, RolledBackEndBudget
  <1> QED
    BY <1>1, <1>3, <1>4

(* Only a commit changes the file, and what it leaves is in budget: either *)
(* xSync wrote it, in this COMMIT or in a busy one before, or the rows are *)
(* all that changed and the sizes were within the budget already.          *)
LEMMA StepInBudget ==
  ASSUME MinDeltaBase > 0, BudgetInv, Next, disk' # disk
  PROVE  InBudget(disk')
PROOF
  <1>1. PICK first \in Storage : BudgetOf(first)
    BY DEF BudgetInv
  <1>2. PICK c \in Connections : Commit(c)
    BY DEF Next, Reopen, BeginRead, EndRead, BeginWrite, Search, Scan, CatchUpFails,
           Enlist, InsertRow, DeleteRow, Update, OpenSavepoint, ReleaseSavepoint,
           PushMark, ReleaseMark, RollbackToSavepoint, RollbackToBegin, OpenStatement,
           CloseStatement, AbortStatement, AbortTo, CommitFails, Rollback, Ended
  <1> DEFINE synced == Sync(state[c], view[c])
  <1>3. disk' = synced.s /\ synced.ok /\ Updating(c)
    BY <1>2 DEF Commit, CommitSynced, Ended
  <1>4. \/ synced.s = view[c]
        \/ Balanced(synced.s)
    BY <1>1, <1>3, CommitSizes
  <1> HIDE DEF synced
  <1>5. /\ Accounted(view[c], first) /\ Accounted(disk, first) /\ OneFile(c)
        /\ mode[c] = "write" /\ view[c] \in Storage
    BY <1>1, <1>3, KeptParts DEF Kept, Updating
  <1>6. disk' = view[c] => view[c].layout # "legacy"
    BY <1>5 DEF Accounted, OneFile, SameFile
  <1>7. disk' = view[c] => Balanced(view[c])
    BY <1>5, <1>6 DEF Accounted
  <1> QED
    BY <1>3, <1>4, <1>7 DEF Balanced

(* When neither ROLLBACK TO nor the rollback of a failed statement follows *)
(* a busy COMMIT in its transaction, every commit leaves deltas shorter    *)
(* than the base they defer, or than MIN_DELTA_BASE_BYTES: for any sizes   *)
(* of rows, batches and images, any number of connections, and every way a *)
(* connection's State comes to the sizes xSync decides on.                 *)
THEOREM BudgetAlways ==
  ASSUME PartialAfterBusy = FALSE, MinDeltaBase > 0
  PROVE  Spec => DeltasStayInBudget
PROOF
  <1>1. Init => BudgetInv
    BY InitBudget
  <1>2. BudgetInv /\ [Next]_vars => BudgetInv'
    BY NextBudget
  <1>3. BudgetInv /\ [Next]_vars =>
          [disk' # disk =>
             BytesUpTo(disk', disk'.generation) < MinDeltaBase
               \/ BytesUpTo(disk', disk'.generation) < BaseBytes(disk')]_disk
    BY StepInBudget DEF InBudget, vars
  <1> QED
    BY <1>1, <1>2, <1>3, PTL DEF Spec, DeltasStayInBudget
=============================================================================
