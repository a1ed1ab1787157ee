--------------------------- MODULE TurboVecTable ---------------------------
(***************************************************************************)
(* turbovec0 as SQLite runs it: several connections on one database file,  *)
(* each with its own instance of the virtual table, and the callbacks      *)
(* SQLite makes as statements, savepoints and transactions begin and end.  *)
(*                                                                         *)
(* SQLite is external.  What is modelled of it is what turbovec0 can tell: *)
(* one writer at a time, snapshot reads, a B-tree that is rolled back      *)
(* before the callback that says so, savepoints and the statement journal  *)
(* numbered as one stack of marks, and in rollback-journal mode a COMMIT   *)
(* that can be refused with SQLITE_BUSY after xSync has run.               *)
(***************************************************************************)
EXTENDS TurboVecState

CONSTANTS
  Connections,
  Journal,         \* "wal" or "delete"
  EarlyMarks,      \* bound: marks open when a transaction first writes
  PartialAfterBusy,\* after a COMMIT that was busy, part of its transaction may
                   \* be rolled back: ROLLBACK TO, or a statement that fails
  MaxMarks,        \* bound: marks open at a time
  MaxChanges,      \* bound: length of a transaction's change log
  InitialLayouts,  \* layouts the database may start in
  InitialCounts    \* numbers of rows it may start with

ASSUME TableAssumption ==
  /\ Journal \in {"wal", "delete"}
  /\ EarlyMarks \in Nat /\ MaxMarks \in Nat /\ MaxChanges \in Nat
  /\ InitialLayouts \subseteq {"legacy", "current"}
  /\ MaxGeneration >= 2
  /\ PartialAfterBusy \in BOOLEAN
  /\ Mark = 0 .. MaxMarks - 1

VARIABLES
  disk,       \* the committed shadow tables
  mode,       \* mode[c]: no transaction, a read snapshot, or the write lock
  view,       \* view[c]: the shadow tables as connection c sees them now
  marks,      \* marks[c]: the open savepoints, and what each would restore
  statement,  \* statement[c]: the last mark is a statement journal
  enlisted,   \* enlisted[c]: xBegin was called in this transaction
  state       \* state[c]: the State of c's instance

vars == <<disk, mode, view, marks, statement, enlisted, state>>

(* A mark is the B-tree at that point; rows, what a search returned there, *)
(* is history that no action reads.                                        *)
MarkRecord == [storage : Storage, rows : Rows \cup {None}]

(* Every state, snapshot and mark has its type, and a statement journal is *)
(* one of the open marks (State, TransactionState, CurrentInfo).           *)
TypeOK ==
  /\ disk \in Storage
  /\ mode \in [Connections -> {"idle", "read", "write"}]
  /\ view \in [Connections -> Storage]
  /\ marks \in [Connections -> Seq(MarkRecord)]
  /\ \A c \in Connections : Len(marks[c]) <= MaxMarks
  /\ statement \in [Connections -> BOOLEAN]
  /\ \A c \in Connections : statement[c] => marks[c] # <<>>
  /\ enlisted \in [Connections -> BOOLEAN]
  /\ state \in [Connections -> State]

InitialStorage ==
  LET rows == {r \in Rows : Cardinality(Keys(r)) \in InitialCounts}
      stored(r) == {x \in Change :
                      \/ x.op = "insert" /\ x.vector # None /\ x.replaces
                      \/ x.id \in Keys(r) /\ x = DeleteOf(x.id)}
  IN  (IF "current" \in InitialLayouts THEN {NewStorage(r) : r \in rows} ELSE {})
      \cup (IF "legacy" \in InitialLayouts
            THEN {LegacyStorage(r) : r \in rows}
                 \cup UNION {{LegacyWithDelta(r, <<x>>) : x \in stored(r)} :
                               r \in rows \ {EmptyRows}}
            ELSE {})

Init ==
  /\ disk \in InitialStorage
  /\ mode = [c \in Connections |-> "idle"]
  /\ view = [c \in Connections |-> disk]
  /\ marks = [c \in Connections |-> <<>>]
  /\ statement = [c \in Connections |-> FALSE]
  /\ enlisted = [c \in Connections |-> FALSE]
  /\ state = [c \in Connections |-> OpenStorage(disk)]

Writing(c) == mode[c] = "write" /\ ~statement[c]
Updating(c) == mode[c] = "write" /\ enlisted[c]
TopMark(c) == Len(marks[c]) - 1
SetState(c, st) == state' = [state EXCEPT ![c] = st]

(* The transaction of c is over: c is back to seeing what is committed, as *)
(* is every idle connection when what is committed changes.                *)
Ended(c, committed) ==
  /\ disk' = committed
  /\ mode' = [mode EXCEPT ![c] = "idle"]
  /\ view' = [d \in Connections |->
                IF d = c \/ mode[d] = "idle" THEN committed ELSE view[d]]
  /\ marks' = [marks EXCEPT ![c] = <<>>]
  /\ statement' = [statement EXCEPT ![c] = FALSE]
  /\ enlisted' = [enlisted EXCEPT ![c] = FALSE]
-----------------------------------------------------------------------------
(* Connections, snapshots and reads. *)

(* The process of c dies, or c closes: its transaction is gone, and the    *)
(* next connection runs xConnect.                                          *)
Reopen(c) == Ended(c, disk) /\ SetState(c, OpenStorage(disk))

BeginRead(c) ==
  /\ mode[c] = "idle"
  /\ mode' = [mode EXCEPT ![c] = "read"]
  /\ UNCHANGED <<disk, view, marks, statement, enlisted, state>>

EndRead(c) ==
  /\ mode[c] = "read"
  /\ Ended(c, disk)
  /\ UNCHANGED state

(* The write lock goes to one connection, and only on the latest snapshot. *)
BeginWrite(c) ==
  /\ mode[c] # "write" /\ view[c] = disk
  /\ \A d \in Connections : mode[d] # "write"
  /\ mode' = [mode EXCEPT ![c] = "write"]
  /\ UNCHANGED <<disk, view, marks, statement, enlisted, state>>

Search(c) ==
  /\ ~statement[c]
  /\ SetState(c, Searched(state[c], view[c]).st)
  /\ UNCHANGED <<disk, mode, view, marks, statement, enlisted>>

Scan(c) ==
  /\ ~statement[c]
  /\ SetState(c, Scanned(state[c], view[c]))
  /\ UNCHANGED <<disk, mode, view, marks, statement, enlisted>>

(* A read that fails while catch_up walks the deltas.                      *)
CatchUpFails(c) ==
  /\ state[c].txn = None /\ state[c].index # None
  /\ CatchesUp(state[c], view[c])
  /\ SetState(c, Dropped(state[c]))
  /\ UNCHANGED <<disk, mode, view, marks, statement, enlisted>>
-----------------------------------------------------------------------------
(* Writes. *)

(* The first statement of a transaction that writes this table: xBegin,    *)
(* and of the marks already open xSavepoint only for the innermost one.    *)
EnlistBegun(c, begun) ==
  /\ SetState(c, IF begun.ok /\ marks[c] # <<>>
                 THEN Savepoint(begun.st, TopMark(c)) ELSE begun.st)
  /\ enlisted' = [enlisted EXCEPT ![c] = begun.ok]

Enlist(c) ==
  /\ mode[c] = "write" /\ ~enlisted[c]
  /\ Len(marks[c]) <= EarlyMarks
  /\ EnlistBegun(c, Begin(state[c], view[c]))
  /\ UNCHANGED <<disk, mode, view, marks, statement>>

Update(c, result) ==
  /\ Updating(c)
  /\ SetState(c, result.st)
  /\ view' = [view EXCEPT ![c] = result.s]
  /\ UNCHANGED <<disk, mode, marks, statement, enlisted>>

InsertRow(c) ==
  /\ Len(Changes(state[c])) < MaxChanges
  /\ \E id \in Rowid, vector \in Vector, replace \in BOOLEAN :
       Update(c, Insert(state[c], view[c], id, vector, replace))

DeleteRow(c) ==
  /\ Len(Changes(state[c])) < MaxChanges
  /\ \E id \in Rowid : Update(c, Delete(state[c], view[c], id))
-----------------------------------------------------------------------------
(* Savepoints, and the statement journal of a statement of several rows.   *)

PushMark(c) ==
  /\ Writing(c) /\ Len(marks[c]) < MaxMarks
  /\ marks' = [marks EXCEPT ![c] =
                 Append(@, [storage |-> view[c], rows |-> SeenRows(state[c], view[c])])]
  /\ SetState(c, IF enlisted[c] THEN Savepoint(state[c], Len(marks[c]))
                                ELSE state[c])
  /\ UNCHANGED <<disk, mode, view, enlisted>>

OpenSavepoint(c) == PushMark(c) /\ UNCHANGED statement

OpenStatement(c) == PushMark(c) /\ statement' = [statement EXCEPT ![c] = TRUE]

ReleaseMark(c, j) ==
  /\ marks' = [marks EXCEPT ![c] = SubSeq(@, 1, j)]
  /\ statement' = [statement EXCEPT ![c] = FALSE]
  /\ SetState(c, IF enlisted[c] THEN Release(state[c], j) ELSE state[c])
  /\ UNCHANGED <<disk, mode, view, enlisted>>

ReleaseSavepoint(c) ==
  Writing(c) /\ \E j \in 0 .. TopMark(c) : ReleaseMark(c, j)

CloseStatement(c) == statement[c] /\ ReleaseMark(c, TopMark(c))

(* Whether part of the transaction may be rolled back here, by ROLLBACK TO *)
(* or because a statement fails: always, unless the run leaves out both    *)
(* after a busy COMMIT, where the code can meet either.                    *)
PartialAllowed(c) == PartialAfterBusy \/ view[c].generation = disk.generation

(* ROLLBACK TO: the B-tree first, then xRollbackTo.  If that fails the     *)
(* transaction stays open, with the B-tree already back at the mark.       *)
RollbackToSavepoint(c) ==
  /\ Writing(c) /\ PartialAllowed(c)
  /\ \E j \in 0 .. TopMark(c) :
       /\ view' = [view EXCEPT ![c] = marks[c][j + 1].storage]
       /\ marks' = [marks EXCEPT ![c] = SubSeq(@, 1, j + 1)]
       /\ SetState(c, IF enlisted[c] THEN RollbackTo(state[c], j).st ELSE state[c])
  /\ UNCHANGED <<disk, mode, statement, enlisted>>

(* ROLLBACK TO the savepoint that opened the transaction.                  *)
RollbackToBegin(c) ==
  /\ Writing(c) /\ PartialAllowed(c)
  /\ view' = [view EXCEPT ![c] = disk]
  /\ marks' = [marks EXCEPT ![c] = <<>>]
  /\ SetState(c, IF enlisted[c] THEN RollbackToStart(state[c]).st ELSE state[c])
  /\ UNCHANGED <<disk, mode, statement, enlisted>>

(* A statement fails after some of its rows: its journal is rolled back    *)
(* and released.  If xRollbackTo fails SQLite rolls back everything.       *)
AbortTo(c, j, back) ==
  IF back.ok
  THEN /\ view' = [view EXCEPT ![c] = marks[c][j + 1].storage]
       /\ marks' = [marks EXCEPT ![c] = SubSeq(@, 1, j)]
       /\ statement' = [statement EXCEPT ![c] = FALSE]
       /\ SetState(c, IF enlisted[c] THEN Release(back.st, j) ELSE back.st)
       /\ UNCHANGED <<disk, mode, enlisted>>
  ELSE Ended(c, disk) /\ SetState(c, RolledBack(back.st))

AbortStatement(c) ==
  /\ statement[c] /\ PartialAllowed(c)
  /\ AbortTo(c, TopMark(c), IF enlisted[c] THEN RollbackTo(state[c], TopMark(c))
                                           ELSE Result(TRUE, state[c]))
-----------------------------------------------------------------------------
(* The end of a transaction. *)

(* A rollback journal cannot be committed while another connection reads.  *)
Busy(c) == Journal = "delete" /\ \E d \in Connections \ {c} : mode[d] = "read"

(* COMMIT: xSync, then the file, then xCommit.  When the file is busy the  *)
(* transaction stays open after xSync; when xSync fails it is rolled back. *)
CommitSynced(c, synced) ==
  \/ /\ ~synced.ok
     /\ Ended(c, disk) /\ SetState(c, RolledBack(synced.st))
  \/ /\ synced.ok /\ Busy(c)
     /\ view' = [view EXCEPT ![c] = synced.s]
     /\ SetState(c, synced.st)
     /\ UNCHANGED <<disk, mode, marks, statement, enlisted>>
  \/ /\ synced.ok /\ ~Busy(c)
     /\ Ended(c, synced.s) /\ SetState(c, Committed(synced.st))

Commit(c) ==
  /\ Updating(c) /\ ~statement[c]
  /\ CommitSynced(c, Sync(state[c], view[c]))

(* COMMIT meets an I/O error in one of the writes of xSync.                *)
PartialSync(st, s) ==
  {st, EnsureLoaded(st, s)}
    \cup (IF st.layout = "legacy" /\ st.txn # None THEN {Upgrade(st, s).st} ELSE {})
CommitFails(c) ==
  /\ Updating(c) /\ ~statement[c] /\ state[c].dirty
  /\ Ended(c, disk)
  /\ \E st \in PartialSync(state[c], view[c]) : SetState(c, RolledBack(st))

Rollback(c) ==
  /\ mode[c] = "write"
  /\ Ended(c, disk)
  /\ SetState(c, IF enlisted[c] THEN RolledBack(state[c]) ELSE state[c])

Next ==
  \E c \in Connections :
    \/ Reopen(c) \/ BeginRead(c) \/ EndRead(c) \/ BeginWrite(c)
    \/ Search(c) \/ Scan(c) \/ CatchUpFails(c)
    \/ Enlist(c) \/ InsertRow(c) \/ DeleteRow(c)
    \/ OpenSavepoint(c) \/ ReleaseSavepoint(c)
    \/ RollbackToSavepoint(c) \/ RollbackToBegin(c)
    \/ OpenStatement(c) \/ CloseStatement(c) \/ AbortStatement(c)
    \/ Commit(c) \/ CommitFails(c) \/ Rollback(c)

Spec == Init /\ [][Next]_vars
-----------------------------------------------------------------------------
(* Properties. *)

(* PRAGMA integrity_check: what it compares, for one version of the shadow *)
(* tables and the changes the checking connection has not written yet.     *)
Integrity(s, unsynced) ==
  /\ Readable(s)
  /\ s.layout = "current" =>
       /\ s.rowCount = Cardinality(Keys(Content(s)))
       /\ s.deltaBytes = BytesUpTo(s, s.generation)
       /\ s.deltaOps = OpsUpTo(s, s.generation)
       /\ s.ids = KeysAfter(Content(s), unsynced)

(* At every moment PRAGMA integrity_check passes on every connection: _ids *)
(* follows each statement and savepoint, the chunks follow only commits,   *)
(* and the two still agree up to the change log (chunked.rs, integrity).   *)
IntegrityCheckPasses ==
  \A c \in Connections : Integrity(view[c], Unsynced(state[c]))

(* The same check on the file alone, as the next process will run it.      *)
CommittedIntegrity == Integrity(disk, <<>>)

(* Every version of the shadow tables there is - committed, as a           *)
(* connection sees it, or as ROLLBACK TO would bring it back - has a whole *)
(* base and an unbroken run of deltas that ends at its generation, which   *)
(* read_index insists on before it loads anything.                         *)
ChainUnbroken ==
  /\ Chained(disk)
  /\ \A c \in Connections :
       /\ Chained(view[c])
       /\ \A j \in DOMAIN marks[c] : Chained(marks[c][j].storage)

(* In a transaction a loaded index is the storage with the changes not yet *)
(* written on top: its rows exactly, and each vector the log still knows   *)
(* (State.index: "When loaded it includes this transaction's changes").    *)
TransactionIndexExact ==
  \A c \in Connections :
    LET st == state[c] s == view[c]
        expected == Replay(Content(s), Unsynced(st))
    IN  st.index # None /\ st.txn # None =>
          /\ Keys(st.index) = KeysAfter(Content(s), Unsynced(st))
          /\ \A id \in Keys(st.index) : expected[id] \in {st.index[id], None}

(* Outside a transaction the generation alone says whether a copy is good: *)
(* if it is the stored one, the copy is the stored index (refresh).        *)
GenerationIdentifiesCopy ==
  \A c \in Connections :
    LET st == state[c] s == view[c]
    IN  st.index # None /\ st.txn = None /\ st.generation = s.generation
          => st.index = Content(s)

(* A full scan, which reads _ids or the index, returns the rows a KNN      *)
(* search knows, whichever of the two it happens to read (rowids).         *)
PathsAgree ==
  \A c \in Connections :
    /\ SeenRows(state[c], view[c]) # None
    /\ ScanKeys(state[c], view[c]) = Keys(SeenRows(state[c], view[c]))

(* Whatever was done in the transaction, xSync does not refuse it, short   *)
(* of the last generation: its checks of the log, of the row count and of  *)
(* the vectors a delta needs are met (sync).                               *)
CommitNeverRefused ==
  \A c \in Connections :
    Updating(c) /\ ~statement[c] /\ state[c].generation < MaxGeneration
      => Sync(state[c], view[c]).ok

(* xRollbackTo finds every mark SQLite can name, and can go back to it     *)
(* (rollback_to, restore_to).                                              *)
RollbackNeverRefused ==
  \A c \in Connections :
    Updating(c) /\ PartialAllowed(c) =>
      /\ \A j \in 0 .. TopMark(c) : RollbackTo(state[c], j).ok
      /\ RollbackToStart(state[c]).ok

(* Every committed write raises the generation, so storage that changed is *)
(* never mistaken for storage that did not (refresh compares only this).   *)
GenerationAdvances == [][disk' # disk => disk'.generation > disk.generation]_disk

(* After a commit the deltas are smaller than the base they defer, or than *)
(* MIN_DELTA_BASE_BYTES: the budget in sync holds.                         *)
DeltasStayInBudget ==
  [][disk' # disk =>
       BytesUpTo(disk', disk'.generation) < MinDeltaBase
         \/ BytesUpTo(disk', disk'.generation) < BaseBytes(disk')]_disk

(* When only delta batches were committed since a warm copy's generation,  *)
(* refresh replays them and keeps the copy (DESIGN.md).                    *)
WarmCopySurvivesDeltas ==
  \A c \in Connections :
    LET st == state[c] s == view[c]
    IN  /\ st.txn = None /\ st.index # None /\ st.generation < s.generation
        /\ DeltasAfter(s, st.generation) = st.generation + 1 .. s.generation
        => Refresh(st, s).st.index # None
=============================================================================
