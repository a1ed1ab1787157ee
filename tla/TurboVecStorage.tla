-------------------------- MODULE TurboVecStorage --------------------------
(***************************************************************************)
(* The persistent half of a turbovec0 table: what its shadow tables        *)
(* (_meta or _info, _ids, _chunks) hold and what the operations on them    *)
(* compute.  There is no state here, only values: an index image, a log of *)
(* changes, and a Storage record that is one committed, or one             *)
(* transaction's, version of the shadow tables.                            *)
(*                                                                         *)
(* The TurboVec library is external.  All turbovec0 relies on is a map     *)
(* from rowids to vectors with a serialized length, so that is what an     *)
(* index is here.  A batch of changes is folded in closed form (the last   *)
(* change that touches a rowid decides), which is what the loops of the    *)
(* code compute: TurboVecLog compares the two.                             *)
(***************************************************************************)
EXTENDS Integers, Sequences, FiniteSetsExt

CONSTANTS
  Rowid, Vector,        \* the ids and the embeddings in play
  None,                 \* no vector; also no index, no transaction
  MaxGeneration,        \* stands for i64::MAX, the last generation there is
  MinDeltaBase,         \* MIN_DELTA_BASE_BYTES
  MinCompactionDelta,   \* MIN_COMPACTION_DELTA_BYTES
  OperationFloor,       \* the 10 000 operations of sync()
  ImageOverhead, ImageRowBytes,        \* serialized length of an index
  DeltaFrame, OpBytes, VectorBytes     \* serialized length of a delta

ASSUME NoneAssumption ==
  /\ None \notin Vector
  /\ None \notin [Rowid -> Vector \cup {None}]

ASSUME SizeAssumption ==
  /\ IsFiniteSet(Rowid)
  /\ MaxGeneration \in Nat
  /\ MinDeltaBase \in Nat /\ MinCompactionDelta \in Nat
  /\ OperationFloor \in Nat
  /\ ImageOverhead \in Nat /\ ImageRowBytes \in Nat
  /\ DeltaFrame \in Nat /\ OpBytes \in Nat /\ VectorBytes \in Nat

-----------------------------------------------------------------------------
(* The in-memory index, and the image it serializes to. *)

Rows == [Rowid -> Vector \cup {None}]
EmptyRows == [id \in Rowid |-> None]
Keys(rows) == {id \in Rowid : rows[id] # None}
ImageLen(rows) == ImageOverhead + ImageRowBytes * Cardinality(Keys(rows))
-----------------------------------------------------------------------------
(* The change log of a transaction and of a delta batch. *)

Change == [op : {"insert", "delete"}, id : Rowid,
           vector : Vector \cup {None}, replaces : BOOLEAN]

InsertOf(id, vector, replaces) ==
  [op |-> "insert", id |-> id, vector |-> vector, replaces |-> replaces]
DeleteOf(id) ==
  [op |-> "delete", id |-> id, vector |-> None, replaces |-> FALSE]

Inserts(cs) == {i \in DOMAIN cs : cs[i].op = "insert"}
Touching(cs, id) == {i \in DOMAIN cs : cs[i].id = id}
(* Mutant: an early change wins over a later one. *)
FirstTouch(cs, id) == Min(Touching(cs, id))
LastTouch(cs, id) == Max(Touching(cs, id))

(* What replaying cs leaves in rows: each id as its last change left it. *)
Replay(rows, cs) ==
  [id \in Rowid |->
     IF Touching(cs, id) = {} THEN rows[id] ELSE cs[LastTouch(cs, id)].vector]

(* The ids that are left, which unlike the vectors the log always knows.   *)
KeysAfter(rows, cs) ==
  {id \in Rowid :
     IF Touching(cs, id) = {} THEN rows[id] # None
                              ELSE cs[LastTouch(cs, id)].op = "insert"}

(* Whether id is in the index when the i-th change of cs is replayed. *)
PresentAt(rows, cs, i) ==
  LET earlier == {j \in Touching(cs, cs[i].id) : j < i}
  IN  IF earlier = {} THEN rows[cs[i].id] # None
                      ELSE cs[Max(earlier)].op = "insert"

(* Replay stops with an error at an insert that kept no vector and at a    *)
(* delete of a row that is not there.                                      *)
ReplayOK(rows, cs) ==
  \A i \in DOMAIN cs :
    IF cs[i].op = "insert" THEN cs[i].vector # None ELSE PresentAt(rows, cs, i)

(* Undoing appends, from the last to the first: the first change in that   *)
(* order that is not an append, or whose row is no longer there, stops it. *)
(* Mutant: a replacement is undone like an append. *)
UndoableReplacing(rows, cs, i) ==
  /\ cs[i].op = "insert" /\ rows[cs[i].id] # None
  /\ \A j \in Touching(cs, cs[i].id) : j <= i
Undoable(rows, cs, i) ==
  /\ cs[i].op = "insert" /\ ~cs[i].replaces
  /\ rows[cs[i].id] # None
  /\ \A j \in Touching(cs, cs[i].id) : j <= i
UndoFaults(rows, cs) == {i \in DOMAIN cs : ~Undoable(rows, cs, i)}
UndoInserts(rows, cs) ==
  LET faults == UndoFaults(rows, cs)
      undone == {i \in DOMAIN cs : faults = {} \/ i > Max(faults)}
  IN  [id \in Rowid |-> IF Touching(cs, id) \cap undone # {} THEN None ELSE rows[id]]

(* Mutant: a replacement passes for an append. *)
InsertOnly(cs) == \A i \in DOMAIN cs : cs[i].op = "insert"
AppendOnly(cs) == \A i \in DOMAIN cs : cs[i].op = "insert" /\ ~cs[i].replaces

(* Mutant: a replacement counts as a new row. *)
NetInserts(cs) == Cardinality(Inserts(cs)) - Cardinality(DOMAIN cs \ Inserts(cs))
NetRows(cs) ==
  Cardinality({i \in Inserts(cs) : ~cs[i].replaces})
    - Cardinality(DOMAIN cs \ Inserts(cs))

(* A batch as decode_delta returns it: `replaces` is not stored, and every *)
(* decoded insert is marked as a replacement.                              *)
Encodable(cs) == \A i \in Inserts(cs) : cs[i].vector # None
(* Mutant: a batch is read back in the opposite order. *)
DecodedBackwards(cs) ==
  [i \in DOMAIN cs |-> [cs[Len(cs) + 1 - i] EXCEPT !.replaces = TRUE]]
Decoded(cs) ==
  [i \in DOMAIN cs |-> [cs[i] EXCEPT !.replaces = (cs[i].op = "insert")]]
DeltaLen(cs) ==
  DeltaFrame + OpBytes * Len(cs) + VectorBytes * Cardinality(Inserts(cs))
-----------------------------------------------------------------------------
(* The shadow tables.  A legacy (0.2.0) table has generation and byteLen   *)
(* in _meta and neither _info nor _ids, so the other fields are at rest.   *)
(* byteLen is stored as the code stores it: negative while deltas exist.   *)
(* deltas maps a generation to the batch in chunk -generation, if there is *)
(* one; a batch carries the summed lengths of the chunks up to it, which   *)
(* the code sums whenever it walks them.                                   *)

Generation == 0 .. MaxGeneration
Batch == [changes : Seq(Change), bytes : Nat, ops : Nat]
ASSUME BatchAssumption == None \notin Batch
Deltas == [Generation -> Batch \cup {None}]
NoDeltas == [g \in Generation |-> None]

Storage == [layout : {"legacy", "current"}, generation : Generation,
            byteLen : Int, rowCount : Nat, deltaBytes : Int, deltaOps : Int,
            ids : SUBSET Rowid, base : Rows, deltas : Deltas]

HasDeltas(s) == s.byteLen < 0
(* Mutant: the stored length is used undecoded. *)
RawByteLen(s) == s.byteLen
BaseBytes(s) == IF HasDeltas(s) THEN -s.byteLen - 1 ELSE s.byteLen

Stored(s) == {g \in Generation : s.deltas[g] # None}
(* The summed lengths of the batches up to generation g. *)
BytesUpTo(s, g) ==
  LET G == {d \in Stored(s) : d <= g}
  IN  IF G = {} THEN 0 ELSE s.deltas[Max(G)].bytes
OpsUpTo(s, g) ==
  LET G == {d \in Stored(s) : d <= g}
  IN  IF G = {} THEN 0 ELSE s.deltas[Max(G)].ops

DeltasAfter(s, g) == {d \in Stored(s) : d > g}
(* rows with every batch newer than g, and no newer than h, replayed. *)
ReplayDeltas(rows, s, g, h) ==
  [id \in Rowid |->
     LET touching == {d \in DeltasAfter(s, g) :
                        d <= h /\ Touching(s.deltas[d].changes, id) # {}}
     IN  IF touching = {} THEN rows[id]
         ELSE LET last == s.deltas[Max(touching)].changes
              IN  last[LastTouch(last, id)].vector]
DeltasReplayOK(rows, s, g) ==
  \A d \in DeltasAfter(s, g) :
    ReplayOK(ReplayDeltas(rows, s, g, d - 1), s.deltas[d].changes)

(* The chunks add up to the recorded length (validate_chunks).             *)
BaseComplete(s) == BaseBytes(s) = ImageLen(s.base)
Contiguous(G) == \A d \in G : \A e \in G : d .. e \subseteq G

(* What read_index returns, and when it returns at all. *)
Content(s) == ReplayDeltas(s.base, s, -1, s.generation)
Chained(s) ==
  /\ BaseComplete(s)
  /\ Contiguous(Stored(s))
  /\ IF Stored(s) = {} THEN ~HasDeltas(s)
     ELSE HasDeltas(s) /\ Max(Stored(s)) = s.generation
Readable(s) == Chained(s) /\ DeltasReplayOK(s.base, s, -1)
-----------------------------------------------------------------------------
(* The writes of a commit.  A compaction replaces the base and deletes     *)
(* every delta; a delta is one more chunk beside an unchanged base.        *)

(* Mutant: a compaction leaves the delta chunks. *)
WriteIndexOnly(s, rows) == [s EXCEPT !.base = rows]
WriteIndex(s, rows) == [s EXCEPT !.base = rows, !.deltas = NoDeltas]
(* Mutant: a compaction leaves the recorded row count. *)
RecordCompactionOnly(s, generation, byteLen, rowCount) ==
  [s EXCEPT !.generation = generation, !.byteLen = byteLen,
            !.deltaBytes = 0, !.deltaOps = 0]
RecordCompaction(s, generation, byteLen, rowCount) ==
  [s EXCEPT !.generation = generation, !.byteLen = byteLen,
            !.rowCount = rowCount, !.deltaBytes = 0, !.deltaOps = 0]

BatchOf(s, cs) ==
  [changes |-> Decoded(cs), bytes |-> BytesUpTo(s, MaxGeneration) + DeltaLen(cs),
   ops |-> OpsUpTo(s, MaxGeneration) + Len(cs)]
WriteDelta(s, generation, cs) ==
  [s EXCEPT !.deltas[generation] = BatchOf(s, cs)]
(* Mutant: a delta does not advance the generation. *)
RecordDeltaInPlace(s, generation, rowCount, deltaBytes, deltaOps) ==
  [s EXCEPT !.byteLen = IF @ >= 0 THEN -@ - 1 ELSE @,
            !.rowCount = rowCount, !.deltaBytes = deltaBytes,
            !.deltaOps = deltaOps]
RecordDelta(s, generation, rowCount, deltaBytes, deltaOps) ==
  [s EXCEPT !.generation = generation,
            !.byteLen = IF @ >= 0 THEN -@ - 1 ELSE @,
            !.rowCount = rowCount, !.deltaBytes = deltaBytes,
            !.deltaOps = deltaOps]

(* Mutant: the budget before it was capped at the base. *)
UncappedByteLimit(baseBytes) == Max({baseBytes \div 4, MinCompactionDelta})
ByteLimit(baseBytes) ==
  Min({Max({baseBytes \div 4, MinCompactionDelta}), Max({baseBytes, MinDeltaBase})})
OperationLimit(rowCount) == Max({rowCount \div 4, OperationFloor})
MustCompact(baseBytes, deltaBytes, deltaOps, rowCount) ==
  \/ baseBytes < MinDeltaBase
  \/ deltaBytes >= ByteLimit(baseBytes)
  \/ deltaOps >= OperationLimit(rowCount)

(* upgrade_storage: _info copied from the connection's state, _ids filled  *)
(* from its index, the _meta row deleted.  byte_len is copied as stored.   *)
(* Mutant: _ids is created and not filled. *)
UpgradedWithoutIds(s, generation, rows, rowCount, deltaBytes, deltaOps) ==
  [s EXCEPT !.layout = "current", !.generation = generation,
            !.rowCount = rowCount, !.deltaBytes = deltaBytes,
            !.deltaOps = deltaOps]
Upgraded(s, generation, rows, rowCount, deltaBytes, deltaOps) ==
  [s EXCEPT !.layout = "current", !.generation = generation,
            !.rowCount = rowCount, !.deltaBytes = deltaBytes,
            !.deltaOps = deltaOps, !.ids = Keys(rows)]

(* create_storage, and a 0.2.0 table as that release left one.  The two    *)
(* carry generation 0 only when nothing was ever committed.                *)
NewStorage(rows) ==
  [layout |-> "current", generation |-> IF rows = EmptyRows THEN 0 ELSE 1,
   byteLen |-> ImageLen(rows), rowCount |-> Cardinality(Keys(rows)),
   deltaBytes |-> 0, deltaOps |-> 0, ids |-> Keys(rows), base |-> rows,
   deltas |-> NoDeltas]
LegacyStorage(rows) ==
  [NewStorage(rows) EXCEPT !.layout = "legacy", !.rowCount = 0, !.ids = {}]
LegacyWithDelta(rows, cs) ==
  LET s == LegacyStorage(rows)
  IN  [WriteDelta(s, 2, cs) EXCEPT !.generation = 2, !.byteLen = -@ - 1]
=============================================================================
