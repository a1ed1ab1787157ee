------------------------ MODULE TurboVecCountProofs ------------------------
(***************************************************************************)
(* The counts.  xSync knows how many rows there will be by adding and      *)
(* subtracting, a load counts those it read, and each refuses to go on if  *)
(* the other disagrees; integrity_check compares all of it again.  They    *)
(* never disagree, every delta that was written can be replayed, and so no *)
(* read and no COMMIT is refused - under the two assumptions explained in  *)
(* TurboVecExactProofs.                                                    *)
(***************************************************************************)
EXTENDS TurboVecExactProofs

-----------------------------------------------------------------------------
(* The row count of a truthful log. *)

LEMMA CountOneMore ==
  ASSUME NEW cs \in Seq(Change), NEW x \in Change, NEW base \in Rows,
         Truthful(base, Append(cs, x)),
         Cardinality(KeysAfter(base, cs)) = Cardinality(Keys(base)) + NetRows(cs)
  PROVE  Cardinality(KeysAfter(base, Append(cs, x))) =
           Cardinality(Keys(base)) + NetRows(Append(cs, x))
PROOF
  <1> DEFINE more == Append(cs, x)
             K == KeysAfter(base, cs)
  <1>1. Parts(more, cs, <<x>>)
    BY AppendParts
  <1>2. K \subseteq Rowid
    BY KeysAfterIds
  <1>3. PICK mid : Keys(mid) = K
    BY <1>2, SomeRows
  <1> HIDE DEF more
  <1>4. Truthful(base, cs) /\ Truthful(mid, <<x>>)
    BY <1>1, <1>3, TruthfulJoin DEF more
  <1>5. /\ x.id \in K <=> (x.op = "delete" \/ x.replaces)
        /\ x.op = "delete" => x.vector = None
    BY <1>3, <1>4, OneChangeKeys
  <1>6. KeysAfter(base, more) = IF x.op = "insert" THEN K \cup {x.id} ELSE K \ {x.id}
    BY <1>4, <1>5, AppendChange DEF more
  <1>7. /\ Cardinality(K \cup {x.id}) = IF x.id \in K THEN Cardinality(K) ELSE Cardinality(K) + 1
        /\ Cardinality(K \ {x.id}) = IF x.id \in K THEN Cardinality(K) - 1 ELSE Cardinality(K)
    BY <1>2, FiniteKeys, FS_AddElement, FS_RemoveElement
  <1>8. x.op \in {"insert", "delete"}
    BY DEF Change
  <1>9. NetRows(cs) \in Int /\ Cardinality(Keys(base)) \in Nat
    BY NetRowsType, CountOfKeys
  <1>10. Cardinality(KeysAfter(base, more)) =
           IF x.op = "delete" THEN Cardinality(K) - 1
           ELSE IF x.replaces THEN Cardinality(K) ELSE Cardinality(K) + 1
    BY <1>5, <1>6, <1>7, <1>8
  <1> QED
    BY <1>9, <1>10, NetOfOneMore DEF more

(* What sync() computes for the next row count is the number of rows: the  *)
(* longest part of the log for which it is, is the whole log.              *)
LEMMA TruthfulCount ==
  ASSUME NEW cs \in Seq(Change), NEW base \in Rows, Truthful(base, cs)
  PROVE  Cardinality(KeysAfter(base, cs)) = Cardinality(Keys(base)) + NetRows(cs)
PROOF
  <1> DEFINE Counted(n) ==
               Cardinality(KeysAfter(base, SubSeq(cs, 1, n))) =
                 Cardinality(Keys(base)) + NetRows(SubSeq(cs, 1, n))
             T == {n \in 0 .. Len(cs) : Counted(n)}
  <1>1. Len(cs) \in Nat /\ SubSeq(cs, 1, 0) = <<>> /\ SubSeq(cs, 1, Len(cs)) = cs
    BY WholeLog1
  <1>2. Counted(0)
    <2> DEFINE none == SubSeq(cs, 1, 0)
               Added == {i \in Inserts(none) : ~none[i].replaces}
               Removed == DOMAIN none \ Inserts(none)
    <2>1. none = <<>> /\ DOMAIN none = {}
      OBVIOUS
    <2> HIDE DEF none
    <2>2. Inserts(none) = {}
      BY <2>1 DEF Inserts
    <2>3. Added = {} /\ Removed = {}
      BY <2>1, <2>2
    <2>4. NetRows(none) = Cardinality(Added) - Cardinality(Removed)
      BY DEF NetRows
    <2> HIDE DEF Added, Removed
    <2>5. NetRows(none) = 0
      BY <2>3, <2>4, FS_EmptySet
    <2>6. KeysAfter(base, none) = Keys(base)
      BY <2>1, ExactNothing
    <2>7. Cardinality(Keys(base)) \in Nat
      BY CountOfKeys
    <2>8. Cardinality(KeysAfter(base, none)) = Cardinality(Keys(base)) + NetRows(none)
      BY <2>5, <2>6, <2>7
    <2> QED
      BY <2>8 DEF none
  <1>3. ASSUME NEW n \in 0 .. Len(cs), Counted(n), n < Len(cs)
        PROVE  Counted(n + 1)
    <2> DEFINE a == SubSeq(cs, 1, n)
               more == SubSeq(cs, 1, n + 1)
               x == cs[n + 1]
    <2>1. a \in Seq(Change) /\ x \in Change /\ more = Append(a, x)
      <3>1. a \in Seq(Change) /\ x \in Change
        BY <1>1, <1>3
      <3>2. more \in Seq(Change) /\ Len(more) = n + 1 /\ \A i \in 1 .. n + 1 : more[i] = cs[i]
        BY <1>1, <1>3
      <3>3. Len(a) = n /\ \A i \in 1 .. n : a[i] = cs[i]
        BY <1>1, <1>3
      <3> HIDE DEF a, x, more
      <3>4. /\ Append(a, x) \in Seq(Change) /\ Len(Append(a, x)) = n + 1
            /\ Append(a, x)[n + 1] = x /\ \A i \in 1 .. n : Append(a, x)[i] = a[i]
        BY <3>1, <3>3
      <3>5. \A i \in 1 .. n + 1 : more[i] = Append(a, x)[i]
        BY <1>1, <1>3, <3>2, <3>3, <3>4 DEF x
      <3> QED
        BY <3>1, <3>2, <3>4, <3>5
    <2>2. Truthful(base, more)
      BY <1>1, <1>3, CutParts, TruthfulFirst
    <2>3. Cardinality(KeysAfter(base, a)) = Cardinality(Keys(base)) + NetRows(a)
      BY <1>3
    <2> HIDE DEF a, x, more
    <2>4. Cardinality(KeysAfter(base, more)) = Cardinality(Keys(base)) + NetRows(more)
      BY <2>1, <2>2, <2>3, CountOneMore
    <2> QED
      BY <2>4 DEF more
  <1> DEFINE m == Max(T)
  <1> HIDE DEF Counted
  <1>4. \A n : n \in T <=> n \in 0 .. Len(cs) /\ Counted(n)
    OBVIOUS
  <1> HIDE DEF T
  <1>5. m \in T /\ \A y \in T : y <= m
    <2>1. T \subseteq 0 .. Len(cs) /\ T # {} /\ 0 \in Int /\ Len(cs) \in Int
      BY <1>1, <1>2, <1>4
    <2> QED
      BY <2>1, MaxInRange
  <1> HIDE DEF m
  <1>6. m = Len(cs)
    <2>1. SUFFICES ASSUME m < Len(cs) PROVE FALSE
      BY <1>1, <1>4, <1>5
    <2>2. m + 1 \in T
      BY <1>1, <1>3, <1>4, <1>5, <2>1
    <2> QED
      BY <1>1, <1>4, <1>5, <2>2
  <1> QED
    BY <1>1, <1>4, <1>5, <1>6 DEF Counted
-----------------------------------------------------------------------------
(* Storage. *)

(* Every delta can be replayed where it stands, and _info has the number   *)
(* of rows.                                                                *)
Counts(s) ==
  /\ DeltasReplayOK(s.base, s, -1)
  /\ s.layout = "current" => s.rowCount = Cardinality(Keys(Content(s)))

LEMMA SameDataCounts ==
  ASSUME NEW s \in Storage, NEW t \in Storage, SameData(s, t), Counts(t)
  PROVE  Counts(s) /\ Content(s) = Content(t)
PROOF
  <1>1. SameImage(s, t) /\ s.layout = t.layout /\ s.rowCount = t.rowCount
    BY SameDataFacts
  <1>2. Content(s) = Content(t) /\ (DeltasReplayOK(s.base, s, -1) <=> DeltasReplayOK(s.base, t, -1))
    BY <1>1, SameImageExtends
  <1>3. s.base = t.base
    BY <1>1 DEF SameImage
  <1> QED
    BY <1>1, <1>2, <1>3 DEF Counts

LEMMA NoDeltasReplay ==
  ASSUME NEW s, s.deltas = NoDeltas
  PROVE  DeltasReplayOK(s.base, s, -1)
PROOF
  BY DEF DeltasReplayOK, DeltasAfter, Stored, NoDeltas

(* A delta that replays on the content it follows.                         *)
LEMMA DeltaReplays ==
  ASSUME NEW s \in Storage, Chained(s), DeltasReplayOK(s.base, s, -1),
         NEW g \in Generation, g = s.generation + 1,
         NEW cs \in Seq(Change), ReplayOK(Content(s), cs),
         NEW t \in Storage, t.base = s.base, t.deltas[g].changes = Decoded(cs),
         \A d \in Generation \ {g} : t.deltas[d] = s.deltas[d]
  PROVE  DeltasReplayOK(t.base, t, -1)
PROOF
  <1>1. \A d \in Stored(s) : d <= s.generation
    <2>1. Stored(s) # {} => \A d \in Stored(s) : d <= Max(Stored(s))
      BY LatestOf
    <2> QED
      BY <2>1 DEF Chained
  <1>2. s.generation \in Int /\ Generation \subseteq Int /\ s.generation < g
    BY GenerationType DEF Generation
  <1>3. SUFFICES ASSUME NEW d \in DeltasAfter(t, -1)
                 PROVE  ReplayOK(ReplayDeltas(t.base, t, -1, d - 1), t.deltas[d].changes)
    BY DEF DeltasReplayOK
  <1>4. d \in Generation /\ t.deltas[d] # None /\ d > -1
    BY DEF DeltasAfter, Stored
  <1>5. d <= g
    BY <1>1, <1>2, <1>4 DEF Stored
  <1>6. ReplayDeltas(t.base, t, -1, d - 1) = ReplayDeltas(s.base, s, -1, d - 1)
    <2>1. \A e \in Generation : -1 < e /\ e <= d - 1 => t.deltas[e] = s.deltas[e]
      BY <1>2, <1>4, <1>5
    <2> QED
      BY <2>1, ReplayDeltasSame
  <1>7. CASE d = g
    <2>1. ReplayDeltas(s.base, s, -1, d - 1) = Content(s)
      BY <1>2, <1>7 DEF Content
    <2> QED
      BY <1>6, <1>7, <2>1, DecodedReplay
  <1>8. CASE d # g
    <2>1. d \in DeltasAfter(s, -1) /\ t.deltas[d] = s.deltas[d]
      BY <1>4, <1>8 DEF DeltasAfter, Stored
    <2> QED
      BY <1>6, <2>1 DEF DeltasReplayOK
  <1> QED
    BY <1>7, <1>8

(* What catch_up replays on a faithful copy it can replay.                 *)
LEMMA LaterReplay ==
  ASSUME NEW s \in Storage, DeltasReplayOK(s.base, s, -1), NEW g \in Generation
  PROVE  DeltasReplayOK(ContentAt(s, g), s, g)
PROOF
  <1>1. SUFFICES ASSUME NEW d \in DeltasAfter(s, g)
                 PROVE  ReplayOK(ReplayDeltas(ContentAt(s, g), s, g, d - 1),
                                 s.deltas[d].changes)
    BY DEF DeltasReplayOK
  <1>2. d \in Generation /\ d > g /\ s.deltas[d] # None
    BY DEF DeltasAfter, Stored
  <1>3. d \in Int /\ g \in Int /\ d - 1 \in Int /\ -1 <= g /\ g <= d - 1 /\ -1 \in Int
    BY <1>2 DEF Generation
  <1>4. s.base \in Rows
    BY DEF Storage
  <1>5. ReplayDeltas(ContentAt(s, g), s, g, d - 1) = ReplayDeltas(s.base, s, -1, d - 1)
    BY <1>3, <1>4, ReplayDeltasCompose DEF ContentAt
  <1>6. d \in DeltasAfter(s, -1)
    BY <1>2, <1>3 DEF DeltasAfter, Stored
  <1> QED
    BY <1>5, <1>6 DEF DeltasReplayOK
-----------------------------------------------------------------------------
(* What a State must know of the count, and of the vectors, of the storage *)
(* it is about to commit on.                                               *)

Tallied(st, s) == st.rowCount = Cardinality(Keys(Content(s)))

(* Where no index, or none small enough, can stand in for the log, the log *)
(* has kept every vector.                                                  *)
Retains(st) ==
  st.index = None \/ st.baseBytes >= MinDeltaBase => Encodable(Unsynced(st))

(* A copy of a table in the old layout counts its own rows. *)
CopyTally(st) ==
  st.layout = "legacy" /\ st.index # None => st.rowCount = Cardinality(Keys(st.index))

(* The transaction writes on storage it knows.                             *)
Counted(st, s) ==
  /\ Working(st, s) /\ Chained(s) /\ Counts(s) /\ Sized(st, s)
  /\ Tallied(st, s) /\ Retains(st)

LEMMA CountOfContent ==
  ASSUME NEW s \in Storage
  PROVE  Content(s) \in Rows /\ Cardinality(Keys(Content(s))) \in Nat
PROOF
  BY ContentType, CountOfKeys

LEMMA EncodableAppend ==
  ASSUME NEW cs \in Seq(Change), NEW x \in Change
  PROVE  Encodable(Append(cs, x)) <=> Encodable(cs) /\ (x.op = "insert" => x.vector # None)
PROOF
  BY AppendParts, KindsOfParts, OneChangeKinds

LEMMA LoadedCount ==
  ASSUME NEW st \in State, NEW s \in Storage, st.index = None, Loadable(st, s)
  PROVE  LET new == EnsureLoaded(st, s)
         IN  /\ new.rowCount = Cardinality(Keys(Content(s)))
             /\ new.index = IF ReplayOK(Content(s), Unsynced(st))
                            THEN Replay(Content(s), Unsynced(st)) ELSE None
PROOF
  <1> DEFINE content == Content(s)
             new == Loaded(st, s, content)
  <1>1. EnsureLoaded(st, s) = new
    BY DEF EnsureLoaded
  <1>2. /\ new.rowCount = Cardinality(Keys(content))
        /\ new.index = IF ReplayOK(content, Unsynced(st))
                       THEN Replay(content, Unsynced(st)) ELSE None
    BY DEF Loaded, State
  <1> HIDE DEF new
  <1> QED
    BY <1>1, <1>2

LEMMA ReplayedRows ==
  ASSUME NEW rows, NEW cs \in Seq(Change)
  PROVE  rows \in Rows => Replay(rows, cs) \in Rows /\ Replay(rows, cs) # None
PROOF
  BY ReplayType, NoneAssumption DEF Rows

(* In a transaction the load never fails.                                  *)
LEMMA CountedLoads ==
  ASSUME NEW st \in State, NEW s \in Storage, Counted(st, s)
  PROVE  LET new == EnsureLoaded(st, s)
         IN  /\ new \in State /\ new.index # None /\ new.txn = st.txn
             /\ new.layout = st.layout /\ Counted(new, s)
PROOF
  <1> DEFINE new == EnsureLoaded(st, s)
             us == Unsynced(st)
  <1>1. /\ new \in State /\ new.txn = st.txn /\ new.layout = st.layout /\ Working(new, s)
    BY LoadedParts, LoadWorks DEF Counted
  <1>2. new = st \/ Sized(new, s)
    BY LoadSized
  <1>3. Sized(new, s) /\ new.baseBytes = st.baseBytes
    BY <1>2 DEF Counted, Sized
  <1>4. us \in Seq(Change) /\ Content(s) \in Rows /\ Truthful(Content(s), us)
    BY UnsyncedLog, ContentType DEF Counted, Working
  <1>5. Unsynced(new) = us
    BY <1>1 DEF Unsynced
  <1>6. CASE st.index # None
    BY <1>6 DEF EnsureLoaded
  <1>7. CASE st.index = None
    <2>1. Encodable(us)
      BY <1>7 DEF Counted, Retains
    <2>2. ReplayOK(Content(s), us)
      BY <1>4, <2>1, TruthfulReplays
    <2>3. Loadable(st, s)
      BY DEF Loadable, Readable, Counted, Counts, Sized, Tallied
    <2>4. new.rowCount = Cardinality(Keys(Content(s))) /\ new.index = Replay(Content(s), us)
      BY <1>7, <2>2, <2>3, LoadedCount
    <2>5. new.index # None
      BY <1>4, <2>4, ReplayedRows
    <2> HIDE DEF new
    <2>6. Tallied(new, s) /\ Retains(new)
      BY <1>5, <2>1, <2>4 DEF Tallied, Retains
    <2> QED
      BY <1>1, <1>3, <2>5, <2>6 DEF Counted, new
  <1> QED
    BY <1>6, <1>7

(* What the transaction will leave: rows as many as it computes.           *)
LEMMA CountedRows ==
  ASSUME NEW st \in State, NEW s \in Storage, Counted(st, s)
  PROVE  /\ st.rowCount + NetRows(Unsynced(st))
              = Cardinality(KeysAfter(Content(s), Unsynced(st)))
         /\ st.rowCount + NetRows(Unsynced(st)) \in Nat
         /\ st.index # None =>
              /\ Keys(st.index) = KeysAfter(Content(s), Unsynced(st))
              /\ Cardinality(Keys(st.index)) = st.rowCount + NetRows(Unsynced(st))
PROOF
  <1> DEFINE us == Unsynced(st)
  <1>1. us \in Seq(Change) /\ Content(s) \in Rows /\ Truthful(Content(s), us)
    BY UnsyncedLog, ContentType DEF Counted, Working
  <1>2. Cardinality(KeysAfter(Content(s), us)) = Cardinality(Keys(Content(s))) + NetRows(us)
    BY <1>1, TruthfulCount
  <1>3. Cardinality(KeysAfter(Content(s), us)) \in Nat
    BY KeysAfterIds, FiniteKeys
  <1>4. st.index # None => Keys(st.index) = KeysAfter(Content(s), us)
    BY <1>1, ExactKeys DEF Counted, Working
  <1> QED
    BY <1>2, <1>3, <1>4 DEF Counted, Tallied
-----------------------------------------------------------------------------
(* xSync. *)

(* What xSync has written is counted: in _info, and in the State.          *)
Recorded(result) ==
  result.ok /\ Counts(result.s) /\ Tallied(result.st, result.s)

LEMMA SyncedFields ==
  ASSUME NEW st \in State, NEW g, NEW rowCount
  PROVE  /\ Synced(st, g, rowCount).rowCount = rowCount
         /\ Synced(st, g, rowCount).layout = st.layout
         /\ st.txn \in Txn => Synced(st, g, rowCount).txn.upgraded = st.txn.upgraded
PROOF
  <1>1. /\ Synced(st, g, rowCount).rowCount = rowCount
        /\ Synced(st, g, rowCount).layout = st.layout
        /\ Synced(st, g, rowCount).txn = [st.txn EXCEPT !.synced = Len(st.txn.changes)]
    BY DEF Synced, State
  <1> QED
    BY <1>1 DEF Txn

(* A compaction writes the index, which the log's own count agrees with.   *)
LEMMA CompactionCounts ==
  ASSUME NEW st \in State, NEW s \in Storage, Counted(st, s), s.layout = "current",
         st.generation # MaxGeneration,
         NEW rowCount \in Nat, rowCount = st.rowCount + NetRows(Unsynced(st))
  PROVE  Recorded(SyncCompaction(st, s, rowCount))
PROOF
  <1> DEFINE loaded == EnsureLoaded(st, s)
             g == st.generation + 1
             length == ImageLen(loaded.index)
             zero == 0
             fresh == [loaded EXCEPT !.baseBytes = length, !.deltaBytes = zero, !.deltaOps = zero]
             t == RecordCompaction(WriteIndex(s, loaded.index), g, length, rowCount)
  <1>1. loaded \in State /\ loaded.txn = st.txn /\ Counted(loaded, s) /\ loaded.index # None
    BY CountedLoads
  <1>2. g \in Generation /\ g > s.generation
    BY NextGeneration DEF Counted, Sized
  <1>3. SyncCompaction(st, s, rowCount) =
          IF loaded.index = None THEN Written(FALSE, loaded, s)
          ELSE Written(TRUE, Synced(fresh, g, rowCount), t)
    BY DEF SyncCompaction, Compact
  <1>4. length \in Nat /\ zero \in Int
    BY ImageLenType
  <1> HIDE DEF loaded, g, length, zero
  <1>5. loaded.index \in Rows
    BY <1>1 DEF State
  <1>6. t \in Storage /\ Content(t) = loaded.index
    BY <1>2, <1>5, CompactionContent DEF length
  <1>7. t.deltas = NoDeltas /\ t.rowCount = rowCount
    BY DEF RecordCompaction, WriteIndex, Storage
  <1>8. fresh \in State
    BY <1>1, <1>4 DEF State
  <1> HIDE DEF fresh, t
  <1>9. Cardinality(Keys(loaded.index)) = rowCount
    <2>1. Unsynced(loaded) = Unsynced(st) /\ loaded.rowCount = st.rowCount
      BY <1>1 DEF Unsynced, Counted, Tallied
    <2> QED
      BY <1>1, <2>1, CountedRows
  <1>10. Counts(t)
    BY <1>6, <1>7, <1>9, NoDeltasReplay DEF Counts
  <1>11. Synced(fresh, g, rowCount).rowCount = rowCount
    BY <1>8, SyncedFields
  <1> QED
    BY <1>1, <1>3, <1>6, <1>9, <1>10, <1>11 DEF Recorded, Written, Tallied

(* A delta is written only when the log kept what it needs, and what it    *)
(* needs can be replayed.                                                  *)
LEMMA DeltaCounts ==
  ASSUME NEW st \in State, NEW s \in Storage, Counted(st, s), s.layout = "current",
         st.generation # MaxGeneration, st.baseBytes >= MinDeltaBase,
         NEW rowCount \in Nat, rowCount = st.rowCount + NetRows(Unsynced(st)),
         NEW deltaBytes \in Int, NEW deltaOps \in Int
  PROVE  Recorded(SyncDelta(st, s, rowCount, deltaBytes, deltaOps))
PROOF
  <1> DEFINE g == st.generation + 1
             us == Unsynced(st)
             fresh == [st EXCEPT !.deltaBytes = deltaBytes, !.deltaOps = deltaOps]
             t == RecordDelta(WriteDelta(s, g, us), g, rowCount, deltaBytes, deltaOps)
  <1>1. g \in Generation /\ g = s.generation + 1
    BY NextGeneration DEF Counted, Sized
  <1>2. /\ us \in Seq(Change) /\ Content(s) \in Rows /\ Truthful(Content(s), us)
        /\ Encodable(us)
    BY UnsyncedLog, ContentType DEF Counted, Working, Retains
  <1>3. SyncDelta(st, s, rowCount, deltaBytes, deltaOps) =
          IF ~Encodable(us) \/ g \in Stored(s) THEN Written(FALSE, st, s)
          ELSE Written(TRUE, Synced(fresh, g, rowCount), t)
    BY DEF SyncDelta
  <1>4. fresh \in State
    BY DEF State
  <1>5. t.base = s.base /\ t.rowCount = rowCount
        /\ t.deltas = [s.deltas EXCEPT ![g] = BatchOf(s, us)]
    BY DEF RecordDelta, WriteDelta, Storage
  <1> HIDE DEF us, fresh
  <1>6. t \in Storage /\ Content(t) = Replay(Content(s), us)
    <2>1. g = s.generation + 1 /\ us \in Seq(Change)
      BY <1>1, <1>2
    <2> HIDE DEF g
    <2>2. DeltaOn(s, t, us, g)
      BY <1>1, <2>1, DeltaContent DEF Counted
    <2> HIDE DEF t
    <2> QED
      BY <2>2 DEF DeltaOn
  <1> HIDE DEF g, t
  <1>7. g \notin Stored(s)
    <2>1. Stored(s) # {} => \A d \in Stored(s) : d <= s.generation
      BY LatestOf DEF Counted, Chained
    <2>2. s.generation \in Int
      BY GenerationType
    <2> QED
      BY <1>1, <2>1, <2>2
  <1>8. s.deltas \in [Generation -> Batch \cup {None}] /\ BatchOf(s, us).changes = Decoded(us)
    BY DEF Storage, Deltas, BatchOf
  <1>9. t.deltas[g].changes = Decoded(us) /\ \A d \in Generation \ {g} : t.deltas[d] = s.deltas[d]
    BY <1>1, <1>5, <1>8
  <1>10. ReplayOK(Content(s), us)
    BY <1>2, TruthfulReplays
  <1>11. DeltasReplayOK(t.base, t, -1)
    <2>1. Chained(s) /\ DeltasReplayOK(s.base, s, -1)
      BY DEF Counted, Counts
    <2>2. us \in Seq(Change) /\ g \in Generation /\ g = s.generation + 1
          /\ t \in Storage /\ t.base = s.base
      BY <1>1, <1>2, <1>5, <1>6
    <2> QED
      BY <1>9, <1>10, <2>1, <2>2, DeltaReplays
  <1>12. Cardinality(Keys(Content(t))) = rowCount
    <2>1. Exact(Content(t), Content(s), us)
      BY <1>2, <1>6, ExactReplay
    <2>2. Keys(Content(t)) = KeysAfter(Content(s), us)
      BY <1>2, <2>1, ExactKeys
    <2> QED
      BY <2>2, CountedRows DEF us
  <1>13. Synced(fresh, g, rowCount).rowCount = rowCount
    BY <1>4, SyncedFields
  <1>14. Counts(t)
    BY <1>5, <1>11, <1>12 DEF Counts
  <1> QED
    BY <1>2, <1>3, <1>7, <1>12, <1>13, <1>14 DEF Recorded, Written, Tallied

LEMMA PendingCounts ==
  ASSUME NEW st \in State, NEW s \in Storage, Counted(st, s), s.layout = "current",
         st.generation # MaxGeneration
  PROVE  Recorded(SyncPending(st, s))
PROOF
  <1> DEFINE pending == Unsynced(st)
             rowCount == st.rowCount + NetRows(pending)
             deltaBytes == st.deltaBytes + DeltaLen(pending)
             deltaOps == st.deltaOps + Len(pending)
  <1>1. rowCount \in Nat /\ (st.index # None => Cardinality(Keys(st.index)) = rowCount)
    BY CountedRows
  <1>2. deltaBytes \in Int /\ deltaOps \in Int
    <2>1. pending \in Seq(Change)
      BY LogType
    <2>2. DeltaLen(pending) \in Int
      BY <2>1, DeltaLenType
    <2> HIDE DEF pending
    <2>3. Len(pending) \in Nat
      BY <2>1
    <2> QED
      BY <2>2, <2>3 DEF State
  <1>3. st.layout = s.layout
    BY DEF Counted, Sized
  <1>4. ~(\/ st.layout # s.layout
          \/ rowCount < 0
          \/ st.index # None /\ Cardinality(Keys(st.index)) # rowCount)
    <2> HIDE DEF rowCount
    <2> QED
      BY <1>1, <1>3
  <1>5. SyncPending(st, s) =
          IF MustCompact(st.baseBytes, deltaBytes, deltaOps, rowCount)
          THEN SyncCompaction(st, s, rowCount)
          ELSE SyncDelta(st, s, rowCount, deltaBytes, deltaOps)
    BY <1>4 DEF SyncPending
  <1>6. ~MustCompact(st.baseBytes, deltaBytes, deltaOps, rowCount)
          => st.baseBytes >= MinDeltaBase
    BY SizeAssumption DEF MustCompact, State
  <1>7. rowCount = st.rowCount + NetRows(Unsynced(st))
    OBVIOUS
  <1> HIDE DEF pending, rowCount, deltaBytes, deltaOps
  <1>8. Recorded(SyncCompaction(st, s, rowCount))
    BY <1>1, <1>7, CompactionCounts
  <1>9. st.baseBytes >= MinDeltaBase => Recorded(SyncDelta(st, s, rowCount, deltaBytes, deltaOps))
    BY <1>1, <1>2, <1>7, DeltaCounts
  <1> QED
    BY <1>5, <1>6, <1>8, <1>9

(* The upgrade copies the count of the State, which is that of the image.  *)
LEMMA UpgradeCounts ==
  ASSUME NEW st \in State, NEW s \in Storage, Counted(st, s)
  PROVE  LET up == Upgrade(st, s)
         IN  /\ up.ok /\ up.st \in State /\ up.s \in Storage
             /\ up.s.layout = "current" /\ Counted(up.st, up.s)
             /\ up.st.generation = st.generation
PROOF
  <1> DEFINE loaded == EnsureLoaded(st, s)
             txn == [loaded.txn EXCEPT !.upgraded = TRUE]
             new == [loaded EXCEPT !.layout = "current", !.txn = txn]
             t == Upgraded(s, loaded.generation, loaded.index, loaded.rowCount,
                           loaded.deltaBytes, loaded.deltaOps)
             up == Upgrade(st, s)
  <1>1. /\ loaded \in State /\ loaded.index # None /\ loaded.txn = st.txn
        /\ Counted(loaded, s) /\ loaded.txn \in Txn /\ st.txn # None
    BY CountedLoads, TxnIsThere DEF Counted, Working
  <1>2. loaded.layout = s.layout
    BY <1>1 DEF Counted, Sized
  <1>3. up = Written(TRUE, new, t)
    <2>1. new = [loaded EXCEPT !.layout = "current", !.txn.upgraded = TRUE]
      BY <1>1 DEF State
    <2> QED
      BY <1>1, <1>2, <2>1 DEF Upgrade, UpgradeLoaded
  <1>4. up.ok /\ up.st = new /\ up.s = t
    BY <1>3 DEF Written
  <1>5. st.generation = s.generation
    BY DEF Counted, Sized
  <1>6. /\ up.st \in State /\ up.s \in Storage /\ Working(up.st, up.s)
        /\ up.s.layout = "current" /\ up.st.generation = up.s.generation
        /\ up.s.generation = s.generation
    BY <1>4, <1>5, UpgradeWorks DEF Counted
  <1>7. Chained(up.s) /\ Sized(up.st, up.s)
    BY <1>1, <1>4, <1>5, UpgradeInStep, UpgradeSizes DEF Counted
  <1> HIDE DEF loaded, up
  <1>8. new.rowCount = loaded.rowCount /\ new.index # None /\ new.txn = txn
        /\ new.baseBytes = loaded.baseBytes
    BY <1>1 DEF State
  <1>9. txn.changes = loaded.txn.changes /\ txn.synced = loaded.txn.synced /\ txn \in Txn
    BY <1>1 DEF Txn
  <1> HIDE DEF txn, new
  <1>10. Unsynced(new) = Unsynced(loaded)
    BY <1>1, <1>8, <1>9, TxnIsThere DEF Unsynced
  <1>11. t.base = s.base /\ t.deltas = s.deltas /\ t.rowCount = loaded.rowCount
    BY DEF Upgraded, Storage
  <1> HIDE DEF t
  <1>12. Content(t) = Content(s) /\ (DeltasReplayOK(s.base, s, -1) <=> DeltasReplayOK(s.base, t, -1))
    BY <1>4, <1>6, <1>11, SameImageExtends DEF SameImage
  <1>13. Counts(t) /\ Tallied(new, t) /\ Retains(new)
    BY <1>1, <1>8, <1>10, <1>11, <1>12 DEF Counted, Counts, Tallied, Retains
  <1> QED
    BY <1>4, <1>5, <1>6, <1>7, <1>13 DEF Counted, up

(* xSync does not refuse, and what it leaves is counted.                   *)
LEMMA SyncCounts ==
  ASSUME NEW st \in State, NEW s \in Storage, Counted(st, s),
         st.generation # MaxGeneration \/ Sync(st, s).ok
  PROVE  Recorded(Sync(st, s))
PROOF
  <1> DEFINE up == Upgrade(st, s)
  <1>1. CASE ~st.dirty
    BY <1>1 DEF Sync, Recorded, Written, Counted
  <1>2. CASE st.dirty
    <2>1. Unsynced(st) # <<>>
      BY <1>2 DEF Counted, Working
    <2>2. st.generation # MaxGeneration
      BY <1>2 DEF Sync, Written
    <2>3. Sync(st, s) = IF st.layout = "legacy" THEN SyncUpgraded(up) ELSE SyncPending(st, s)
      BY <1>2, <2>1, <2>2 DEF Sync
    <2>4. st.layout = s.layout /\ st.layout \in {"legacy", "current"}
      BY DEF Counted, Sized, State
    <2>5. /\ up.ok /\ up.st \in State /\ up.s \in Storage /\ up.s.layout = "current"
          /\ Counted(up.st, up.s) /\ up.st.generation = st.generation
      BY UpgradeCounts
    <2> HIDE DEF up
    <2>6. Recorded(SyncPending(up.st, up.s))
      BY <2>2, <2>5, PendingCounts
    <2>7. st.layout = "current" => Recorded(SyncPending(st, s))
      BY <2>2, <2>4, PendingCounts
    <2> QED
      BY <2>3, <2>4, <2>5, <2>6, <2>7 DEF SyncUpgraded
  <1> QED
    BY <1>1, <1>2
-----------------------------------------------------------------------------
(* The callbacks that change the log, the marks and the index. *)

(* None of them counts rows, or moves the layout.                          *)
KeepsCount(new, st) ==
  /\ new.rowCount = st.rowCount /\ new.layout = st.layout
  /\ new.baseBytes = st.baseBytes /\ new.txn.upgraded = st.txn.upgraded

LEMMA KeepsTally ==
  ASSUME NEW new, NEW st, KeepsCount(new, st), NEW s \in Storage, NEW t \in Storage,
         SameData(t, s), Tallied(st, s), Counts(s)
  PROVE  Tallied(new, t) /\ Counts(t)
PROOF
  BY SameDataCounts DEF KeepsCount, Tallied

LEMMA MarksCount ==
  ASSUME NEW st \in State, st.txn \in Txn,
         NEW savepoints \in [Mark -> Nat \cup {None}]
  PROVE  LET new == [st EXCEPT !.txn.savepoints = savepoints]
         IN  KeepsCount(new, st) /\ (Retains(st) => Retains(new))
PROOF
  <1> DEFINE new == [st EXCEPT !.txn.savepoints = savepoints]
  <1>1. /\ new.txn = [st.txn EXCEPT !.savepoints = savepoints]
        /\ new.rowCount = st.rowCount /\ new.layout = st.layout
        /\ new.baseBytes = st.baseBytes /\ new.index = st.index
    BY DEF State
  <1> HIDE DEF new
  <1>2. /\ new.txn.changes = st.txn.changes /\ new.txn.synced = st.txn.synced
        /\ new.txn.upgraded = st.txn.upgraded /\ new.txn \in Txn
    BY <1>1 DEF Txn
  <1>3. Unsynced(new) = Unsynced(st)
    BY <1>2, TxnIsThere DEF Unsynced
  <1>4. KeepsCount(new, st) /\ (Retains(st) => Retains(new))
    BY <1>1, <1>2, <1>3 DEF KeepsCount, Retains
  <1> QED
    BY <1>4 DEF new

LEMMA SavepointCount ==
  ASSUME NEW st \in State, st.txn \in Txn, NEW j \in Mark
  PROVE  /\ KeepsCount(Savepoint(st, j), st)
         /\ Retains(st) => Retains(Savepoint(st, j))
PROOF
  <1> DEFINE savepoints == [Forget(st.txn.savepoints, Below(j))
                              EXCEPT ![j] = Len(st.txn.changes)]
  <1>1. EnsureTxn(st) = st
    BY TxnIsThere DEF EnsureTxn
  <1>2. Savepoint(st, j) = [st EXCEPT !.txn.savepoints = savepoints]
    BY <1>1 DEF Savepoint
  <1>3. savepoints \in [Mark -> Nat \cup {None}]
    BY TxnFields, ForgetType
  <1> HIDE DEF savepoints
  <1> QED
    BY <1>2, <1>3, MarksCount

LEMMA ForgetCount ==
  ASSUME NEW st \in State, st.txn \in Txn, NEW keep
  PROVE  LET new == [st EXCEPT !.txn.savepoints = Forget(@, keep)]
         IN  KeepsCount(new, st) /\ (Retains(st) => Retains(new))
PROOF
  <1> DEFINE savepoints == Forget(st.txn.savepoints, keep)
  <1>1. savepoints \in [Mark -> Nat \cup {None}]
    BY TxnFields, ForgetType
  <1>2. [st EXCEPT !.txn.savepoints = Forget(@, keep)]
          = [st EXCEPT !.txn.savepoints = savepoints]
    OBVIOUS
  <1> HIDE DEF savepoints
  <1> QED
    BY <1>1, <1>2, MarksCount

LEMMA ReleaseCount ==
  ASSUME NEW st \in State, st.txn \in Txn, NEW j
  PROVE  KeepsCount(Release(st, j), st) /\ (Retains(st) => Retains(Release(st, j)))
PROOF
  BY TxnIsThere, ForgetCount DEF Release

(* restore_to drops the index only when the log it keeps can be replayed.  *)
LEMMA RestoreCount ==
  ASSUME NEW st \in State, NEW s, Working(st, s), NEW base, Recoverable(st, base),
         Retains(st), NEW n \in 0 .. Len(st.txn.changes), RestoreTo(st, n).ok
  PROVE  KeepsCount(RestoreTo(st, n).st, st) /\ Retains(RestoreTo(st, n).st)
PROOF
  <1> DEFINE cs == st.txn.changes
             log == SubSeq(cs, 1, n)
             tail == SubSeq(cs, n + 1, Len(cs))
             cp == st.txn.checkpoint
             new == RestoreTo(st, n).st
  <1>1. /\ st.txn \in Txn /\ cs \in Seq(Change) /\ Len(cs) \in Nat
        /\ st.txn.synced = 0 /\ st.txn # None
    BY TxnIsThere, TxnFields DEF Working, Recoverable
  <1>2. Parts(cs, log, tail)
    BY <1>1, CutParts
  <1>3. Unsynced(st) = cs
    BY <1>1, UnsyncedAll
  <1>4. /\ Encodable(cs) => Encodable(log)
        /\ AppendOnly(cs) => AppendOnly(tail)
    BY <1>2, KindsOfParts
  <1>5. ASSUME NEW index, NEW kept,
               index = None => st.index = None \/ (cp = None /\ ~AppendOnly(tail)),
               RestoreTo(st, n) = Truncated(st, n, index, kept)
        PROVE  KeepsCount(new, st) /\ Retains(new)
    <2> DEFINE txn == [st.txn EXCEPT !.changes = log, !.checkpoint = kept,
                                     !.synced = IF 0 < n THEN 0 ELSE n]
               dirty == n > 0
    <2>1. new = [st EXCEPT !.index = index, !.txn = txn, !.dirty = dirty]
      BY <1>1, <1>5 DEF Truncated, Result
    <2>2. /\ txn.changes = log /\ txn.synced = 0 /\ txn.upgraded = st.txn.upgraded
      BY <1>1 DEF Txn
    <2> HIDE DEF txn, dirty, new, log, tail
    <2>3. /\ new.txn = txn /\ new.index = index /\ new.rowCount = st.rowCount
          /\ new.layout = st.layout /\ new.baseBytes = st.baseBytes
      BY <2>1 DEF State
    <2>4. Unsynced(new) \in {<<>>, log}
      <3>1. log \in Seq(Change)
        BY <1>2 DEF Parts
      <3>2. SubSeq(log, 0 + 1, Len(log)) = log
        BY <3>1, WholeLog1
      <3> QED
        BY <2>2, <2>3, <3>2 DEF Unsynced
    <2>5. Encodable(<<>>)
      BY DEF Encodable, Inserts
    <2>6. index = None \/ st.baseBytes >= MinDeltaBase => Encodable(cs)
      <3>1. CASE st.index = None \/ st.baseBytes >= MinDeltaBase
        BY <1>3, <3>1 DEF Retains
      <3>2. CASE st.index # None /\ cp = None /\ ~AppendOnly(tail)
        BY <1>4, <3>2 DEF Recoverable
      <3> QED
        BY <1>5, <3>1, <3>2
    <2>7. Retains(new)
      BY <1>4, <2>3, <2>4, <2>5, <2>6 DEF Retains
    <2> QED
      BY <2>2, <2>3, <2>7 DEF KeepsCount
  <1>6. RestoreTo(st, n) = IF cp # None THEN RestoreFromCheckpoint(st, n) ELSE RestoreTail(st, n)
    <2>1. Changes(st) = cs
      BY <1>1 DEF Changes
    <2>2. ~(n > Len(Changes(st)))
      BY <1>1, <2>1
    <2> QED
      BY <1>1, <2>2 DEF RestoreTo
  <1>7. CASE cp # None
    <2> DEFINE undo == SubSeq(cs, n + 1, cp.position)
               redo == SubSeq(cs, cp.position + 1, n)
    <2>1. cp.payload \in Rows
      BY <1>1, <1>7, TxnFields
    <2>2. UndoInserts(cp.payload, undo) \in Rows
      BY <2>1, UndoInsertsType
    <2>3. redo \in Seq(Change)
      BY <1>1, <1>7, TxnFields
    <2>4. Replay(cp.payload, redo) \in Rows
      BY <2>1, <2>3, ReplayType
    <2>5. UndoInserts(cp.payload, undo) # None /\ Replay(cp.payload, redo) # None
      BY <2>2, <2>4, NoneAssumption DEF Rows
    <2>6. \/ RestoreTo(st, n) = Truncated(st, n, UndoInserts(cp.payload, undo), None)
          \/ RestoreTo(st, n) = Truncated(st, n, Replay(cp.payload, redo), cp)
      BY <1>6, <1>7 DEF RestoreFromCheckpoint, Result
    <2> HIDE DEF undo, redo
    <2> QED
      BY <1>5, <2>5, <2>6
  <1>8. CASE cp = None
    <2>1. st.index # None => UndoInserts(st.index, tail) # None
      <3>1. st.index # None => UndoInserts(st.index, tail) \in Rows
        BY UndoInsertsType DEF State
      <3> QED
        BY <3>1, NoneAssumption DEF Rows
    <2>2. tail = <<>> => AppendOnly(tail)
      BY DEF AppendOnly
    <2>3. \/ /\ st.index # None
             /\ RestoreTo(st, n) = Truncated(st, n, UndoInserts(st.index, tail), None)
          \/ RestoreTo(st, n) = Truncated(st, n, st.index, None)
          \/ /\ ~(st.index # None /\ AppendOnly(tail))
             /\ RestoreTo(st, n) = Truncated(st, n, None, None)
      BY <1>6, <1>8 DEF RestoreTail, Result
    <2> HIDE DEF tail
    <2> QED
      BY <1>5, <1>8, <2>1, <2>3
  <1> QED
    BY <1>7, <1>8

LEMMA ResetCount ==
  ASSUME NEW st \in State, NEW s, Working(st, s), NEW base, Recoverable(st, base),
         Retains(st), NEW n \in 0 .. Len(st.txn.changes), NEW keep,
         Reset(RestoreTo(st, n), keep).ok
  PROVE  LET new == Reset(RestoreTo(st, n), keep).st
         IN  KeepsCount(new, st) /\ Retains(new)
PROOF
  <1> DEFINE restored == RestoreTo(st, n)
             back == restored.st
             new == [back EXCEPT !.txn.savepoints = Forget(@, keep)]
  <1>1. restored.ok
    BY DEF Reset
  <1>2. Reset(restored, keep).st = new
    BY <1>1 DEF Reset, Result
  <1>3. KeepsCount(back, st) /\ Retains(back)
    BY <1>1, RestoreCount
  <1>4. back \in State /\ back.txn \in Txn
    <2>1. n \in Nat
      OBVIOUS
    <2> QED
      BY <1>1, <2>1, RestoreToType DEF KeptResult, ReadResult, State
  <1> HIDE DEF back, restored
  <1>5. KeepsCount(new, back) /\ (Retains(back) => Retains(new))
    BY <1>4, ForgetCount
  <1> HIDE DEF new
  <1>6. KeepsCount(new, st) /\ Retains(new)
    BY <1>3, <1>5 DEF KeepsCount
  <1> QED
    BY <1>2, <1>6 DEF restored

LEMMA RollbackCount ==
  ASSUME NEW st \in State, NEW s, Working(st, s), NEW base, Recoverable(st, base),
         Retains(st)
  PROVE  /\ \A j \in Mark :
              /\ st.txn.savepoints[j] \in 0 .. Len(st.txn.changes)
              /\ RollbackTo(st, j).ok
              => KeepsCount(RollbackTo(st, j).st, st) /\ Retains(RollbackTo(st, j).st)
         /\ RollbackToStart(st).ok =>
              KeepsCount(RollbackToStart(st).st, st) /\ Retains(RollbackToStart(st).st)
PROOF
  <1>1. st.txn # None /\ Len(st.txn.changes) \in Nat
    BY TxnIsThere, TxnFields DEF Working
  <1>2. ASSUME NEW j \in Mark, st.txn.savepoints[j] \in 0 .. Len(st.txn.changes),
               RollbackTo(st, j).ok
        PROVE  KeepsCount(RollbackTo(st, j).st, st) /\ Retains(RollbackTo(st, j).st)
    <2>1. st.txn.savepoints[j] # None
      <3>1. st.txn.savepoints[j] \in Nat
        BY <1>2
      <3> QED
        BY <3>1, TransactionAssumption
    <2>2. RollbackTo(st, j) = Reset(RestoreTo(st, st.txn.savepoints[j]), Below(j + 1))
      BY <1>1, <2>1 DEF RollbackTo
    <2> QED
      BY <1>2, <2>2, ResetCount
  <1>3. 0 \in 0 .. Len(st.txn.changes)
    BY <1>1
  <1>4. RollbackToStart(st).ok =>
          KeepsCount(RollbackToStart(st).st, st) /\ Retains(RollbackToStart(st).st)
    BY <1>3, ResetCount DEF RollbackToStart
  <1> QED
    BY <1>2, <1>4
-----------------------------------------------------------------------------
(* xUpdate. *)

(* What a write leaves of it, whether it succeeds or not.                  *)
WriteCounts(result, st) ==
  /\ Tallied(result.st, result.s) /\ Counts(result.s) /\ Retains(result.st)
  /\ result.st.layout = st.layout /\ result.st.txn.upgraded = st.txn.upgraded

(* prepare_write loads where the log alone could not be relied on.         *)
LEMMA PreparedCounts ==
  ASSUME NEW st \in State, NEW s \in Storage, Counted(st, s)
  PROVE  LET ready == Prepare(st, s)
         IN  /\ ready.ok /\ ready.st \in State /\ ready.st.txn = st.txn
             /\ ready.st.layout = st.layout /\ Counted(ready.st, s)
PROOF
  <1> DEFINE loaded == EnsureLoaded(st, s)
  <1>1. Refresh(st, s) = Result(TRUE, st)
    BY TxnIsThere, RefreshGeneration DEF Counted, Working
  <1>2. /\ loaded \in State /\ loaded.index # None /\ loaded.txn = st.txn
        /\ loaded.layout = st.layout /\ Counted(loaded, s)
    BY CountedLoads
  <1> HIDE DEF loaded
  <1>3. \/ Prepare(st, s) = [ok |-> (loaded.index # None), st |-> loaded]
        \/ Prepare(st, s) = [ok |-> TRUE, st |-> st]
    BY <1>1 DEF Prepare, PreparedAfter, LoadResult, Result, loaded
  <1>4. Prepare(st, s).ok /\ (Prepare(st, s).st = loaded \/ Prepare(st, s).st = st)
    <2>1. CASE Prepare(st, s) = [ok |-> (loaded.index # None), st |-> loaded]
      <3>1. (loaded.index # None) = TRUE
        BY <1>2
      <3>2. Prepare(st, s) = [ok |-> TRUE, st |-> loaded]
        BY <2>1, <3>1
      <3> QED
        BY <3>2
    <2>2. CASE Prepare(st, s) = [ok |-> TRUE, st |-> st]
      BY <2>2
    <2> QED
      BY <1>3, <2>1, <2>2
  <1> QED
    BY <1>2, <1>4

LEMMA CheckpointCount ==
  ASSUME NEW st \in State, st.txn \in Txn
  PROVE  LET open == EnsureCheckpoint(st)
         IN  /\ KeepsCount(open, st) /\ open.index = st.index
             /\ open.txn.changes = st.txn.changes /\ open.txn.synced = st.txn.synced
PROOF
  <1> DEFINE cp == [position |-> Len(st.txn.changes), payload |-> st.index]
             new == [st EXCEPT !.txn.checkpoint = cp]
  <1>1. EnsureTxn(st) = st
    BY TxnIsThere DEF EnsureTxn
  <1>2. EnsureCheckpoint(st) \in {st, new}
    BY <1>1 DEF EnsureCheckpoint
  <1> HIDE DEF cp
  <1>3. /\ new.txn = [st.txn EXCEPT !.checkpoint = cp] /\ new.index = st.index
        /\ new.rowCount = st.rowCount /\ new.layout = st.layout
        /\ new.baseBytes = st.baseBytes
    BY DEF State
  <1> HIDE DEF new
  <1>4. /\ new.txn.changes = st.txn.changes /\ new.txn.synced = st.txn.synced
        /\ new.txn.upgraded = st.txn.upgraded
    BY <1>3 DEF Txn
  <1> QED
    BY <1>2, <1>3, <1>4 DEF KeepsCount

LEMMA LoggedCount ==
  ASSUME NEW open \in State, open.txn \in Txn, NEW id \in Rowid,
         NEW value \in Vector \cup {None}, NEW x \in Change,
         open.txn.synced <= Len(open.txn.changes), Retains(open),
         x.op = "insert" /\ (open.index = None \/ open.baseBytes >= MinDeltaBase)
           => x.vector # None
  PROVE  LET new == Logged(SetId(open, id, value), x)
         IN  KeepsCount(new, open) /\ Retains(new)
PROOF
  <1> DEFINE set == SetId(open, id, value)
             new == Logged(set, x)
             cs == open.txn.changes
             k == open.txn.synced
  <1>1. WithChange(new, open, id, value, x)
    BY LoggedFields
  <1>2. set.txn = open.txn /\ set.rowCount = open.rowCount /\ set \in State
        /\ set.layout = open.layout /\ set.baseBytes = open.baseBytes
    BY SetIdType DEF SetId, State
  <1> HIDE DEF set
  <1>3. EnsureTxn(set) = set
    BY <1>2, TxnIsThere DEF EnsureTxn
  <1>4. new = [set EXCEPT !.txn.changes = Append(@, x), !.dirty = TRUE]
    BY <1>3 DEF Logged
  <1> HIDE DEF new
  <1>5. /\ new.txn = [set.txn EXCEPT !.changes = Append(set.txn.changes, x)]
        /\ new.rowCount = set.rowCount /\ new.layout = set.layout
        /\ new.baseBytes = set.baseBytes
    BY <1>2, <1>4 DEF State
  <1>6. new.txn.upgraded = open.txn.upgraded
    BY <1>2, <1>5 DEF Txn
  <1>7. cs \in Seq(Change) /\ k \in 0 .. Len(cs) /\ SubSeq(cs, k + 1, Len(cs)) \in Seq(Change)
    BY TxnFields
  <1>8. Len(Append(cs, x)) = Len(cs) + 1
    BY <1>7
  <1>9. Unsynced(open) = SubSeq(cs, k + 1, Len(cs))
        /\ Unsynced(new) = SubSeq(Append(cs, x), k + 1, Len(Append(cs, x)))
    BY <1>1, TxnIsThere DEF Unsynced, WithChange
  <1> HIDE DEF cs, k
  <1>10. Unsynced(new) = Append(Unsynced(open), x) /\ Unsynced(open) \in Seq(Change)
    BY <1>7, <1>8, <1>9, AppendTail
  <1>11. Encodable(Unsynced(new)) <=>
           Encodable(Unsynced(open)) /\ (x.op = "insert" => x.vector # None)
    BY <1>10, EncodableAppend
  <1>12. Retains(new)
    BY <1>1, <1>2, <1>5, <1>11 DEF Retains, WithChange
  <1> QED
    BY <1>2, <1>5, <1>6, <1>12 DEF KeepsCount, new, set

(* A write that fails, or one that logs x.                                 *)
LEMMA WriteOf ==
  ASSUME NEW st \in State, NEW s \in Storage, Counted(st, s), NEW st0,
         st.layout = st0.layout, st.txn = st0.txn, NEW t \in Storage, SameData(t, s)
  PROVE  /\ WriteCounts(Written(FALSE, st, t), st0)
         /\ \A open \in {st, EnsureCheckpoint(st)}, id \in Rowid,
               value \in Vector \cup {None}, x \in Change :
              (x.op = "insert" /\ (open.index = None \/ open.baseBytes >= MinDeltaBase)
                => x.vector # None)
              => WriteCounts(Written(TRUE, Logged(SetId(open, id, value), x), t), st0)
PROOF
  <1>1. st.txn \in Txn /\ st.txn.synced <= Len(st.txn.changes) /\ Retains(st)
        /\ Tallied(st, s) /\ Counts(s)
    BY DEF Counted, Working
  <1>2. Counts(t) /\ Content(t) = Content(s)
    BY <1>1, SameDataCounts
  <1>3. ASSUME NEW new, KeepsCount(new, st), Retains(new), NEW ok
        PROVE  WriteCounts(Written(ok, new, t), st0)
    BY <1>1, <1>2, <1>3 DEF WriteCounts, Written, KeepsCount, Tallied
  <1>4. KeepsCount(st, st)
    BY DEF KeepsCount
  <1>5. ASSUME NEW open \in {st, EnsureCheckpoint(st)}, NEW id \in Rowid,
               NEW value \in Vector \cup {None}, NEW x \in Change,
               x.op = "insert" /\ (open.index = None \/ open.baseBytes >= MinDeltaBase)
                 => x.vector # None
        PROVE  WriteCounts(Written(TRUE, Logged(SetId(open, id, value), x), t), st0)
    <2> DEFINE checked == EnsureCheckpoint(st)
               new == Logged(SetId(open, id, value), x)
    <2>1. /\ KeepsCount(checked, st) /\ checked.index = st.index
          /\ checked.txn.changes = st.txn.changes /\ checked.txn.synced = st.txn.synced
          /\ checked \in State /\ checked.txn \in Txn
      <3>1. checked \in State /\ Working(checked, s)
        BY CheckpointWorks DEF Counted
      <3> QED
        BY <1>1, <3>1, CheckpointCount DEF Working
    <2> HIDE DEF checked
    <2>2. open \in {st, checked}
      BY DEF checked
    <2>3. /\ KeepsCount(open, st) /\ open.index = st.index /\ open \in State
          /\ open.txn \in Txn
          /\ open.txn.changes = st.txn.changes /\ open.txn.synced = st.txn.synced
      BY <1>1, <1>4, <2>1, <2>2
    <2>4. Unsynced(open) = Unsynced(st)
      BY <1>1, <2>3, TxnIsThere DEF Unsynced
    <2>5. Retains(open)
      BY <1>1, <2>3, <2>4 DEF Retains, KeepsCount
    <2>6. KeepsCount(new, open) /\ Retains(new)
      BY <1>1, <1>5, <2>3, <2>5, LoggedCount
    <2> HIDE DEF new
    <2>7. KeepsCount(new, st)
      BY <2>3, <2>6 DEF KeepsCount
    <2> QED
      BY <1>3, <2>6, <2>7 DEF new
  <1> QED
    BY <1>1, <1>3, <1>4, <1>5

LEMMA InsertCounts ==
  ASSUME NEW st0 \in State, NEW s \in Storage, Counted(st0, s),
         NEW id \in Rowid, NEW vector \in Vector, NEW replace \in BOOLEAN
  PROVE  WriteCounts(Insert(st0, s, id, vector, replace), st0)
PROOF
  <1> DEFINE ready == Prepare(st0, s)
             st == ready.st
             t == Claimed(st, s, id)
             exists == Exists(st, s, id)
             open == IF st.index # None /\ exists THEN EnsureCheckpoint(st) ELSE EnsureTxn(st)
             kept == IF RetainsVector(open, exists) THEN vector ELSE None
             x == InsertOf(id, kept, exists)
             result == Insert(st0, s, id, vector, replace)
  <1>1. /\ ready.ok /\ st \in State /\ st.txn = st0.txn
        /\ st.layout = st0.layout /\ Counted(st, s)
    BY PreparedCounts
  <1>2. result \in {Written(FALSE, st, s), Written(FALSE, st, t),
                    Written(TRUE, Inserted(open, id, vector, exists), t)}
    BY DEF Insert, InsertAfter, InsertPrepared
  <1> HIDE DEF ready, st, result
  <1>3. st.txn \in Txn /\ st.layout = s.layout
    BY <1>1 DEF Counted, Working, Sized
  <1>4. t \in Storage /\ SameData(t, s)
    BY <1>3, ClaimedData
  <1>5. SameData(s, s)
    BY SameDataSelf
  <1>6. WriteCounts(Written(FALSE, st, s), st0) /\ WriteCounts(Written(FALSE, st, t), st0)
    BY <1>1, <1>4, <1>5, WriteOf
  <1>7. open \in {st, EnsureCheckpoint(st)}
    BY <1>3, TxnIsThere DEF EnsureTxn
  <1>8. Inserted(open, id, vector, exists) = Logged(SetId(open, id, vector), x)
    BY DEF Inserted
  <1>9. exists \in BOOLEAN
    BY <1>1, ExistsType
  <1> HIDE DEF open, exists, t
  <1>10. x \in Change /\ x.vector = kept /\ kept \in {vector, None} /\ vector # None
    BY <1>9, NoneAssumption DEF InsertOf, Change
  <1>11. open.index = None \/ open.baseBytes >= MinDeltaBase => x.vector # None
    BY <1>10 DEF RetainsVector
  <1> HIDE DEF x
  <1>12. WriteCounts(Written(TRUE, Logged(SetId(open, id, vector), x), t), st0)
    BY <1>1, <1>4, <1>7, <1>10, <1>11, WriteOf
  <1> QED
    BY <1>2, <1>6, <1>8, <1>12 DEF result

LEMMA DeleteCounts ==
  ASSUME NEW st0 \in State, NEW s \in Storage, Counted(st0, s), NEW id \in Rowid
  PROVE  WriteCounts(Delete(st0, s, id), st0)
PROOF
  <1> DEFINE ready == Prepare(st0, s)
             st == ready.st
             t == Unclaimed(st, s, id)
             open == IF st.index = None THEN st ELSE EnsureCheckpoint(st)
             x == DeleteOf(id)
             result == Delete(st0, s, id)
  <1>1. /\ ready.ok /\ st \in State /\ st.txn = st0.txn
        /\ st.layout = st0.layout /\ Counted(st, s)
    BY PreparedCounts
  <1>2. result \in {Written(FALSE, st, s), Written(FALSE, st, t),
                    Written(TRUE, Logged(IF st.index = None THEN st
                                         ELSE SetId(EnsureCheckpoint(st), id, None), x), t)}
    BY DEF Delete, DeleteAfter, DeletePrepared
  <1> HIDE DEF ready, st, result
  <1>3. st.txn \in Txn /\ st.layout = s.layout
    BY <1>1 DEF Counted, Working, Sized
  <1>4. t \in Storage /\ SameData(t, s)
    BY <1>3, ClaimedData
  <1>5. SameData(s, s)
    BY SameDataSelf
  <1>6. WriteCounts(Written(FALSE, st, s), st0) /\ WriteCounts(Written(FALSE, st, t), st0)
    BY <1>1, <1>4, <1>5, WriteOf
  <1>7. open \in {st, EnsureCheckpoint(st)}
    OBVIOUS
  <1>8. (IF st.index = None THEN st ELSE SetId(EnsureCheckpoint(st), id, None))
          = SetId(open, id, None)
    BY DEF SetId
  <1> HIDE DEF open, t
  <1>9. x \in Change /\ x.op # "insert"
    BY DEF DeleteOf, Change
  <1> HIDE DEF x
  <1>10. WriteCounts(Written(TRUE, Logged(SetId(open, id, None), x), t), st0)
    BY <1>1, <1>4, <1>7, <1>9, WriteOf
  <1> QED
    BY <1>2, <1>6, <1>8, <1>10 DEF result
-----------------------------------------------------------------------------
(* Reads and xBegin, outside a transaction. *)

(* What a read leaves of a connection: a copy, if any, that is the storage *)
(* it sees, and the number of its rows.                                    *)
Seen(new, s) ==
  /\ new \in State /\ new.txn = None /\ new.layout = s.layout
  /\ Fresh(new, s) /\ Tallied(new, s)

(* What it needs: a copy that is good where its generation says so, of a   *)
(* table that is not in a newer layout than the one seen.                  *)
Readies(st, s) ==
  /\ st.txn = None /\ Chained(s) /\ Counts(s)
  /\ st.index # None => Faithful(st.index, st.generation, s)
  /\ CopyTally(st) /\ (st.layout = "current" => s.layout = "current")

LEMMA SeenCopy ==
  ASSUME NEW new, NEW s, Seen(new, s)
  PROVE  CopyTally(new) /\ (new.layout = "current" => s.layout = "current")
PROOF
  BY DEF Seen, CopyTally, Fresh, Tallied

LEMMA ColdLoads ==
  ASSUME NEW st \in State, NEW s \in Storage, st.txn = None, st.index = None,
         Chained(s), Counts(s), st.layout = s.layout,
         s.layout = "current" => st.generation = s.generation /\ Tallied(st, s)
  PROVE  Seen(EnsureLoaded(st, s), s) /\ EnsureLoaded(st, s).index # None
PROOF
  <1> DEFINE new == EnsureLoaded(st, s)
  <1>1. Loadable(st, s)
    <2>1. Readable(s)
      BY DEF Readable, Counts
    <2>2. s.layout \in {"legacy", "current"}
      BY DEF Storage
    <2> QED
      BY <2>1, <2>2 DEF Loadable, Tallied
  <1>2. Content(s) \in Rows
    BY CountOfContent
  <1>3. Unsynced(st) = <<>> /\ Replay(Content(s), Unsynced(st)) = Content(s)
    BY <1>2, NothingUnsynced
  <1>4. ReplayOK(Content(s), Unsynced(st))
    BY <1>3 DEF ReplayOK
  <1>5. new.rowCount = Cardinality(Keys(Content(s))) /\ new.index = Content(s)
    BY <1>1, <1>3, <1>4, LoadedCount
  <1>6. Content(s) # None
    BY <1>2, NoneAssumption DEF Rows
  <1>7. new \in State /\ new.txn = None /\ new.layout = s.layout
    BY LoadedParts
  <1>8. Fresh(new, s)
    BY LoadFresh
  <1> QED
    BY <1>5, <1>6, <1>7, <1>8 DEF Seen, Tallied

(* catch_up, where it is tried, succeeds. *)
LEMMA CatchUpCounts ==
  ASSUME NEW st \in State, NEW s \in Storage, Readies(st, s), st.index # None,
         CatchesUp(st, s)
  PROVE  /\ DeltasReplayOK(st.index, s, st.generation)
         /\ CaughtUp(st, s).index = Content(s)
         /\ CaughtUp(st, s) \in State
         /\ CaughtUp(st, s).layout = st.layout
PROOF
  <1>1. st.generation \in Int /\ s.generation \in Int /\ st.generation \in Generation
    BY DEF State, Storage, Generation
  <1>2. st.generation < s.generation /\ st.generation <= s.generation
        /\ \E d \in Stored(s) : d <= st.generation
    BY <1>1 DEF CatchesUp
  <1>3. st.index = ContentAt(s, st.generation)
    BY <1>2 DEF Readies, Faithful, Covers
  <1>4. DeltasReplayOK(st.index, s, st.generation)
    BY <1>1, <1>3, LaterReplay DEF Readies, Counts
  <1>5. CaughtUp(st, s).index = Content(s)
    BY <1>2, <1>3, CatchUpIsReload DEF ContentAt
  <1>6. CaughtUp(st, s) \in State
    BY CaughtUpType
  <1>7. CaughtUp(st, s).layout = st.layout
    BY DEF CaughtUp, State
  <1> QED
    BY <1>4, <1>5, <1>6, <1>7

(* What a refresh leaves, besides what the copy is.                        *)
Refreshed(fresh, s) ==
  /\ fresh.ok = TRUE /\ fresh.st.layout = s.layout /\ Tallied(fresh.st, s)
  /\ s.layout = "legacy" => fresh.st.index # None

LEMMA RefreshLegacyCounts ==
  ASSUME NEW st \in State, NEW s \in Storage, Readies(st, s),
         st.layout = "legacy", s.layout = "legacy"
  PROVE  Refreshed(RefreshLegacy(st, s), s)
PROOF
  <1>1. CASE st.index # None /\ s.generation = st.generation
    <2>1. RefreshLegacy(st, s) = Result(TRUE, st)
      BY <1>1 DEF RefreshLegacy
    <2>2. st.index = Content(s)
      BY <1>1, OwnContent DEF Readies
    <2> QED
      BY <1>1, <2>1, <2>2 DEF Result, Refreshed, Tallied, Readies, CopyTally
  <1>2. CASE st.index # None /\ s.generation # st.generation /\ CatchesUp(st, s)
    <2> DEFINE x == CaughtUp(st, s)
    <2>1. /\ DeltasReplayOK(st.index, s, st.generation)
          /\ x.index = Content(s) /\ x \in State /\ x.layout = "legacy"
      BY <1>2, CatchUpCounts
    <2>2. RefreshLegacy(st, s) = Result(TRUE, Recounted(x))
      BY <1>2, <2>1 DEF RefreshLegacy
    <2> HIDE DEF x
    <2>3. /\ Recounted(x).index = x.index /\ Recounted(x).layout = x.layout
          /\ Recounted(x).rowCount = Cardinality(Keys(x.index))
      BY <2>1 DEF Recounted, State
    <2>4. Content(s) # None
      BY CountOfContent, NoneAssumption DEF Rows
    <2> QED
      BY <2>1, <2>2, <2>3, <2>4 DEF Result, Refreshed, Tallied
  <1>3. CASE ~(st.index # None /\ (s.generation = st.generation \/ CatchesUp(st, s)))
    <2> DEFINE x == EnsureLoaded(Dropped(st), s)
    <2>1. RefreshLegacy(st, s) = LoadResult(x)
      BY <1>3 DEF RefreshLegacy
    <2>2. /\ Dropped(st) \in State /\ Dropped(st).index = None
          /\ Dropped(st).txn = None /\ Dropped(st).layout = s.layout
      BY DroppedType DEF Dropped, State, Readies
    <2>3. Seen(x, s) /\ x.index # None
      BY <2>2, ColdLoads DEF Readies
    <2> HIDE DEF x
    <2>4. (x.index # None) = TRUE
      BY <2>3
    <2>5. RefreshLegacy(st, s) = [ok |-> TRUE, st |-> x]
      BY <2>1, <2>4 DEF LoadResult, Result
    <2> QED
      BY <2>3, <2>5 DEF Refreshed, Seen
  <1> QED
    BY <1>1, <1>2, <1>3

LEMMA AdoptCounts ==
  ASSUME NEW x \in State, NEW s \in Storage, x.layout = "current", s.layout = "current",
         Counts(s)
  PROVE  Refreshed(Result(TRUE, Adopt(x, s)), s)
PROOF
  <1>1. Adopt(x, s).rowCount = s.rowCount /\ Adopt(x, s).layout = x.layout
    BY DEF Adopt, State
  <1> QED
    BY <1>1 DEF Result, Refreshed, Tallied, Counts

LEMMA RefreshCurrentCounts ==
  ASSUME NEW st \in State, NEW s \in Storage, Readies(st, s),
         st.layout = "current", s.layout = "current"
  PROVE  Refreshed(RefreshCurrent(st, s), s)
PROOF
  <1>1. Counts(s)
    BY DEF Readies
  <1>2. Dropped(st) \in State /\ Dropped(st).layout = "current"
    BY DroppedType DEF Dropped, State
  <1>3. st.index # None /\ CatchesUp(st, s) =>
          /\ DeltasReplayOK(st.index, s, st.generation)
          /\ CaughtUp(st, s) \in State /\ CaughtUp(st, s).layout = "current"
    BY CatchUpCounts
  <1>4. \/ RefreshCurrent(st, s) = Result(TRUE, Adopt(st, s))
        \/ RefreshCurrent(st, s) = Result(TRUE, Adopt(Dropped(st), s))
        \/ /\ RefreshCurrent(st, s) = Result(TRUE, Adopt(CaughtUp(st, s), s))
           /\ st.index # None /\ CatchesUp(st, s)
    BY <1>3 DEF RefreshCurrent
  <1> QED
    BY <1>1, <1>2, <1>3, <1>4, AdoptCounts

LEMMA RefreshCounts ==
  ASSUME NEW st \in State, NEW s \in Storage, Readies(st, s)
  PROVE  Refreshed(Refresh(st, s), s)
PROOF
  <1> DEFINE x == [Dropped(st) EXCEPT !.layout = "current"]
  <1>1. /\ st.layout \in {"legacy", "current"} /\ s.layout \in {"legacy", "current"}
        /\ st.txn = None
    BY DEF State, Storage, Readies
  <1>2. Dropped(st) \in State /\ Dropped(st).index = None /\ Dropped(st).txn = None
    BY DroppedType DEF Dropped, State, Readies
  <1>3. x \in State /\ x.layout = "current" /\ x.index = None /\ x.txn = None
    BY <1>2 DEF State
  <1> HIDE DEF x
  <1>4. CASE st.layout = "legacy" /\ s.layout = "legacy"
    BY <1>1, <1>4, RefreshLegacyCounts DEF Refresh
  <1>5. CASE st.layout = "legacy" /\ s.layout = "current"
    <2>1. Refresh(st, s) = RefreshCurrent(x, s)
      BY <1>1, <1>5 DEF Refresh, x
    <2>2. Readies(x, s)
      BY <1>3, <1>5 DEF Readies, CopyTally
    <2> QED
      BY <1>3, <1>5, <2>1, <2>2, RefreshCurrentCounts
  <1>6. CASE st.layout = "current"
    <2>1. s.layout = "current"
      BY <1>6 DEF Readies
    <2> QED
      BY <1>1, <1>6, <2>1, RefreshCurrentCounts DEF Refresh
  <1> QED
    BY <1>1, <1>4, <1>5, <1>6

LEMMA RefreshSeen ==
  ASSUME NEW st \in State, NEW s \in Storage, Readies(st, s)
  PROVE  LET fresh == Refresh(st, s)
         IN  /\ fresh.ok = TRUE /\ Seen(fresh.st, s)
             /\ fresh.st.generation = s.generation
             /\ s.layout = "legacy" => fresh.st.index # None
             /\ Seen(EnsureLoaded(fresh.st, s), s)
             /\ EnsureLoaded(fresh.st, s).index # None
PROOF
  <1> DEFINE fresh == Refresh(st, s)
             x == fresh.st
  <1>1. Refreshed(fresh, s)
    BY RefreshCounts
  <1>2. x \in State /\ x.txn = None /\ (fresh.ok => Fresh(x, s))
    BY RefreshCopies DEF Readies
  <1>3. fresh.ok => x.generation = s.generation
    BY RefreshGeneration DEF Readies, RefreshTo
  <1>4. Seen(x, s) /\ x.generation = s.generation
    BY <1>1, <1>2, <1>3 DEF Seen, Refreshed
  <1>5. s.layout = "legacy" => x.index # None
    BY <1>1 DEF Refreshed
  <1>6. Seen(EnsureLoaded(x, s), s) /\ EnsureLoaded(x, s).index # None
    <2>1. CASE x.index = None
      BY <1>2, <1>4, <2>1, ColdLoads DEF Readies, Seen
    <2>2. CASE x.index # None
      BY <1>4, <2>2 DEF EnsureLoaded
    <2> QED
      BY <2>1, <2>2
  <1> QED
    BY <1>1, <1>4, <1>5, <1>6 DEF Refreshed

(* What the reads leave, and what they return. *)
LEMMA ReadsSeen ==
  ASSUME NEW st \in State, NEW s \in Storage, Readies(st, s)
  PROVE  /\ Seen(Searched(st, s).st, s) /\ Seen(Scanned(st, s), s)
         /\ SeenRows(st, s) = Content(s) /\ SeenRows(st, s) # None
         /\ (s.layout = "current" /\ s.ids = Keys(Content(s))) \/ s.layout = "legacy" =>
              ScanKeys(st, s) = Keys(Content(s))
PROOF
  <1> DEFINE fresh == Refresh(st, s)
             x == fresh.st
             loaded == EnsureLoaded(x, s)
  <1>1. /\ fresh.ok = TRUE /\ Seen(x, s)
        /\ s.layout = "legacy" => x.index # None
        /\ Seen(loaded, s) /\ loaded.index # None
    BY RefreshSeen
  <1>2. Searched(st, s) = LoadResult(loaded)
    BY <1>1 DEF Searched, SearchedAfter
  <1>3. Scanned(st, s) \in {x, loaded}
    BY DEF Scanned, ScannedAfter
  <1> HIDE DEF loaded, fresh
  <1>4. (loaded.index # None) = TRUE
    BY <1>1
  <1>5. Searched(st, s) = [ok |-> TRUE, st |-> loaded]
    BY <1>2, <1>4 DEF LoadResult, Result
  <1>6. loaded.index = Content(s) /\ (x.index # None => x.index = Content(s))
    BY <1>1 DEF Seen, Fresh
  <1>7. SeenRows(st, s) = Content(s) /\ SeenRows(st, s) # None
    BY <1>1, <1>5, <1>6 DEF SeenRows, FoundRows
  <1>8. (s.layout = "current" /\ s.ids = Keys(Content(s))) \/ s.layout = "legacy" =>
          ScanKeys(st, s) = Keys(Content(s))
    BY <1>1, <1>3, <1>6 DEF ScanKeys, FoundKeys
  <1> QED
    BY <1>1, <1>3, <1>5, <1>7, <1>8

LEMMA BeginCounts ==
  ASSUME NEW st \in State, NEW s \in Storage, Readies(st, s)
  PROVE  LET begun == Begin(st, s)
         IN  /\ begun.ok = TRUE /\ Tallied(begun.st, s) /\ Retains(begun.st)
             /\ begun.st.layout = s.layout
PROOF
  <1> DEFINE fresh == Refresh(st, s)
             x == fresh.st
             new == [x EXCEPT !.txn = StartTxn(x)]
  <1>1. fresh.ok = TRUE /\ Seen(x, s)
    BY RefreshSeen
  <1>2. Begin(st, s) = Result(TRUE, EnsureTxn(x))
    BY <1>1 DEF Begin, BegunAfter
  <1> HIDE DEF fresh
  <1>3. EnsureTxn(x) = new
    BY <1>1 DEF EnsureTxn, Seen
  <1>4. new.txn = StartTxn(x) /\ new.rowCount = x.rowCount /\ new.layout = x.layout
    BY <1>1 DEF Seen, State
  <1> HIDE DEF new
  <1>5. Unsynced(new) \in {<<>>, SubSeq(<<>>, 0 + 1, Len(<<>>))}
    BY <1>4 DEF Unsynced, StartTxn
  <1>6. Unsynced(new) = <<>>
    BY <1>5
  <1>7. Encodable(Unsynced(new))
    BY <1>6 DEF Encodable, Inserts
  <1> QED
    BY <1>1, <1>2, <1>3, <1>4, <1>7 DEF Result, Seen, Tallied, Retains

(* xConnect. *)
LEMMA OpenCounts ==
  ASSUME NEW s \in Storage, Chained(s), Counts(s)
  PROVE  CopyTally(OpenStorage(s)) /\ OpenStorage(s).layout = s.layout
PROOF
  <1> DEFINE st == Unread(s)
  <1>1. st \in State /\ st.index = None /\ st.txn = None /\ st.layout = s.layout
    <2>1. 0 \in Generation
      BY SizeAssumption DEF Generation
    <2> QED
      BY <2>1 DEF Unread, State, Storage
  <1> HIDE DEF st
  <1>2. CASE s.layout = "current"
    <2>1. OpenStorage(s) = Adopt(st, s)
      BY <1>2 DEF OpenStorage, st
    <2>2. Adopt(st, s).layout = st.layout
      BY <1>1 DEF Adopt, State
    <2> QED
      BY <1>1, <1>2, <2>1, <2>2 DEF CopyTally
  <1>3. CASE s.layout # "current"
    <2>1. OpenStorage(s) = EnsureLoaded(st, s)
      BY <1>3 DEF OpenStorage, st
    <2>2. Seen(EnsureLoaded(st, s), s)
      BY <1>1, <1>3, ColdLoads
    <2> QED
      BY <2>1, <2>2, SeenCopy DEF Seen
  <1> QED
    BY <1>2, <1>3

-----------------------------------------------------------------------------
(* Whether xRollback must go back to the old layout. *)

(* If x is st after some of xSync, it is in the layout of st or says that  *)
(* the transaction has left it.                                            *)
Marked(x, st) ==
  x.txn.upgraded \/ (x.layout = st.layout /\ x.txn.upgraded = st.txn.upgraded)

LEMMA PendingMark ==
  ASSUME NEW st \in State, st.txn \in Txn, NEW s \in Storage
  PROVE  LET x == SyncPending(st, s).st
         IN  x.layout = st.layout /\ x.txn.upgraded = st.txn.upgraded
PROOF
  <1> DEFINE Same(x) == x.layout = st.layout /\ x.txn.upgraded = st.txn.upgraded
             loaded == EnsureLoaded(st, s)
             length == ImageLen(loaded.index)
             zero == 0
             fresh == [loaded EXCEPT !.baseBytes = length, !.deltaBytes = zero,
                                     !.deltaOps = zero]
  <1>1. loaded \in State /\ loaded.txn = st.txn /\ loaded.layout = st.layout
    BY LoadedParts
  <1>2. Same(loaded) /\ Same(st)
    BY <1>1
  <1>3. ASSUME NEW rowCount PROVE Same(SyncCompaction(st, s, rowCount).st)
    <2>1. SyncCompaction(st, s, rowCount).st =
            IF loaded.index = None THEN loaded
            ELSE Synced(fresh, st.generation + 1, rowCount)
      BY DEF SyncCompaction, Compact, Written
    <2>2. CASE loaded.index = None
      BY <1>2, <2>1, <2>2
    <2>3. CASE loaded.index # None
      <3>1. loaded.index \in Rows
        BY <1>1, <2>3 DEF State
      <3>2. length \in Nat /\ zero \in Int
        BY <3>1, ImageLenType
      <3> HIDE DEF loaded, length, zero
      <3>3. fresh \in State /\ fresh.layout = loaded.layout /\ fresh.txn = loaded.txn
        BY <1>1, <3>2 DEF State
      <3> HIDE DEF fresh
      <3>4. /\ Synced(fresh, st.generation + 1, rowCount).layout = fresh.layout
            /\ Synced(fresh, st.generation + 1, rowCount).txn.upgraded = fresh.txn.upgraded
        BY <1>1, <3>3, SyncedFields
      <3> QED
        BY <1>1, <2>1, <2>3, <3>3, <3>4
    <2> QED
      BY <2>2, <2>3
  <1>4. ASSUME NEW rowCount, NEW deltaBytes \in Int, NEW deltaOps \in Int
        PROVE  Same(SyncDelta(st, s, rowCount, deltaBytes, deltaOps).st)
    <2> DEFINE new == [st EXCEPT !.deltaBytes = deltaBytes, !.deltaOps = deltaOps]
    <2>1. new \in State /\ new.layout = st.layout /\ new.txn = st.txn
      BY DEF State
    <2>2. SyncDelta(st, s, rowCount, deltaBytes, deltaOps).st
            \in {st, Synced(new, st.generation + 1, rowCount)}
      BY DEF SyncDelta, Written
    <2> HIDE DEF new
    <2>3. /\ Synced(new, st.generation + 1, rowCount).layout = new.layout
          /\ Synced(new, st.generation + 1, rowCount).txn.upgraded = new.txn.upgraded
      BY <2>1, SyncedFields
    <2> QED
      BY <1>2, <2>1, <2>2, <2>3
  <1> DEFINE rowCount == st.rowCount + NetRows(Unsynced(st))
             deltaBytes == st.deltaBytes + DeltaLen(Unsynced(st))
             deltaOps == st.deltaOps + Len(Unsynced(st))
  <1>5. deltaBytes \in Int /\ deltaOps \in Int
    <2>1. Unsynced(st) \in Seq(Change)
      BY LogType
    <2>2. DeltaLen(Unsynced(st)) \in Int /\ Len(Unsynced(st)) \in Nat
      BY <2>1, DeltaLenType
    <2> QED
      BY <2>2 DEF State
  <1>6. SyncPending(st, s) \in
          {Written(FALSE, st, s), SyncCompaction(st, s, rowCount),
           SyncDelta(st, s, rowCount, deltaBytes, deltaOps)}
    BY DEF SyncPending
  <1> HIDE DEF loaded, rowCount, deltaBytes, deltaOps
  <1>7. Same(SyncCompaction(st, s, rowCount).st)
    BY <1>3
  <1>8. Same(SyncDelta(st, s, rowCount, deltaBytes, deltaOps).st)
    BY <1>4, <1>5
  <1> QED
    BY <1>2, <1>6, <1>7, <1>8 DEF Written

LEMMA UpgradeMark ==
  ASSUME NEW st \in State, NEW s \in Storage, Counted(st, s)
  PROVE  LET up == Upgrade(st, s)
         IN  up.st.txn.upgraded = TRUE /\ up.st.txn \in Txn
PROOF
  <1> DEFINE loaded == EnsureLoaded(st, s)
             txn == [loaded.txn EXCEPT !.upgraded = TRUE]
             new == [loaded EXCEPT !.layout = "current", !.txn.upgraded = TRUE]
  <1>1. /\ loaded \in State /\ loaded.index # None /\ loaded.txn \in Txn
        /\ loaded.layout = s.layout
    BY CountedLoads DEF Counted, Working, Sized
  <1>2. Upgrade(st, s).st = new
    BY <1>1 DEF Upgrade, UpgradeLoaded, Written
  <1> HIDE DEF loaded
  <1>3. new.txn = txn
    BY <1>1 DEF State
  <1>4. txn \in Txn /\ txn.upgraded = TRUE
    BY <1>1 DEF Txn
  <1> QED
    BY <1>2, <1>3, <1>4

LEMMA SyncMark ==
  ASSUME NEW st \in State, NEW s \in Storage, Counted(st, s),
         NEW x \in {Sync(st, s).st} \cup PartialSync(st, s)
  PROVE  Marked(x, st)
PROOF
  <1> DEFINE up == Upgrade(st, s)
             loaded == EnsureLoaded(st, s)
  <1>1. /\ st.txn \in Txn /\ Marked(st, st)
    BY DEF Counted, Working, Marked
  <1>2. loaded.txn = st.txn /\ loaded.layout = st.layout
    BY LoadedParts
  <1>3. /\ up.ok /\ up.st \in State /\ up.s \in Storage
        /\ up.st.txn.upgraded = TRUE /\ up.st.txn \in Txn
    BY UpgradeCounts, UpgradeMark
  <1>4. Marked(loaded, st) /\ Marked(up.st, st)
    BY <1>2, <1>3 DEF Marked
  <1>5. Marked(SyncPending(st, s).st, st)
    BY <1>1, PendingMark DEF Marked
  <1>6. Marked(SyncPending(up.st, up.s).st, st)
    <2> HIDE DEF up
    <2> QED
      BY <1>3, PendingMark DEF Marked
  <1> HIDE DEF up, loaded
  <1>7. Sync(st, s).st \in {st, SyncPending(st, s).st, SyncPending(up.st, up.s).st}
    BY <1>3 DEF Sync, SyncUpgraded, Written, up
  <1> QED
    BY <1>1, <1>4, <1>5, <1>6, <1>7 DEF PartialSync, up, loaded

-----------------------------------------------------------------------------
(* The invariant, connection by connection. *)

(* What a transaction needs in order to be committed, and to be rolled     *)
(* back in the layout it began in.                                         *)
CanEnd(st, s, d) ==
  /\ Tallied(st, s) /\ Retains(st)
  /\ d.layout = "legacy" /\ st.layout = "current" => st.txn.upgraded

(* A connection that writes nothing is not ahead of what it sees, nor that *)
(* of what is committed.                                                   *)
Behind(st, s) == CopyTally(st) /\ (st.layout = "current" => s.layout = "current")
Snapshot(s, d) == OwnIds(s) /\ (s.layout = "current" => d.layout = "current")

TallyParts(c) ==
  /\ Counts(view[c]) /\ \A i \in DOMAIN marks[c] : Counts(marks[c][i].storage)
  /\ enlisted[c] => CanEnd(state[c], view[c], disk)
  /\ ~enlisted[c] => Behind(state[c], view[c])
  /\ mode[c] # "write" => Snapshot(view[c], disk)
Tally == Counts(disk) /\ \A c \in Connections : TallyParts(c)
CountInv == ExactInv /\ Tally

LEMMA CountFacts ==
  ASSUME CountInv, NEW c \in Connections
  PROVE  /\ ExactInv /\ TypeOK /\ TallyParts(c) /\ OwnIds(disk)
         /\ state[c] \in State /\ view[c] \in Storage /\ disk \in Storage
         /\ Chained(disk) /\ Counts(disk) /\ Chained(view[c]) /\ Counts(view[c])
         /\ enlisted[c] => Counted(state[c], view[c]) /\ CanEnd(state[c], view[c], disk)
         /\ ~enlisted[c] => Readies(state[c], view[c]) /\ Snapshot(view[c], disk)
PROOF
  <1>1. ExactInv /\ TallyParts(c) /\ Counts(disk) /\ Counts(view[c])
    BY DEF CountInv, Tally, TallyParts
  <1>2. /\ TypeOK /\ Whole(c) /\ ExactParts(c) /\ OwnIds(disk)
        /\ state[c] \in State /\ view[c] \in Storage /\ disk \in Storage
        /\ enlisted[c] => Sized(state[c], view[c]) /\ Working(state[c], view[c])
        /\ ~enlisted[c] => state[c].txn = None /\ CopyOf(state[c], view[c], disk)
    BY <1>1, ExactFacts
  <1>3. Chained(view[c]) /\ Chained(disk)
    BY <1>1, <1>2 DEF Whole, ExactInv, BudgetInv, BudgetOf, ChainInv, ChainUnbroken
  <1>4. enlisted[c] => Counted(state[c], view[c]) /\ CanEnd(state[c], view[c], disk)
    BY <1>1, <1>2, <1>3 DEF Counted, CanEnd, TallyParts
  <1>5. ~enlisted[c] => Readies(state[c], view[c])
    BY <1>1, <1>2, <1>3 DEF Readies, CopyOf, Behind, TallyParts
  <1>6. ~enlisted[c] => Snapshot(view[c], disk)
    <2>1. ~enlisted[c] /\ mode[c] = "write" => view[c] = disk
      BY <1>1, SeesDisk
    <2> QED
      BY <1>1, <1>2, <2>1 DEF TallyParts, Snapshot
  <1> QED
    BY <1>1, <1>2, <1>3, <1>4, <1>5, <1>6

(* A step that moves one connection and keeps the file.                    *)
LEMMA OneTally ==
  ASSUME CountInv, NEW c \in Connections, disk' = disk,
         \A d \in Connections \ {c} :
           /\ mode'[d] = mode[d] /\ view'[d] = view[d] /\ marks'[d] = marks[d]
           /\ enlisted'[d] = enlisted[d] /\ state'[d] = state[d],
         TallyParts(c)'
  PROVE  Tally'
PROOF
  <1>1. ASSUME NEW d \in Connections \ {c} PROVE TallyParts(d)'
    <2>1. TallyParts(d)
      BY DEF CountInv, Tally
    <2> QED
      BY <2>1 DEF TallyParts
  <1>2. Counts(disk)'
    BY DEF CountInv, Tally, Counts
  <1> QED
    BY <1>1, <1>2 DEF Tally

(* The end of a transaction. *)
LEMMA EndTally ==
  ASSUME CountInv, NEW c \in Connections, NEW s \in Storage, NEW st,
         Ended(c, s), SetState(c, st), Behind(st, s), Counts(s), OwnIds(s),
         s = disk \/ (mode[c] = "write" /\ (disk.layout = "current" => s.layout = "current"))
  PROVE  Tally'
PROOF
  <1>1. TypeOK /\ OneWriter /\ ExactInv
    BY ExactFacts DEF CountInv
  <1>2. disk' = s
    BY DEF Ended
  <1>3. Snapshot(s, s)
    BY DEF Snapshot
  <1>4. TallyParts(c)'
    <2>1. /\ view'[c] = s /\ mode'[c] = "idle" /\ state'[c] = st /\ enlisted'[c] = FALSE
          /\ marks'[c] = <<>>
      BY <1>1 DEF Ended, SetState, TypeOK
    <2>2. DOMAIN marks'[c] = {}
      BY <2>1
    <2> QED
      BY <1>2, <1>3, <2>1, <2>2 DEF TallyParts
  <1>5. ASSUME NEW d \in Connections \ {c} PROVE TallyParts(d)'
    <2>1. /\ mode'[d] = mode[d] /\ marks'[d] = marks[d] /\ enlisted'[d] = enlisted[d]
          /\ state'[d] = state[d]
          /\ view'[d] = IF mode[d] = "idle" THEN s ELSE view[d]
      BY <1>1 DEF Ended, SetState, TypeOK
    <2>2. TallyParts(d) /\ Agrees(d)
      BY <1>1, CountFacts, ExactFacts
    <2>3. CASE mode[d] # "idle"
      <3>1. view'[d] = view[d]
        BY <2>1, <2>3
      <3>2. CASE s = disk
        BY <1>2, <2>1, <2>2, <3>1, <3>2 DEF TallyParts
      <3>3. CASE mode[c] = "write" /\ (disk.layout = "current" => s.layout = "current")
        <4>1. mode[d] # "write" /\ ~enlisted[d]
          BY <1>1, <2>2, <3>3 DEF OneWriter, Agrees
        <4>2. Snapshot(view[d], s)
          BY <2>2, <3>3, <4>1 DEF TallyParts, Snapshot
        <4> QED
          BY <1>2, <2>1, <2>2, <3>1, <4>1, <4>2 DEF TallyParts
      <3> QED
        BY <3>2, <3>3
    <2>4. CASE mode[d] = "idle"
      <3>1. view'[d] = s /\ ~enlisted[d] /\ marks[d] = <<>>
        BY <2>1, <2>2, <2>4 DEF Agrees
      <3>2. Behind(state[d], view[d]) /\ Snapshot(view[d], disk)
        BY <2>2, <2>4, <3>1 DEF TallyParts
      <3>3. Behind(state[d], s)
        BY <3>2 DEF Behind, Snapshot
      <3>4. DOMAIN marks[d] = {}
        BY <3>1
      <3> QED
        BY <1>2, <1>3, <2>1, <3>1, <3>3, <3>4 DEF TallyParts
    <2> QED
      BY <2>3, <2>4
  <1>6. Counts(disk)'
    BY <1>2 DEF Counts
  <1> QED
    BY <1>4, <1>5, <1>6 DEF Tally

-----------------------------------------------------------------------------
(* The actions, in the order of Next. *)

LEMMA SnapshotTally ==
  ASSUME CountInv, NEW c \in Connections, BeginRead(c) \/ EndRead(c) \/ BeginWrite(c)
  PROVE  Tally'
PROOF
  <1>1. /\ ExactInv /\ TypeOK /\ Agrees(c) /\ TallyParts(c) /\ OwnIds(disk) /\ Counts(disk)
        /\ disk \in Storage
    BY CountFacts, ExactFacts
  <1>2. CASE EndRead(c)
    <2>1. SetState(c, state[c]) /\ Ended(c, disk)
      BY <1>1, <1>2 DEF EndRead, SetState, TypeOK
    <2>2. ~enlisted[c] /\ mode[c] # "write"
      BY <1>1, <1>2 DEF EndRead, Agrees
    <2>3. Behind(state[c], disk)
      BY <1>1, <2>2 DEF TallyParts, Behind, Snapshot
    <2> QED
      BY <1>1, <2>1, <2>3, EndTally
  <1>3. CASE BeginRead(c) \/ BeginWrite(c)
    <2>1. /\ UNCHANGED <<disk, view, marks, statement, enlisted, state>>
          /\ \A d \in Connections \ {c} : mode'[d] = mode[d]
          /\ mode[c] # "write"
      BY <1>1, <1>3 DEF BeginRead, BeginWrite, TypeOK
    <2>2. TallyParts(c)'
      BY <1>1, <2>1 DEF TallyParts
    <2> QED
      BY <2>1, <2>2, OneTally
  <1> QED
    BY <1>2, <1>3

(* What the reads of a transaction leave, and what they return.            *)
LEMMA ReadsCounted ==
  ASSUME NEW st \in State, NEW s \in Storage, Counted(st, s)
  PROVE  /\ \A new \in {Searched(st, s).st, Scanned(st, s)} :
              Counted(new, s) /\ new.txn = st.txn /\ new.layout = st.layout
         /\ SeenRows(st, s) # None
         /\ ScanKeys(st, s) = Keys(SeenRows(st, s))
PROOF
  <1> DEFINE loaded == EnsureLoaded(st, s)
             ids == KeysAfter(Content(s), Unsynced(st))
  <1>1. /\ loaded \in State /\ loaded.index # None /\ loaded.txn = st.txn
        /\ loaded.layout = st.layout /\ Counted(loaded, s)
    BY CountedLoads
  <1>2. st.txn # None /\ st.layout = s.layout /\ s.layout \in {"legacy", "current"}
    BY TxnIsThere DEF Counted, Working, Sized, Storage
  <1>3. Refresh(st, s) = Result(TRUE, st)
    BY <1>2, RefreshGeneration
  <1>4. Searched(st, s) = LoadResult(loaded)
    BY <1>3 DEF Searched, SearchedAfter, Result
  <1>5. Scanned(st, s) = IF st.layout = "legacy" THEN loaded ELSE st
    BY <1>3 DEF Scanned, ScannedAfter, Result
  <1>6. Keys(loaded.index) = ids
    <2>1. Unsynced(loaded) = Unsynced(st)
      BY <1>1 DEF Unsynced
    <2> QED
      BY <1>1, <2>1, CountedRows
  <1>7. st.index # None => Keys(st.index) = ids
    BY CountedRows
  <1>8. s.layout = "current" => s.ids = ids
    BY DEF Counted, Working
  <1> HIDE DEF loaded, ids
  <1>9. (loaded.index # None) = TRUE
    BY <1>1
  <1>10. Searched(st, s) = [ok |-> TRUE, st |-> loaded]
    BY <1>4, <1>9 DEF LoadResult, Result
  <1>11. SeenRows(st, s) = loaded.index
    BY <1>10 DEF SeenRows, FoundRows
  <1>12. ScanKeys(st, s) = ids
    <2>1. CASE st.layout = "legacy"
      BY <1>1, <1>5, <1>6, <2>1 DEF ScanKeys, FoundKeys
    <2>2. CASE st.layout # "legacy"
      BY <1>2, <1>5, <1>7, <1>8, <2>2 DEF ScanKeys, FoundKeys
    <2> QED
      BY <2>1, <2>2
  <1>13. \A new \in {Searched(st, s).st, Scanned(st, s)} :
           Counted(new, s) /\ new.txn = st.txn /\ new.layout = st.layout
    BY <1>1, <1>5, <1>10
  <1> QED
    BY <1>1, <1>6, <1>11, <1>12, <1>13

LEMMA ReadTally ==
  ASSUME CountInv, NEW c \in Connections, Search(c) \/ Scan(c) \/ CatchUpFails(c)
  PROVE  Tally'
PROOF
  <1>1. /\ ExactInv /\ TypeOK /\ TallyParts(c) /\ state[c] \in State /\ view[c] \in Storage
    BY CountFacts
  <1>2. PICK new : /\ \/ new \in {Searched(state[c], view[c]).st, Scanned(state[c], view[c])}
                      \/ new = Dropped(state[c]) /\ state[c].txn = None
                   /\ SetState(c, new)
                   /\ UNCHANGED <<disk, mode, view, marks, statement, enlisted>>
    BY DEF Search, Scan, CatchUpFails
  <1>3. \A d \in Connections : state'[d] = IF d = c THEN new ELSE state[d]
    BY <1>1, <1>2 DEF SetState, TypeOK
  <1>4. CASE enlisted[c]
    <2>1. Counted(state[c], view[c]) /\ CanEnd(state[c], view[c], disk)
      BY <1>4, CountFacts
    <2>2. state[c].txn # None
      BY <2>1, TxnIsThere DEF Counted, Working
    <2>3. Counted(new, view[c]) /\ new.txn = state[c].txn /\ new.layout = state[c].layout
      BY <1>1, <1>2, <2>1, <2>2, ReadsCounted
    <2>4. CanEnd(new, view[c], disk)
      BY <2>1, <2>3 DEF CanEnd, Counted
    <2>5. TallyParts(c)'
      BY <1>1, <1>2, <1>3, <1>4, <2>4 DEF TallyParts
    <2> QED
      BY <1>2, <1>3, <2>5, OneTally
  <1>5. CASE ~enlisted[c]
    <2>1. Readies(state[c], view[c])
      BY <1>5, CountFacts
    <2>2. Behind(new, view[c])
      <3>1. CASE new = Dropped(state[c])
        <4>1. new.index = None /\ new.layout = state[c].layout
          BY <1>1, <3>1 DEF Dropped, State
        <4> QED
          BY <2>1, <4>1 DEF Behind, CopyTally, Readies
      <3>2. CASE new # Dropped(state[c])
        BY <1>1, <1>2, <2>1, <3>2, ReadsSeen, SeenCopy DEF Behind
      <3> QED
        BY <3>1, <3>2
    <2>3. TallyParts(c)'
      BY <1>1, <1>2, <1>3, <1>5, <2>2 DEF TallyParts
    <2> QED
      BY <1>2, <1>3, <2>3, OneTally
  <1> QED
    BY <1>4, <1>5

LEMMA EnlistTally ==
  ASSUME CountInv, NEW c \in Connections, Enlist(c)
  PROVE  Tally'
PROOF
  <1> DEFINE begun == Begin(state[c], view[c])
             st == IF marks[c] # <<>> THEN Savepoint(begun.st, TopMark(c)) ELSE begun.st
  <1>1. /\ ExactInv /\ TypeOK /\ TallyParts(c) /\ state[c] \in State /\ view[c] \in Storage
        /\ disk \in Storage /\ ~enlisted[c] /\ mode[c] = "write" /\ OwnIds(disk)
        /\ Readies(state[c], view[c]) /\ state[c].txn = None /\ Counts(disk)
        /\ CopyOf(state[c], view[c], disk)
    BY CountFacts, ExactFacts DEF Enlist
  <1>2. view[c] = disk
    BY <1>1, SeesDisk
  <1>3. /\ begun.ok = TRUE /\ Tallied(begun.st, disk) /\ Retains(begun.st)
        /\ begun.st.layout = disk.layout
    BY <1>1, <1>2, BeginCounts
  <1>4. begun.st \in State /\ begun.st.txn \in Txn
    <2>1. begun \in ReadResult
      BY <1>1, BeginType
    <2>2. ~state[c].dirty
          /\ (state[c].index # None => Faithful(state[c].index, state[c].generation, disk))
      BY <1>1 DEF CopyOf
    <2>3. begun = Begin(state[c], disk)
      BY <1>2
    <2> HIDE DEF begun
    <2>4. begun.st \in State
      BY <2>1 DEF ReadResult
    <2> QED
      BY <1>1, <1>3, <2>2, <2>3, <2>4, BeginWorks DEF OwnIds, Working
  <1>5. SetState(c, st) /\ enlisted' = [enlisted EXCEPT ![c] = TRUE]
        /\ UNCHANGED <<disk, mode, view, marks, statement>>
    BY <1>3 DEF Enlist, EnlistBegun
  <1> HIDE DEF begun
  <1>6. st.rowCount = begun.st.rowCount /\ st.layout = begun.st.layout /\ Retains(st)
    <2>1. CASE marks[c] = <<>>
      BY <1>3, <2>1
    <2>2. CASE marks[c] # <<>>
      <3>1. Len(marks[c]) \in Nat /\ marks[c] \in Seq(MarkRecord)
        BY <1>1, MarkIndex DEF TypeOK
      <3>2. Len(marks[c]) - 1 \in 0 .. Len(marks[c]) - 1
        BY <2>2, <3>1
      <3>3. TopMark(c) \in Mark
        BY <1>1, <3>2, MarkIndex DEF TopMark
      <3>4. st = Savepoint(begun.st, TopMark(c))
        BY <2>2
      <3> QED
        BY <1>3, <1>4, <3>3, <3>4, SavepointCount DEF KeepsCount
    <2> QED
      BY <2>1, <2>2
  <1> HIDE DEF st
  <1>7. CanEnd(st, disk, disk)
    BY <1>3, <1>6 DEF CanEnd, Tallied
  <1>8. /\ \A d \in Connections : state'[d] = IF d = c THEN st ELSE state[d]
        /\ \A d \in Connections : enlisted'[d] = IF d = c THEN TRUE ELSE enlisted[d]
    BY <1>1, <1>5 DEF SetState, TypeOK
  <1>9. TallyParts(c)'
    BY <1>1, <1>2, <1>5, <1>7, <1>8 DEF TallyParts
  <1> QED
    BY <1>5, <1>8, <1>9, OneTally

LEMMA WriteTally ==
  ASSUME CountInv, NEW c \in Connections, InsertRow(c) \/ DeleteRow(c)
  PROVE  Tally'
PROOF
  <1>1. /\ ExactInv /\ TypeOK /\ TallyParts(c) /\ state[c] \in State /\ view[c] \in Storage
        /\ enlisted[c] = TRUE /\ mode[c] = "write"
    BY CountFacts DEF InsertRow, DeleteRow, Update, Updating, TypeOK
  <1>2. Counted(state[c], view[c]) /\ CanEnd(state[c], view[c], disk)
    BY <1>1, CountFacts
  <1>3. PICK result : Update(c, result) /\ WriteCounts(result, state[c])
    BY <1>1, <1>2, InsertCounts, DeleteCounts DEF InsertRow, DeleteRow
  <1>4. /\ \A d \in Connections : state'[d] = IF d = c THEN result.st ELSE state[d]
        /\ \A d \in Connections : view'[d] = IF d = c THEN result.s ELSE view[d]
        /\ UNCHANGED <<disk, mode, marks, statement, enlisted>>
    BY <1>1, <1>3 DEF Update, SetState, TypeOK
  <1>5. CanEnd(result.st, result.s, disk) /\ Counts(result.s)
    BY <1>2, <1>3 DEF CanEnd, WriteCounts
  <1>6. TallyParts(c)'
    BY <1>1, <1>4, <1>5 DEF TallyParts
  <1> QED
    BY <1>4, <1>6, OneTally

-----------------------------------------------------------------------------
(* Savepoints. *)

LEMMA MarkCanEnd ==
  ASSUME NEW new, NEW st, KeepsCount(new, st), Retains(new), NEW s, NEW d, CanEnd(st, s, d)
  PROVE  CanEnd(new, s, d)
PROOF
  BY DEF CanEnd, KeepsCount, Tallied

LEMMA PushMarkTally ==
  ASSUME CountInv, NEW c \in Connections, OpenSavepoint(c) \/ OpenStatement(c)
  PROVE  Tally'
PROOF
  <1> DEFINE mark == [storage |-> view[c], rows |-> SeenRows(state[c], view[c])]
             j == Len(marks[c])
             st == IF enlisted[c] THEN Savepoint(state[c], j) ELSE state[c]
             longer == Append(marks[c], mark)
  <1>1. /\ ExactInv /\ TypeOK /\ TallyParts(c) /\ state[c] \in State
        /\ marks[c] \in Seq(MarkRecord) /\ PushMark(c) /\ mode[c] = "write"
    BY CountFacts, ExactFacts DEF OpenSavepoint, OpenStatement, PushMark, Writing, TypeOK
  <1>2. j \in Mark
    <2>1. j \in Nat /\ j < MaxMarks /\ MaxMarks \in Nat
      BY <1>1, MarksAreNumbered, TableAssumption DEF PushMark
    <2>2. j \in 0 .. MaxMarks - 1
      BY <2>1
    <2> QED
      BY <2>2, TableAssumption
  <1>3. mark.storage = view[c]
    OBVIOUS
  <1>4. /\ marks' = [marks EXCEPT ![c] = longer]
        /\ SetState(c, st)
        /\ UNCHANGED <<disk, mode, view, enlisted>>
    BY <1>1 DEF PushMark, TypeOK
  <1>5. \A i \in DOMAIN longer : (i \in DOMAIN marks[c] /\ longer[i] = marks[c][i])
                                 \/ longer[i] = mark
    BY <1>1
  <1> HIDE DEF mark, longer, j
  <1>6. enlisted[c] => CanEnd(st, view[c], disk)
    <2>1. SUFFICES ASSUME enlisted[c] PROVE CanEnd(st, view[c], disk)
      OBVIOUS
    <2>2. Counted(state[c], view[c]) /\ CanEnd(state[c], view[c], disk) /\ state[c].txn \in Txn
      BY <2>1, CountFacts DEF Counted, Working
    <2>3. st = Savepoint(state[c], j)
      BY <2>1
    <2> HIDE DEF st
    <2> QED
      BY <1>1, <1>2, <2>2, <2>3, SavepointCount, MarkCanEnd DEF CanEnd
  <1>7. ~enlisted[c] => st = state[c]
    OBVIOUS
  <1> HIDE DEF st
  <1>8. /\ \A d \in Connections : state'[d] = IF d = c THEN st ELSE state[d]
        /\ \A d \in Connections : marks'[d] = IF d = c THEN longer ELSE marks[d]
    BY <1>1, <1>4 DEF SetState, TypeOK
  <1>9. \A i \in DOMAIN longer : Counts(longer[i].storage)
    BY <1>1, <1>3, <1>5 DEF TallyParts
  <1>10. TallyParts(c)'
    BY <1>1, <1>4, <1>6, <1>7, <1>8, <1>9 DEF TallyParts
  <1> QED
    BY <1>4, <1>8, <1>10, OneTally

LEMMA ReleaseTally ==
  ASSUME CountInv, NEW c \in Connections, ReleaseSavepoint(c) \/ CloseStatement(c)
  PROVE  Tally'
PROOF
  <1>1. /\ ExactInv /\ TypeOK /\ TallyParts(c) /\ state[c] \in State
        /\ marks[c] \in Seq(MarkRecord)
    BY CountFacts, ExactFacts
  <1>2. PICK j \in 0 .. TopMark(c) : ReleaseMark(c, j)
    BY <1>1, MarkIndex DEF ReleaseSavepoint, CloseStatement
  <1>3. j \in Mark /\ j \in 0 .. Len(marks[c])
    <2>1. j \in Mark /\ j + 1 \in 1 .. Len(marks[c]) /\ Len(marks[c]) \in Nat
      BY <1>1, MarkIndex
    <2> QED
      BY <2>1, MarkAssumption
  <1> DEFINE st == IF enlisted[c] THEN Release(state[c], j) ELSE state[c]
             cut == SubSeq(marks[c], 1, j)
  <1>4. /\ \A d \in Connections : marks'[d] = IF d = c THEN cut ELSE marks[d]
        /\ SetState(c, st)
        /\ UNCHANGED <<disk, mode, view, enlisted>>
    BY <1>1, <1>2 DEF ReleaseMark, TypeOK
  <1>5. \A i \in DOMAIN cut : i \in DOMAIN marks[c] /\ cut[i] = marks[c][i]
    <2>1. cut \in Seq(MarkRecord) /\ Len(cut) = j
      BY <1>1, <1>3, MarkPrefix
    <2>2. DOMAIN cut = 1 .. j
      BY <2>1
    <2> QED
      BY <1>1, <1>3, <2>2, FirstMarks
  <1> HIDE DEF cut
  <1>6. enlisted[c] => CanEnd(st, view[c], disk)
    <2>1. SUFFICES ASSUME enlisted[c] PROVE CanEnd(st, view[c], disk)
      OBVIOUS
    <2>2. Counted(state[c], view[c]) /\ CanEnd(state[c], view[c], disk) /\ state[c].txn \in Txn
      BY <2>1, CountFacts DEF Counted, Working
    <2>3. st = Release(state[c], j)
      BY <2>1
    <2> HIDE DEF st
    <2> QED
      BY <1>1, <2>2, <2>3, ReleaseCount, MarkCanEnd DEF CanEnd
  <1>7. ~enlisted[c] => st = state[c]
    OBVIOUS
  <1> HIDE DEF st
  <1>8. \A d \in Connections : state'[d] = IF d = c THEN st ELSE state[d]
    BY <1>1, <1>4 DEF SetState, TypeOK
  <1>9. TallyParts(c)'
    BY <1>1, <1>4, <1>5, <1>6, <1>7, <1>8 DEF TallyParts
  <1> QED
    BY <1>4, <1>8, <1>9, OneTally

(* A step back to the first n marks, to storage that is the committed one  *)
(* but for its _ids.                                                       *)
LEMMA BackTally ==
  ASSUME CountInv, NEW c \in Connections, mode[c] = "write",
         NEW back, NEW n \in 0 .. Len(marks[c]), NEW st,
         SetState(c, st),
         view' = [view EXCEPT ![c] = back],
         marks' = [marks EXCEPT ![c] = SubSeq(marks[c], 1, n)],
         UNCHANGED <<disk, mode, enlisted>>,
         view[c].generation = disk.generation,
         ~enlisted[c] => back = disk /\ st = state[c],
         enlisted[c] => /\ back \in Storage /\ SameData(back, disk)
                        /\ KeepsCount(st, state[c]) /\ Retains(st)
  PROVE  Tally'
PROOF
  <1> DEFINE cut == SubSeq(marks[c], 1, n)
  <1>1. /\ ExactInv /\ TypeOK /\ TallyParts(c) /\ view[c] \in Storage /\ disk \in Storage
        /\ marks[c] \in Seq(MarkRecord) /\ ExactParts(c) /\ Counts(disk) /\ Counts(view[c])
    BY CountFacts, ExactFacts
  <1>2. /\ \A d \in Connections : state'[d] = IF d = c THEN st ELSE state[d]
        /\ \A d \in Connections : view'[d] = IF d = c THEN back ELSE view[d]
        /\ \A d \in Connections : marks'[d] = IF d = c THEN cut ELSE marks[d]
    BY <1>1 DEF SetState, TypeOK
  <1>3. \A i \in DOMAIN cut : i \in DOMAIN marks[c] /\ cut[i] = marks[c][i]
    <2>1. cut \in Seq(MarkRecord) /\ Len(cut) = n
      BY <1>1, MarkPrefix
    <2>2. DOMAIN cut = 1 .. n
      BY <2>1
    <2> QED
      BY <1>1, <2>2, FirstMarks
  <1> HIDE DEF cut
  <1>4. CASE enlisted[c]
    <2>1. CanEnd(state[c], view[c], disk)
      BY <1>4, CountFacts
    <2>2. SameData(view[c], disk) /\ SameData(back, disk) /\ back \in Storage
      BY <1>1, <1>4 DEF ExactParts, Writes
    <2>3. SameData(back, view[c])
      BY <1>1, <2>2, SameDataFacts
    <2>4. Tallied(st, back) /\ Counts(back)
      BY <1>1, <1>4, <2>1, <2>2, <2>3, KeepsTally DEF CanEnd
    <2>5. CanEnd(st, back, disk)
      BY <1>4, <2>1, <2>4 DEF CanEnd, KeepsCount
    <2>6. TallyParts(c)'
      BY <1>1, <1>2, <1>3, <1>4, <2>4, <2>5 DEF TallyParts
    <2> QED
      BY <1>2, <2>6, OneTally
  <1>5. CASE ~enlisted[c]
    <2>1. view[c] = disk
      BY <1>1, <1>5, SeesDisk
    <2>2. TallyParts(c)'
      BY <1>1, <1>2, <1>3, <1>5, <2>1 DEF TallyParts
    <2> QED
      BY <1>2, <2>2, OneTally
  <1> QED
    BY <1>4, <1>5

(* What xRollbackTo leaves, where it is called. *)
LEMMA BackCounts ==
  ASSUME CountInv, NEW c \in Connections, enlisted[c], view[c].generation = disk.generation
  PROVE  /\ \A j \in 0 .. TopMark(c) :
              LET new == RollbackTo(state[c], j)
              IN  /\ new.ok /\ new.st \in State /\ new.st.txn \in Txn
                  /\ KeepsCount(new.st, state[c]) /\ Retains(new.st)
         /\ KeepsCount(RollbackToStart(state[c]).st, state[c])
         /\ Retains(RollbackToStart(state[c]).st)
PROOF
  <1>1. /\ ExactInv /\ state[c] \in State /\ view[c] \in Storage /\ disk \in Storage
        /\ OwnIds(disk) /\ ExactParts(c) /\ mode[c] = "write"
        /\ Counted(state[c], view[c]) /\ Working(state[c], view[c]) /\ Retains(state[c])
        /\ TypeOK
    BY CountFacts, ExactFacts DEF Counted
  <1>2. /\ SameData(view[c], disk) /\ Recoverable(state[c], Content(disk))
        /\ \A i \in DOMAIN marks[c] : MarkFits(state[c], disk, i, marks[c][i].storage)
    BY <1>1 DEF ExactParts, Writes
  <1>3. ASSUME NEW j \in 0 .. TopMark(c)
        PROVE  LET new == RollbackTo(state[c], j)
               IN  /\ new.ok /\ new.st \in State /\ new.st.txn \in Txn
                   /\ KeepsCount(new.st, state[c]) /\ Retains(new.st)
    <2>1. GoneBack(RollbackTo(state[c], j), disk, marks[c], j)
      BY <1>1, MarkBack
    <2>2. j \in Mark /\ j + 1 \in DOMAIN marks[c] /\ j \in Nat
      BY <1>1, MarkIndex, ExactFacts, MarkAssumption
    <2>3. MarkFits(state[c], disk, j + 1, marks[c][j + 1].storage) /\ (j + 1) - 1 = j
      BY <1>2, <2>2
    <2>4. state[c].txn.savepoints[j] \in 0 .. Len(state[c].txn.changes)
      BY <2>3 DEF MarkFits
    <2> QED
      BY <1>1, <1>2, <2>1, <2>2, <2>4, RollbackCount DEF GoneBack
  <1>4. RollbackToStart(state[c]).ok
    <2>1. SameData(disk, view[c]) /\ Content(view[c]) = Content(disk)
      BY <1>1, <1>2, SameDataFacts, SameImageExtends
    <2>2. disk.layout = "current" => disk.ids = Keys(Content(view[c]))
      BY <1>1, <2>1 DEF OwnIds
    <2> QED
      BY <1>1, <1>2, <2>1, <2>2, RollbackToStartWorks
  <1> QED
    BY <1>1, <1>2, <1>3, <1>4, RollbackCount

LEMMA RollbackToTally ==
  ASSUME CountInv, PartialAfterBusy = FALSE,
         NEW c \in Connections, RollbackToSavepoint(c) \/ RollbackToBegin(c)
  PROVE  Tally'
PROOF
  <1>1. /\ ExactInv /\ TypeOK /\ state[c] \in State /\ disk \in Storage
        /\ view[c] \in Storage /\ mode[c] = "write"
        /\ view[c].generation = disk.generation
        /\ marks[c] \in Seq(MarkRecord) /\ ExactParts(c)
    BY CountFacts, ExactFacts DEF RollbackToSavepoint, RollbackToBegin, Writing, PartialAllowed
  <1>2. Writes(disk, view[c], marks[c], enlisted[c], state[c])
    BY <1>1 DEF ExactParts
  <1>3. CASE RollbackToSavepoint(c)
    <2>1. PICK j \in 0 .. TopMark(c) :
            /\ view' = [view EXCEPT ![c] = marks[c][j + 1].storage]
            /\ marks' = [marks EXCEPT ![c] = SubSeq(@, 1, j + 1)]
            /\ SetState(c, IF enlisted[c] THEN RollbackTo(state[c], j).st ELSE state[c])
      BY <1>3 DEF RollbackToSavepoint
    <2> DEFINE st == IF enlisted[c] THEN RollbackTo(state[c], j).st ELSE state[c]
               back == marks[c][j + 1].storage
    <2>2. j + 1 \in 0 .. Len(marks[c]) /\ j + 1 \in DOMAIN marks[c]
      <3>1. j + 1 \in 1 .. Len(marks[c]) /\ Len(marks[c]) \in Nat
            /\ DOMAIN marks[c] = 1 .. Len(marks[c])
        BY <1>1, MarkIndex, ExactFacts
      <3> QED
        BY <3>1
    <2>3. enlisted[c] => /\ back \in Storage /\ SameData(back, disk)
                         /\ KeepsCount(st, state[c]) /\ Retains(st)
      <3>1. enlisted[c] => back \in Storage /\ SameData(back, disk)
        BY <1>1, <1>2, <2>2, ExactFacts DEF Writes
      <3>2. enlisted[c] => /\ KeepsCount(RollbackTo(state[c], j).st, state[c])
                           /\ Retains(RollbackTo(state[c], j).st)
        BY <1>1, BackCounts
      <3> QED
        BY <3>1, <3>2
    <2>4. ~enlisted[c] => back = disk /\ st = state[c]
      BY <1>2, <2>2 DEF Writes
    <2>5. /\ marks' = [marks EXCEPT ![c] = SubSeq(marks[c], 1, j + 1)]
          /\ view' = [view EXCEPT ![c] = back] /\ SetState(c, st)
          /\ UNCHANGED <<disk, mode, enlisted>>
      BY <1>1, <1>3, <2>1 DEF RollbackToSavepoint, TypeOK
    <2> HIDE DEF st, back
    <2> QED
      BY <1>1, <2>2, <2>3, <2>4, <2>5, BackTally
  <1>4. CASE RollbackToBegin(c)
    <2> DEFINE st == IF enlisted[c] THEN RollbackToStart(state[c]).st ELSE state[c]
    <2>1. enlisted[c] => KeepsCount(st, state[c]) /\ Retains(st)
      <3>1. enlisted[c] => /\ KeepsCount(RollbackToStart(state[c]).st, state[c])
                           /\ Retains(RollbackToStart(state[c]).st)
        BY <1>1, BackCounts
      <3> QED
        BY <3>1
    <2>2. /\ view' = [view EXCEPT ![c] = disk] /\ marks' = [marks EXCEPT ![c] = <<>>]
          /\ SetState(c, st) /\ UNCHANGED <<disk, mode, enlisted>>
      BY <1>4 DEF RollbackToBegin
    <2>3. ~enlisted[c] => st = state[c]
      OBVIOUS
    <2> HIDE DEF st
    <2>4. 0 \in 0 .. Len(marks[c]) /\ SubSeq(marks[c], 1, 0) = <<>>
      BY <1>1
    <2>5. SameData(disk, disk)
      BY <1>1, SameDataSelf
    <2> QED
      BY <1>1, <2>1, <2>2, <2>3, <2>4, <2>5, BackTally
  <1> QED
    BY <1>3, <1>4

LEMMA AbortTally ==
  ASSUME CountInv, PartialAfterBusy = FALSE, NEW c \in Connections, AbortStatement(c)
  PROVE  Tally'
PROOF
  <1> DEFINE j == TopMark(c)
             back == IF enlisted[c] THEN RollbackTo(state[c], j)
                                    ELSE Result(TRUE, state[c])
             st == IF enlisted[c] THEN Release(back.st, j) ELSE back.st
             storage == marks[c][j + 1].storage
  <1>1. /\ ExactInv /\ TypeOK /\ Agrees(c) /\ state[c] \in State /\ disk \in Storage
        /\ ExactParts(c) /\ marks[c] \in Seq(MarkRecord)
    BY CountFacts, ExactFacts
  <1>2. mode[c] = "write" /\ view[c].generation = disk.generation
    BY <1>1 DEF AbortStatement, PartialAllowed, Agrees, TypeOK
  <1>3. j \in 0 .. TopMark(c)
    BY <1>1, MarkIndex DEF AbortStatement
  <1>4. j \in 0 .. Len(marks[c]) /\ j + 1 \in DOMAIN marks[c]
    <2>1. j \in Mark /\ j + 1 \in 1 .. Len(marks[c]) /\ Len(marks[c]) \in Nat
          /\ DOMAIN marks[c] = 1 .. Len(marks[c])
      BY <1>1, <1>3, MarkIndex, ExactFacts
    <2> HIDE DEF j
    <2> QED
      BY <2>1, MarkAssumption
  <1>5. AbortTo(c, j, back)
    BY DEF AbortStatement
  <1>6. Writes(disk, view[c], marks[c], enlisted[c], state[c])
    BY <1>1, <1>2 DEF ExactParts
  <1>7. enlisted[c] => /\ back.ok /\ back.st \in State /\ back.st.txn \in Txn
                       /\ KeepsCount(back.st, state[c]) /\ Retains(back.st)
    <2> HIDE DEF j
    <2>1. enlisted[c] => back = RollbackTo(state[c], j)
      OBVIOUS
    <2> QED
      BY <1>2, <1>3, <2>1, BackCounts
  <1>8. back.ok /\ (~enlisted[c] => back.st = state[c])
    BY <1>7 DEF Result
  <1> HIDE DEF back, j
  <1>9. enlisted[c] => /\ storage \in Storage /\ SameData(storage, disk)
                       /\ KeepsCount(st, state[c]) /\ Retains(st)
    <2>1. enlisted[c] => storage \in Storage /\ SameData(storage, disk)
      BY <1>1, <1>2, <1>4, <1>6, ExactFacts DEF Writes
    <2>2. enlisted[c] => KeepsCount(st, back.st) /\ Retains(st)
      BY <1>7, ReleaseCount
    <2>3. enlisted[c] => KeepsCount(st, state[c])
      <3> HIDE DEF st
      <3> QED
        BY <1>7, <2>2 DEF KeepsCount
    <2> QED
      BY <2>1, <2>2, <2>3
  <1>10. ~enlisted[c] => storage = disk /\ st = state[c]
    BY <1>4, <1>6, <1>8 DEF Writes
  <1>11. /\ view' = [view EXCEPT ![c] = storage]
         /\ marks' = [marks EXCEPT ![c] = SubSeq(marks[c], 1, j)]
         /\ SetState(c, st)
         /\ UNCHANGED <<disk, mode, enlisted>>
    BY <1>1, <1>5, <1>8 DEF AbortTo, TypeOK
  <1> HIDE DEF st, storage
  <1> QED
    BY <1>2, <1>4, <1>9, <1>10, <1>11, BackTally

-----------------------------------------------------------------------------
(* The end of a transaction. *)

(* What xRollback leaves is in the layout that is committed. *)
LEMMA RolledBackBehind ==
  ASSUME NEW st, NEW x \in State, x.txn \in Txn, Marked(x, st), NEW s, NEW d \in Storage,
         CanEnd(st, s, d)
  PROVE  Behind(RolledBack(x), d)
PROOF
  <1>1. x.txn # None
    BY TxnIsThere
  <1>2. /\ RolledBack(x).index = None
        /\ RolledBack(x).layout = IF x.txn.upgraded THEN "legacy" ELSE x.layout
    BY <1>1 DEF RolledBack, State
  <1>3. d.layout \in {"legacy", "current"}
    BY DEF Storage
  <1> QED
    BY <1>2, <1>3 DEF Behind, CopyTally, Marked, CanEnd

(* What a COMMIT that xSync accepts leaves is counted, in the current      *)
(* layout if that is what was committed before.                            *)
LEMMA CommitCounts ==
  ASSUME CountInv, MinDeltaBase > 0, NEW c \in Connections, Updating(c),
         Sync(state[c], view[c]).ok
  PROVE  LET synced == Sync(state[c], view[c])
         IN  /\ SyncLeaves(synced, state[c], view[c], disk) /\ Recorded(synced)
             /\ disk.layout = "current" => synced.s.layout = "current"
             /\ CanEnd(synced.st, synced.s, disk)
             /\ Behind(Committed(synced.st), synced.s)
PROOF
  <1> DEFINE synced == Sync(state[c], view[c])
             new == Committed(synced.st)
  <1>1. /\ ExactInv /\ state[c] \in State /\ view[c] \in Storage /\ disk \in Storage
        /\ enlisted[c] /\ mode[c] = "write"
        /\ Counted(state[c], view[c]) /\ CanEnd(state[c], view[c], disk)
    BY CountFacts DEF Updating
  <1>2. SyncLeaves(synced, state[c], view[c], disk)
    BY <1>1, CommitWorks
  <1>3. Recorded(synced)
    BY <1>1, SyncCounts
  <1>4. Marked(synced.st, state[c])
    BY <1>1, SyncMark
  <1>5. disk.layout = "current" => synced.s.layout = "current"
    <2>1. PICK first : BudgetOf(first)
      BY <1>1 DEF ExactInv, BudgetInv
    <2>2. synced.s = view[c] \/ synced.s.layout = "current"
      BY <2>1, CommitSizes
    <2>3. OneFile(c)
      BY <2>1, KeptParts DEF Kept
    <2>4. disk.layout = "current" => view[c].layout = "current"
      BY <1>1, <2>3 DEF OneFile, SameFile
    <2> QED
      BY <2>2, <2>4
  <1> HIDE DEF synced
  <1>6. /\ synced.st \in State /\ synced.s \in Storage /\ Sized(synced.st, synced.s)
        /\ Working(synced.st, synced.s) /\ Unsynced(synced.st) = <<>>
        /\ Tallied(synced.st, synced.s)
    BY <1>2, <1>3 DEF SyncLeaves, Recorded
  <1>7. CanEnd(synced.st, synced.s, disk)
    <2>1. Retains(synced.st)
      BY <1>6 DEF Retains, Encodable, Inserts
    <2>2. disk.layout = "legacy" /\ synced.st.layout = "current" => synced.st.txn.upgraded
      BY <1>1, <1>4 DEF Marked, CanEnd
    <2> QED
      BY <1>6, <2>1, <2>2 DEF CanEnd
  <1>8. /\ new.layout = synced.s.layout /\ new.index = synced.st.index
        /\ new.rowCount = synced.st.rowCount
    BY <1>6 DEF Committed, State, Sized
  <1>9. synced.st.index # None => synced.st.index = Content(synced.s)
    BY <1>6, ContentType, ExactNothing DEF Working
  <1> HIDE DEF new
  <1>10. Behind(new, synced.s)
    BY <1>6, <1>8, <1>9 DEF Behind, CopyTally, Tallied
  <1> QED
    BY <1>2, <1>3, <1>5, <1>7, <1>10 DEF synced, new

LEMMA CommitTally ==
  ASSUME CountInv, MinDeltaBase > 0, NEW c \in Connections, Commit(c)
  PROVE  Tally'
PROOF
  <1> DEFINE synced == Sync(state[c], view[c])
  <1>1. /\ ExactInv /\ TypeOK /\ TallyParts(c) /\ Counts(disk) /\ OwnIds(disk)
        /\ state[c] \in State /\ view[c] \in Storage /\ disk \in Storage
        /\ Updating(c) /\ mode[c] = "write" /\ enlisted[c] = TRUE
        /\ Counted(state[c], view[c]) /\ CanEnd(state[c], view[c], disk)
        /\ state[c].txn \in Txn
    BY CountFacts, ExactFacts DEF Commit, Updating, TypeOK
  <1>2. Marked(synced.st, state[c]) /\ synced.st \in State
    BY <1>1, SyncMark, SyncType DEF WriteResult
  <1>3. ~synced.ok => Behind(RolledBack(synced.st), disk)
    <2>1. SUFFICES ASSUME ~synced.ok PROVE Behind(RolledBack(synced.st), disk)
      OBVIOUS
    <2>2. synced.st.txn # None
      BY <1>1, <2>1, FailedTxn
    <2>3. synced.st.txn \in Txn
      BY <1>2, <2>2 DEF State
    <2> HIDE DEF synced
    <2> QED
      BY <1>1, <1>2, <2>3, RolledBackBehind
  <1>4. synced.ok =>
          /\ SyncLeaves(synced, state[c], view[c], disk) /\ Recorded(synced)
          /\ disk.layout = "current" => synced.s.layout = "current"
          /\ CanEnd(synced.st, synced.s, disk)
          /\ Behind(Committed(synced.st), synced.s)
    BY <1>1, CommitCounts
  <1>5. \/ ~synced.ok /\ Ended(c, disk) /\ SetState(c, RolledBack(synced.st))
        \/ /\ synced.ok
           /\ view' = [view EXCEPT ![c] = synced.s]
           /\ SetState(c, synced.st)
           /\ UNCHANGED <<disk, mode, marks, statement, enlisted>>
        \/ synced.ok /\ Ended(c, synced.s) /\ SetState(c, Committed(synced.st))
    BY DEF Commit, CommitSynced
  <1> HIDE DEF synced
  <1>6. CASE ~synced.ok /\ Ended(c, disk) /\ SetState(c, RolledBack(synced.st))
    BY <1>1, <1>3, <1>6, EndTally
  <1>7. CASE /\ synced.ok
             /\ view' = [view EXCEPT ![c] = synced.s]
             /\ SetState(c, synced.st)
             /\ UNCHANGED <<disk, mode, marks, statement, enlisted>>
    <2>1. /\ \A d \in Connections : state'[d] = IF d = c THEN synced.st ELSE state[d]
          /\ \A d \in Connections : view'[d] = IF d = c THEN synced.s ELSE view[d]
      BY <1>1, <1>7 DEF SetState, TypeOK
    <2>2. Counts(synced.s) /\ CanEnd(synced.st, synced.s, disk)
      BY <1>4, <1>7 DEF Recorded
    <2>3. TallyParts(c)'
      BY <1>1, <1>7, <2>1, <2>2 DEF TallyParts
    <2> QED
      BY <1>7, <2>1, <2>3, OneTally
  <1>8. CASE synced.ok /\ Ended(c, synced.s) /\ SetState(c, Committed(synced.st))
    <2>1. /\ synced.s \in Storage /\ OwnIds(synced.s) /\ Counts(synced.s)
          /\ Behind(Committed(synced.st), synced.s)
          /\ disk.layout = "current" => synced.s.layout = "current"
      BY <1>4, <1>8 DEF SyncLeaves, Recorded
    <2> QED
      BY <1>1, <1>8, <2>1, EndTally
  <1> QED
    BY <1>5, <1>6, <1>7, <1>8

LEMMA RolledBackEndTally ==
  ASSUME CountInv, NEW c \in Connections, Reopen(c) \/ CommitFails(c) \/ Rollback(c)
  PROVE  Tally'
PROOF
  <1>1. /\ ExactInv /\ state[c] \in State /\ view[c] \in Storage /\ disk \in Storage
        /\ OwnIds(disk) /\ Counts(disk) /\ Chained(disk) /\ TallyParts(c)
        /\ enlisted[c] => /\ Counted(state[c], view[c]) /\ CanEnd(state[c], view[c], disk)
                          /\ state[c].txn \in Txn
    BY CountFacts, ExactFacts
  <1>2. CASE Reopen(c)
    <2>1. Behind(OpenStorage(disk), disk)
      BY <1>1, OpenCounts DEF Behind
    <2> QED
      BY <1>1, <1>2, <2>1, EndTally DEF Reopen
  <1>3. CASE CommitFails(c)
    <2>1. PICK st \in PartialSync(state[c], view[c]) : SetState(c, RolledBack(st))
      BY <1>3 DEF CommitFails
    <2>2. st \in State /\ st.txn # None
      BY <1>1, <1>3, PartialSyncType, FailedTxn DEF CommitFails, Updating
    <2>3. st.txn \in Txn /\ Marked(st, state[c])
      BY <1>1, <1>3, <2>2, SyncMark DEF State, CommitFails, Updating
    <2>4. Behind(RolledBack(st), disk)
      BY <1>1, <1>3, <2>2, <2>3, RolledBackBehind DEF CommitFails, Updating
    <2> QED
      BY <1>1, <1>3, <2>1, <2>4, EndTally DEF CommitFails
  <1>4. CASE Rollback(c)
    <2> DEFINE st == IF enlisted[c] THEN RolledBack(state[c]) ELSE state[c]
    <2>1. Ended(c, disk) /\ SetState(c, st) /\ mode[c] = "write"
      BY <1>4 DEF Rollback
    <2>2. enlisted[c] => Behind(st, disk)
      <3>1. Marked(state[c], state[c])
        BY DEF Marked
      <3> QED
        BY <1>1, <3>1, RolledBackBehind
    <2>3. ~enlisted[c] => Behind(st, disk)
      BY <1>1, <2>1, SeesDisk DEF TallyParts
    <2> HIDE DEF st
    <2> QED
      BY <1>1, <2>1, <2>2, <2>3, EndTally
  <1> QED
    BY <1>2, <1>3, <1>4

-----------------------------------------------------------------------------
(* The tables a database may start with are counted, the one whose last    *)
(* release left a delta included.                                          *)
LEMMA LegacyDeltaReplays ==
  ASSUME NEW rows \in Rows, rows # EmptyRows, NEW x \in Change,
         \/ x.op = "insert" /\ x.vector # None
         \/ x.op = "delete" /\ x.id \in Keys(rows)
  PROVE  Counts(LegacyWithDelta(rows, <<x>>))
PROOF
  <1> DEFINE s == LegacyStorage(rows)
             cs == <<x>>
             w == WriteDelta(s, 2, cs)
             t == LegacyWithDelta(rows, cs)
  <1>1. 2 \in Generation /\ MaxGeneration >= 1 /\ MaxGeneration >= 2
    BY TableAssumption, SizeAssumption DEF Generation
  <1>2. cs \in Seq(Change) /\ DOMAIN cs = {1} /\ cs[1] = x
    OBVIOUS
  <1>3. s \in Storage /\ t \in Storage /\ Chained(s)
    BY <1>1, <1>2, NewStorageType, LegacyWithDeltaType, NewChain
  <1>4. s.base = rows /\ s.deltas = NoDeltas /\ s.generation = 1
    BY DEF LegacyStorage, NewStorage
  <1>5. t.base = rows /\ t.deltas = [NoDeltas EXCEPT ![2] = BatchOf(s, cs)]
        /\ t.layout = "legacy"
    <2>1. s.layout = "legacy"
      BY DEF LegacyStorage, NewStorage
    <2>2. t = [w EXCEPT !.generation = 2, !.byteLen = -w.byteLen - 1]
      BY DEF LegacyWithDelta
    <2> HIDE DEF s, cs, t
    <2>3. w \in Storage
      BY <1>1, <1>2, <1>3, WriteDeltaType
    <2>4. w.base = rows /\ w.deltas = [NoDeltas EXCEPT ![2] = BatchOf(s, cs)]
          /\ w.layout = "legacy"
      BY <1>3, <1>4, <2>1 DEF WriteDelta, Storage
    <2> HIDE DEF w
    <2> QED
      BY <2>2, <2>3, <2>4 DEF Storage
  <1> HIDE DEF s, w, t, cs
  <1>6. Content(s) = rows /\ DeltasReplayOK(s.base, s, -1)
    BY <1>3, <1>4, BaseContent, NoDeltasReplay
  <1>7. ReplayOK(rows, cs)
    <2>1. x.op = "delete" => PresentAt(rows, cs, 1)
      <3>1. \A j \in Touching(cs, x.id) : ~(j < 1)
        BY <1>2 DEF Touching
      <3> QED
        BY <1>2, <3>1 DEF PresentAt, Keys
    <2>2. x.op = "insert" \/ x.op = "delete"
      OBVIOUS
    <2> QED
      BY <1>2, <2>1, <2>2 DEF ReplayOK
  <1>8. /\ t.deltas[2].changes = Decoded(cs)
        /\ \A d \in Generation \ {2} : t.deltas[d] = s.deltas[d]
    BY <1>1, <1>4, <1>5 DEF NoDeltas, BatchOf
  <1>9. DeltasReplayOK(t.base, t, -1)
    <2>1. PICK g \in Generation : g = 2
      BY <1>1
    <2>2. g = s.generation + 1 /\ t.base = s.base /\ ReplayOK(Content(s), cs)
      BY <1>4, <1>5, <1>6, <1>7, <2>1
    <2>3. /\ t.deltas[g].changes = Decoded(cs)
          /\ \A d \in Generation \ {g} : t.deltas[d] = s.deltas[d]
      BY <1>8, <2>1
    <2> QED
      BY <1>2, <1>3, <1>6, <2>2, <2>3, DeltaReplays
  <1>10. Counts(t)
    BY <1>5, <1>9 DEF Counts
  <1> QED
    BY <1>10 DEF t, cs

LEMMA InitialCounted ==
  ASSUME NEW s \in InitialStorage
  PROVE  Counts(s)
PROOF
  <1> DEFINE stored(r) == {x \in Change :
                            \/ x.op = "insert" /\ x.vector # None /\ x.replaces
                            \/ x.id \in Keys(r) /\ x = DeleteOf(x.id)}
  <1>1. \/ \E r \in Rows : s = NewStorage(r) \/ s = LegacyStorage(r)
        \/ \E r \in Rows \ {EmptyRows} : s \in {LegacyWithDelta(r, <<x>>) : x \in stored(r)}
    BY DEF InitialStorage
  <1>2. ASSUME NEW r \in Rows PROVE Counts(NewStorage(r)) /\ Counts(LegacyStorage(r))
    <2>1. NewStorage(r) \in Storage /\ LegacyStorage(r) \in Storage
      BY TableAssumption, SizeAssumption, NewStorageType
    <2>2. /\ NewStorage(r).deltas = NoDeltas /\ LegacyStorage(r).deltas = NoDeltas
          /\ NewStorage(r).base = r /\ LegacyStorage(r).layout = "legacy"
          /\ NewStorage(r).rowCount = Cardinality(Keys(r))
      BY DEF NewStorage, LegacyStorage
    <2> QED
      BY <2>1, <2>2, BaseContent, NoDeltasReplay DEF Counts
  <1>3. ASSUME NEW r \in Rows \ {EmptyRows}, s \in {LegacyWithDelta(r, <<x>>) : x \in stored(r)}
        PROVE  Counts(s)
    <2>1. PICK x \in stored(r) : s = LegacyWithDelta(r, <<x>>)
      BY <1>3
    <2>2. x \in Change /\ \/ x.op = "insert" /\ x.vector # None
                          \/ x.op = "delete" /\ x.id \in Keys(r)
      BY <2>1 DEF DeleteOf
    <2> QED
      BY <2>1, <2>2, LegacyDeltaReplays
  <1> QED
    BY <1>1, <1>2, <1>3

LEMMA InitCount ==
  ASSUME MinDeltaBase > 0
  PROVE  Init => CountInv
PROOF
  <1>1. SUFFICES ASSUME Init PROVE CountInv
    OBVIOUS
  <1>2. ExactInv /\ OwnIds(disk) /\ disk \in Storage /\ Chained(disk) /\ Counts(disk)
    <2>1. ExactInv
      BY <1>1, InitExact
    <2>2. OwnIds(disk) /\ disk \in InitialStorage
      BY <1>1, <2>1 DEF ExactInv, Exactness, Init
    <2> QED
      BY <2>1, <2>2, InitialStorageType, InitialChain, InitialCounted
  <1>3. ASSUME NEW c \in Connections PROVE TallyParts(c)
    <2>1. /\ view[c] = disk /\ mode[c] = "idle" /\ state[c] = OpenStorage(disk)
          /\ marks[c] = <<>> /\ enlisted[c] = FALSE
      BY <1>1 DEF Init
    <2>2. DOMAIN marks[c] = {}
      BY <2>1
    <2>3. Behind(OpenStorage(disk), disk) /\ Snapshot(disk, disk)
      BY <1>2, OpenCounts DEF Behind, Snapshot
    <2> QED
      BY <1>2, <2>1, <2>2, <2>3 DEF TallyParts
  <1> QED
    BY <1>2, <1>3 DEF CountInv, Tally

LEMMA NextCount ==
  ASSUME PartialAfterBusy = FALSE, EarlyMarks <= 1, MinDeltaBase > 0
  PROVE  CountInv /\ [Next]_vars => CountInv'
PROOF
  <1>1. SUFFICES ASSUME CountInv, [Next]_vars PROVE CountInv'
    OBVIOUS
  <1>2. ExactInv'
    BY <1>1, NextExact DEF CountInv
  <1>3. CASE UNCHANGED vars
    <2>1. ASSUME NEW c \in Connections PROVE TallyParts(c)'
      <3>1. TallyParts(c)
        BY <1>1 DEF CountInv, Tally
      <3> QED
        BY <1>3, <3>1 DEF vars, TallyParts
    <2>2. Counts(disk)'
      BY <1>1, <1>3 DEF vars, CountInv, Tally, Counts
    <2> QED
      BY <1>2, <2>1, <2>2 DEF CountInv, Tally
  <1>4. CASE Next
    <2>1. PICK c \in Connections :
            \/ Reopen(c) \/ BeginRead(c) \/ EndRead(c) \/ BeginWrite(c)
            \/ Search(c) \/ Scan(c) \/ CatchUpFails(c)
            \/ Enlist(c) \/ InsertRow(c) \/ DeleteRow(c)
            \/ OpenSavepoint(c) \/ ReleaseSavepoint(c)
            \/ RollbackToSavepoint(c) \/ RollbackToBegin(c)
            \/ OpenStatement(c) \/ CloseStatement(c) \/ AbortStatement(c)
            \/ Commit(c) \/ CommitFails(c) \/ Rollback(c)
      BY <1>4 DEF Next
    <2>2. Tally'
      BY <1>1, <2>1, SnapshotTally, ReadTally, EnlistTally, WriteTally,
         PushMarkTally, ReleaseTally, RollbackToTally, AbortTally,
         CommitTally, RolledBackEndTally
    <2> QED
      BY <1>2, <2>2 DEF CountInv
  <1> QED
    BY <1>1, <1>3, <1>4

-----------------------------------------------------------------------------
(* What follows from the invariant. *)

LEMMA IntegrityOf ==
  ASSUME NEW s \in Storage, NEW first, Chained(s), Counts(s), Accounted(s, first), NEW us,
         s.layout = "current" => s.ids = KeysAfter(Content(s), us)
  PROVE  Integrity(s, us)
PROOF
  BY DEF Integrity, Readable, Counts, Accounted, Balanced

LEMMA CountImplies ==
  ASSUME CountInv
  PROVE  /\ IntegrityCheckPasses /\ CommittedIntegrity
         /\ CommitNeverRefused /\ PathsAgree
PROOF
  <1>1. ASSUME NEW c \in Connections PROVE Integrity(view[c], Unsynced(state[c]))
    <2>1. /\ ExactInv /\ view[c] \in Storage /\ Chained(view[c]) /\ Counts(view[c])
          /\ enlisted[c] => Counted(state[c], view[c])
          /\ ~enlisted[c] => state[c].txn = None /\ OwnIds(view[c])
      BY CountFacts DEF Readies, Snapshot
    <2>2. PICK first : Accounted(view[c], first)
      BY <2>1, KeptParts DEF ExactInv, BudgetInv
    <2>3. view[c].layout = "current" =>
            view[c].ids = KeysAfter(Content(view[c]), Unsynced(state[c]))
      <3>1. CASE enlisted[c]
        BY <2>1, <3>1 DEF Counted, Working
      <3>2. CASE ~enlisted[c]
        <4>1. Unsynced(state[c]) = <<>>
          BY <2>1, <3>2 DEF Unsynced
        <4> QED
          BY <2>1, <3>2, <4>1, ContentType, ExactNothing DEF OwnIds
      <3> QED
        BY <3>1, <3>2
    <2> QED
      BY <2>1, <2>2, <2>3, IntegrityOf
  <1>2. ASSUME NEW c \in Connections, Updating(c), state[c].generation < MaxGeneration
        PROVE  Sync(state[c], view[c]).ok
    <2>1. state[c] \in State /\ view[c] \in Storage /\ Counted(state[c], view[c])
      BY <1>2, CountFacts DEF Updating
    <2>2. state[c].generation # MaxGeneration
      BY <1>2, <2>1, SizeAssumption DEF State, Generation
    <2> QED
      BY <2>1, <2>2, SyncCounts DEF Recorded
  <1>3. ASSUME NEW c \in Connections
        PROVE  /\ SeenRows(state[c], view[c]) # None
               /\ ScanKeys(state[c], view[c]) = Keys(SeenRows(state[c], view[c]))
    <2>1. /\ state[c] \in State /\ view[c] \in Storage
          /\ enlisted[c] => Counted(state[c], view[c])
          /\ ~enlisted[c] => Readies(state[c], view[c]) /\ OwnIds(view[c])
      BY CountFacts DEF Snapshot
    <2>2. CASE enlisted[c]
      BY <2>1, <2>2, ReadsCounted
    <2>3. CASE ~enlisted[c]
      <3>1. view[c].layout = "current" \/ view[c].layout = "legacy"
        BY <2>1 DEF Storage
      <3> QED
        BY <2>1, <2>3, <3>1, ReadsSeen DEF OwnIds
    <2> QED
      BY <2>2, <2>3
  <1>4. CommittedIntegrity
    <2>1. /\ TypeOK /\ ChainUnbroken /\ Counts(disk) /\ OwnIds(disk)
          /\ \E first : Accounted(disk, first)
      BY DEF CountInv, Tally, ExactInv, Exactness, BudgetInv, BudgetOf, ChainInv
    <2>2. disk \in Storage /\ Chained(disk)
      BY <2>1 DEF TypeOK, ChainUnbroken
    <2>3. disk.layout = "current" => disk.ids = KeysAfter(Content(disk), <<>>)
      BY <2>1, <2>2, ContentType, ExactNothing DEF OwnIds
    <2> QED
      BY <2>1, <2>2, <2>3, IntegrityOf DEF CommittedIntegrity
  <1> QED
    BY <1>1, <1>2, <1>3, <1>4 DEF IntegrityCheckPasses, CommitNeverRefused, PathsAgree

(* At every moment, on every connection and inside any transaction, PRAGMA *)
(* integrity_check finds nothing: the deltas can be replayed, _info has    *)
(* their sizes and the number of rows, and _ids is the image with the      *)
(* changes of the transaction on top.                                      *)
THEOREM IntegrityAlways ==
  ASSUME PartialAfterBusy = FALSE, EarlyMarks <= 1, MinDeltaBase > 0
  PROVE  Spec => []IntegrityCheckPasses
PROOF
  <1>1. Init => CountInv
    BY InitCount
  <1>2. CountInv /\ [Next]_vars => CountInv'
    BY NextCount
  <1>3. CountInv => IntegrityCheckPasses
    BY CountImplies
  <1> QED
    BY <1>1, <1>2, <1>3, PTL DEF Spec

(* The committed tables alone, as the next process will find them, pass    *)
(* the same check.                                                         *)
THEOREM CommittedIntegrityAlways ==
  ASSUME PartialAfterBusy = FALSE, EarlyMarks <= 1, MinDeltaBase > 0
  PROVE  Spec => []CommittedIntegrity
PROOF
  <1>1. Init => CountInv
    BY InitCount
  <1>2. CountInv /\ [Next]_vars => CountInv'
    BY NextCount
  <1>3. CountInv => CommittedIntegrity
    BY CountImplies
  <1> QED
    BY <1>1, <1>2, <1>3, PTL DEF Spec

(* xSync refuses no transaction before the last generation: the row count  *)
(* it computes from the log is the one it finds in the index, the log has  *)
(* the vectors wherever a delta or a reload needs them, and the upgrade of *)
(* a 0.2.0 table can load it.                                              *)
THEOREM CommitAlways ==
  ASSUME PartialAfterBusy = FALSE, EarlyMarks <= 1, MinDeltaBase > 0
  PROVE  Spec => []CommitNeverRefused
PROOF
  <1>1. Init => CountInv
    BY InitCount
  <1>2. CountInv /\ [Next]_vars => CountInv'
    BY NextCount
  <1>3. CountInv => CommitNeverRefused
    BY CountImplies
  <1> QED
    BY <1>1, <1>2, <1>3, PTL DEF Spec

(* No read fails, and a full scan, whether it reads _ids or the index,     *)
(* returns the rows a KNN search on the same connection knows.             *)
THEOREM PathsAgreeAlways ==
  ASSUME PartialAfterBusy = FALSE, EarlyMarks <= 1, MinDeltaBase > 0
  PROVE  Spec => []PathsAgree
PROOF
  <1>1. Init => CountInv
    BY InitCount
  <1>2. CountInv /\ [Next]_vars => CountInv'
    BY NextCount
  <1>3. CountInv => PathsAgree
    BY CountImplies
  <1> QED
    BY <1>1, <1>2, <1>3, PTL DEF Spec
=============================================================================
