---------------------- MODULE TurboVecRefinementProofs ----------------------
(***************************************************************************)
(* turbovec0 implements SqlTable.  A savepoint of SqlTable holds rows; one *)
(* of turbovec0 holds a length of the change log, and xRollbackTo works    *)
(* the rows out of the log, the index and an image kept on the way.  The   *)
(* two agree because what going back to a mark would show never changes    *)
(* while the mark is open: every callback keeps, for every length of the   *)
(* log, the rows that going back to it would show.                         *)
(***************************************************************************)
EXTENDS TurboVecCountProofs, TurboVecRefinement

-----------------------------------------------------------------------------
(* Pieces of a log. *)

(* A piece of a part is a piece of the whole.                              *)
LEMMA CutPiece ==
  ASSUME NEW cs \in Seq(Change), NEW n \in 0 .. Len(cs), NEW m \in 0 .. n,
         NEW p \in 0 .. m
  PROVE  SubSeq(SubSeq(cs, 1, n), p + 1, m) = SubSeq(cs, p + 1, m)
PROOF
  <1> DEFINE a == SubSeq(cs, 1, n)
             b == SubSeq(a, p + 1, m)
             c == SubSeq(cs, p + 1, m)
  <1>1. a \in Seq(Change) /\ Len(a) = n /\ \A i \in 1 .. n : a[i] = cs[i]
    OBVIOUS
  <1>2. c \in Seq(Change) /\ Len(c) = m - p /\ \A i \in 1 .. m - p : c[i] = cs[p + i]
    OBVIOUS
  <1> HIDE DEF a
  <1>3. b \in Seq(Change) /\ Len(b) = m - p /\ \A i \in 1 .. m - p : b[i] = a[p + i]
    BY <1>1
  <1> HIDE DEF b, c
  <1>4. ASSUME NEW i \in 1 .. m - p PROVE b[i] = c[i]
    <2>1. p + i \in 1 .. n
      OBVIOUS
    <2>2. b[i] = a[p + i] /\ c[i] = cs[p + i]
      BY <1>2, <1>3
    <2>3. a[p + i] = cs[p + i]
      BY <1>1, <2>1
    <2> QED
      BY <2>2, <2>3
  <1>5. Len(b) = Len(c) /\ \A i \in 1 .. Len(b) : b[i] = c[i]
    BY <1>2, <1>3, <1>4
  <1>6. b \in Seq(Change) /\ c \in Seq(Change)
    BY <1>2, <1>3
  <1>7. b = c
    BY <1>5, <1>6
  <1> QED
    BY <1>7 DEF a, b, c

(* A piece in two parts. *)
LEMMA CutBetween ==
  ASSUME NEW cs \in Seq(Change), NEW k \in 0 .. Len(cs), NEW n \in 0 .. k,
         NEW m \in 0 .. n
  PROVE  Parts(SubSeq(cs, m + 1, k), SubSeq(cs, m + 1, n), SubSeq(cs, n + 1, k))
PROOF
  <1> DEFINE p == SubSeq(cs, m + 1, k)
             a == SubSeq(cs, m + 1, n)
             b == SubSeq(cs, n + 1, k)
  <1>1. p \in Seq(Change) /\ Len(p) = k - m /\ \A i \in 1 .. k - m : p[i] = cs[m + i]
    OBVIOUS
  <1>2. a \in Seq(Change) /\ Len(a) = n - m /\ \A i \in 1 .. n - m : a[i] = cs[m + i]
    OBVIOUS
  <1>3. b \in Seq(Change) /\ Len(b) = k - n /\ \A i \in 1 .. k - n : b[i] = cs[n + i]
    OBVIOUS
  <1> HIDE DEF a, b, p
  <1>4. \A i \in 1 .. n - m : a[i] = p[i]
    BY <1>1, <1>2
  <1>5. ASSUME NEW i \in 1 .. k - n PROVE b[i] = p[(n - m) + i]
    <2>1. (n - m) + i \in 1 .. k - m /\ m + ((n - m) + i) = n + i
      OBVIOUS
    <2> QED
      BY <1>1, <1>3, <2>1
  <1>6. Len(p) = Len(a) + Len(b)
    BY <1>1, <1>2, <1>3
  <1>7. Splits(p, a, b)
    BY <1>2, <1>3, <1>4, <1>5, <1>6 DEF Splits
  <1>8. DOMAIN a = 1 .. n - m
    BY <1>2
  <1>9. Parts(p, a, b)
    BY <1>1, <1>2, <1>3, <1>4, <1>7, <1>8 DEF Parts
  <1> QED
    BY <1>9 DEF a, b, p

(* What an undo that meets no fault leaves. *)
LEMMA UndoValue ==
  ASSUME NEW rows, NEW b, UndoFaults(rows, b) = {}, NEW id \in Rowid
  PROVE  UndoInserts(rows, b)[id] = IF Touching(b, id) # {} THEN None ELSE rows[id]
PROOF
  BY DEF UndoInserts, Touching

LEMMA NothingUndone ==
  ASSUME NEW rows \in Rows
  PROVE  UndoInserts(rows, <<>>) = rows /\ Replay(rows, <<>>) = rows
PROOF
  <1>1. UndoFaults(rows, <<>>) = {}
    BY DEF UndoFaults
  <1>2. \A id \in Rowid : UndoInserts(rows, <<>>)[id] = rows[id]
    BY <1>1, UndoValue, NothingTouched
  <1>3. UndoInserts(rows, <<>>) \in Rows
    BY UndoInsertsType
  <1>4. \A id \in Rowid : Replay(rows, <<>>)[id] = rows[id]
    BY NothingTouched DEF Replay
  <1>5. Replay(rows, <<>>) \in Rows
    <2>1. <<>> \in Seq(Change)
      OBVIOUS
    <2> QED
      BY <2>1, ReplayType
  <1> QED
    BY <1>2, <1>3, <1>4, <1>5 DEF Rows

(* Undoing appends in two steps or in one. *)
LEMMA UndoTwice ==
  ASSUME NEW cs, NEW a, NEW b, Parts(cs, a, b), NEW rows \in Rows,
         UndoFaults(rows, cs) = {}, UndoFaults(rows, b) = {},
         UndoFaults(UndoInserts(rows, b), a) = {}
  PROVE  UndoInserts(UndoInserts(rows, b), a) = UndoInserts(rows, cs)
PROOF
  <1> DEFINE mid == UndoInserts(rows, b)
  <1>1. mid \in Rows /\ UndoInserts(mid, a) \in Rows /\ UndoInserts(rows, cs) \in Rows
    BY UndoInsertsType
  <1>2. ASSUME NEW id \in Rowid
        PROVE  UndoInserts(mid, a)[id] = UndoInserts(rows, cs)[id]
    <2>1. mid[id] = IF Touching(b, id) # {} THEN None ELSE rows[id]
      BY UndoValue
    <2> HIDE DEF mid
    <2>2. UndoInserts(mid, a)[id] = IF Touching(a, id) # {} THEN None ELSE mid[id]
      BY UndoValue DEF mid
    <2>3. UndoInserts(rows, cs)[id] = IF Touching(cs, id) # {} THEN None ELSE rows[id]
      BY UndoValue
    <2>4. Touching(cs, id) # {} <=> Touching(a, id) # {} \/ Touching(b, id) # {}
      BY LastOfParts
    <2> QED
      BY <2>1, <2>2, <2>3, <2>4
  <1> HIDE DEF mid
  <1>3. UndoInserts(mid, a) = UndoInserts(rows, cs)
    BY <1>1, <1>2 DEF Rows
  <1> QED
    BY <1>3 DEF mid

(* Undoing appends the log could have replayed is replaying the rest.      *)
LEMMA UndoIsReplay ==
  ASSUME NEW cs, NEW a, NEW b, Parts(cs, a, b), NEW base \in Rows, NEW rows,
         Exact(rows, base, cs), Truthful(base, cs), AppendOnly(b), Encodable(cs)
  PROVE  UndoInserts(rows, b) = Replay(base, a)
PROOF
  <1>1. Exact(UndoInserts(rows, b), base, a)
    BY ExactUndo
  <1>2. Truthful(base, a) /\ Encodable(a) /\ a \in Seq(Change)
    BY TruthfulFirst, KindsOfParts DEF Parts
  <1> QED
    BY <1>1, <1>2, ExactReplay
-----------------------------------------------------------------------------
(* What going back shows. *)

(* The rows a search sees in a transaction: the index or, until one is     *)
(* loaded, the stored image with the changes not yet written on top.       *)
Shown(index, base, us) == IF index # None THEN index ELSE Replay(base, us)

(* The rows a search would see after going back to the first n changes of  *)
(* cs, by each of the ways of restore_to.                                  *)
Recall(index, cs, cp, base, n) ==
  IF cp # None
  THEN IF n < cp.position
       THEN UndoInserts(cp.payload, SubSeq(cs, n + 1, cp.position))
       ELSE Replay(cp.payload, SubSeq(cs, cp.position + 1, n))
  ELSE IF index # None /\ AppendOnly(SubSeq(cs, n + 1, Len(cs)))
       THEN UndoInserts(index, SubSeq(cs, n + 1, Len(cs)))
       ELSE Replay(base, SubSeq(cs, 1, n))

(* Going back nowhere shows what is there: the checkpoint has not been     *)
(* overtaken by the index.                                                 *)
Past(index, cs, cp, base) ==
  Recall(index, cs, cp, base, Len(cs)) = Shown(index, base, cs)

(* What an index, a log and a checkpoint must be of each other: Working,   *)
(* Recoverable and Retains, before xSync has written.                      *)
Sound(index, cs, cp, base) ==
  /\ cs \in Seq(Change) /\ base \in Rows /\ Truthful(base, cs)
  /\ index \in Rows \cup {None} /\ cp \in Checkpoint \cup {None}
  /\ IF index = None THEN Encodable(cs) ELSE Exact(index, base, cs)
  /\ cp = None /\ index # None => AppendOnly(cs) \/ Encodable(cs)
  /\ cp # None =>
       /\ cp.position \in 0 .. Len(cs) /\ cp.payload \in Rows
       /\ AppendOnly(SubSeq(cs, 1, cp.position))
       /\ Encodable(SubSeq(cs, cp.position + 1, Len(cs)))
       /\ Exact(cp.payload, base, SubSeq(cs, 1, cp.position))

(* Without a checkpoint, a log that kept every vector is replayed, whether *)
(* that is what restore_to does or not.                                    *)
LEMMA KeptRecall ==
  ASSUME NEW index, NEW cs, NEW base, Sound(index, cs, None, base), Encodable(cs),
         NEW n \in 0 .. Len(cs)
  PROVE  Recall(index, cs, None, base, n) = Replay(base, SubSeq(cs, 1, n))
PROOF
  <1> DEFINE tail == SubSeq(cs, n + 1, Len(cs))
  <1>1. cs \in Seq(Change) /\ base \in Rows /\ Truthful(base, cs)
    BY DEF Sound
  <1>2. Parts(cs, SubSeq(cs, 1, n), tail)
    BY <1>1, CutParts
  <1>3. Recall(index, cs, None, base, n) =
          IF index # None /\ AppendOnly(tail) THEN UndoInserts(index, tail)
                                              ELSE Replay(base, SubSeq(cs, 1, n))
    BY DEF Recall
  <1> HIDE DEF tail
  <1>4. CASE index # None /\ AppendOnly(tail)
    <2>1. Exact(index, base, cs)
      BY <1>4 DEF Sound
    <2>2. UndoInserts(index, tail) = Replay(base, SubSeq(cs, 1, n))
      BY <1>1, <1>2, <1>4, <2>1, UndoIsReplay
    <2> QED
      BY <1>3, <1>4, <2>2
  <1> QED
    BY <1>3, <1>4

LEMMA EmptyTail ==
  ASSUME NEW cs \in Seq(Change)
  PROVE  SubSeq(cs, Len(cs) + 1, Len(cs)) = <<>>
PROOF
  OBVIOUS

LEMMA NothingToUndo ==
  AppendOnly(<<>>) /\ Encodable(<<>>)
PROOF
  BY DEF AppendOnly, Encodable, Inserts

LEMMA RecallEnd ==
  ASSUME NEW index, NEW cs, NEW base, Sound(index, cs, None, base)
  PROVE  Past(index, cs, None, base)
PROOF
  <1>1. cs \in Seq(Change) /\ index \in Rows \cup {None}
    BY DEF Sound
  <1>2. SubSeq(cs, Len(cs) + 1, Len(cs)) = <<>> /\ SubSeq(cs, 1, Len(cs)) = cs
    BY <1>1, EmptyTail, WholeLog1
  <1>3. Recall(index, cs, None, base, Len(cs)) =
          IF index # None THEN UndoInserts(index, <<>>) ELSE Replay(base, cs)
    BY <1>2, NothingToUndo DEF Recall
  <1> QED
    BY <1>1, <1>3, NothingUndone DEF Past, Shown

(* Loading the index. *)
LEMMA LoadRecall ==
  ASSUME NEW cs, NEW cp, NEW base, Sound(None, cs, cp, base),
         NEW loaded, Exact(loaded, base, cs)
  PROVE  /\ Sound(loaded, cs, cp, base)
         /\ Shown(loaded, base, cs) = Shown(None, base, cs)
         /\ \A n \in 0 .. Len(cs) :
              Recall(loaded, cs, cp, base, n) = Recall(None, cs, cp, base, n)
PROOF
  <1>1. /\ cs \in Seq(Change) /\ base \in Rows /\ Truthful(base, cs) /\ Encodable(cs)
        /\ loaded \in Rows /\ loaded # None
    BY NoneAssumption DEF Sound, Exact, Rows
  <1>2. loaded = Replay(base, cs)
    BY <1>1, ExactReplay
  <1>3. Sound(loaded, cs, cp, base)
    BY <1>1 DEF Sound
  <1>4. ASSUME NEW n \in 0 .. Len(cs)
        PROVE  Recall(loaded, cs, cp, base, n) = Recall(None, cs, cp, base, n)
    <2>1. CASE cp # None
      BY <2>1 DEF Recall
    <2>2. CASE cp = None
      BY <1>1, <1>3, <2>2, KeptRecall
    <2> QED
      BY <2>1, <2>2
  <1> QED
    BY <1>1, <1>2, <1>3, <1>4 DEF Shown

(* Keeping an image before a destructive change. *)
LEMMA ImageRecall ==
  ASSUME NEW index, NEW cs, NEW base, Sound(index, cs, None, base),
         index # None, ~Encodable(cs)
  PROVE  LET image == [position |-> Len(cs), payload |-> index]
         IN  /\ Sound(index, cs, image, base) /\ Past(index, cs, image, base)
             /\ \A n \in 0 .. Len(cs) :
                  Recall(index, cs, image, base, n) = Recall(index, cs, None, base, n)
PROOF
  <1> DEFINE image == [position |-> Len(cs), payload |-> index]
  <1>1. /\ cs \in Seq(Change) /\ index \in Rows /\ AppendOnly(cs)
        /\ Exact(index, base, cs) /\ base \in Rows /\ Truthful(base, cs)
    BY DEF Sound
  <1>2. /\ image \in Checkpoint /\ image.position = Len(cs) /\ image.payload = index
        /\ Len(cs) \in 0 .. Len(cs)
    BY <1>1 DEF Checkpoint
  <1>3. image # None
    BY <1>2, TransactionAssumption
  <1> HIDE DEF image
  <1>4. SubSeq(cs, Len(cs) + 1, Len(cs)) = <<>> /\ SubSeq(cs, 1, Len(cs)) = cs
    BY <1>1, EmptyTail, WholeLog1
  <1>5. Sound(index, cs, image, base)
    BY <1>1, <1>2, <1>3, <1>4, NothingToUndo DEF Sound
  <1>6. ASSUME NEW n \in 0 .. Len(cs)
        PROVE  Recall(index, cs, image, base, n) = Recall(index, cs, None, base, n)
    <2> DEFINE tail == SubSeq(cs, n + 1, Len(cs))
    <2>1. AppendOnly(tail)
      BY <1>1, CutParts, KindsOfParts
    <2>2. Recall(index, cs, None, base, n) = UndoInserts(index, tail)
      BY <2>1 DEF Recall
    <2>3. Recall(index, cs, image, base, n) =
            IF n < Len(cs) THEN UndoInserts(index, tail)
                           ELSE Replay(index, SubSeq(cs, Len(cs) + 1, n))
      BY <1>2, <1>3 DEF Recall
    <2>4. CASE ~(n < Len(cs))
      <3>1. n = Len(cs)
        BY <1>1, <2>4
      <3>2. tail = <<>> /\ SubSeq(cs, Len(cs) + 1, n) = <<>>
        BY <1>4, <3>1
      <3> QED
        BY <1>1, <2>2, <2>3, <2>4, <3>2, NothingUndone
    <2> QED
      BY <2>2, <2>3, <2>4
  <1>7. Past(index, cs, image, base)
    BY <1>2, <1>6, RecallEnd DEF Past
  <1> QED
    BY <1>5, <1>6, <1>7 DEF image

(* The rows of a log that grows by one change. *)
LEMMA ReplayOneMore ==
  ASSUME NEW rows \in Rows, NEW cs \in Seq(Change), NEW x \in Change
  PROVE  Replay(rows, Append(cs, x)) = [Replay(rows, cs) EXCEPT ![x.id] = x.vector]
PROOF
  <1> DEFINE new == Replay(rows, Append(cs, x))
             old == [Replay(rows, cs) EXCEPT ![x.id] = x.vector]
  <1>1. /\ Parts(Append(cs, x), cs, <<x>>) /\ Append(cs, x) \in Seq(Change)
        /\ x.id \in Rowid /\ x.vector \in Vector \cup {None}
    BY AppendParts DEF Parts, Change
  <1>2. Replay(rows, cs) \in Rows /\ new \in Rows
    BY <1>1, ReplayType
  <1>3. /\ old \in Rows /\ old[x.id] = x.vector
        /\ \A id \in Rowid : id # x.id => old[id] = Replay(rows, cs)[id]
    BY <1>1, <1>2 DEF Rows
  <1>4. ASSUME NEW id \in Rowid PROVE new[id] = old[id]
    <2>1. new[id] = Replay(Replay(rows, cs), <<x>>)[id]
      BY <1>1, SplitReplay DEF Parts
    <2>2. Replay(Replay(rows, cs), <<x>>)[id] =
            IF Touching(<<x>>, id) = {} THEN Replay(rows, cs)[id]
            ELSE <<x>>[LastTouch(<<x>>, id)].vector
      BY DEF Replay
    <2> HIDE DEF new, old
    <2>3. CASE id = x.id
      <3>1. Touching(<<x>>, id) = {1} /\ LastTouch(<<x>>, id) = 1 /\ <<x>>[1] = x
        BY <2>3, OneChange
      <3>2. <<x>>[LastTouch(<<x>>, id)].vector = x.vector
        BY <3>1
      <3> QED
        BY <1>3, <2>1, <2>2, <2>3, <3>1, <3>2
    <2>4. CASE id # x.id
      <3>1. Touching(<<x>>, id) = {}
        BY <2>4, OneChange
      <3> QED
        BY <1>3, <2>1, <2>2, <2>4, <3>1
    <2> QED
      BY <2>3, <2>4
  <1> HIDE DEF new, old
  <1>5. new = old
    BY <1>2, <1>3, <1>4 DEF Rows
  <1> QED
    BY <1>5 DEF new, old

LEMMA AppendPiece ==
  ASSUME NEW cs \in Seq(Change), NEW x \in Change, NEW m \in 0 .. Len(cs),
         NEW p \in 0 .. m
  PROVE  SubSeq(Append(cs, x), p + 1, m) = SubSeq(cs, p + 1, m)
PROOF
  <1> DEFINE more == Append(cs, x)
  <1>1. more \in Seq(Change) /\ Len(cs) \in 0 .. Len(more) /\ Len(cs) \in 0 .. Len(cs)
    OBVIOUS
  <1>2. SubSeq(more, 1, Len(cs)) = cs
    BY <1>1, AppendTail, WholeLog1
  <1> HIDE DEF more
  <1>3. SubSeq(SubSeq(more, 1, Len(cs)), p + 1, m) = SubSeq(more, p + 1, m)
    BY <1>1, CutPiece
  <1> QED
    BY <1>2, <1>3 DEF more

(* new is index with x on top, the append of a row that was not there.     *)
Adds(new, index, base, cs, x) ==
  /\ cs \in Seq(Change) /\ x \in Change /\ base \in Rows
  /\ Exact(index, base, cs) /\ Exact(new, base, Append(cs, x))
  /\ Truthful(base, cs) /\ Truthful(base, Append(cs, x))
  /\ \A id \in Rowid : id # x.id => new[id] = index[id]
  /\ x.id \notin KeysAfter(base, cs)

LEMMA UndoneAppend ==
  ASSUME NEW new, NEW index, NEW base, NEW cs, NEW x, Adds(new, index, base, cs, x)
  PROVE  \A n \in 0 .. Len(cs) :
           LET tail == SubSeq(cs, n + 1, Len(cs))
           IN  AppendOnly(Append(tail, x)) =>
                 UndoInserts(new, Append(tail, x)) = UndoInserts(index, tail)
PROOF
  <1> DEFINE Rest(n) == SubSeq(cs, n + 1, Len(cs))
  <1> SUFFICES ASSUME NEW n \in 0 .. Len(cs), NEW tail, tail = Rest(n),
                      AppendOnly(Append(tail, x))
               PROVE  UndoInserts(new, Append(tail, x)) = UndoInserts(index, tail)
    OBVIOUS
  <1> USE DEF Adds
  <1>1. /\ Parts(cs, SubSeq(cs, 1, n), tail) /\ tail \in Seq(Change)
        /\ Parts(Append(tail, x), tail, <<x>>)
    BY CutParts, AppendParts DEF Parts
  <1>2. AppendOnly(tail)
    BY <1>1, KindsOfParts
  <1>3. UndoFaults(index, tail) = {}
    BY <1>1, <1>2, ExactUndo
  <1>4. UndoFaults(new, Append(tail, x)) = {}
    <2> DEFINE more == Append(cs, x)
    <2>1. more \in Seq(Change) /\ Len(more) = Len(cs) + 1 /\ n \in 0 .. Len(more)
      OBVIOUS
    <2>2. SubSeq(more, n + 1, Len(cs) + 1) = Append(tail, x)
      BY AppendTail
    <2>3. Exact(new, base, more) /\ Truthful(base, more)
      OBVIOUS
    <2> HIDE DEF more
    <2>4. SubSeq(more, n + 1, Len(more)) = Append(tail, x)
      BY <2>1, <2>2
    <2>5. Parts(more, SubSeq(more, 1, n), Append(tail, x))
      BY <2>1, <2>4, CutParts
    <2> QED
      BY <2>3, <2>5, ExactUndo
  <1>5. index \in Rows /\ new \in Rows
    BY DEF Exact
  <1>6. index[x.id] = None
    <2>1. x.id \in Rowid /\ Keys(index) = KeysAfter(base, cs)
      BY ExactKeys DEF Change
    <2> QED
      BY <2>1 DEF Keys
  <1>7. ASSUME NEW id \in Rowid
        PROVE  UndoInserts(new, Append(tail, x))[id] = UndoInserts(index, tail)[id]
    <2>1. UndoInserts(new, Append(tail, x))[id] =
            IF Touching(Append(tail, x), id) # {} THEN None ELSE new[id]
      BY <1>4, UndoValue
    <2>2. UndoInserts(index, tail)[id] = IF Touching(tail, id) # {} THEN None ELSE index[id]
      BY <1>3, UndoValue
    <2>3. Touching(Append(tail, x), id) # {} <=>
            Touching(tail, id) # {} \/ Touching(<<x>>, id) # {}
      BY <1>1, LastOfParts
    <2>4. Touching(<<x>>, id) # {} <=> id = x.id
      BY OneChange
    <2> QED
      BY <1>6, <2>1, <2>2, <2>3, <2>4
  <1>8. UndoInserts(new, Append(tail, x)) \in Rows /\ UndoInserts(index, tail) \in Rows
    BY <1>5, UndoInsertsType
  <1> QED
    BY <1>7, <1>8 DEF Rows

(* Logging a change, and making it in the index. *)
LEMMA ChangeRecall ==
  ASSUME NEW index, NEW cs, NEW cp, NEW base, Sound(index, cs, cp, base),
         NEW x \in Change, NEW value \in Vector \cup {None}, NEW new,
         new = IF index = None THEN None ELSE [index EXCEPT ![x.id] = value],
         x.id \in KeysAfter(base, cs) <=> (x.op = "delete" \/ x.replaces),
         cp # None \/ index = None => x.vector = value,
         cp = None /\ index # None =>
           \/ AppendOnly(cs) /\ x.op = "insert" /\ ~x.replaces
           \/ Encodable(cs) /\ (x.op = "insert" => x.vector # None),
         Sound(new, Append(cs, x), cp, base)
  PROVE  /\ \A n \in 0 .. Len(cs) :
              Recall(new, Append(cs, x), cp, base, n) = Recall(index, cs, cp, base, n)
         /\ Past(index, cs, cp, base) => Past(new, Append(cs, x), cp, base)
PROOF
  <1> DEFINE more == Append(cs, x)
  <1>1. /\ cs \in Seq(Change) /\ base \in Rows /\ Truthful(base, cs)
        /\ index \in Rows \cup {None}
        /\ Truthful(base, more) /\ more \in Seq(Change)
        /\ Len(more) = Len(cs) + 1 /\ Len(cs) \in Nat
    BY DEF Sound
  <1>2. /\ new = None <=> index = None
        /\ index # None => /\ new # None /\ Exact(index, base, cs) /\ Exact(new, base, more)
                           /\ \A id \in Rowid : id # x.id => new[id] = index[id]
    <2>1. index # None => index \in Rows /\ new \in Rows /\ new # None
      BY <1>1, NoneAssumption DEF Rows
    <2> QED
      BY <1>1, <2>1 DEF Sound, Rows
  <1>3. CASE cp # None
    <2> DEFINE p == cp.position
    <2>1. p \in 0 .. Len(cs) /\ cp.payload \in Rows
      BY <1>3 DEF Sound
    <2>2. ASSUME NEW n \in 0 .. Len(cs)
          PROVE  Recall(new, more, cp, base, n) = Recall(index, cs, cp, base, n)
      <3>1. CASE n < p
        <4>1. SubSeq(more, n + 1, p) = SubSeq(cs, n + 1, p)
          BY <1>1, <2>1, <3>1, AppendPiece
        <4> QED
          BY <1>3, <3>1, <4>1 DEF Recall
      <3>2. CASE ~(n < p)
        <4>1. p \in 0 .. n
          BY <1>1, <2>1, <3>2
        <4> HIDE DEF p
        <4>2. SubSeq(more, p + 1, n) = SubSeq(cs, p + 1, n)
          BY <1>1, <4>1, AppendPiece
        <4> USE DEF p
        <4> QED
          BY <1>3, <3>2, <4>2 DEF Recall
      <3> QED
        BY <3>1, <3>2
    <2>3. ASSUME Past(index, cs, cp, base) PROVE Past(new, more, cp, base)
      <3> DEFINE rest == SubSeq(cs, p + 1, Len(cs))
      <3>1. rest \in Seq(Change) /\ SubSeq(more, p + 1, Len(cs) + 1) = Append(rest, x)
        BY <1>1, <2>1, AppendTail, CutParts DEF Parts
      <3>2. ~(Len(more) < cp.position) /\ ~(Len(cs) < cp.position)
        BY <1>1, <2>1
      <3> HIDE DEF more
      <3>6. SubSeq(more, p + 1, Len(more)) = Append(rest, x)
        BY <1>1, <3>1
      <3>7. Recall(new, more, cp, base, Len(more)) = Replay(cp.payload, Append(rest, x))
        BY <1>3, <3>2, <3>6 DEF Recall
      <3>3. Recall(index, cs, cp, base, Len(cs)) = Replay(cp.payload, rest)
        BY <1>3, <3>2 DEF Recall
      <3> HIDE DEF rest, p, more
      <3>4. Replay(cp.payload, Append(rest, x)) =
              [Shown(index, base, cs) EXCEPT ![x.id] = x.vector]
        BY <2>1, <2>3, <3>1, <3>3, ReplayOneMore DEF Past
      <3>8. index = None => x.vector = value
        BY <1>3
      <3>5. Shown(new, base, more) = [Shown(index, base, cs) EXCEPT ![x.id] = value]
        <4>1. CASE index = None
          BY <1>1, <1>2, <3>8, <4>1, ReplayOneMore DEF Shown, more
        <4>2. CASE index # None
          BY <1>2, <4>2 DEF Shown
        <4> QED
          BY <4>1, <4>2
      <3> QED
        BY <1>3, <3>7, <3>4, <3>5 DEF Past
    <2> QED
      BY <2>2, <2>3
  <1>4. CASE cp = None
    <2>1. Past(new, more, cp, base)
      BY <1>4, RecallEnd
    <2>2. ASSUME NEW n \in 0 .. Len(cs)
          PROVE  Recall(new, more, cp, base, n) = Recall(index, cs, cp, base, n)
      <3> DEFINE tail == SubSeq(cs, n + 1, Len(cs))
      <3>0. /\ SubSeq(more, n + 1, Len(cs) + 1) = Append(tail, x)
            /\ SubSeq(more, 1, n) = SubSeq(cs, 1, n)
        BY <1>1, AppendTail
      <3>2. Parts(more, cs, <<x>>)
        BY <1>1, AppendParts
      <3>6. Sound(new, more, None, base) /\ Sound(index, cs, None, base)
        BY <1>4
      <3>7. n \in 0 .. Len(more)
        BY <1>1
      <3> HIDE DEF more, tail
      <3>1. /\ SubSeq(more, n + 1, Len(more)) = Append(tail, x)
            /\ SubSeq(more, 1, n) = SubSeq(cs, 1, n)
            /\ n \in 0 .. Len(more)
        BY <1>1, <3>0, <3>7
      <3>3. CASE Encodable(more)
        <4>1. Encodable(cs)
          BY <3>2, <3>3, KindsOfParts
        <4>2. Recall(index, cs, None, base, n) = Replay(base, SubSeq(cs, 1, n))
          BY <3>6, <4>1, KeptRecall
        <4>3. Recall(new, more, None, base, n) = Replay(base, SubSeq(more, 1, n))
          BY <3>1, <3>3, <3>6, KeptRecall
        <4> QED
          BY <1>4, <3>1, <4>2, <4>3
      <3>4. CASE ~Encodable(more)
        <4>1. index # None
          BY <1>2, <3>4, <3>6 DEF Sound
        <4>2. AppendOnly(cs) /\ x.op = "insert" /\ ~x.replaces
          BY <1>1, <1>4, <3>2, <3>4, <4>1, KindsOfParts, OneChangeKinds
        <4>3. /\ tail \in Seq(Change) /\ AppendOnly(tail) /\ AppendOnly(Append(tail, x))
          <5>2. Parts(cs, SubSeq(cs, 1, n), tail)
            BY <1>1, CutParts DEF tail
          <5>3. AppendOnly(tail)
            BY <4>2, <5>2, KindsOfParts
          <5>1. tail \in Seq(Change) /\ AppendOnly(tail)
            BY <5>2, <5>3 DEF Parts
          <5> QED
            BY <4>2, <5>1, AppendParts, KindsOfParts, OneChangeKinds
        <4>4. Recall(index, cs, None, base, n) = UndoInserts(index, tail)
          BY <4>1, <4>3 DEF Recall, tail
        <4>5. Recall(new, more, None, base, n) = UndoInserts(new, Append(tail, x))
          BY <1>2, <3>1, <4>1, <4>3 DEF Recall
        <4>6. x.id \notin KeysAfter(base, cs)
          BY <4>2
        <4>7. UndoInserts(new, Append(tail, x)) = UndoInserts(index, tail)
          <5>1. Adds(new, index, base, cs, x)
            BY <1>1, <1>2, <4>1, <4>6 DEF more, Adds
          <5>2. /\ n \in 0 .. Len(cs)
                /\ AppendOnly(Append(SubSeq(cs, n + 1, Len(cs)), x))
            BY <4>3 DEF tail
          <5>3. \A k \in 0 .. Len(cs) :
                  LET part == SubSeq(cs, k + 1, Len(cs))
                  IN  AppendOnly(Append(part, x)) =>
                        UndoInserts(new, Append(part, x)) = UndoInserts(index, part)
            BY <5>1, UndoneAppend
          <5> QED
            BY <5>2, <5>3 DEF tail
        <4> QED
          BY <1>4, <4>4, <4>5, <4>7
      <3> QED
        BY <3>3, <3>4
    <2> QED
      BY <2>1, <2>2
  <1> QED
    BY <1>3, <1>4

(* Undoing the end of a log of appends in two steps or in one. *)
LEMMA UndoInTwo ==
  ASSUME NEW cs \in Seq(Change), NEW k \in 0 .. Len(cs), NEW base, NEW rows,
         Exact(rows, base, SubSeq(cs, 1, k)), Truthful(base, SubSeq(cs, 1, k)),
         NEW n \in 0 .. k, NEW m \in 0 .. n, AppendOnly(SubSeq(cs, m + 1, k))
  PROVE  UndoInserts(UndoInserts(rows, SubSeq(cs, n + 1, k)), SubSeq(cs, m + 1, n))
           = UndoInserts(rows, SubSeq(cs, m + 1, k))
PROOF
  <1> DEFINE whole == SubSeq(cs, 1, k)
             a == SubSeq(cs, m + 1, n)
             b == SubSeq(cs, n + 1, k)
             c == SubSeq(cs, m + 1, k)
             mid == UndoInserts(rows, b)
  <1>1. m \in 0 .. k /\ n \in 0 .. Len(cs)
    OBVIOUS
  <1>2. /\ Parts(whole, SubSeq(cs, 1, n), b) /\ Parts(whole, SubSeq(cs, 1, m), c)
        /\ Parts(SubSeq(cs, 1, n), SubSeq(cs, 1, m), a)
    BY <1>1, CutPrefix
  <1>3. Parts(c, a, b)
    BY CutBetween
  <1> HIDE DEF whole, a, b, c
  <1>4. AppendOnly(a) /\ AppendOnly(b) /\ AppendOnly(c)
    BY <1>3, KindsOfParts DEF c
  <1>5. UndoFaults(rows, b) = {} /\ Exact(mid, base, SubSeq(cs, 1, n))
    BY <1>2, <1>4, ExactUndo DEF whole
  <1>6. UndoFaults(rows, c) = {}
    BY <1>2, <1>4, ExactUndo DEF whole
  <1>7. Truthful(base, SubSeq(cs, 1, n))
    BY <1>2, TruthfulFirst DEF whole
  <1> HIDE DEF mid
  <1>8. UndoFaults(mid, a) = {}
    BY <1>2, <1>4, <1>5, <1>7, ExactUndo
  <1>9. rows \in Rows
    BY DEF Exact
  <1> QED
    BY <1>3, <1>5, <1>6, <1>8, <1>9, UndoTwice DEF mid, a, b, c

(* What restore_to puts in the place of the index and of the checkpoint.   *)
RestoresTo(index, cs, cp, n, new, kept) ==
  IF cp # None
  THEN IF n < cp.position
       THEN new = UndoInserts(cp.payload, SubSeq(cs, n + 1, cp.position)) /\ kept = None
       ELSE new = Replay(cp.payload, SubSeq(cs, cp.position + 1, n)) /\ kept = cp
  ELSE /\ kept = None
       /\ new = IF index # None /\ AppendOnly(SubSeq(cs, n + 1, Len(cs)))
                THEN UndoInserts(index, SubSeq(cs, n + 1, Len(cs))) ELSE None

(* Going back does not move what a mark before it would show. *)
LEMMA RestoreRecall ==
  ASSUME NEW index, NEW cs, NEW cp, NEW base, Sound(index, cs, cp, base),
         NEW n \in 0 .. Len(cs), NEW new, NEW kept, RestoresTo(index, cs, cp, n, new, kept)
  PROVE  /\ Shown(new, base, SubSeq(cs, 1, n)) = Recall(index, cs, cp, base, n)
         /\ \A m \in 0 .. n :
              Recall(new, SubSeq(cs, 1, n), kept, base, m) = Recall(index, cs, cp, base, m)
PROOF
  <1> DEFINE log == SubSeq(cs, 1, n)
  <1>1. /\ cs \in Seq(Change) /\ base \in Rows /\ Truthful(base, cs)
        /\ index \in Rows \cup {None}
    BY DEF Sound
  <1>2. /\ Parts(cs, log, SubSeq(cs, n + 1, Len(cs))) /\ Len(log) = n
        /\ Len(cs) \in 0 .. Len(cs) /\ SubSeq(cs, 1, Len(cs)) = cs /\ n \in 0 .. n
    BY <1>1, CutParts, WholeLog1
  <1>3. ASSUME NEW m \in 0 .. n, NEW q \in 0 .. m
        PROVE  SubSeq(log, q + 1, m) = SubSeq(cs, q + 1, m)
    BY <1>1, CutPiece
  <1>4. \A m \in 0 .. n : SubSeq(log, 1, m) = SubSeq(cs, 1, m)
    BY <1>1, <1>2, CutPrefix
  <1> HIDE DEF log
  <1>5. CASE cp # None
    <2> DEFINE p == cp.position
    <2>1. /\ p \in 0 .. Len(cs) /\ cp.payload \in Rows /\ AppendOnly(SubSeq(cs, 1, p))
          /\ Exact(cp.payload, base, SubSeq(cs, 1, p))
      BY <1>5 DEF Sound
    <2>2. CASE n < p
      <3> DEFINE tail == SubSeq(cs, n + 1, p)
      <3>1. new = UndoInserts(cp.payload, tail) /\ kept = None
        BY <1>5, <2>2 DEF RestoresTo
      <3>2. new \in Rows /\ new # None
        BY <2>1, <3>1, UndoInsertsType, NoneAssumption DEF Rows
      <3>3. Recall(index, cs, cp, base, n) = new
        BY <1>5, <2>2, <3>1 DEF Recall
      <3>4. ASSUME NEW m \in 0 .. n
            PROVE  Recall(new, log, kept, base, m) = Recall(index, cs, cp, base, m)
        <4> DEFINE first == SubSeq(cs, m + 1, n)
        <4>1. m \in 0 .. p /\ n \in 0 .. p /\ m < p
          BY <2>1, <2>2
        <4>2. AppendOnly(SubSeq(cs, m + 1, p))
          BY <1>1, <2>1, <4>1, CutPrefix, KindsOfParts
        <4>3. AppendOnly(first)
          BY <1>1, <2>1, <4>1, <4>2, CutBetween, KindsOfParts
        <4>4. SubSeq(log, m + 1, Len(log)) = first
          <5>1. SubSeq(log, m + 1, n) = first
            BY <1>2, <1>3
          <5> QED
            BY <1>2, <5>1
        <4>5. Truthful(base, SubSeq(cs, 1, p))
          BY <1>1, <2>1, CutParts, TruthfulFirst
        <4> HIDE DEF first
        <4>6. Recall(new, log, kept, base, m) = UndoInserts(new, first)
          BY <3>1, <3>2, <4>3, <4>4 DEF Recall
        <4>7. UndoInserts(new, first) = UndoInserts(cp.payload, SubSeq(cs, m + 1, p))
          BY <1>1, <2>1, <3>1, <4>1, <4>2, <4>5, UndoInTwo DEF first
        <4> QED
          BY <1>5, <4>1, <4>6, <4>7 DEF Recall
      <3> QED
        BY <3>2, <3>3, <3>4 DEF Shown, log
    <2>3. CASE ~(n < p)
      <3>1. new = Replay(cp.payload, SubSeq(cs, p + 1, n)) /\ kept = cp
        BY <1>5, <2>3 DEF RestoresTo
      <3>2. p \in 0 .. n
        BY <2>1, <2>3
      <3>3. new \in Rows /\ new # None
        <4>1. SubSeq(cs, p + 1, n) \in Seq(Change)
          BY <1>1, <3>2, CutPrefix DEF Parts
        <4> QED
          BY <2>1, <3>1, <4>1, ReplayedRows
      <3>4. Recall(index, cs, cp, base, n) = new
        BY <1>5, <2>3, <3>1 DEF Recall
      <3>5. ASSUME NEW m \in 0 .. n
            PROVE  Recall(new, log, kept, base, m) = Recall(index, cs, cp, base, m)
        <4>1. CASE m < p
          <5>2. p \in 0 .. n /\ m \in 0 .. p
            BY <3>2, <4>1
          <5>1. SubSeq(log, m + 1, p) = SubSeq(cs, m + 1, p)
            BY <1>3, <5>2
          <5> QED
            BY <1>5, <3>1, <4>1, <5>1 DEF Recall
        <4>2. CASE ~(m < p)
          <5>2. p \in 0 .. m
            BY <2>1, <4>2
          <5>1. SubSeq(log, p + 1, m) = SubSeq(cs, p + 1, m)
            BY <1>3, <5>2
          <5> QED
            BY <1>5, <3>1, <4>2, <5>1 DEF Recall
        <4> QED
          BY <4>1, <4>2
      <3> QED
        BY <3>3, <3>4, <3>5 DEF Shown, log
    <2> QED
      BY <2>2, <2>3
  <1>6. CASE cp = None
    <2> DEFINE tail == SubSeq(cs, n + 1, Len(cs))
    <2>1. CASE index # None /\ AppendOnly(tail)
      <3>1. new = UndoInserts(index, tail) /\ kept = None
        BY <1>6, <2>1 DEF RestoresTo
      <3>2. new \in Rows /\ new # None /\ Exact(index, base, cs)
        BY <1>1, <2>1, <3>1, UndoInsertsType, NoneAssumption DEF Rows, Sound
      <3>3. Recall(index, cs, cp, base, n) = new
        BY <1>6, <2>1, <3>1 DEF Recall
      <3>4. ASSUME NEW m \in 0 .. n
            PROVE  Recall(new, log, kept, base, m) = Recall(index, cs, cp, base, m)
        <4> DEFINE first == SubSeq(cs, m + 1, n)
                   both == SubSeq(cs, m + 1, Len(cs))
        <4>1. SubSeq(log, m + 1, Len(log)) = first /\ SubSeq(log, 1, m) = SubSeq(cs, 1, m)
          <5>1. SubSeq(log, m + 1, n) = first
            BY <1>2, <1>3
          <5> QED
            BY <1>2, <1>4, <5>1
        <4>2. Parts(both, first, tail)
          BY <1>1, <1>2, CutBetween
        <4> HIDE DEF first, both, tail
        <4>3. AppendOnly(both) <=> AppendOnly(first)
          BY <2>1, <4>2, KindsOfParts
        <4>4. Recall(new, log, kept, base, m) =
                IF AppendOnly(first) THEN UndoInserts(new, first)
                                     ELSE Replay(base, SubSeq(cs, 1, m))
          BY <3>1, <3>2, <4>1 DEF Recall
        <4>5. Recall(index, cs, cp, base, m) =
                IF AppendOnly(both) THEN UndoInserts(index, both)
                                    ELSE Replay(base, SubSeq(cs, 1, m))
          BY <1>6, <2>1 DEF Recall, both
        <4>6. ASSUME AppendOnly(both)
              PROVE  UndoInserts(new, first) = UndoInserts(index, both)
          <5>1. /\ Len(cs) \in 0 .. Len(cs) /\ n \in 0 .. Len(cs)
                /\ Exact(index, base, SubSeq(cs, 1, Len(cs)))
                /\ Truthful(base, SubSeq(cs, 1, Len(cs)))
            BY <1>1, <1>2, <3>2
          <5>2. AppendOnly(SubSeq(cs, m + 1, Len(cs)))
            BY <4>6 DEF both
          <5>3. UndoInserts(UndoInserts(index, SubSeq(cs, n + 1, Len(cs))), SubSeq(cs, m + 1, n))
                  = UndoInserts(index, SubSeq(cs, m + 1, Len(cs)))
            BY <1>1, <5>1, <5>2, UndoInTwo
          <5> QED
            BY <3>1, <5>3 DEF first, both, tail
        <4> QED
          BY <4>3, <4>4, <4>5, <4>6
      <3> QED
        BY <3>2, <3>3, <3>4 DEF Shown, log
    <2>2. CASE ~(index # None /\ AppendOnly(tail))
      <3>1. new = None /\ kept = None
        BY <1>6, <2>2 DEF RestoresTo
      <3>2. ASSUME NEW m \in 0 .. n
            PROVE  /\ Recall(index, cs, cp, base, m) = Replay(base, SubSeq(cs, 1, m))
                   /\ Recall(new, log, kept, base, m) = Replay(base, SubSeq(cs, 1, m))
        <4> DEFINE both == SubSeq(cs, m + 1, Len(cs))
        <4>1. Parts(both, SubSeq(cs, m + 1, n), tail)
          BY <1>1, <1>2, CutBetween
        <4> HIDE DEF both, tail
        <4>2. ~(index # None /\ AppendOnly(both))
          BY <2>2, <4>1, KindsOfParts
        <4>3. SubSeq(log, 1, m) = SubSeq(cs, 1, m)
          BY <1>4
        <4>4. Recall(index, cs, cp, base, m) = Replay(base, SubSeq(cs, 1, m))
          BY <1>6, <4>2 DEF Recall, both
        <4>5. Recall(new, log, kept, base, m) = Replay(base, SubSeq(log, 1, m))
          BY <3>1 DEF Recall
        <4> QED
          BY <4>3, <4>4, <4>5
      <3>3. Shown(new, base, log) = Replay(base, log)
        BY <3>1 DEF Shown
      <3>4. Recall(index, cs, cp, base, n) = Replay(base, log)
        BY <1>2, <3>2 DEF log
      <3> QED
        BY <3>2, <3>3, <3>4 DEF log
    <2> QED
      BY <2>1, <2>2
  <1> QED
    BY <1>5, <1>6

LEMMA RestorePast ==
  ASSUME NEW index, NEW cs, NEW cp, NEW base, Sound(index, cs, cp, base),
         NEW n \in 0 .. Len(cs), NEW new, NEW kept, RestoresTo(index, cs, cp, n, new, kept)
  PROVE  Past(new, SubSeq(cs, 1, n), kept, base)
PROOF
  <1>1. cs \in Seq(Change) /\ n \in 0 .. n
    BY DEF Sound
  <1>2. Len(SubSeq(cs, 1, n)) = n
    BY <1>1, CutParts
  <1>3. Recall(new, SubSeq(cs, 1, n), kept, base, n) = Recall(index, cs, cp, base, n)
    BY <1>1, RestoreRecall
  <1>4. Shown(new, base, SubSeq(cs, 1, n)) = Recall(index, cs, cp, base, n)
    BY RestoreRecall
  <1> QED
    BY <1>2, <1>3, <1>4 DEF Past

(* The same, with what the two logs say of each other left to Sound. *)
Plain(x, value) ==
  /\ value \in Vector \cup {None} /\ x.vector \in {value, None}
  /\ IF x.op = "insert" THEN value # None ELSE value = None

LEMMA LastTruth ==
  ASSUME NEW base, NEW cs \in Seq(Change), NEW x \in Change, Truthful(base, Append(cs, x))
  PROVE  x.id \in KeysAfter(base, cs) <=> (x.op = "delete" \/ x.replaces)
PROOF
  <1>1. PICK mid : Keys(mid) = KeysAfter(base, cs)
    BY KeysAfterIds, SomeRows
  <1>2. Truthful(mid, <<x>>)
    BY <1>1, AppendParts, TruthfulJoin
  <1> QED
    BY <1>1, <1>2, OneChangeKeys

LEMMA LoggedRecall ==
  ASSUME NEW index, NEW cs, NEW cp, NEW base, Sound(index, cs, cp, base),
         NEW x \in Change, NEW value, Plain(x, value), NEW new,
         new = IF index = None THEN None ELSE [index EXCEPT ![x.id] = value],
         Sound(new, Append(cs, x), cp, base)
  PROVE  /\ \A n \in 0 .. Len(cs) :
              Recall(new, Append(cs, x), cp, base, n) = Recall(index, cs, cp, base, n)
         /\ Past(index, cs, cp, base) => Past(new, Append(cs, x), cp, base)
PROOF
  <1> DEFINE more == Append(cs, x)
  <1>1. /\ cs \in Seq(Change) /\ Truthful(base, more) /\ index \in Rows \cup {None}
        /\ Len(more) = Len(cs) + 1
    BY DEF Sound
  <1>2. x.id \in KeysAfter(base, cs) <=> (x.op = "delete" \/ x.replaces)
    BY <1>1, LastTruth
  <1>3. (x.op = "insert" => x.vector # None) => x.vector = value
    BY DEF Plain
  <1>4. /\ AppendOnly(more) <=> AppendOnly(cs) /\ x.op = "insert" /\ ~x.replaces
        /\ Encodable(more) <=> Encodable(cs) /\ (x.op = "insert" => x.vector # None)
    BY <1>1, AppendParts, KindsOfParts, OneChangeKinds
  <1>5. index = None => x.vector = value
    BY <1>3, <1>4 DEF Sound
  <1>6. ASSUME cp # None PROVE x.vector = value
    <2> DEFINE p == cp.position
               rest == SubSeq(cs, p + 1, Len(cs))
    <2>1. p \in 0 .. Len(cs)
      BY <1>6 DEF Sound
    <2>2. SubSeq(more, p + 1, Len(more)) = Append(rest, x) /\ rest \in Seq(Change)
      BY <1>1, <2>1, AppendTail, CutParts DEF Parts
    <2>3. Encodable(SubSeq(more, p + 1, Len(more)))
      BY <1>6 DEF Sound
    <2> HIDE DEF more, rest
    <2>4. Encodable(Append(rest, x))
      BY <2>2, <2>3
    <2>5. x.op = "insert" => x.vector # None
      BY <2>2, <2>4, EncodableAppend
    <2> QED
      BY <1>3, <2>5
  <1>7. cp = None /\ index # None =>
          \/ AppendOnly(cs) /\ x.op = "insert" /\ ~x.replaces
          \/ Encodable(cs) /\ (x.op = "insert" => x.vector # None)
    <2>1. index # None => new # None
      BY <1>1, NoneAssumption DEF Rows, Plain
    <2> QED
      BY <1>4, <2>1 DEF Sound
  <1>8. value \in Vector \cup {None}
    BY DEF Plain
  <1>9. cp # None \/ index = None => x.vector = value
    BY <1>5, <1>6
  <1> QED
    BY <1>2, <1>7, <1>8, <1>9, ChangeRecall
-----------------------------------------------------------------------------
(* The State of a transaction. *)

SeenBy(st, s) == Shown(st.index, Content(s), Unsynced(st))
BackAt(st, base, n) == Recall(st.index, st.txn.changes, st.txn.checkpoint, base, n)
NotBehind(st, base) == Past(st.index, st.txn.changes, st.txn.checkpoint, base)

(* new would go back to where st would. *)
SameBack(new, st, base) ==
  /\ \A n \in 0 .. Len(st.txn.changes) : BackAt(new, base, n) = BackAt(st, base, n)
  /\ NotBehind(st, base) => NotBehind(new, base)

LEMMA StateIsSound ==
  ASSUME NEW st \in State, NEW s \in Storage, Working(st, s), Retains(st),
         NEW base, base = Content(s), Recoverable(st, base)
  PROVE  /\ Sound(st.index, st.txn.changes, st.txn.checkpoint, base)
         /\ Unsynced(st) = st.txn.changes
PROOF
  <1>1. st.txn \in Txn /\ st.txn.synced = 0
    BY DEF Working, Recoverable
  <1>2. Unsynced(st) = st.txn.changes
    BY <1>1, UnsyncedAll
  <1>3. /\ st.txn.changes \in Seq(Change) /\ st.txn.checkpoint \in Checkpoint \cup {None}
        /\ st.txn.checkpoint # None =>
             st.txn.checkpoint.position \in Nat /\ st.txn.checkpoint.payload \in Rows
    BY <1>1, TxnFields
  <1>4. base \in Rows /\ st.index \in Rows \cup {None}
    BY ContentType DEF State
  <1>5. Truthful(base, st.txn.changes)
    BY <1>2 DEF Working
  <1>6. IF st.index = None THEN Encodable(st.txn.changes)
                           ELSE Exact(st.index, base, st.txn.changes)
    BY <1>2 DEF Working, Retains
  <1>7. st.txn.checkpoint # None => st.txn.checkpoint.position \in 0 .. Len(st.txn.changes)
    BY <1>3 DEF Recoverable
  <1> QED
    BY <1>2, <1>3, <1>4, <1>5, <1>6, <1>7 DEF Sound, Recoverable

(* What a search in a transaction returns. *)
LEMMA SeenInTxn ==
  ASSUME NEW st \in State, NEW s \in Storage, Counted(st, s)
  PROVE  /\ SeenRows(st, s) = SeenBy(st, s) /\ SeenBy(st, s) \in Rows
         /\ SeenBy(EnsureLoaded(st, s), s) = SeenBy(st, s)
         /\ EnsureLoaded(st, s).index = SeenBy(st, s)
PROOF
  <1> DEFINE loaded == EnsureLoaded(st, s)
  <1>1. loaded \in State /\ loaded.index # None /\ loaded.txn = st.txn
    BY CountedLoads
  <1>2. st.txn # None
    BY TxnIsThere DEF Counted, Working
  <1>3. Refresh(st, s) = Result(TRUE, st)
    BY <1>2, RefreshGeneration
  <1>4. Searched(st, s) = LoadResult(loaded)
    BY <1>3 DEF Searched, SearchedAfter, Result
  <1>5. Unsynced(loaded) = Unsynced(st)
    BY <1>1 DEF Unsynced
  <1>6. loaded.index = Shown(st.index, Content(s), Unsynced(st))
    <2>1. CASE st.index # None
      BY <2>1 DEF EnsureLoaded, Shown
    <2>2. CASE st.index = None
      <3>1. loaded.index = IF ReplayOK(Content(s), Unsynced(st))
                           THEN Replay(Content(s), Unsynced(st)) ELSE None
        BY <1>1, <2>2, LoadedParts
      <3> QED
        BY <1>1, <2>2, <3>1 DEF Shown
    <2> QED
      BY <2>1, <2>2
  <1> HIDE DEF loaded
  <1>7. (loaded.index # None) = TRUE
    BY <1>1
  <1>8. Searched(st, s) = [ok |-> TRUE, st |-> loaded]
    BY <1>4, <1>7 DEF LoadResult, Result
  <1>9. SeenRows(st, s) = loaded.index
    BY <1>8 DEF SeenRows, FoundRows
  <1>10. loaded.index \in Rows
    BY <1>1 DEF State
  <1>11. SeenBy(loaded, s) = loaded.index
    BY <1>1 DEF SeenBy, Shown
  <1> QED
    BY <1>6, <1>9, <1>10, <1>11 DEF loaded, SeenBy

LEMMA SameBackSelf ==
  ASSUME NEW st, NEW new, new.index = st.index, new.txn.changes = st.txn.changes,
         new.txn.checkpoint = st.txn.checkpoint, NEW base
  PROVE  SameBack(new, st, base)
PROOF
  BY DEF SameBack, BackAt, NotBehind

(* A load, in a read or before a write. *)
LEMMA LoadShows ==
  ASSUME NEW st \in State, NEW s \in Storage, Counted(st, s),
         NEW new \in {st, EnsureLoaded(st, s)}
  PROVE  /\ SeenBy(new, s) = SeenBy(st, s)
         /\ Recoverable(st, Content(s)) => SameBack(new, st, Content(s))
PROOF
  <1> DEFINE base == Content(s)
  <1>1. SeenBy(new, s) = SeenBy(st, s)
    BY SeenInTxn
  <1>2. CASE new = st
    BY <1>1, <1>2, SameBackSelf
  <1>3. CASE st.index # None
    <2>1. new = st
      BY <1>3 DEF EnsureLoaded
    <2> QED
      BY <1>1, <2>1, SameBackSelf
  <1>4. CASE st.index = None /\ new = EnsureLoaded(st, s)
    <2>1. /\ new \in State /\ new.index # None /\ new.txn = st.txn /\ Working(new, s)
          /\ Working(st, s) /\ Retains(st)
      BY <1>4, CountedLoads DEF Counted
    <2>2. SUFFICES ASSUME Recoverable(st, base) PROVE SameBack(new, st, base)
      BY <1>1
    <2>3. Sound(None, st.txn.changes, st.txn.checkpoint, base)
          /\ Unsynced(st) = st.txn.changes
      BY <1>4, <2>1, <2>2, StateIsSound
    <2>4. Unsynced(new) = st.txn.changes
      BY <2>1, <2>3 DEF Unsynced
    <2>5. Exact(new.index, base, st.txn.changes)
      BY <2>1, <2>4 DEF Working
    <2>6. /\ Shown(new.index, base, st.txn.changes) = Shown(None, base, st.txn.changes)
          /\ \A n \in 0 .. Len(st.txn.changes) :
               Recall(new.index, st.txn.changes, st.txn.checkpoint, base, n)
                 = Recall(None, st.txn.changes, st.txn.checkpoint, base, n)
      BY <2>3, <2>5, LoadRecall
    <2>7. Len(st.txn.changes) \in 0 .. Len(st.txn.changes)
      BY <2>3 DEF Sound
    <2> HIDE DEF base
    <2> QED
      BY <1>4, <2>1, <2>6, <2>7 DEF SameBack, BackAt, NotBehind, Past
  <1> QED
    BY <1>2, <1>3, <1>4

(* ensure_destructive_checkpoint. *)
LEMMA CheckpointShows ==
  ASSUME NEW st \in State, NEW s \in Storage, Working(st, s), Retains(st)
  PROVE  LET open == EnsureCheckpoint(st)
         IN  /\ SeenBy(open, s) = SeenBy(st, s)
             /\ Recoverable(st, Content(s)) => SameBack(open, st, Content(s))
PROOF
  <1> DEFINE open == EnsureCheckpoint(st)
             base == Content(s)
             cs == st.txn.changes
             image == [position |-> Len(cs), payload |-> st.index]
  <1>1. open.index = st.index /\ open.txn.changes = cs /\ Unsynced(open) = Unsynced(st)
    BY CheckpointWorks
  <1>2. SeenBy(open, s) = SeenBy(st, s)
    BY <1>1 DEF SeenBy
  <1>3. st.txn \in Txn /\ st.txn # None /\ cs \in Seq(Change)
    BY TxnIsThere, TxnFields DEF Working
  <1>4. EnsureTxn(st) = st
    BY <1>3 DEF EnsureTxn
  <1>5. \/ open = st
        \/ /\ open = [st EXCEPT !.txn.checkpoint = image]
           /\ st.txn.checkpoint = None /\ st.index # None /\ ~Encodable(cs)
    BY <1>4 DEF EnsureCheckpoint, Encodable
  <1>6. CASE open = st
    BY <1>2, <1>6, SameBackSelf
  <1>7. CASE /\ open = [st EXCEPT !.txn.checkpoint = image]
             /\ st.txn.checkpoint = None /\ st.index # None /\ ~Encodable(cs)
    <2>1. SUFFICES ASSUME Recoverable(st, base) PROVE SameBack(open, st, base)
      BY <1>2
    <2>2. Sound(st.index, cs, None, base)
      BY <1>7, <2>1, StateIsSound
    <2>3. /\ Past(st.index, cs, image, base)
          /\ \A n \in 0 .. Len(cs) :
               Recall(st.index, cs, image, base, n) = Recall(st.index, cs, None, base, n)
      BY <1>7, <2>2, ImageRecall
    <2> HIDE DEF image
    <2>4. open.txn.checkpoint = image
      <3>1. open.txn = [st.txn EXCEPT !.checkpoint = image]
        BY <1>7 DEF State
      <3> QED
        BY <1>3, <3>1 DEF Txn
    <2> HIDE DEF open, base
    <2> QED
      BY <1>1, <1>7, <2>3, <2>4 DEF SameBack, BackAt, NotBehind
  <1> QED
    BY <1>5, <1>6, <1>7

LEMMA SameBackThen ==
  ASSUME NEW base, NEW st, NEW mid, NEW new, SameBack(mid, st, base), SameBack(new, mid, base),
         Len(st.txn.changes) \in Nat, Len(mid.txn.changes) \in Nat,
         Len(st.txn.changes) <= Len(mid.txn.changes)
  PROVE  SameBack(new, st, base)
PROOF
  <1>1. ASSUME NEW n \in 0 .. Len(st.txn.changes)
        PROVE  BackAt(new, base, n) = BackAt(st, base, n)
    <2>1. n \in 0 .. Len(mid.txn.changes)
      OBVIOUS
    <2> QED
      BY <2>1 DEF SameBack
  <1> QED
    BY <1>1 DEF SameBack
-----------------------------------------------------------------------------
(* xUpdate. *)

(* A change that was logged and, where there is an index, made in it.      *)
LEMMA LogShows ==
  ASSUME NEW open \in State, NEW s \in Storage, NEW t \in Storage, Content(t) = Content(s),
         Working(open, s), Retains(open),
         NEW x \in Change, NEW value, Plain(x, value),
         NEW new \in State, new = Logged(SetId(open, x.id, value), x),
         Working(new, t), Retains(new)
  PROVE  /\ SeenBy(new, t) = [SeenBy(open, s) EXCEPT ![x.id] = value]
         /\ Recoverable(open, Content(s)) /\ Recoverable(new, Content(s)) =>
              SameBack(new, open, Content(s))
PROOF
  <1> DEFINE base == Content(s)
             cs == open.txn.changes
             k == open.txn.synced
             us == Unsynced(open)
  <1>1. open.txn \in Txn /\ x.id \in Rowid /\ value \in Vector \cup {None}
    BY DEF Working, Plain, Change
  <1>2. WithChange(new, open, x.id, value, x)
    BY <1>1, LoggedFields
  <1>3. cs \in Seq(Change) /\ k \in 0 .. Len(cs) /\ SubSeq(cs, k + 1, Len(cs)) \in Seq(Change)
    BY <1>1, TxnFields DEF Working
  <1>4. Len(Append(cs, x)) = Len(cs) + 1
    BY <1>3
  <1>5. us = SubSeq(cs, k + 1, Len(cs))
        /\ Unsynced(new) = SubSeq(Append(cs, x), k + 1, Len(Append(cs, x)))
    BY <1>1, <1>2, TxnIsThere DEF Unsynced, WithChange
  <1>6. /\ new.index = IF open.index = None THEN None ELSE [open.index EXCEPT ![x.id] = value]
        /\ open.index # None => new.index # None
    BY <1>2 DEF WithChange
  <1>7. new.txn.changes = Append(cs, x) /\ new.txn.checkpoint = open.txn.checkpoint
    BY <1>2 DEF WithChange
  <1> HIDE DEF cs, k, us
  <1>8. Unsynced(new) = Append(us, x) /\ us \in Seq(Change)
    BY <1>3, <1>4, <1>5, AppendTail
  <1>9. base \in Rows
    BY ContentType
  <1>10. open.index = None => x.vector = value
    <2>1. SUFFICES ASSUME open.index = None PROVE x.vector = value
      OBVIOUS
    <2>2. Encodable(Append(us, x))
      BY <1>6, <1>8, <2>1 DEF Retains
    <2>3. x.op = "insert" => x.vector # None
      BY <1>8, <2>2, EncodableAppend
    <2> QED
      BY <2>3 DEF Plain
  <1>11. SeenBy(new, t) = [SeenBy(open, s) EXCEPT ![x.id] = value]
    <2>1. SeenBy(new, t) = Shown(new.index, base, Append(us, x))
      BY <1>8 DEF SeenBy
    <2>2. SeenBy(open, s) = Shown(open.index, base, us)
      BY DEF SeenBy, us
    <2>3. Shown(new.index, base, Append(us, x)) =
            [Shown(open.index, base, us) EXCEPT ![x.id] = value]
      <3>1. CASE open.index = None
        BY <1>6, <1>8, <1>9, <1>10, <3>1, ReplayOneMore DEF Shown
      <3>2. CASE open.index # None
        BY <1>6, <3>2 DEF Shown
      <3> QED
        BY <3>1, <3>2
    <2> QED
      BY <2>1, <2>2, <2>3
  <1>12. ASSUME Recoverable(open, base), Recoverable(new, base)
         PROVE  SameBack(new, open, base)
    <2> DEFINE cp == open.txn.checkpoint
    <2>1. Sound(open.index, cs, cp, base)
      BY <1>12, StateIsSound DEF cs
    <2>2. Sound(new.index, new.txn.changes, new.txn.checkpoint, base)
      BY <1>12, StateIsSound
    <2>3. Sound(new.index, Append(cs, x), cp, base)
      BY <1>7, <2>2
    <2> HIDE DEF cp, base
    <2>4. new.index = IF open.index = None THEN None ELSE [open.index EXCEPT ![x.id] = value]
      BY <1>6
    <2>5. /\ \A n \in 0 .. Len(cs) :
               Recall(new.index, Append(cs, x), cp, base, n) = Recall(open.index, cs, cp, base, n)
          /\ Past(open.index, cs, cp, base) => Past(new.index, Append(cs, x), cp, base)
      BY <2>1, <2>3, <2>4, LoggedRecall
    <2> QED
      BY <1>7, <2>5 DEF SameBack, BackAt, NotBehind, cs, cp
  <1> QED
    BY <1>11, <1>12

(* What a write shows: one row changed or, if it fails, none; and nothing  *)
(* else in what the marks would go back to.                                *)
WriteShows(result, st, s) ==
  /\ \/ SeenBy(result.st, result.s) = SeenBy(st, s)
     \/ \E id \in Rowid, value \in Vector \cup {None} :
          SeenBy(result.st, result.s) = [SeenBy(st, s) EXCEPT ![id] = value]
  /\ Recoverable(st, Content(s)) => SameBack(result.st, st, Content(s))

(* The State a write leaves is the loaded one, or that with one change.    *)
WriteForm(new, st) ==
  \/ new = st
  \/ \E open \in {st, EnsureCheckpoint(st)}, x \in Change, value \in Vector \cup {None} :
       Plain(x, value) /\ new = Logged(SetId(open, x.id, value), x)

LEMMA FormShows ==
  ASSUME NEW st0 \in State, NEW s \in Storage, Counted(st0, s), NEW result \in WriteResult,
         WriteKeeps(result, st0, s), WriteCounts(result, st0),
         NEW st \in {st0, EnsureLoaded(st0, s)}, WriteForm(result.st, st)
  PROVE  WriteShows(result, st0, s)
PROOF
  <1> DEFINE base == Content(s)
             new == result.st
             t == result.s
  <1>1. /\ new \in State /\ t \in Storage /\ Working(new, t) /\ SameData(t, s) /\ Retains(new)
        /\ Recoverable(st0, base) => Recoverable(new, base)
    BY DEF WriteKeeps, WriteCounts, WriteResult
  <1>2. Content(t) = base
    BY <1>1, SameDataCounts DEF Counted
  <1>3. /\ st \in State /\ Working(st, s) /\ Retains(st) /\ st.txn = st0.txn
        /\ Recoverable(st0, base) => Recoverable(st, base)
    BY CountedLoads, LoadWorks DEF Counted
  <1>4. /\ SeenBy(st, s) = SeenBy(st0, s)
        /\ Recoverable(st0, base) => SameBack(st, st0, base)
    BY LoadShows
  <1>5. st.txn \in Txn /\ Len(st.txn.changes) \in Nat
    BY <1>3, TxnFields DEF Working
  <1>6. CASE new = st
    <2>1. SeenBy(new, t) = SeenBy(st, s)
      BY <1>2, <1>6 DEF SeenBy
    <2> QED
      BY <1>4, <1>6, <2>1 DEF WriteShows
  <1>7. CASE new # st
    <2>1. PICK open \in {st, EnsureCheckpoint(st)}, x \in Change, value \in Vector \cup {None} :
            Plain(x, value) /\ new = Logged(SetId(open, x.id, value), x)
      BY <1>7 DEF WriteForm
    <2>2. /\ EnsureCheckpoint(st) \in State /\ Working(EnsureCheckpoint(st), s)
          /\ EnsureCheckpoint(st).txn.changes = st.txn.changes
          /\ Recoverable(st, base) => Recoverable(EnsureCheckpoint(st), base)
          /\ SeenBy(EnsureCheckpoint(st), s) = SeenBy(st, s)
          /\ Recoverable(st, base) => SameBack(EnsureCheckpoint(st), st, base)
      BY <1>3, CheckpointWorks, CheckpointShows
    <2>3. Retains(EnsureCheckpoint(st))
      <3>1. /\ KeepsCount(EnsureCheckpoint(st), st) /\ EnsureCheckpoint(st).index = st.index
            /\ Unsynced(EnsureCheckpoint(st)) = Unsynced(st)
        BY <1>3, <1>5, CheckpointWorks, CheckpointCount
      <3> QED
        BY <1>3, <3>1 DEF Retains, KeepsCount
    <2>4. SameBack(st, st, base)
      BY SameBackSelf
    <2>5. /\ open \in State /\ Working(open, s) /\ Retains(open)
          /\ open.txn.changes = st.txn.changes
          /\ Recoverable(st, base) => Recoverable(open, base)
          /\ SeenBy(open, s) = SeenBy(st, s)
          /\ Recoverable(st, base) => SameBack(open, st, base)
      BY <1>3, <2>1, <2>2, <2>3, <2>4
    <2> HIDE DEF new, t
    <2>6. /\ SeenBy(new, t) = [SeenBy(open, s) EXCEPT ![x.id] = value]
          /\ Recoverable(open, base) /\ Recoverable(new, base) => SameBack(new, open, base)
      BY <1>1, <1>2, <2>1, <2>5, LogShows
    <2>7. Recoverable(st0, base) => SameBack(new, st0, base)
      <3>1. Len(open.txn.changes) \in Nat /\ Len(st0.txn.changes) \in Nat
            /\ Len(st0.txn.changes) = Len(open.txn.changes)
            /\ Len(st.txn.changes) = Len(st0.txn.changes)
        BY <1>3, <1>5, <2>5
      <3>2. SUFFICES ASSUME Recoverable(st0, base) PROVE SameBack(new, st0, base)
        OBVIOUS
      <3>3. SameBack(new, open, base) /\ SameBack(open, st, base) /\ SameBack(st, st0, base)
        BY <1>1, <1>3, <1>4, <2>5, <2>6, <3>2
      <3>4. SameBack(open, st0, base)
        BY <3>1, <3>3, SameBackThen
      <3> QED
        BY <3>1, <3>3, <3>4, SameBackThen
    <2>9. x.id \in Rowid
      BY DEF Change
    <2> QED
      BY <1>4, <2>5, <2>6, <2>7, <2>9 DEF WriteShows, new, t
  <1> QED
    BY <1>6, <1>7

LEMMA PreparedForm ==
  ASSUME NEW st \in State, NEW s \in Storage, st.txn # None
  PROVE  Prepare(st, s).st \in {st, EnsureLoaded(st, s)}
PROOF
  <1>1. Refresh(st, s) = Result(TRUE, st)
    BY RefreshGeneration
  <1> QED
    BY <1>1 DEF Prepare, PreparedAfter, LoadResult, Result

LEMMA InsertShows ==
  ASSUME NEW st0 \in State, NEW s \in Storage, Counted(st0, s),
         NEW id \in Rowid, NEW vector \in Vector, NEW replace \in BOOLEAN
  PROVE  WriteShows(Insert(st0, s, id, vector, replace), st0, s)
PROOF
  <1> DEFINE ready == Prepare(st0, s)
             st == ready.st
             t == Claimed(st, s, id)
             exists == Exists(st, s, id)
             open == IF st.index # None /\ exists THEN EnsureCheckpoint(st) ELSE EnsureTxn(st)
             kept == IF RetainsVector(open, exists) THEN vector ELSE None
             x == InsertOf(id, kept, exists)
             result == Insert(st0, s, id, vector, replace)
  <1>1. st \in State /\ st.txn = st0.txn /\ st0.txn # None /\ st0.layout = s.layout
    BY PreparedCounts, TxnIsThere DEF Counted, Working, Sized
  <1>2. st \in {st0, EnsureLoaded(st0, s)}
    BY <1>1, PreparedForm
  <1>3. result \in WriteResult /\ WriteKeeps(result, st0, s) /\ WriteCounts(result, st0)
    BY <1>1, InsertType, InsertWorks, InsertCounts DEF Counted
  <1>4. result \in {Written(FALSE, st, s), Written(FALSE, st, t),
                    Written(TRUE, Inserted(open, id, vector, exists), t)}
    BY DEF Insert, InsertAfter, InsertPrepared
  <1> HIDE DEF ready, st, result, t
  <1>5. result.st = st \/ result.st = Inserted(open, id, vector, exists)
    BY <1>4 DEF Written
  <1>6. open \in {st, EnsureCheckpoint(st)}
    BY <1>1 DEF EnsureTxn
  <1>7. Inserted(open, id, vector, exists) = Logged(SetId(open, id, vector), x)
    BY DEF Inserted
  <1>8. exists \in BOOLEAN
    BY <1>1, ExistsType
  <1> HIDE DEF open, exists
  <1>9. x \in Change /\ x.id = id /\ Plain(x, vector)
    BY <1>8, NoneAssumption DEF InsertOf, Change, Plain
  <1> HIDE DEF x
  <1>10. WriteForm(result.st, st)
    BY <1>5, <1>6, <1>7, <1>9 DEF WriteForm
  <1> QED
    BY <1>2, <1>3, <1>10, FormShows DEF result

LEMMA DeleteShows ==
  ASSUME NEW st0 \in State, NEW s \in Storage, Counted(st0, s), NEW id \in Rowid
  PROVE  WriteShows(Delete(st0, s, id), st0, s)
PROOF
  <1> DEFINE ready == Prepare(st0, s)
             st == ready.st
             t == Unclaimed(st, s, id)
             open == IF st.index = None THEN st ELSE EnsureCheckpoint(st)
             x == DeleteOf(id)
             result == Delete(st0, s, id)
  <1>1. st \in State /\ st.txn = st0.txn /\ st0.txn # None /\ st0.layout = s.layout
    BY PreparedCounts, TxnIsThere DEF Counted, Working, Sized
  <1>2. st \in {st0, EnsureLoaded(st0, s)}
    BY <1>1, PreparedForm
  <1>3. result \in WriteResult /\ WriteKeeps(result, st0, s) /\ WriteCounts(result, st0)
    BY <1>1, DeleteType, DeleteWorks, DeleteCounts DEF Counted
  <1>4. result \in {Written(FALSE, st, s), Written(FALSE, st, t),
                    Written(TRUE, Logged(IF st.index = None THEN st
                                         ELSE SetId(EnsureCheckpoint(st), id, None), x), t)}
    BY DEF Delete, DeleteAfter, DeletePrepared
  <1> HIDE DEF ready, st, result, t
  <1>5. (IF st.index = None THEN st ELSE SetId(EnsureCheckpoint(st), id, None))
          = SetId(open, id, None)
    BY DEF SetId
  <1>6. result.st = st \/ result.st = Logged(SetId(open, id, None), x)
    BY <1>4, <1>5 DEF Written
  <1>7. open \in {st, EnsureCheckpoint(st)}
    OBVIOUS
  <1> HIDE DEF open
  <1>8. x \in Change /\ x.id = id /\ Plain(x, None)
    BY DEF DeleteOf, Change, Plain
  <1> HIDE DEF x
  <1>9. WriteForm(result.st, st)
    BY <1>6, <1>7, <1>8 DEF WriteForm
  <1> QED
    BY <1>2, <1>3, <1>9, FormShows DEF result
-----------------------------------------------------------------------------
(* The callbacks that leave the index and the log alone. *)

LEMMA UnsyncedSame ==
  ASSUME NEW new, NEW st, new.txn \in Txn, st.txn \in Txn,
         new.txn.changes = st.txn.changes, new.txn.synced = st.txn.synced
  PROVE  Unsynced(new) = Unsynced(st)
PROOF
  <1>1. new.txn # None /\ st.txn # None
    BY TxnIsThere
  <1> QED
    BY <1>1 DEF Unsynced

(* A State with other savepoints. *)
LEMMA MarksShow ==
  ASSUME NEW st \in State, st.txn \in Txn,
         NEW savepoints \in [Mark -> Nat \cup {None}], NEW new,
         new = [st EXCEPT !.txn.savepoints = savepoints]
  PROVE  /\ \A s : SeenBy(new, s) = SeenBy(st, s)
         /\ \A base : SameBack(new, st, base)
         /\ new.txn.changes = st.txn.changes
PROOF
  <1>1. new.txn = [st.txn EXCEPT !.savepoints = savepoints] /\ new.index = st.index
    BY DEF State
  <1>2. /\ new.txn.changes = st.txn.changes /\ new.txn.checkpoint = st.txn.checkpoint
        /\ new.txn.synced = st.txn.synced /\ new.txn \in Txn
    BY <1>1 DEF Txn
  <1>3. Unsynced(new) = Unsynced(st)
    BY <1>2, UnsyncedSame
  <1> QED
    BY <1>1, <1>2, <1>3, SameBackSelf DEF SeenBy

LEMMA SavepointShows ==
  ASSUME NEW st \in State, st.txn \in Txn, NEW j \in Mark
  PROVE  /\ \A s : SeenBy(Savepoint(st, j), s) = SeenBy(st, s)
         /\ \A base : SameBack(Savepoint(st, j), st, base)
PROOF
  <1> DEFINE savepoints == [Forget(st.txn.savepoints, Below(j)) EXCEPT ![j] = Len(st.txn.changes)]
  <1>1. EnsureTxn(st) = st
    BY TxnIsThere DEF EnsureTxn
  <1>2. Savepoint(st, j) = [st EXCEPT !.txn.savepoints = savepoints]
    BY <1>1 DEF Savepoint
  <1>3. savepoints \in [Mark -> Nat \cup {None}]
    <2>1. Forget(st.txn.savepoints, Below(j)) \in [Mark -> Nat \cup {None}]
      BY TxnFields, ForgetType
    <2>2. Len(st.txn.changes) \in Nat
      BY TxnFields
    <2> QED
      BY <2>1, <2>2
  <1> HIDE DEF savepoints
  <1> QED
    BY <1>2, <1>3, MarksShow

LEMMA ForgetShows ==
  ASSUME NEW st \in State, st.txn \in Txn, NEW keep, NEW new,
         new = [st EXCEPT !.txn.savepoints = Forget(@, keep)]
  PROVE  /\ \A s : SeenBy(new, s) = SeenBy(st, s)
         /\ \A base : SameBack(new, st, base)
         /\ new.txn.changes = st.txn.changes
PROOF
  <1>1. Forget(st.txn.savepoints, keep) \in [Mark -> Nat \cup {None}]
    BY TxnFields, ForgetType
  <1>2. new = [st EXCEPT !.txn.savepoints = Forget(st.txn.savepoints, keep)]
    OBVIOUS
  <1> QED
    BY <1>1, <1>2, MarksShow

LEMMA ReleaseShows ==
  ASSUME NEW st \in State, st.txn \in Txn, NEW j
  PROVE  /\ \A s : SeenBy(Release(st, j), s) = SeenBy(st, s)
         /\ \A base : SameBack(Release(st, j), st, base)
         /\ Release(st, j).txn.changes = st.txn.changes
PROOF
  <1>1. Release(st, j) = [st EXCEPT !.txn.savepoints = Forget(@, Below(j))]
    BY TxnIsThere DEF Release
  <1> QED
    BY <1>1, ForgetShows
-----------------------------------------------------------------------------
(* xRollbackTo. *)

(* What is seen at length n of the log, and that going back further still  *)
(* leads where it did.                                                     *)
ShowsBack(new, st, base, n) ==
  /\ new.txn \in Txn /\ new.txn.changes = SubSeq(st.txn.changes, 1, n)
  /\ Shown(new.index, base, new.txn.changes) = BackAt(st, base, n)
  /\ \A m \in 0 .. n : BackAt(new, base, m) = BackAt(st, base, m)
  /\ NotBehind(new, base)

LEMMA TruncatedShows ==
  ASSUME NEW st \in State, NEW s \in Storage, Working(st, s), Retains(st),
         NEW base, base = Content(s), Recoverable(st, base),
         NEW n \in 0 .. Len(st.txn.changes),
         NEW index \in Rows \cup {None}, NEW cp \in Checkpoint \cup {None},
         RestoresTo(st.index, st.txn.changes, st.txn.checkpoint, n, index, cp)
  PROVE  ShowsBack(Truncated(st, n, index, cp).st, st, base, n)
PROOF
  <1> DEFINE new == Truncated(st, n, index, cp).st
             cs == st.txn.changes
  <1>1. st.txn \in Txn /\ cs \in Seq(Change) /\ Len(cs) \in Nat
    BY TxnFields DEF Working
  <1>2. new.txn \in Txn
    <2>1. /\ n \in Nat /\ n <= Len(cs) /\ st.txn # None
      BY <1>1, TxnIsThere
    <2>2. Truncated(st, n, index, cp) \in KeptResult
      BY <2>1, TruncatedType
    <2>3. Truncated(st, n, index, cp).ok = TRUE
      BY DEF Truncated, Result
    <2> QED
      BY <2>2, <2>3 DEF KeptResult
  <1>3. /\ new.index = index
        /\ new.txn = [st.txn EXCEPT !.changes = SubSeq(@, 1, n), !.checkpoint = cp,
                                    !.synced = IF @ < n THEN @ ELSE n]
    BY DEF Truncated, Result, State
  <1> HIDE DEF new
  <1>4. new.txn.changes = SubSeq(cs, 1, n) /\ new.txn.checkpoint = cp
    BY <1>1, <1>3 DEF Txn
  <1>5. Sound(st.index, cs, st.txn.checkpoint, base)
    BY StateIsSound
  <1> HIDE DEF cs
  <1>6. /\ Shown(index, base, SubSeq(cs, 1, n)) = Recall(st.index, cs, st.txn.checkpoint, base, n)
        /\ \A m \in 0 .. n : Recall(index, SubSeq(cs, 1, n), cp, base, m)
                               = Recall(st.index, cs, st.txn.checkpoint, base, m)
        /\ Past(index, SubSeq(cs, 1, n), cp, base)
    BY <1>5, RestoreRecall, RestorePast DEF cs
  <1> QED
    BY <1>2, <1>3, <1>4, <1>6 DEF ShowsBack, BackAt, NotBehind, new, cs

(* restore_to, by whichever way it goes. *)
LEMMA RestoreShows ==
  ASSUME NEW st \in State, NEW s \in Storage, Working(st, s), Retains(st),
         NEW base, base = Content(s), Recoverable(st, base),
         NEW n \in 0 .. Len(st.txn.changes), RestoreTo(st, n).ok
  PROVE  ShowsBack(RestoreTo(st, n).st, st, base, n)
PROOF
  <1> DEFINE cs == st.txn.changes
             tail == SubSeq(cs, n + 1, Len(cs))
             cp == st.txn.checkpoint
  <1>1. /\ st.txn \in Txn /\ cs \in Seq(Change) /\ Len(cs) \in Nat
        /\ st.txn.synced = 0 /\ st.txn # None
        /\ cp \in Checkpoint \cup {None} /\ st.index \in Rows \cup {None}
    BY TxnIsThere, TxnFields DEF Working, Recoverable, State
  <1>2. RestoreTo(st, n) = IF cp # None THEN RestoreFromCheckpoint(st, n) ELSE RestoreTail(st, n)
    <2>1. Changes(st) = cs
      BY <1>1 DEF Changes
    <2>2. ~(n > Len(Changes(st)))
      BY <1>1, <2>1
    <2> QED
      BY <1>1, <2>2 DEF RestoreTo
  <1>3. ASSUME NEW index \in Rows \cup {None}, NEW kept \in Checkpoint \cup {None},
               RestoresTo(st.index, cs, cp, n, index, kept),
               RestoreTo(st, n) = Truncated(st, n, index, kept)
        PROVE  ShowsBack(RestoreTo(st, n).st, st, base, n)
    BY <1>3, TruncatedShows
  <1>4. CASE cp # None
    <2> DEFINE undo == SubSeq(cs, n + 1, cp.position)
               redo == SubSeq(cs, cp.position + 1, n)
    <2>1. cp.payload \in Rows
      BY <1>1, <1>4, TxnFields
    <2>2. UndoInserts(cp.payload, undo) \in Rows
      BY <2>1, UndoInsertsType
    <2>3. redo \in Seq(Change)
      BY <1>1, <1>4, TxnFields
    <2>4. Replay(cp.payload, redo) \in Rows
      BY <2>1, <2>3, ReplayType
    <2>5. IF n < cp.position
          THEN RestoreTo(st, n) = Truncated(st, n, UndoInserts(cp.payload, undo), None)
          ELSE RestoreTo(st, n) = Truncated(st, n, Replay(cp.payload, redo), cp)
      BY <1>2, <1>4 DEF RestoreFromCheckpoint, Result
    <2>6. IF n < cp.position
          THEN RestoresTo(st.index, cs, cp, n, UndoInserts(cp.payload, undo), None)
          ELSE RestoresTo(st.index, cs, cp, n, Replay(cp.payload, redo), cp)
      BY <1>4 DEF RestoresTo
    <2> HIDE DEF undo, redo, cs, cp
    <2>7. None \in Checkpoint \cup {None}
      OBVIOUS
    <2> QED
      BY <1>1, <1>3, <2>2, <2>4, <2>5, <2>6, <2>7
  <1>5. CASE cp = None
    <2>1. AppendOnly(<<>>)
      BY NothingToUndo
    <2>2. \/ /\ st.index # None /\ AppendOnly(tail)
             /\ RestoreTo(st, n) = Truncated(st, n, UndoInserts(st.index, tail), None)
          \/ /\ ~(st.index # None /\ AppendOnly(tail)) /\ tail = <<>>
             /\ RestoreTo(st, n) = Truncated(st, n, st.index, None)
          \/ /\ ~(st.index # None /\ AppendOnly(tail))
             /\ RestoreTo(st, n) = Truncated(st, n, None, None)
      BY <1>2, <1>5 DEF RestoreTail, Result
    <2>3. \A index : RestoresTo(st.index, cs, cp, n, index, None) <=>
            index = IF st.index # None /\ AppendOnly(tail)
                    THEN UndoInserts(st.index, tail) ELSE None
      BY <1>5 DEF RestoresTo
    <2>4. st.index # None => UndoInserts(st.index, tail) \in Rows
      BY <1>1, UndoInsertsType
    <2>5. None \in Checkpoint \cup {None} /\ None \in Rows \cup {None}
      OBVIOUS
    <2> HIDE DEF tail, cs, cp
    <2>6. CASE st.index # None /\ AppendOnly(tail)
      <3>1. RestoreTo(st, n) = Truncated(st, n, UndoInserts(st.index, tail), None)
        BY <2>2, <2>6
      <3>2. RestoresTo(st.index, cs, cp, n, UndoInserts(st.index, tail), None)
        BY <2>3, <2>6
      <3> QED
        BY <1>3, <2>4, <2>5, <2>6, <3>1, <3>2
    <2>7. CASE ~(st.index # None /\ AppendOnly(tail))
      <3>1. RestoreTo(st, n) = Truncated(st, n, None, None)
        BY <2>1, <2>2, <2>7
      <3>2. RestoresTo(st.index, cs, cp, n, None, None)
        BY <2>3, <2>7
      <3> QED
        BY <1>3, <2>5, <3>1, <3>2
    <2> QED
      BY <2>6, <2>7
  <1> QED
    BY <1>4, <1>5

LEMMA ResetShows ==
  ASSUME NEW st \in State, NEW s \in Storage, Working(st, s), Retains(st),
         NEW base, base = Content(s), Recoverable(st, base),
         NEW n \in 0 .. Len(st.txn.changes), NEW keep, Reset(RestoreTo(st, n), keep).ok
  PROVE  ShowsBack(Reset(RestoreTo(st, n), keep).st, st, base, n)
PROOF
  <1> DEFINE restored == RestoreTo(st, n)
             back == restored.st
             new == [back EXCEPT !.txn.savepoints = Forget(@, keep)]
  <1>1. restored.ok
    BY DEF Reset
  <1>2. Reset(restored, keep).st = new
    BY <1>1 DEF Reset, Result
  <1>3. ShowsBack(back, st, base, n)
    BY <1>1, RestoreShows
  <1>4. back \in State /\ back.txn \in Txn
    <2>1. n \in Nat
      OBVIOUS
    <2> QED
      BY <1>1, <2>1, RestoreToType DEF KeptResult, ReadResult, State
  <1> HIDE DEF back, restored
  <1>5. /\ SameBack(new, back, base) /\ new.txn.changes = back.txn.changes
        /\ new.index = back.index /\ new.txn \in Txn
    <2>1. SameBack(new, back, base) /\ new.txn.changes = back.txn.changes
      BY <1>4, ForgetShows
    <2>2. new.index = back.index
      BY <1>4 DEF State
    <2>3. new.txn = [back.txn EXCEPT !.savepoints = Forget(@, keep)]
      BY <1>4 DEF State
    <2>4. Forget(back.txn.savepoints, keep) \in [Mark -> Nat \cup {None}]
      BY <1>4, TxnFields, ForgetType
    <2>5. [back.txn EXCEPT !.savepoints = Forget(back.txn.savepoints, keep)] \in Txn
      BY <1>4, <2>4 DEF Txn
    <2> HIDE DEF new
    <2>6. new.txn \in Txn
      BY <2>3, <2>5
    <2> QED
      BY <2>1, <2>2, <2>6
  <1> HIDE DEF new
  <1>6. Len(back.txn.changes) = n
    <2>1. st.txn.changes \in Seq(Change)
      BY TxnFields DEF Working
    <2> QED
      BY <1>3, <2>1, CutParts DEF ShowsBack
  <1>7. ShowsBack(new, st, base, n)
    BY <1>3, <1>5, <1>6 DEF ShowsBack, SameBack
  <1> QED
    BY <1>2, <1>7 DEF restored

LEMMA RollbackShows ==
  ASSUME NEW st \in State, NEW s \in Storage, Working(st, s), Retains(st),
         NEW base, base = Content(s), Recoverable(st, base)
  PROVE  /\ \A j \in Mark :
              /\ st.txn.savepoints[j] \in 0 .. Len(st.txn.changes)
              /\ RollbackTo(st, j).ok
              => ShowsBack(RollbackTo(st, j).st, st, base, st.txn.savepoints[j])
         /\ RollbackToStart(st).ok => ShowsBack(RollbackToStart(st).st, st, base, 0)
PROOF
  <1>1. st.txn # None /\ Len(st.txn.changes) \in Nat
    BY TxnIsThere, TxnFields DEF Working
  <1>2. ASSUME NEW j \in Mark, st.txn.savepoints[j] \in 0 .. Len(st.txn.changes),
               RollbackTo(st, j).ok
        PROVE  ShowsBack(RollbackTo(st, j).st, st, base, st.txn.savepoints[j])
    <2>1. st.txn.savepoints[j] # None
      <3>1. st.txn.savepoints[j] \in Nat
        BY <1>2
      <3> QED
        BY <3>1, TransactionAssumption
    <2>2. RollbackTo(st, j) = Reset(RestoreTo(st, st.txn.savepoints[j]), Below(j + 1))
      BY <1>1, <2>1 DEF RollbackTo
    <2> QED
      BY <1>2, <2>2, ResetShows
  <1>3. 0 \in 0 .. Len(st.txn.changes)
    BY <1>1
  <1>4. RollbackToStart(st).ok => ShowsBack(RollbackToStart(st).st, st, base, 0)
    BY <1>3, ResetShows DEF RollbackToStart
  <1> QED
    BY <1>2, <1>4
-----------------------------------------------------------------------------
(* The beginning of a transaction. *)

LEMMA ReplayNothing ==
  ASSUME NEW rows \in Rows
  PROVE  Replay(rows, <<>>) = rows
PROOF
  <1>1. <<>> \in Seq(Change)
    OBVIOUS
  <1>2. Exact(Replay(rows, <<>>), rows, <<>>)
    BY <1>1, NothingToUndo, ExactNothing, ExactReplay
  <1> QED
    BY <1>2, ExactNothing

(* Undoing a log that only appends leads back to where it began. *)
LEMMA UndoWhole ==
  ASSUME NEW cs \in Seq(Change), NEW base \in Rows, NEW rows, Exact(rows, base, cs),
         Truthful(base, cs), AppendOnly(cs)
  PROVE  UndoInserts(rows, cs) = base
PROOF
  <1>1. 0 \in 0 .. Len(cs) /\ 0 + 1 = 1 /\ SubSeq(cs, 1, 0) = <<>>
    OBVIOUS
  <1>2. Parts(cs, SubSeq(cs, 1, 0), SubSeq(cs, 0 + 1, Len(cs)))
    BY <1>1, CutParts
  <1>3. Parts(cs, <<>>, cs)
    BY <1>1, <1>2, WholeLog1
  <1>4. Exact(UndoInserts(rows, cs), base, <<>>)
    BY <1>3, ExactUndo
  <1> QED
    BY <1>4, ExactNothing

(* Going back to the beginning shows what the transaction began with.      *)
LEMMA RecallStart ==
  ASSUME NEW index, NEW cs, NEW cp, NEW base, Sound(index, cs, cp, base)
  PROVE  Recall(index, cs, cp, base, 0) = base
PROOF
  <1>1. cs \in Seq(Change) /\ base \in Rows /\ Truthful(base, cs)
    BY DEF Sound
  <1>2. SubSeq(cs, 1, 0) = <<>> /\ SubSeq(cs, 0 + 1, Len(cs)) = cs /\ 0 + 1 = 1
    BY <1>1, WholeLog1
  <1>3. CASE cp = None /\ index # None /\ AppendOnly(cs)
    <2>1. Exact(index, base, cs)
      BY <1>3 DEF Sound
    <2>2. Recall(index, cs, cp, base, 0) = UndoInserts(index, cs)
      BY <1>2, <1>3 DEF Recall
    <2> QED
      BY <1>1, <1>3, <2>1, <2>2, UndoWhole
  <1>4. CASE cp = None /\ ~(index # None /\ AppendOnly(cs))
    <2>1. Recall(index, cs, cp, base, 0) = Replay(base, <<>>)
      BY <1>2, <1>4 DEF Recall
    <2> QED
      BY <1>1, <2>1, ReplayNothing
  <1>5. CASE cp # None
    <2> DEFINE front == SubSeq(cs, 1, cp.position)
    <2>1. /\ cp.position \in 0 .. Len(cs) /\ cp.payload \in Rows
          /\ AppendOnly(front) /\ Exact(cp.payload, base, front)
      BY <1>5 DEF Sound
    <2>2. Parts(cs, front, SubSeq(cs, cp.position + 1, Len(cs)))
      BY <1>1, <2>1, CutParts
    <2>5. front \in Seq(Change) /\ Truthful(base, front)
      <3> HIDE DEF front
      <3>1. front \in Seq(Change)
        BY <2>2 DEF Parts
      <3>2. Truthful(base, front)
        BY <1>1, <2>2, TruthfulFirst
      <3> QED
        BY <3>1, <3>2
    <2>3. CASE 0 < cp.position
      <3>1. Recall(index, cs, cp, base, 0) = UndoInserts(cp.payload, front)
        BY <1>2, <1>5, <2>3 DEF Recall
      <3> HIDE DEF front
      <3> QED
        BY <1>1, <2>1, <2>5, <3>1, UndoWhole
    <2>4. CASE ~(0 < cp.position)
      <3>1. cp.position = 0
        BY <2>1, <2>4
      <3>2. Recall(index, cs, cp, base, 0) = Replay(cp.payload, <<>>)
        <4>1. SubSeq(cs, cp.position + 1, 0) = <<>>
          BY <1>2, <3>1
        <4>2. ~(0 < cp.position)
          BY <3>1
        <4> QED
          BY <1>5, <4>1, <4>2 DEF Recall
      <3>3. cp.payload = base
        BY <1>1, <1>2, <2>1, <3>1, ExactNothing
      <3> QED
        BY <1>1, <3>2, <3>3, ReplayNothing
    <2> QED
      BY <2>3, <2>4
  <1> QED
    BY <1>3, <1>4, <1>5

(* With nothing left to write, what is seen is what is stored. *)
LEMMA SettledShows ==
  ASSUME NEW st \in State, NEW s \in Storage, Working(st, s), Unsynced(st) = <<>>
  PROVE  SeenBy(st, s) = Content(s)
PROOF
  <1>1. Content(s) \in Rows
    BY ContentType
  <1>2. st.index # None => st.index = Content(s)
    BY <1>1, ExactNothing DEF Working
  <1> QED
    BY <1>1, <1>2, ReplayNothing DEF SeenBy, Shown

(* A transaction that has logged nothing. *)
LEMMA BegunShows ==
  ASSUME NEW st \in State, NEW s \in Storage, Working(st, s), Retains(st),
         Recoverable(st, Content(s)), st.txn.changes = <<>>
  PROVE  /\ SeenBy(st, s) = Content(s) /\ NotBehind(st, Content(s))
         /\ BackAt(st, Content(s), 0) = Content(s)
PROOF
  <1>1. Sound(st.index, <<>>, st.txn.checkpoint, Content(s)) /\ Unsynced(st) = <<>>
    BY StateIsSound
  <1>2. SeenBy(st, s) = Content(s)
    BY <1>1, SettledShows
  <1>3. BackAt(st, Content(s), 0) = Content(s)
    BY <1>1, RecallStart DEF BackAt
  <1>4. NotBehind(st, Content(s))
    BY <1>1, <1>2, <1>3 DEF NotBehind, Past, BackAt, SeenBy
  <1> QED
    BY <1>2, <1>3, <1>4
-----------------------------------------------------------------------------
(* xSync. *)

LEMMA CompactionShows ==
  ASSUME NEW st \in State, NEW s \in Storage, Counted(st, s),
         st.generation # MaxGeneration, NEW rowCount \in Nat
  PROVE  Content(SyncCompaction(st, s, rowCount).s) = SeenBy(st, s)
PROOF
  <1> DEFINE loaded == EnsureLoaded(st, s)
             g == st.generation + 1
             t == RecordCompaction(WriteIndex(s, loaded.index), g, ImageLen(loaded.index), rowCount)
  <1>1. loaded.index = SeenBy(st, s) /\ loaded.index \in Rows
    BY SeenInTxn
  <1>2. g \in Generation /\ g > s.generation
    BY NextGeneration DEF Counted, Sized
  <1>3. SyncCompaction(st, s, rowCount).s = IF loaded.index = None THEN s ELSE t
    BY DEF SyncCompaction, Compact, Written
  <1> HIDE DEF loaded, g
  <1>4. Content(t) = loaded.index
    BY <1>1, <1>2, CompactionContent
  <1>5. loaded.index # None
    BY <1>1, NoneAssumption DEF Rows
  <1> QED
    BY <1>1, <1>3, <1>4, <1>5

LEMMA DeltaShows ==
  ASSUME NEW st \in State, NEW s \in Storage, Counted(st, s),
         st.generation # MaxGeneration, NEW rowCount \in Nat,
         NEW deltaBytes \in Int, NEW deltaOps \in Int,
         SyncDelta(st, s, rowCount, deltaBytes, deltaOps).ok
  PROVE  Content(SyncDelta(st, s, rowCount, deltaBytes, deltaOps).s) = SeenBy(st, s)
PROOF
  <1> DEFINE g == st.generation + 1
             us == Unsynced(st)
             t == RecordDelta(WriteDelta(s, g, us), g, rowCount, deltaBytes, deltaOps)
  <1>1. g \in Generation /\ g = s.generation + 1
    BY NextGeneration DEF Counted, Sized
  <1>2. /\ us \in Seq(Change) /\ Content(s) \in Rows /\ Truthful(Content(s), us)
        /\ st.index # None => Exact(st.index, Content(s), us)
    BY UnsyncedLog, ContentType DEF Counted, Working
  <1>3. /\ SyncDelta(st, s, rowCount, deltaBytes, deltaOps).s = t
        /\ Encodable(us)
    BY DEF SyncDelta, Written
  <1>4. Content(t) = Replay(Content(s), us)
    <2> HIDE DEF g, us
    <2>1. DeltaOn(s, t, us, g)
      BY <1>1, <1>2, DeltaContent DEF Counted
    <2> HIDE DEF t
    <2> QED
      BY <2>1 DEF DeltaOn
  <1>5. SeenBy(st, s) = Shown(st.index, Content(s), us)
    BY DEF SeenBy
  <1> HIDE DEF us, t
  <1>6. st.index # None => st.index = Replay(Content(s), us)
    BY <1>2, <1>3, ExactReplay
  <1> QED
    BY <1>3, <1>4, <1>5, <1>6 DEF Shown

LEMMA PendingShows ==
  ASSUME NEW st \in State, NEW s \in Storage, Counted(st, s),
         st.generation # MaxGeneration, SyncPending(st, s).ok
  PROVE  Content(SyncPending(st, s).s) = SeenBy(st, s)
PROOF
  <1> DEFINE pending == Unsynced(st)
             rowCount == st.rowCount + NetRows(pending)
             deltaBytes == st.deltaBytes + DeltaLen(pending)
             deltaOps == st.deltaOps + Len(pending)
  <1>1. rowCount \in Nat
    BY CountedRows
  <1>2. deltaBytes \in Int /\ deltaOps \in Int
    <2>1. pending \in Seq(Change)
      BY LogType
    <2>2. DeltaLen(pending) \in Int /\ Len(pending) \in Int
      BY <2>1, DeltaLenType
    <2> QED
      BY <2>2 DEF State
  <1>3. \/ SyncPending(st, s) = Written(FALSE, st, s)
        \/ SyncPending(st, s) = SyncCompaction(st, s, rowCount)
        \/ SyncPending(st, s) = SyncDelta(st, s, rowCount, deltaBytes, deltaOps)
    BY DEF SyncPending
  <1> HIDE DEF pending, rowCount, deltaBytes, deltaOps
  <1>4. ~Written(FALSE, st, s).ok
    BY DEF Written
  <1>5. CASE SyncPending(st, s) = SyncCompaction(st, s, rowCount)
    BY <1>1, <1>5, CompactionShows
  <1>6. CASE SyncPending(st, s) = SyncDelta(st, s, rowCount, deltaBytes, deltaOps)
    BY <1>1, <1>2, <1>6, DeltaShows
  <1> QED
    BY <1>3, <1>4, <1>5, <1>6

LEMMA UpgradeShows ==
  ASSUME NEW st \in State, NEW s \in Storage, Counted(st, s)
  PROVE  SeenBy(Upgrade(st, s).st, Upgrade(st, s).s) = SeenBy(st, s)
PROOF
  <1> DEFINE loaded == EnsureLoaded(st, s)
             new == [loaded EXCEPT !.layout = "current", !.txn.upgraded = TRUE]
  <1>1. loaded.index = SeenBy(st, s) /\ loaded.index \in Rows
    BY SeenInTxn
  <1>2. loaded.index # None
    BY <1>1, NoneAssumption DEF Rows
  <1>3. loaded \in State /\ loaded.layout = s.layout
    BY CountedLoads DEF Counted, Sized
  <1>4. Upgrade(st, s).st = new
    BY <1>2, <1>3 DEF Upgrade, UpgradeLoaded, Written
  <1>5. new.index = loaded.index
    <2> HIDE DEF loaded
    <2> QED
      BY <1>3 DEF State
  <1> HIDE DEF new, loaded
  <1> QED
    BY <1>1, <1>2, <1>4, <1>5 DEF SeenBy, Shown

(* What xSync writes is what the transaction saw. *)
LEMMA SyncShows ==
  ASSUME NEW st \in State, NEW s \in Storage, Counted(st, s), Sync(st, s).ok
  PROVE  Content(Sync(st, s).s) = SeenBy(st, s)
PROOF
  <1> DEFINE up == Upgrade(st, s)
  <1>1. CASE ~st.dirty
    <2>1. Sync(st, s).s = s
      BY <1>1 DEF Sync, Written
    <2>2. Working(st, s) /\ Unsynced(st) = <<>>
      BY <1>1 DEF Counted, Working
    <2> QED
      BY <2>1, <2>2, SettledShows
  <1>2. CASE st.dirty
    <2>1. st.generation # MaxGeneration /\ Unsynced(st) # <<>>
      BY <1>2 DEF Sync, Written
    <2>2. Sync(st, s) = IF st.layout = "legacy" THEN SyncUpgraded(up) ELSE SyncPending(st, s)
      BY <1>2, <2>1 DEF Sync
    <2>3. CASE st.layout # "legacy"
      BY <2>1, <2>2, <2>3, PendingShows
    <2>4. CASE st.layout = "legacy"
      <3>1. /\ up.ok /\ up.st \in State /\ up.s \in Storage
            /\ Counted(up.st, up.s) /\ up.st.generation = st.generation
        BY UpgradeCounts
      <3>2. SeenBy(up.st, up.s) = SeenBy(st, s)
        BY UpgradeShows
      <3> HIDE DEF up
      <3>3. Sync(st, s) = SyncPending(up.st, up.s)
        BY <2>2, <2>4, <3>1 DEF SyncUpgraded
      <3> QED
        BY <2>1, <3>1, <3>2, <3>3, PendingShows
    <2> QED
      BY <2>3, <2>4
  <1> QED
    BY <1>1, <1>2
-----------------------------------------------------------------------------
(* The invariant of the refinement. *)

(* The rows a search on c would return, without the search. *)
Now(c) == IF enlisted[c] THEN SeenBy(state[c], view[c]) ELSE Content(view[c])

(* Every mark of a transaction restores the rows its savepoint was opened  *)
(* on: the log, cut at the position kept for the mark, leads back to them. *)
Held(st, base, m) ==
  \A i \in DOMAIN m :
    /\ st.txn.savepoints[i - 1] \in 0 .. Len(st.txn.changes)
    /\ m[i].rows = BackAt(st, base, st.txn.savepoints[i - 1])

(* Before xBegin the rows of a mark are the committed ones.  After xSync   *)
(* has written nothing is claimed: no mark is gone back to then.           *)
HeldBy(begun, st, s, m, d) ==
  /\ ~begun => \A i \in DOMAIN m : m[i].rows = Content(d)
  /\ begun /\ s.generation = d.generation =>
       NotBehind(st, Content(d)) /\ Held(st, Content(d), m)

MarksHold(c) == HeldBy(enlisted[c], state[c], view[c], marks[c], disk)
ShownNow == stored = Content(disk) /\ shown = [c \in Connections |-> Now(c)]
RefInv == CountInv /\ ShownNow /\ \A c \in Connections : MarksHold(c)

(* What each connection's open marks hold, as SqlTable sees them. *)
SavedRows(m) == [j \in DOMAIN m |-> m[j].rows]
Saved == [c \in Connections |-> SavedRows(marks[c])]

LEMMA ReadsNow ==
  CountInv => \A c \in Connections :
                SeenRows(state[c], view[c]) = Now(c) /\ Now(c) \in Rows
PROOF
  <1>1. SUFFICES ASSUME CountInv, NEW c \in Connections
                 PROVE  SeenRows(state[c], view[c]) = Now(c) /\ Now(c) \in Rows
    OBVIOUS
  <1>2. /\ state[c] \in State /\ view[c] \in Storage
        /\ enlisted[c] => Counted(state[c], view[c])
        /\ ~enlisted[c] => Readies(state[c], view[c])
    BY <1>1, CountFacts
  <1>3. enlisted[c] => /\ SeenRows(state[c], view[c]) = SeenBy(state[c], view[c])
                       /\ SeenBy(state[c], view[c]) \in Rows
    BY <1>2, SeenInTxn
  <1>4. ~enlisted[c] => SeenRows(state[c], view[c]) = Content(view[c])
    BY <1>2, ReadsSeen
  <1>5. Content(view[c]) \in Rows
    BY <1>2, ContentType
  <1> QED
    BY <1>3, <1>4, <1>5 DEF Now

LEMMA ReadsNowNext ==
  CountInv' => \A c \in Connections :
                 SeenRows(state'[c], view'[c]) = Now(c)' /\ Now(c)' \in Rows
PROOF
  <1>1. (CountInv => \A c \in Connections :
           SeenRows(state[c], view[c]) = Now(c) /\ Now(c) \in Rows)'
    BY ReadsNow, PTL
  <1> QED
    BY <1>1

(* The history variables record what they are meant to. *)
LEMMA RecordKeeps ==
  ASSUME RefInv, Record, CountInv'
  PROVE  ShownNow'
PROOF
  <1>1. /\ stored = Content(disk) /\ shown = [c \in Connections |-> Now(c)]
        /\ \A c \in Connections : SeenRows(state[c], view[c]) = Now(c)
    BY ReadsNow DEF RefInv, ShownNow
  <1>2. stored' = Content(disk')
    BY <1>1 DEF Record
  <1>3. ASSUME NEW c \in Connections PROVE shown'[c] = Now(c)'
    <2>1. shown'[c] = IF state'[c] = state[c] /\ view'[c] = view[c] THEN shown[c]
                      ELSE SeenRows(state'[c], view'[c])
      BY DEF Record
    <2>2. shown[c] = SeenRows(state[c], view[c])
      BY <1>1
    <2>3. shown'[c] = SeenRows(state'[c], view'[c])
      <3>1. CASE state'[c] = state[c] /\ view'[c] = view[c]
        BY <2>1, <2>2, <3>1
      <3>2. CASE ~(state'[c] = state[c] /\ view'[c] = view[c])
        BY <2>1, <3>2
      <3> QED
        BY <3>1, <3>2
    <2> QED
      BY <2>3, ReadsNowNext
  <1>4. shown' = [c \in Connections |-> shown'[c]]
    BY DEF Record
  <1>5. shown' = [c \in Connections |-> Now(c)']
    BY <1>3, <1>4
  <1> QED
    BY <1>2, <1>5 DEF ShownNow
-----------------------------------------------------------------------------
(* A step of one connection, as SqlTable sees it. *)

Alone(c) ==
  /\ disk' = disk
  /\ \A d \in Connections \ {c} :
       /\ mode'[d] = mode[d] /\ view'[d] = view[d] /\ marks'[d] = marks[d]
       /\ enlisted'[d] = enlisted[d] /\ state'[d] = state[d]

(* Only c sees other rows, and only its savepoints change. *)
Alters(c, table, held) ==
  /\ stored' = stored /\ mode' = mode
  /\ shown' = [shown EXCEPT ![c] = table]
  /\ Saved' = [Saved EXCEPT ![c] = held]

LEMMA RefFacts ==
  ASSUME RefInv, NEW c \in Connections
  PROVE  /\ CountInv /\ ExactInv /\ TypeOK /\ MarksHold(c) /\ stored = Content(disk)
         /\ shown \in [Connections -> Rows] /\ shown[c] = Now(c) /\ Now(c) \in Rows
         /\ SeenRows(state[c], view[c]) = Now(c)
         /\ Saved[c] = SavedRows(marks[c]) /\ Saved = [d \in Connections |-> Saved[d]]
         /\ marks[c] \in Seq(MarkRecord) /\ mode \in [Connections -> {"idle", "read", "write"}]
PROOF
  <1>1. CountInv /\ ExactInv /\ TypeOK
    BY DEF RefInv, CountInv, ExactInv, BudgetInv, BudgetOf, ChainInv
  <1>2. \A d \in Connections : Now(d) \in Rows /\ SeenRows(state[d], view[d]) = Now(d)
    BY <1>1, ReadsNow
  <1>3. stored = Content(disk) /\ shown = [d \in Connections |-> Now(d)] /\ MarksHold(c)
    BY DEF RefInv, ShownNow
  <1>4. Saved[c] = SavedRows(marks[c]) /\ Saved = [d \in Connections |-> Saved[d]]
    BY DEF Saved
  <1>5. marks[c] \in Seq(MarkRecord) /\ mode \in [Connections -> {"idle", "read", "write"}]
    BY <1>1 DEF TypeOK
  <1> QED
    BY <1>1, <1>2, <1>3, <1>4, <1>5

LEMMA OneStep ==
  ASSUME RefInv, ShownNow', NEW c \in Connections, Alone(c), mode' = mode, MarksHold(c)',
         NEW table, table = Now(c)', NEW held, held = SavedRows(marks'[c])
  PROVE  (\A d \in Connections : MarksHold(d)') /\ Alters(c, table, held)
PROOF
  <1>1. ASSUME NEW d \in Connections \ {c}
        PROVE  Now(d)' = Now(d) /\ MarksHold(d)'
    <2>1. MarksHold(d)
      BY DEF RefInv
    <2> QED
      BY <2>1 DEF Alone, Now, MarksHold
  <1>2. /\ stored = Content(disk) /\ shown = [d \in Connections |-> Now(d)]
        /\ stored' = Content(disk') /\ shown' = [d \in Connections |-> Now(d)']
    BY DEF RefInv, ShownNow
  <1>3. shown' = [shown EXCEPT ![c] = table]
    BY <1>1, <1>2
  <1>4. stored' = stored
    BY <1>2 DEF Alone
  <1>5. Saved' = [Saved EXCEPT ![c] = held]
    <2>1. Saved' = [d \in Connections |-> SavedRows(marks'[d])]
      BY DEF Saved
    <2>2. Saved = [d \in Connections |-> SavedRows(marks[d])]
      BY DEF Saved
    <2>3. \A d \in Connections \ {c} : SavedRows(marks'[d]) = SavedRows(marks[d])
      BY DEF Alone
    <2> QED
      BY <2>1, <2>2, <2>3
  <1> QED
    BY <1>1, <1>3, <1>4, <1>5 DEF Alters

(* The steps of SqlTable that change the rows or the savepoints of c.      *)
LEMMA AsStutter ==
  ASSUME RefInv, NEW c \in Connections, Alters(c, shown[c], Saved[c])
  PROVE  [Sql!Next]_(Sql!sqlVars)
PROOF
  <1>1. shown' = shown /\ Saved' = Saved
    <2>1. shown \in [Connections -> Rows] /\ Saved = [d \in Connections |-> Saved[d]]
      BY RefFacts
    <2> QED
      BY <2>1 DEF Alters
  <1> QED
    BY <1>1 DEF Alters, Saved, SavedRows, Sql!sqlVars

LEMMA AsWrite ==
  ASSUME NEW c \in Connections, mode[c] = "write",
         NEW id \in Rowid, NEW value \in Vector \cup {None},
         RefInv, Alters(c, [shown[c] EXCEPT ![id] = value], Saved[c])
  PROVE  Sql!Next
PROOF
  <1>1. Saved' = Saved
    <2>1. Saved = [d \in Connections |-> Saved[d]]
      BY RefFacts
    <2> QED
      BY <2>1 DEF Alters
  <1>2. shown' = [shown EXCEPT ![c][id] = value]
    BY DEF Alters
  <1>3. Sql!Write(c)
    BY <1>1, <1>2 DEF Alters, Saved, SavedRows, Sql!Write
  <1> QED
    BY <1>3 DEF Sql!Next

LEMMA AsSave ==
  ASSUME NEW c \in Connections, mode[c] = "write",
         RefInv, Alters(c, shown[c], Append(Saved[c], shown[c]))
  PROVE  Sql!Next
PROOF
  <1>1. shown' = shown
    BY RefFacts DEF Alters
  <1>2. Saved' = [Saved EXCEPT ![c] = Append(Saved[c], shown[c])]
    BY DEF Alters
  <1>3. Sql!Save(c)
    BY <1>1, <1>2 DEF Alters, Saved, SavedRows, Sql!Save
  <1> QED
    BY <1>3 DEF Sql!Next

LEMMA AsRelease ==
  ASSUME NEW c \in Connections, NEW j \in 0 .. Len(Saved[c]) - 1,
         RefInv, Alters(c, shown[c], SubSeq(Saved[c], 1, j))
  PROVE  Sql!Next
PROOF
  <1>1. shown' = shown
    BY RefFacts DEF Alters
  <1>2. \E k \in 0 .. Len(Saved[c]) - 1 : Saved' = [Saved EXCEPT ![c] = SubSeq(Saved[c], 1, k)]
    BY DEF Alters
  <1>3. Sql!Release(c)
    BY <1>1, <1>2 DEF Alters, Saved, SavedRows, Sql!Release
  <1> QED
    BY <1>3 DEF Sql!Next

LEMMA AsRestore ==
  ASSUME NEW c \in Connections, NEW j \in 1 .. Len(Saved[c]), NEW kept \in {j, j - 1},
         RefInv, Alters(c, Saved[c][j], SubSeq(Saved[c], 1, kept))
  PROVE  Sql!Next
PROOF
  <1>1. \E k \in 1 .. Len(Saved[c]) :
          /\ shown' = [shown EXCEPT ![c] = Saved[c][k]]
          /\ \E n \in {k, k - 1} : Saved' = [Saved EXCEPT ![c] = SubSeq(Saved[c], 1, n)]
    BY DEF Alters
  <1>2. Sql!Restore(c)
    BY <1>1 DEF Alters, Saved, SavedRows, Sql!Restore
  <1> QED
    BY <1>2 DEF Sql!Next

LEMMA AsRestoreBegin ==
  ASSUME NEW c \in Connections, mode[c] = "write", RefInv, Alters(c, stored, <<>>)
  PROVE  Sql!Next
PROOF
  <1>1. Sql!RestoreBegin(c)
    BY DEF Alters, Saved, SavedRows, Sql!RestoreBegin
  <1> QED
    BY <1>1 DEF Sql!Next
-----------------------------------------------------------------------------
(* The end of a transaction, and of a snapshot. *)

Closes(c, table) ==
  /\ stored' = table /\ mode' = [mode EXCEPT ![c] = "idle"]
  /\ shown' = [d \in Connections |->
                 IF d = c \/ mode[d] = "idle" THEN table ELSE shown[d]]
  /\ Saved' = [Saved EXCEPT ![c] = <<>>]

LEMMA EndShows ==
  ASSUME RefInv, ShownNow', NEW c \in Connections, NEW s \in Storage, NEW st,
         Ended(c, s), SetState(c, st), s = disk \/ mode[c] = "write"
  PROVE  (\A d \in Connections : MarksHold(d)') /\ Closes(c, Content(s))
PROOF
  <1>1. /\ TypeOK /\ OneWriter /\ ExactInv
        /\ stored' = Content(disk') /\ shown = [d \in Connections |-> Now(d)]
        /\ shown' = [d \in Connections |-> Now(d)']
        /\ \A d \in Connections : MarksHold(d) /\ Agrees(d)
    BY ExactFacts DEF RefInv, CountInv, ShownNow
  <1>2. /\ disk' = s /\ mode' = [mode EXCEPT ![c] = "idle"]
        /\ marks' = [marks EXCEPT ![c] = <<>>]
        /\ view'[c] = s /\ enlisted'[c] = FALSE /\ marks'[c] = <<>>
        /\ \A d \in Connections \ {c} :
             /\ marks'[d] = marks[d] /\ enlisted'[d] = enlisted[d] /\ state'[d] = state[d]
             /\ view'[d] = IF mode[d] = "idle" THEN s ELSE view[d]
    BY <1>1 DEF Ended, SetState, TypeOK
  <1>3. ASSUME NEW d \in Connections
        PROVE  Now(d)' = IF d = c \/ mode[d] = "idle" THEN Content(s) ELSE Now(d)
    <2>1. CASE d = c
      BY <1>2, <2>1 DEF Now
    <2>2. CASE d # c /\ mode[d] = "idle"
      <3>1. enlisted'[d] = enlisted[d] /\ view'[d] = s /\ ~enlisted[d]
        BY <1>1, <1>2, <2>2 DEF Agrees
      <3> QED
        BY <2>2, <3>1 DEF Now
    <2>3. CASE d # c /\ mode[d] # "idle"
      BY <1>2, <2>3 DEF Now
    <2> QED
      BY <2>1, <2>2, <2>3
  <1>4. ASSUME NEW d \in Connections PROVE MarksHold(d)'
    <2>1. CASE d = c
      <3>1. DOMAIN marks'[d] = {} /\ ~enlisted'[d]
        BY <1>2, <2>1
      <3> QED
        BY <3>1 DEF MarksHold, HeldBy
    <2>2. CASE d # c /\ mode[d] # "write"
      <3>1. marks[d] = <<>> /\ ~enlisted[d]
        BY <1>1, <2>2 DEF Agrees
      <3>2. DOMAIN marks'[d] = {} /\ ~enlisted'[d]
        BY <1>2, <2>2, <3>1
      <3> QED
        BY <3>2 DEF MarksHold, HeldBy
    <2>3. CASE d # c /\ mode[d] = "write"
      <3>1. disk' = disk
        BY <1>1, <1>2, <2>3 DEF OneWriter
      <3>2. MarksHold(d) /\ view'[d] = view[d]
        BY <1>1, <1>2, <2>3
      <3> QED
        BY <1>2, <2>3, <3>1, <3>2 DEF MarksHold
    <2> QED
      BY <2>1, <2>2, <2>3
  <1>5. shown' = [d \in Connections |->
                    IF d = c \/ mode[d] = "idle" THEN Content(s) ELSE shown[d]]
    BY <1>1, <1>3
  <1>6. Saved' = [Saved EXCEPT ![c] = <<>>]
    <2>1. /\ Saved = [d \in Connections |-> SavedRows(marks[d])]
          /\ Saved' = [d \in Connections |-> SavedRows(marks'[d])]
      BY DEF Saved
    <2>2. \A d \in Connections \ {c} : SavedRows(marks'[d]) = SavedRows(marks[d])
      BY <1>2
    <2>3. SavedRows(marks'[c]) = <<>>
      <3>1. DOMAIN marks'[c] = {}
        BY <1>2
      <3> QED
        BY <3>1 DEF SavedRows
    <2> QED
      BY <2>1, <2>2, <2>3
  <1>7. stored' = Content(s)
    BY <1>1, <1>2
  <1>8. Closes(c, Content(s))
    BY <1>2, <1>5, <1>6, <1>7 DEF Closes
  <1> QED
    BY <1>4, <1>8

LEMMA AbandonShows ==
  ASSUME RefInv, ShownNow', NEW c \in Connections, NEW st, Ended(c, disk), SetState(c, st)
  PROVE  (\A d \in Connections : MarksHold(d)') /\ Sql!Next
PROOF
  <1>1. disk \in Storage /\ stored = Content(disk)
    BY RefFacts DEF TypeOK
  <1>2. (\A d \in Connections : MarksHold(d)') /\ Closes(c, Content(disk))
    BY <1>1, EndShows
  <1>3. Sql!Abandon(c)
    BY <1>1, <1>2 DEF Closes, Saved, SavedRows, Sql!Abandon, Sql!End
  <1> QED
    BY <1>2, <1>3 DEF Sql!Next

LEMMA SnapshotRefines ==
  ASSUME RefInv, ShownNow', NEW c \in Connections,
         BeginRead(c) \/ BeginWrite(c) \/ EndRead(c) \/ Reopen(c) \/ Rollback(c) \/ CommitFails(c)
  PROVE  (\A d \in Connections : MarksHold(d)') /\ Sql!Next
PROOF
  <1>1. /\ TypeOK /\ stored = Content(disk) /\ shown = [d \in Connections |-> Now(d)]
        /\ \A d \in Connections : MarksHold(d)
    BY RefFacts DEF RefInv, ShownNow
  <1>2. CASE BeginRead(c) \/ BeginWrite(c)
    <2>1. UNCHANGED <<disk, view, marks, statement, enlisted, state>>
      BY <1>2 DEF BeginRead, BeginWrite
    <2>2. \A d \in Connections : MarksHold(d)' /\ Now(d)' = Now(d)
      BY <1>1, <2>1 DEF MarksHold, Now
    <2>3. stored' = stored /\ shown' = shown /\ Saved' = Saved
      BY <1>1, <2>1, <2>2 DEF ShownNow, Saved, SavedRows
    <2>4. CASE BeginRead(c)
      BY <2>2, <2>3, <2>4 DEF BeginRead, Saved, SavedRows, Sql!Next, Sql!BeginRead
    <2>5. CASE BeginWrite(c)
      <3>1. shown[c] = stored
        <4>1. ~enlisted[c] /\ view[c] = disk
          BY <2>5, RefFacts, ExactFacts DEF BeginWrite, Agrees
        <4> QED
          BY <1>1, <4>1 DEF Now
      <3> QED
        BY <2>2, <2>3, <2>5, <3>1 DEF BeginWrite, Saved, SavedRows, Sql!Next, Sql!BeginWrite
    <2> QED
      BY <1>2, <2>4, <2>5
  <1>3. CASE EndRead(c) \/ Reopen(c) \/ Rollback(c) \/ CommitFails(c)
    <2>1. \E st : Ended(c, disk) /\ SetState(c, st)
      <3>1. CASE EndRead(c)
        <4>1. SetState(c, state[c])
          BY <1>1, <3>1 DEF EndRead, SetState, TypeOK
        <4> QED
          BY <3>1, <4>1 DEF EndRead
      <3>2. CASE Reopen(c) \/ Rollback(c) \/ CommitFails(c)
        BY <3>2 DEF Reopen, Rollback, CommitFails
      <3> QED
        BY <1>3, <3>1, <3>2
    <2> QED
      BY <2>1, AbandonShows
  <1> QED
    BY <1>2, <1>3
-----------------------------------------------------------------------------
(* Reads, xBegin and xUpdate. *)

(* What a transaction is before xSync has written.                         *)
LEMMA BeforeSync ==
  ASSUME CountInv, NEW c \in Connections, enlisted[c], view[c].generation = disk.generation
  PROVE  /\ state[c] \in State /\ view[c] \in Storage /\ disk \in Storage
         /\ Counted(state[c], view[c]) /\ state[c].txn \in Txn
         /\ Working(state[c], view[c]) /\ Retains(state[c])
         /\ Recoverable(state[c], Content(disk)) /\ Content(view[c]) = Content(disk)
         /\ \A i \in DOMAIN marks[c] :
              /\ SameData(marks[c][i].storage, disk)
              /\ MarkFits(state[c], disk, i, marks[c][i].storage)
PROOF
  <1>1. /\ ExactInv /\ state[c] \in State /\ view[c] \in Storage /\ disk \in Storage
        /\ Counted(state[c], view[c]) /\ mode[c] = "write" /\ ExactParts(c)
    BY CountFacts, ExactFacts
  <1>2. Working(state[c], view[c]) /\ Retains(state[c]) /\ state[c].txn \in Txn
    BY <1>1 DEF Counted, Working
  <1>3. /\ SameData(view[c], disk) /\ Recoverable(state[c], Content(disk))
        /\ \A i \in DOMAIN marks[c] :
             /\ SameData(marks[c][i].storage, disk)
             /\ MarkFits(state[c], disk, i, marks[c][i].storage)
    BY <1>1 DEF ExactParts, Writes
  <1>4. Content(view[c]) = Content(disk)
    BY <1>1, <1>3, SameDataFacts, SameImageExtends
  <1> QED
    BY <1>1, <1>2, <1>3, <1>4

(* A log that only grew still leads back to every mark. *)
LEMMA HeldKept ==
  ASSUME NEW st, NEW new, NEW base, NEW m, NotBehind(st, base) /\ Held(st, base, m),
         SameBack(new, st, base), new.txn.savepoints = st.txn.savepoints,
         Len(st.txn.changes) \in Nat, Len(new.txn.changes) \in Nat,
         Len(st.txn.changes) <= Len(new.txn.changes)
  PROVE  NotBehind(new, base) /\ Held(new, base, m)
PROOF
  <1>1. ASSUME NEW i \in DOMAIN m
        PROVE  /\ new.txn.savepoints[i - 1] \in 0 .. Len(new.txn.changes)
               /\ m[i].rows = BackAt(new, base, new.txn.savepoints[i - 1])
    <2>1. /\ st.txn.savepoints[i - 1] \in 0 .. Len(st.txn.changes)
          /\ m[i].rows = BackAt(st, base, st.txn.savepoints[i - 1])
      BY DEF Held
    <2>2. BackAt(new, base, st.txn.savepoints[i - 1]) = BackAt(st, base, st.txn.savepoints[i - 1])
      BY <2>1 DEF SameBack
    <2> QED
      BY <2>1, <2>2
  <1> QED
    BY <1>1 DEF Held, SameBack

LEMMA ReadForm ==
  ASSUME NEW st \in State, NEW s \in Storage, st.txn # None
  PROVE  {Searched(st, s).st, Scanned(st, s)} \subseteq {st, EnsureLoaded(st, s)}
PROOF
  <1>1. Refresh(st, s) = Result(TRUE, st)
    BY RefreshGeneration
  <1> QED
    BY <1>1 DEF Searched, SearchedAfter, Scanned, ScannedAfter, LoadResult, Result

LEMMA ReadRefines ==
  ASSUME RefInv, ShownNow', NEW c \in Connections, Search(c) \/ Scan(c) \/ CatchUpFails(c)
  PROVE  (\A d \in Connections : MarksHold(d)') /\ [Sql!Next]_(Sql!sqlVars)
PROOF
  <1>1. /\ CountInv /\ TypeOK /\ MarksHold(c) /\ state[c] \in State /\ view[c] \in Storage
    BY RefFacts, CountFacts
  <1>2. PICK new : /\ \/ new \in {Searched(state[c], view[c]).st, Scanned(state[c], view[c])}
                      \/ new = Dropped(state[c]) /\ state[c].txn = None
                   /\ SetState(c, new)
                   /\ UNCHANGED <<disk, mode, view, marks, statement, enlisted>>
    BY DEF Search, Scan, CatchUpFails
  <1>3. /\ \A d \in Connections : state'[d] = IF d = c THEN new ELSE state[d]
        /\ Alone(c) /\ mode' = mode
    BY <1>1, <1>2 DEF SetState, TypeOK, Alone
  <1>4. MarksHold(c)' /\ Now(c)' = Now(c)
    <2>1. CASE ~enlisted[c]
      BY <1>1, <1>2, <2>1 DEF MarksHold, HeldBy, Now
    <2>2. CASE enlisted[c]
      <3>1. /\ Counted(state[c], view[c]) /\ state[c].txn # None
            /\ Len(state[c].txn.changes) \in Nat
        <4>1. Counted(state[c], view[c]) /\ state[c].txn \in Txn
          BY <1>1, <2>2, CountFacts DEF Counted, Working
        <4> QED
          BY <4>1, TxnIsThere, TxnFields
      <3>2. new \in {state[c], EnsureLoaded(state[c], view[c])}
        BY <1>1, <1>2, <3>1, ReadForm
      <3>3. /\ SeenBy(new, view[c]) = SeenBy(state[c], view[c]) /\ new.txn = state[c].txn
            /\ Recoverable(state[c], Content(view[c]))
                 => SameBack(new, state[c], Content(view[c]))
        BY <1>1, <3>1, <3>2, LoadShows, CountedLoads
      <3>4. Now(c)' = Now(c)
        BY <1>2, <1>3, <2>2, <3>3 DEF Now
      <3>5. view[c].generation = disk.generation =>
              NotBehind(new, Content(disk)) /\ Held(new, Content(disk), marks[c])
        <4>1. SUFFICES ASSUME view[c].generation = disk.generation
                       PROVE  NotBehind(new, Content(disk)) /\ Held(new, Content(disk), marks[c])
          OBVIOUS
        <4>2. SameBack(new, state[c], Content(disk))
          BY <1>1, <2>2, <3>3, <4>1, BeforeSync
        <4>3. NotBehind(state[c], Content(disk)) /\ Held(state[c], Content(disk), marks[c])
          BY <1>1, <2>2, <4>1 DEF MarksHold, HeldBy
        <4>4. new.txn.savepoints = state[c].txn.savepoints
              /\ Len(state[c].txn.changes) <= Len(new.txn.changes)
              /\ Len(new.txn.changes) \in Nat
          BY <3>1, <3>3
        <4> QED
          BY <3>1, <4>2, <4>3, <4>4, HeldKept
      <3>6. HeldBy(enlisted[c], new, view[c], marks[c], disk)
        BY <2>2, <3>5 DEF HeldBy
      <3>7. MarksHold(c)'
        BY <1>2, <1>3, <3>6 DEF MarksHold
      <3> QED
        BY <3>4, <3>7
    <2> QED
      BY <2>1, <2>2
  <1>5. Now(c)' = shown[c] /\ Saved[c] = SavedRows(marks'[c])
    BY <1>2, <1>4, RefFacts
  <1>6. (\A d \in Connections : MarksHold(d)') /\ Alters(c, shown[c], Saved[c])
    BY <1>3, <1>4, <1>5, OneStep
  <1> QED
    BY <1>6, AsStutter

(* xBegin, and xSavepoint for the mark that is already open. *)
LEMMA EnlistRefines ==
  ASSUME RefInv, ShownNow', EarlyMarks <= 1, NEW c \in Connections, Enlist(c)
  PROVE  (\A d \in Connections : MarksHold(d)') /\ [Sql!Next]_(Sql!sqlVars)
PROOF
  <1> DEFINE begun == Begin(state[c], view[c])
             st == IF marks[c] # <<>> THEN Savepoint(begun.st, TopMark(c)) ELSE begun.st
             base == Content(disk)
  <1>1. /\ CountInv /\ ExactInv /\ TypeOK /\ MarksHold(c)
        /\ state[c] \in State /\ view[c] \in Storage
        /\ disk \in Storage /\ ~enlisted[c] /\ mode[c] = "write" /\ OwnIds(disk)
        /\ Readies(state[c], view[c]) /\ state[c].txn = None
        /\ CopyOf(state[c], view[c], disk)
    BY RefFacts, CountFacts, ExactFacts DEF Enlist
  <1>2. /\ view[c] = disk /\ Len(marks[c]) <= 1
    <2>1. Len(marks[c]) \in Nat /\ Len(marks[c]) <= EarlyMarks /\ EarlyMarks \in Nat
      BY <1>1, MarkIndex, TableAssumption DEF Enlist
    <2> QED
      BY <1>1, <2>1, SeesDisk
  <1>3. /\ begun.ok = TRUE /\ begun.st \in State /\ begun.st.txn \in Txn
        /\ Working(begun.st, disk) /\ Recoverable(begun.st, base)
        /\ begun.st.txn.changes = <<>> /\ Retains(begun.st)
    <2>1. ~state[c].dirty
          /\ (state[c].index # None => Faithful(state[c].index, state[c].generation, disk))
      BY <1>1 DEF CopyOf
    <2>2. begun \in ReadResult /\ begun.ok = TRUE /\ Retains(begun.st)
      BY <1>1, BeginType, BeginCounts
    <2>3. begun = Begin(state[c], disk)
      BY <1>2
    <2> HIDE DEF begun
    <2>4. begun.st \in State
      BY <2>2 DEF ReadResult
    <2>5. Working(begun.st, disk) /\ Recoverable(begun.st, base)
          /\ begun.st.txn.changes = <<>>
      BY <1>1, <2>1, <2>2, <2>3, BeginWorks DEF OwnIds
    <2> QED
      BY <2>2, <2>4, <2>5 DEF Working
  <1>4. /\ SetState(c, st) /\ enlisted' = [enlisted EXCEPT ![c] = TRUE]
        /\ UNCHANGED <<disk, mode, view, marks, statement>>
    BY <1>3 DEF Enlist, EnlistBegun
  <1> HIDE DEF begun
  <1>5. /\ SeenBy(begun.st, disk) = base /\ NotBehind(begun.st, base)
        /\ BackAt(begun.st, base, 0) = base
    BY <1>1, <1>3, BegunShows
  <1>6. SeenBy(st, disk) = base /\ NotBehind(st, base) /\ Held(st, base, marks[c])
    <2>1. CASE marks[c] = <<>>
      <3>1. st = begun.st /\ DOMAIN marks[c] = {}
        BY <2>1
      <3> QED
        BY <1>5, <3>1 DEF Held
    <2>2. CASE marks[c] # <<>>
      <3>1. TopMark(c) = 0 /\ 0 \in Mark /\ DOMAIN marks[c] = {1}
        <4>1. /\ marks[c] \in Seq(MarkRecord) /\ Len(marks[c]) \in Nat
              /\ DOMAIN marks[c] = 1 .. Len(marks[c])
          BY <1>1, ExactFacts
        <4>2. Len(marks[c]) # 0
          BY <2>2, <4>1
        <4>3. Len(marks[c]) = 1
          <5>1. \A n \in Nat : n # 0 /\ n <= 1 => n = 1
            OBVIOUS
          <5>2. Len(marks[c]) \in Nat /\ Len(marks[c]) # 0 /\ Len(marks[c]) <= 1
            BY <1>2, <4>1, <4>2
          <5> QED
            BY <5>1, <5>2, Zenon
        <4>4. TopMark(c) = 0 /\ DOMAIN marks[c] = {1} /\ 0 \in 0 .. TopMark(c)
          BY <4>1, <4>3 DEF TopMark
        <4> QED
          BY <1>1, <4>4, MarkIndex
      <3>2. st = Savepoint(begun.st, 0)
        BY <2>2, <3>1
      <3> HIDE DEF st, base
      <3>3. /\ st.txn.changes = <<>>
            /\ st.txn.savepoints =
                 [Forget(begun.st.txn.savepoints, Below(0)) EXCEPT ![0] = Len(<<>>)]
        BY <1>3, <3>1, <3>2, SavepointWorks
      <3>4. st.txn.savepoints[0] = 0
        BY <3>1, <3>3 DEF Forget
      <3>5. SeenBy(st, disk) = SeenBy(begun.st, disk) /\ SameBack(st, begun.st, base)
        BY <1>3, <3>1, <3>2, SavepointShows
      <3>6. 0 \in 0 .. Len(<<>>) /\ 1 - 1 = 0
        OBVIOUS
      <3>7. BackAt(st, base, 0) = base /\ NotBehind(st, base)
        BY <1>3, <1>5, <3>5, <3>6 DEF SameBack
      <3>8. marks[c][1].rows = base
        BY <1>1, <3>1 DEF MarksHold, HeldBy, base
      <3>9. Held(st, base, marks[c])
        BY <3>1, <3>3, <3>4, <3>6, <3>7, <3>8 DEF Held
      <3> QED
        BY <1>5, <3>5, <3>7, <3>9
    <2> QED
      BY <2>1, <2>2
  <1> HIDE DEF st
  <1>7. /\ \A d \in Connections : state'[d] = IF d = c THEN st ELSE state[d]
        /\ \A d \in Connections : enlisted'[d] = IF d = c THEN TRUE ELSE enlisted[d]
    BY <1>1, <1>4 DEF SetState, TypeOK
  <1>8. MarksHold(c)' /\ Now(c)' = Now(c)
    BY <1>1, <1>2, <1>4, <1>6, <1>7 DEF MarksHold, HeldBy, Now
  <1>9. Alone(c) /\ mode' = mode
    BY <1>4, <1>7 DEF Alone
  <1>10. Now(c)' = shown[c] /\ Saved[c] = SavedRows(marks'[c])
    BY <1>4, <1>8, RefFacts
  <1>11. (\A d \in Connections : MarksHold(d)') /\ Alters(c, shown[c], Saved[c])
    BY <1>8, <1>9, <1>10, OneStep
  <1> QED
    BY <1>11, AsStutter

LEMMA WriteRefines ==
  ASSUME RefInv, ShownNow', NEW c \in Connections, InsertRow(c) \/ DeleteRow(c)
  PROVE  (\A d \in Connections : MarksHold(d)') /\ [Sql!Next]_(Sql!sqlVars)
PROOF
  <1>1. /\ CountInv /\ ExactInv /\ TypeOK /\ MarksHold(c)
        /\ state[c] \in State /\ view[c] \in Storage /\ disk \in Storage
        /\ enlisted[c] = TRUE /\ mode[c] = "write"
    BY RefFacts, CountFacts DEF InsertRow, DeleteRow, Update, Updating, TypeOK
  <1>2. /\ Counted(state[c], view[c]) /\ Working(state[c], view[c])
        /\ state[c].layout = view[c].layout /\ Len(state[c].txn.changes) \in Nat
    <2>1. Counted(state[c], view[c])
      BY <1>1, CountFacts
    <2>2. Working(state[c], view[c]) /\ state[c].layout = view[c].layout /\ state[c].txn \in Txn
      BY <2>1 DEF Counted, Working, Sized
    <2> QED
      BY <2>1, <2>2, TxnFields
  <1>3. PICK result : /\ Update(c, result) /\ WriteShows(result, state[c], view[c])
                      /\ WriteKeeps(result, state[c], view[c])
    <2>1. CASE InsertRow(c)
      BY <1>1, <1>2, <2>1, InsertShows, InsertWorks DEF InsertRow
    <2>2. CASE DeleteRow(c)
      BY <1>1, <1>2, <2>2, DeleteShows, DeleteWorks DEF DeleteRow
    <2> QED
      BY <2>1, <2>2
  <1>4. /\ \A d \in Connections : state'[d] = IF d = c THEN result.st ELSE state[d]
        /\ \A d \in Connections : view'[d] = IF d = c THEN result.s ELSE view[d]
        /\ UNCHANGED <<disk, mode, marks, statement, enlisted>>
    BY <1>1, <1>3 DEF Update, SetState, TypeOK
  <1>5. view[c].generation = disk.generation =>
          NotBehind(result.st, Content(disk)) /\ Held(result.st, Content(disk), marks[c])
    <2>1. SUFFICES ASSUME view[c].generation = disk.generation
                   PROVE  NotBehind(result.st, Content(disk)) /\ Held(result.st, Content(disk), marks[c])
      OBVIOUS
    <2>2. SameBack(result.st, state[c], Content(disk))
      BY <1>1, <1>3, <2>1, BeforeSync DEF WriteShows
    <2>3. NotBehind(state[c], Content(disk)) /\ Held(state[c], Content(disk), marks[c])
      BY <1>1, <2>1 DEF MarksHold, HeldBy
    <2>4. /\ result.st.txn.savepoints = state[c].txn.savepoints
          /\ Len(state[c].txn.changes) <= Len(result.st.txn.changes)
          /\ Working(result.st, result.s)
      BY <1>3 DEF WriteKeeps, Grows
    <2>5. Len(result.st.txn.changes) \in Nat
      <3>1. result.st.txn \in Txn
        BY <2>4 DEF Working
      <3> QED
        BY <3>1, TxnFields
    <2> QED
      BY <1>2, <2>2, <2>3, <2>4, <2>5, HeldKept
  <1>6. result.s.generation = view[c].generation
    <2>1. result.s = [view[c] EXCEPT !.ids = result.s.ids]
      BY <1>3 DEF WriteKeeps, SameData
    <2> QED
      BY <1>1, <2>1 DEF Storage
  <1>7. MarksHold(c)'
    <2>1. HeldBy(TRUE, result.st, result.s, marks[c], disk)
      BY <1>5, <1>6 DEF HeldBy
    <2> QED
      BY <1>1, <1>4, <2>1 DEF MarksHold
  <1>8. Alone(c) /\ mode' = mode /\ Saved[c] = SavedRows(marks'[c])
    BY <1>4, RefFacts DEF Alone
  <1>9. shown[c] = SeenBy(state[c], view[c]) /\ Now(c)' = SeenBy(result.st, result.s)
    <2>1. shown[c] = Now(c)
      BY RefFacts
    <2> QED
      BY <1>1, <1>4, <2>1 DEF Now
  <1>10. CASE SeenBy(result.st, result.s) = SeenBy(state[c], view[c])
    <2>1. Now(c)' = shown[c]
      BY <1>9, <1>10
    <2>2. (\A d \in Connections : MarksHold(d)') /\ Alters(c, shown[c], Saved[c])
      BY <1>7, <1>8, <2>1, OneStep
    <2> QED
      BY <2>2, AsStutter
  <1>11. CASE \E id \in Rowid, value \in Vector \cup {None} :
                SeenBy(result.st, result.s) = [SeenBy(state[c], view[c]) EXCEPT ![id] = value]
    <2>1. PICK id \in Rowid, value \in Vector \cup {None} :
            SeenBy(result.st, result.s) = [SeenBy(state[c], view[c]) EXCEPT ![id] = value]
      BY <1>11
    <2>2. Now(c)' = [shown[c] EXCEPT ![id] = value]
      BY <1>9, <2>1
    <2>3. (\A d \in Connections : MarksHold(d)')
          /\ Alters(c, [shown[c] EXCEPT ![id] = value], Saved[c])
      BY <1>7, <1>8, <2>2, OneStep
    <2>4. Sql!Next
      BY <1>1, <2>3, AsWrite
    <2> QED
      BY <2>3, <2>4
  <1> QED
    BY <1>3, <1>10, <1>11 DEF WriteShows
-----------------------------------------------------------------------------
(* Savepoints. *)

LEMMA SavedMarks ==
  ASSUME NEW m \in Seq(MarkRecord)
  PROVE  /\ SavedRows(m) \in Seq(Rows \cup {None}) /\ Len(SavedRows(m)) = Len(m)
         /\ \A i \in DOMAIN m : SavedRows(m)[i] = m[i].rows
         /\ \A mark : SavedRows(Append(m, mark)) = Append(SavedRows(m), mark.rows)
         /\ \A j \in 0 .. Len(m) : SavedRows(SubSeq(m, 1, j)) = SubSeq(SavedRows(m), 1, j)
PROOF
  <1> DEFINE held == SavedRows(m)
  <1>1. Len(m) \in Nat /\ DOMAIN m = 1 .. Len(m)
    BY LenProperties
  <1>2. held = [i \in 1 .. Len(m) |-> m[i].rows]
    BY <1>1 DEF SavedRows
  <1>3. \A i \in 1 .. Len(m) : held[i] = m[i].rows /\ m[i].rows \in Rows \cup {None}
    <2> HIDE DEF held
    <2>1. \A i \in 1 .. Len(m) : m[i] \in MarkRecord
      BY <1>1
    <2>2. \A mark \in MarkRecord : mark.rows \in Rows \cup {None}
      BY DEF MarkRecord
    <2> QED
      BY <1>2, <2>1, <2>2
  <1>4. held \in Seq(Rows \cup {None}) /\ Len(held) = Len(m)
    BY <1>1, <1>2, <1>3
  <1>5. ASSUME NEW mark PROVE SavedRows(Append(m, mark)) = Append(held, mark.rows)
    <2>1. /\ DOMAIN Append(m, mark) = 1 .. Len(m) + 1
          /\ \A i \in 1 .. Len(m) + 1 : Append(m, mark)[i] = IF i <= Len(m) THEN m[i] ELSE mark
      BY <1>1
    <2>2. Append(held, mark.rows) = [i \in 1 .. Len(held) + 1 |->
                                       IF i <= Len(held) THEN held[i] ELSE mark.rows]
      BY <1>1, <1>4
    <2>3. SavedRows(Append(m, mark)) = [i \in 1 .. Len(m) + 1 |-> Append(m, mark)[i].rows]
      BY <2>1 DEF SavedRows
    <2>4. \A i \in 1 .. Len(m) + 1 :
            Append(m, mark)[i].rows = IF i <= Len(m) THEN held[i] ELSE mark.rows
      BY <1>1, <1>3, <2>1
    <2> HIDE DEF held
    <2> QED
      BY <1>4, <2>2, <2>3, <2>4
  <1>6. ASSUME NEW j \in 0 .. Len(m) PROVE SavedRows(SubSeq(m, 1, j)) = SubSeq(held, 1, j)
    <2>1. SubSeq(m, 1, j) = [i \in 1 .. j |-> m[i]]
      BY <1>1
    <2>2. SubSeq(held, 1, j) = [i \in 1 .. j |-> held[i]]
      BY <1>1, <1>4
    <2>3. SavedRows(SubSeq(m, 1, j)) = [i \in 1 .. j |-> m[i].rows]
      BY <2>1 DEF SavedRows
    <2>4. \A i \in 1 .. j : held[i] = m[i].rows
      BY <1>1, <1>3
    <2> HIDE DEF held
    <2> QED
      BY <2>2, <2>3, <2>4
  <1> QED
    BY <1>1, <1>3, <1>4, <1>5, <1>6

(* A savepoint leads back to what is seen when it is opened. *)
LEMMA PushHeld ==
  ASSUME NEW st \in State, st.txn \in Txn, NEW j \in Mark, NEW m, DOMAIN m = 1 .. j,
         \A k \in 1 .. j : k - 1 \in Mark,
         NEW base, Held(st, base, m) /\ NotBehind(st, base),
         NEW mark, mark.rows = BackAt(st, base, Len(st.txn.changes)),
         NEW longer, \A i \in DOMAIN longer : \/ i \in DOMAIN m /\ longer[i] = m[i]
                                              \/ i = j + 1 /\ longer[i] = mark
  PROVE  NotBehind(Savepoint(st, j), base) /\ Held(Savepoint(st, j), base, longer)
PROOF
  <1> DEFINE new == Savepoint(st, j)
             n == Len(st.txn.changes)
  <1>1. j \in Nat /\ n \in Nat /\ n \in 0 .. n
    BY MarkAssumption, TxnFields
  <1>2. /\ new.txn.changes = st.txn.changes
        /\ new.txn.savepoints = [Forget(st.txn.savepoints, Below(j)) EXCEPT ![j] = n]
        /\ SameBack(new, st, base)
    BY SavepointWorks, SavepointShows
  <1> HIDE DEF new
  <1>3. \A p \in 0 .. n : BackAt(new, base, p) = BackAt(st, base, p)
    BY <1>2 DEF SameBack
  <1>4. ASSUME NEW i \in DOMAIN longer
        PROVE  /\ new.txn.savepoints[i - 1] \in 0 .. n
               /\ longer[i].rows = BackAt(new, base, new.txn.savepoints[i - 1])
    <2>1. CASE i \in DOMAIN m /\ longer[i] = m[i]
      <3>1. i \in 1 .. j /\ i - 1 \in Mark /\ i - 1 # j
        BY <1>1, <2>1
      <3>2. Forget(st.txn.savepoints, Below(j))[i - 1] = st.txn.savepoints[i - 1]
        BY <1>1, <3>1, ForgetBelow
      <3>3. new.txn.savepoints[i - 1] = st.txn.savepoints[i - 1]
        BY <1>2, <3>1, <3>2
      <3>4. /\ st.txn.savepoints[i - 1] \in 0 .. n
            /\ m[i].rows = BackAt(st, base, st.txn.savepoints[i - 1])
        BY <2>1 DEF Held
      <3> QED
        BY <1>3, <2>1, <3>3, <3>4
    <2>2. CASE i = j + 1 /\ longer[i] = mark
      <3>1. i - 1 = j
        BY <1>1, <2>2
      <3>2. new.txn.savepoints[j] = n
        BY <1>2 DEF Forget
      <3>3. mark.rows = BackAt(new, base, n)
        BY <1>1, <1>3
      <3> QED
        BY <1>1, <2>2, <3>1, <3>2, <3>3
    <2> QED
      BY <2>1, <2>2
  <1>5. Held(new, base, longer)
    BY <1>2, <1>4 DEF Held
  <1> QED
    BY <1>2, <1>5 DEF SameBack, new

LEMMA PushMarkRefines ==
  ASSUME RefInv, ShownNow', NEW c \in Connections, OpenSavepoint(c) \/ OpenStatement(c)
  PROVE  (\A d \in Connections : MarksHold(d)') /\ [Sql!Next]_(Sql!sqlVars)
PROOF
  <1> DEFINE mark == [storage |-> view[c], rows |-> SeenRows(state[c], view[c])]
             j == Len(marks[c])
             st == IF enlisted[c] THEN Savepoint(state[c], j) ELSE state[c]
             longer == Append(marks[c], mark)
             base == Content(disk)
  <1>1. /\ CountInv /\ ExactInv /\ TypeOK /\ MarksHold(c) /\ marks[c] \in Seq(MarkRecord)
        /\ SeenRows(state[c], view[c]) = Now(c) /\ shown[c] = Now(c)
        /\ Saved[c] = SavedRows(marks[c]) /\ PushMark(c) /\ mode[c] = "write"
    BY RefFacts DEF OpenSavepoint, OpenStatement, PushMark, Writing
  <1>2. /\ j \in Mark /\ j \in Nat /\ DOMAIN marks[c] = 1 .. j
        /\ \A k \in 1 .. j : k - 1 \in Mark
    <2>1. j \in Nat /\ j < MaxMarks /\ MaxMarks \in Nat
      BY <1>1, MarksAreNumbered, TableAssumption DEF PushMark
    <2>2. j \in 0 .. MaxMarks - 1
      BY <2>1
    <2> QED
      BY <1>1, <2>1, <2>2, MarksAreNumbered, TableAssumption
  <1>3. mark.rows = Now(c)
    BY <1>1
  <1>4. /\ marks' = [marks EXCEPT ![c] = longer]
        /\ SetState(c, st)
        /\ UNCHANGED <<disk, mode, view, enlisted>>
    BY <1>1 DEF PushMark, TypeOK
  <1>5. \A i \in DOMAIN longer : (i \in DOMAIN marks[c] /\ longer[i] = marks[c][i])
                                 \/ (i = j + 1 /\ longer[i] = mark)
    BY <1>1
  <1>6. SavedRows(longer) = Append(Saved[c], shown[c])
    <2>1. SavedRows(longer) = Append(SavedRows(marks[c]), mark.rows)
      BY <1>1, SavedMarks
    <2> QED
      BY <1>1, <1>3, <2>1
  <1> HIDE DEF mark, longer
  <1>7. CASE enlisted[c]
    <2>1. /\ state[c] \in State /\ state[c].txn \in Txn /\ st = Savepoint(state[c], j)
      BY <1>1, <1>7, ExactFacts
    <2> HIDE DEF st, j
    <2>2. view[c].generation = disk.generation =>
            NotBehind(st, base) /\ Held(st, base, longer)
      <3>1. SUFFICES ASSUME view[c].generation = disk.generation
                     PROVE  NotBehind(st, base) /\ Held(st, base, longer)
        OBVIOUS
      <3>2. /\ Content(view[c]) = base /\ state[c].txn.synced = 0
        BY <1>1, <1>7, <3>1, BeforeSync DEF Recoverable
      <3>3. NotBehind(state[c], base) /\ Held(state[c], base, marks[c])
        BY <1>1, <1>7, <3>1 DEF MarksHold, HeldBy
      <3>4. Unsynced(state[c]) = state[c].txn.changes
        BY <2>1, <3>2, UnsyncedAll
      <3>5. Now(c) = BackAt(state[c], base, Len(state[c].txn.changes))
        BY <1>7, <3>2, <3>3, <3>4 DEF Now, SeenBy, NotBehind, Past, BackAt
      <3> HIDE DEF base
      <3>6. mark.rows = BackAt(state[c], base, Len(state[c].txn.changes))
        BY <1>3, <3>5
      <3> QED
        BY <1>2, <1>5, <2>1, <3>3, <3>6, PushHeld
    <2>3. SeenBy(st, view[c]) = SeenBy(state[c], view[c])
      BY <1>2, <2>1, SavepointShows
    <2>4. HeldBy(enlisted[c], st, view[c], longer, disk)
      BY <1>7, <2>2 DEF HeldBy
    <2>5. /\ \A d \in Connections : state'[d] = IF d = c THEN st ELSE state[d]
          /\ \A d \in Connections : marks'[d] = IF d = c THEN longer ELSE marks[d]
      BY <1>1, <1>4 DEF SetState, TypeOK
    <2>6. MarksHold(c)' /\ Now(c)' = shown[c]
      BY <1>1, <1>4, <1>7, <2>3, <2>4, <2>5 DEF MarksHold, Now
    <2>7. Alone(c) /\ mode' = mode
      BY <1>4, <2>5 DEF Alone
    <2>8. Append(Saved[c], shown[c]) = SavedRows(marks'[c])
      BY <1>6, <2>5
    <2>9. (\A d \in Connections : MarksHold(d)')
          /\ Alters(c, shown[c], Append(Saved[c], shown[c]))
      BY <2>6, <2>7, <2>8, OneStep
    <2> QED
      BY <1>1, <2>9, AsSave
  <1>8. CASE ~enlisted[c]
    <2>1. st = state[c] /\ view[c] = disk
      BY <1>1, <1>8, SeesDisk
    <2> HIDE DEF st, j
    <2>2. \A i \in DOMAIN longer : longer[i].rows = Content(disk)
      BY <1>1, <1>3, <1>5, <1>8, <2>1 DEF MarksHold, HeldBy, Now
    <2>3. HeldBy(enlisted[c], st, view[c], longer, disk)
      BY <1>8, <2>2 DEF HeldBy
    <2>4. /\ \A d \in Connections : state'[d] = state[d]
          /\ \A d \in Connections : marks'[d] = IF d = c THEN longer ELSE marks[d]
      BY <1>1, <1>4, <2>1 DEF SetState, TypeOK
    <2>5. MarksHold(c)' /\ Now(c)' = shown[c]
      BY <1>1, <1>4, <1>8, <2>1, <2>3, <2>4 DEF MarksHold, Now
    <2>6. Alone(c) /\ mode' = mode
      BY <1>4, <2>4 DEF Alone
    <2>7. Append(Saved[c], shown[c]) = SavedRows(marks'[c])
      BY <1>6, <2>4
    <2>8. (\A d \in Connections : MarksHold(d)')
          /\ Alters(c, shown[c], Append(Saved[c], shown[c]))
      BY <2>5, <2>6, <2>7, OneStep
    <2> QED
      BY <1>1, <2>8, AsSave
  <1> QED
    BY <1>7, <1>8

LEMMA ReleaseHeld ==
  ASSUME NEW st \in State, st.txn \in Txn, NEW j \in Nat, \A k \in 1 .. j : k - 1 \in Mark,
         NEW base, NEW m, NotBehind(st, base) /\ Held(st, base, m),
         NEW cut, \A i \in DOMAIN cut : i \in DOMAIN m /\ cut[i] = m[i] /\ i \in 1 .. j
  PROVE  NotBehind(Release(st, j), base) /\ Held(Release(st, j), base, cut)
PROOF
  <1> DEFINE new == Release(st, j)
  <1>1. SameBack(new, st, base) /\ new.txn.changes = st.txn.changes
    BY ReleaseShows
  <1>2. new.txn.savepoints = Forget(st.txn.savepoints, Below(j))
    <2>1. new = [st EXCEPT !.txn.savepoints = Forget(@, Below(j))]
      BY TxnIsThere DEF Release
    <2> HIDE DEF new
    <2>2. new.txn = [st.txn EXCEPT !.savepoints = Forget(@, Below(j))]
      BY <2>1 DEF State
    <2> QED
      BY <2>2 DEF Txn
  <1> HIDE DEF new
  <1>3. ASSUME NEW i \in DOMAIN cut
        PROVE  /\ new.txn.savepoints[i - 1] \in 0 .. Len(new.txn.changes)
               /\ cut[i].rows = BackAt(new, base, new.txn.savepoints[i - 1])
    <2>1. /\ st.txn.savepoints[i - 1] \in 0 .. Len(st.txn.changes)
          /\ cut[i].rows = BackAt(st, base, st.txn.savepoints[i - 1])
      BY DEF Held
    <2>2. new.txn.savepoints[i - 1] = st.txn.savepoints[i - 1]
      BY <1>2, ForgetBelow
    <2> QED
      BY <1>1, <2>1, <2>2 DEF SameBack
  <1> QED
    BY <1>1, <1>3 DEF Held, SameBack, new

LEMMA ReleaseMarkRefines ==
  ASSUME RefInv, ShownNow', NEW c \in Connections, ReleaseSavepoint(c) \/ CloseStatement(c)
  PROVE  (\A d \in Connections : MarksHold(d)') /\ [Sql!Next]_(Sql!sqlVars)
PROOF
  <1>1. /\ CountInv /\ ExactInv /\ TypeOK /\ MarksHold(c) /\ marks[c] \in Seq(MarkRecord)
        /\ shown[c] = Now(c) /\ Saved[c] = SavedRows(marks[c])
    BY RefFacts
  <1>2. PICK j \in 0 .. TopMark(c) : ReleaseMark(c, j)
    BY <1>1, MarkIndex DEF ReleaseSavepoint, CloseStatement
  <1>3. /\ j \in Mark /\ j \in Nat /\ j \in 0 .. Len(marks[c]) /\ j \in 0 .. Len(Saved[c]) - 1
        /\ \A k \in 1 .. j : k - 1 \in Mark
    <2>1. j \in Mark /\ j + 1 \in 1 .. Len(marks[c]) /\ Len(marks[c]) \in Nat
      BY <1>1, MarkIndex
    <2>2. Len(Saved[c]) = Len(marks[c])
      BY <1>1, SavedMarks
    <2>3. /\ j \in 0 .. Len(marks[c]) /\ j \in Nat /\ j \in 0 .. Len(Saved[c]) - 1
          /\ \A k \in 1 .. j : k \in 1 .. Len(marks[c])
      BY <2>1, <2>2, MarkAssumption
    <2> QED
      BY <1>1, <2>1, <2>3, MarksAreNumbered
  <1> DEFINE st == IF enlisted[c] THEN Release(state[c], j) ELSE state[c]
             cut == SubSeq(marks[c], 1, j)
             base == Content(disk)
  <1>4. /\ \A d \in Connections : marks'[d] = IF d = c THEN cut ELSE marks[d]
        /\ SetState(c, st)
        /\ UNCHANGED <<disk, mode, view, enlisted>>
    BY <1>1, <1>2 DEF ReleaseMark, TypeOK
  <1>5. \A i \in DOMAIN cut : i \in DOMAIN marks[c] /\ cut[i] = marks[c][i] /\ i \in 1 .. j
    <2>1. cut \in Seq(MarkRecord) /\ Len(cut) = j
      BY <1>1, <1>3, MarkPrefix
    <2>2. DOMAIN cut = 1 .. j
      BY <2>1
    <2> QED
      BY <1>1, <1>3, <2>2, FirstMarks
  <1>6. SavedRows(cut) = SubSeq(Saved[c], 1, j)
    BY <1>1, <1>3, SavedMarks
  <1> HIDE DEF cut
  <1>7. enlisted[c] =>
          /\ SeenBy(st, view[c]) = SeenBy(state[c], view[c])
          /\ view[c].generation = disk.generation => NotBehind(st, base) /\ Held(st, base, cut)
    <2>1. SUFFICES ASSUME enlisted[c]
                   PROVE  /\ SeenBy(st, view[c]) = SeenBy(state[c], view[c])
                          /\ view[c].generation = disk.generation =>
                               NotBehind(st, base) /\ Held(st, base, cut)
      OBVIOUS
    <2>2. /\ state[c] \in State /\ state[c].txn \in Txn /\ state[c].txn # None
          /\ st = Release(state[c], j)
      BY <1>1, <2>1, ExactFacts
    <2>3. SeenBy(st, view[c]) = SeenBy(state[c], view[c])
      BY <2>2, ReleaseShows
    <2> HIDE DEF st, base
    <2>4. ASSUME view[c].generation = disk.generation
          PROVE  NotBehind(st, base) /\ Held(st, base, cut)
      <3>1. NotBehind(state[c], base) /\ Held(state[c], base, marks[c])
        BY <1>1, <2>1, <2>4 DEF MarksHold, HeldBy, base
      <3> QED
        BY <1>3, <1>5, <2>2, <3>1, ReleaseHeld
    <2> QED
      BY <2>3, <2>4
  <1>8. ~enlisted[c] => st = state[c]
    OBVIOUS
  <1> HIDE DEF st
  <1>9. \A d \in Connections : state'[d] = IF d = c THEN st ELSE state[d]
    BY <1>1, <1>4 DEF SetState, TypeOK
  <1>10. HeldBy(enlisted[c], st, view[c], cut, disk)
    BY <1>1, <1>5, <1>7 DEF MarksHold, HeldBy
  <1>11. MarksHold(c)' /\ Now(c)' = shown[c]
    BY <1>1, <1>4, <1>7, <1>8, <1>9, <1>10 DEF MarksHold, Now
  <1>12. Alone(c) /\ mode' = mode /\ SubSeq(Saved[c], 1, j) = SavedRows(marks'[c])
    BY <1>4, <1>6, <1>9 DEF Alone
  <1>13. (\A d \in Connections : MarksHold(d)') /\ Alters(c, shown[c], SubSeq(Saved[c], 1, j))
    BY <1>11, <1>12, OneStep
  <1> QED
    BY <1>3, <1>13, AsRelease
-----------------------------------------------------------------------------
(* xRollbackTo. *)

(* Going back to a mark shows the rows its savepoint was opened on, and    *)
(* the marks before it still lead to theirs.                               *)
LEMMA MarkShows ==
  ASSUME RefInv, NEW c \in Connections, enlisted[c], view[c].generation = disk.generation,
         NEW j \in 0 .. TopMark(c)
  PROVE  LET result == RollbackTo(state[c], j)
             base == Content(disk)
         IN  /\ result.ok /\ result.st \in State /\ result.st.txn \in Txn
             /\ SeenBy(result.st, marks[c][j + 1].storage) = marks[c][j + 1].rows
             /\ NotBehind(result.st, base)
             /\ Held(result.st, base, SubSeq(marks[c], 1, j + 1))
PROOF
  <1> DEFINE result == RollbackTo(state[c], j)
             new == result.st
             base == Content(disk)
             back == marks[c][j + 1].storage
             st == state[c]
             cs == st.txn.changes
             n == st.txn.savepoints[j]
             cut == SubSeq(marks[c], 1, j + 1)
  <1>1. /\ CountInv /\ ExactInv /\ TypeOK /\ marks[c] \in Seq(MarkRecord)
        /\ NotBehind(st, base) /\ Held(st, base, marks[c])
    BY RefFacts DEF MarksHold, HeldBy
  <1>2. /\ j \in Mark /\ j \in Nat /\ j + 1 \in DOMAIN marks[c] /\ (j + 1) - 1 = j
        /\ j + 1 \in 0 .. Len(marks[c]) /\ j + 1 \in Nat
        /\ \A k \in 1 .. j + 1 : k - 1 \in Mark /\ k \in DOMAIN marks[c]
    <2>1. /\ j \in Mark /\ j + 1 \in 1 .. Len(marks[c]) /\ Len(marks[c]) \in Nat
          /\ DOMAIN marks[c] = 1 .. Len(marks[c])
          /\ \A k \in 1 .. Len(marks[c]) : k - 1 \in Mark
      BY <1>1, ExactFacts, MarkIndex, MarksAreNumbered
    <2>2. /\ j \in Nat /\ (j + 1) - 1 = j /\ \A k \in 1 .. j + 1 : k \in 1 .. Len(marks[c])
          /\ j + 1 \in 0 .. Len(marks[c]) /\ j + 1 \in Nat
      BY <2>1, MarkAssumption
    <2> QED
      BY <2>1, <2>2
  <1>3. /\ st \in State /\ view[c] \in Storage /\ disk \in Storage /\ st.txn \in Txn
        /\ Working(st, view[c]) /\ Retains(st)
        /\ Recoverable(st, base) /\ Content(view[c]) = base
        /\ SameData(back, disk) /\ MarkFits(st, disk, j + 1, back)
    BY <1>1, <1>2, BeforeSync
  <1>4. n \in 0 .. Len(cs) /\ cs \in Seq(Change) /\ back \in Storage
    BY <1>1, <1>2, <1>3, TxnFields, ExactFacts DEF MarkFits
  <1>5. Content(back) = base
    BY <1>3, <1>4, SameDataFacts, SameImageExtends
  <1>6. GoneBack(result, disk, marks[c], j)
    BY <1>1, MarkBack
  <1>7. ShowsBack(new, st, base, n)
    BY <1>2, <1>3, <1>4, <1>6, RollbackShows DEF GoneBack
  <1>8. new.txn.savepoints = Forget(st.txn.savepoints, Below(j + 1))
    <2>1. /\ SameData(back, view[c])
          /\ back.layout = "current" => back.ids = KeysAfter(Content(view[c]), SubSeq(cs, 1, n))
      <3>1. SameData(view[c], disk) /\ back.layout = disk.layout
        <4>1. ExactParts(c) /\ mode[c] = "write"
          BY <1>1, ExactFacts
        <4> QED
          BY <1>3, <1>4, <4>1, SameDataFacts DEF ExactParts, Writes
      <3> QED
        BY <1>2, <1>3, <1>4, <3>1, SameDataFacts DEF MarkFits
    <2> QED
      BY <1>2, <1>3, <1>4, <2>1, RollbackToWorks
  <1>9. \A i \in 1 .. j + 1 : MarkFits(new, disk, i, marks[c][i].storage)
    BY <1>6 DEF GoneBack
  <1>10. result.ok /\ new \in State /\ new.txn \in Txn /\ new.txn.synced = 0
    BY <1>6 DEF GoneBack, Recoverable
  <1>11. \A i \in DOMAIN cut : i \in DOMAIN marks[c] /\ cut[i] = marks[c][i] /\ i \in 1 .. j + 1
    <2>1. cut \in Seq(MarkRecord) /\ Len(cut) = j + 1
      BY <1>1, <1>2, MarkPrefix
    <2>2. DOMAIN cut = 1 .. j + 1
      BY <2>1
    <2> QED
      BY <1>1, <1>2, <2>2, FirstMarks
  <1>12. SeenBy(new, back) = marks[c][j + 1].rows
    <2>1. Unsynced(new) = new.txn.changes
      BY <1>10, UnsyncedAll
    <2>2. marks[c][j + 1].rows = BackAt(st, base, n)
      BY <1>1, <1>2 DEF Held
    <2> HIDE DEF new, base, back
    <2> QED
      BY <1>5, <1>7, <2>1, <2>2 DEF SeenBy, ShowsBack
  <1> HIDE DEF result, base, back, cut
  <1>13. ASSUME NEW i \in DOMAIN cut
         PROVE  /\ new.txn.savepoints[i - 1] \in 0 .. Len(new.txn.changes)
                /\ cut[i].rows = BackAt(new, base, new.txn.savepoints[i - 1])
    <2>1. i \in DOMAIN marks[c] /\ cut[i] = marks[c][i] /\ i \in 1 .. j + 1
      BY <1>11
    <2>2. /\ st.txn.savepoints[i - 1] \in 0 .. Len(cs)
          /\ cut[i].rows = BackAt(st, base, st.txn.savepoints[i - 1])
      BY <1>1, <2>1 DEF Held
    <2>3. new.txn.savepoints[i - 1] = st.txn.savepoints[i - 1]
      BY <1>2, <1>8, <2>1, ForgetBelow
    <2>4. new.txn.savepoints[i - 1] \in 0 .. Len(new.txn.changes)
      BY <1>9, <2>1 DEF MarkFits
    <2>5. Len(new.txn.changes) = n
      <3>1. new.txn.changes = SubSeq(cs, 1, n)
        BY <1>7 DEF ShowsBack
      <3> QED
        BY <1>4, <3>1, CutParts
    <2>6. BackAt(new, base, st.txn.savepoints[i - 1]) = BackAt(st, base, st.txn.savepoints[i - 1])
      BY <1>7, <2>3, <2>4, <2>5 DEF ShowsBack
    <2> QED
      BY <2>2, <2>3, <2>4, <2>6
  <1>14. NotBehind(new, base) /\ Held(new, base, cut)
    BY <1>7, <1>13 DEF Held, ShowsBack
  <1> QED
    BY <1>10, <1>12, <1>14 DEF result, base, back, cut

(* A step of c back to a mark, or to the beginning. *)
LEMMA MovedStep ==
  ASSUME RefInv, ShownNow', NEW c \in Connections, NEW st, NEW back, NEW cut,
         SetState(c, st), view' = [view EXCEPT ![c] = back],
         marks' = [marks EXCEPT ![c] = cut], UNCHANGED <<disk, mode, enlisted>>,
         HeldBy(enlisted[c], st, back, cut, disk),
         NEW table, table = IF enlisted[c] THEN SeenBy(st, back) ELSE Content(back),
         NEW held, held = SavedRows(cut)
  PROVE  (\A d \in Connections : MarksHold(d)') /\ Alters(c, table, held)
PROOF
  <1>1. TypeOK
    BY RefFacts
  <1>2. /\ \A d \in Connections : state'[d] = IF d = c THEN st ELSE state[d]
        /\ \A d \in Connections : view'[d] = IF d = c THEN back ELSE view[d]
        /\ \A d \in Connections : marks'[d] = IF d = c THEN cut ELSE marks[d]
    BY <1>1 DEF SetState, TypeOK
  <1>3. MarksHold(c)' /\ table = Now(c)' /\ held = SavedRows(marks'[c])
    BY <1>2 DEF MarksHold, Now
  <1>4. Alone(c) /\ mode' = mode
    BY <1>2 DEF Alone
  <1> QED
    BY <1>3, <1>4, OneStep

(* What xRollbackTo(-1) leaves shows what the transaction began with. *)
LEMMA StartShows ==
  ASSUME RefInv, NEW c \in Connections, enlisted[c], view[c].generation = disk.generation
  PROVE  LET new == RollbackToStart(state[c]).st
         IN  SeenBy(new, disk) = Content(disk) /\ NotBehind(new, Content(disk))
PROOF
  <1> DEFINE st == state[c]
             base == Content(disk)
             new == RollbackToStart(st).st
  <1>1. CountInv /\ ExactInv
    BY RefFacts
  <1>2. /\ st \in State /\ view[c] \in Storage /\ disk \in Storage
        /\ Working(st, view[c]) /\ Retains(st)
        /\ Recoverable(st, base) /\ Content(view[c]) = base /\ OwnIds(disk)
    BY <1>1, BeforeSync, ExactFacts
  <1>3. SameData(disk, view[c])
    <2>1. ExactParts(c) /\ mode[c] = "write"
      BY <1>1, ExactFacts
    <2> QED
      BY <1>2, <2>1, SameDataFacts DEF ExactParts, Writes
  <1>4. disk.layout = "current" => disk.ids = Keys(Content(view[c]))
    BY <1>2 DEF OwnIds
  <1>5. RollbackToStart(st).ok /\ Working(new, disk) /\ Recoverable(new, base)
    BY <1>2, <1>3, <1>4, RollbackToStartWorks
  <1>6. ShowsBack(new, st, base, 0)
    BY <1>2, <1>5, RollbackShows
  <1>7. new.txn \in Txn /\ new.txn.synced = 0
    BY <1>5 DEF Working, Recoverable
  <1>8. Unsynced(new) = new.txn.changes
    BY <1>7, UnsyncedAll
  <1>9. BackAt(st, base, 0) = base
    <2>1. Sound(st.index, st.txn.changes, st.txn.checkpoint, base)
      BY <1>2, StateIsSound
    <2> HIDE DEF base
    <2> QED
      BY <2>1, RecallStart DEF BackAt
  <1> HIDE DEF new
  <1> QED
    BY <1>6, <1>8, <1>9 DEF SeenBy, ShowsBack, new

LEMMA RollbackToRefines ==
  ASSUME RefInv, ShownNow', PartialAfterBusy = FALSE, NEW c \in Connections,
         RollbackToSavepoint(c) \/ RollbackToBegin(c)
  PROVE  (\A d \in Connections : MarksHold(d)') /\ [Sql!Next]_(Sql!sqlVars)
PROOF
  <1>1. /\ CountInv /\ ExactInv /\ TypeOK /\ MarksHold(c) /\ marks[c] \in Seq(MarkRecord)
        /\ stored = Content(disk) /\ Saved[c] = SavedRows(marks[c])
        /\ mode[c] = "write" /\ view[c].generation = disk.generation
    BY RefFacts DEF RollbackToSavepoint, RollbackToBegin, Writing, PartialAllowed
  <1>2. CASE RollbackToSavepoint(c)
    <2>1. PICK j \in 0 .. TopMark(c) :
            /\ view' = [view EXCEPT ![c] = marks[c][j + 1].storage]
            /\ marks' = [marks EXCEPT ![c] = SubSeq(@, 1, j + 1)]
            /\ SetState(c, IF enlisted[c] THEN RollbackTo(state[c], j).st ELSE state[c])
      BY <1>2 DEF RollbackToSavepoint
    <2> DEFINE st == IF enlisted[c] THEN RollbackTo(state[c], j).st ELSE state[c]
               back == marks[c][j + 1].storage
               cut == SubSeq(marks[c], 1, j + 1)
               table == marks[c][j + 1].rows
    <2>2. /\ j + 1 \in DOMAIN marks[c] /\ j + 1 \in 0 .. Len(marks[c])
          /\ j + 1 \in 1 .. Len(Saved[c]) /\ j + 1 \in {j + 1, (j + 1) - 1}
      <3>1. j + 1 \in 1 .. Len(marks[c]) /\ Len(marks[c]) \in Nat
            /\ DOMAIN marks[c] = 1 .. Len(marks[c])
        BY <1>1, MarkIndex, ExactFacts
      <3>2. Len(Saved[c]) = Len(marks[c])
        BY <1>1, SavedMarks
      <3> QED
        BY <3>1, <3>2
    <2>3. /\ marks' = [marks EXCEPT ![c] = cut]
          /\ view' = [view EXCEPT ![c] = back] /\ SetState(c, st)
          /\ UNCHANGED <<disk, mode, enlisted>>
      BY <1>1, <1>2, <2>1 DEF RollbackToSavepoint, TypeOK
    <2>4. Saved[c][j + 1] = table /\ SavedRows(cut) = SubSeq(Saved[c], 1, j + 1)
      BY <1>1, <2>2, SavedMarks
    <2>5. enlisted[c] => /\ SeenBy(st, back) = table
                         /\ NotBehind(st, Content(disk)) /\ Held(st, Content(disk), cut)
      BY <1>1, MarkShows
    <2>6. \A i \in DOMAIN cut : i \in DOMAIN marks[c] /\ cut[i] = marks[c][i]
      BY <1>1, <2>2, FirstMarks
    <2>7. ~enlisted[c] => Content(back) = table /\ back = disk
      <3>1. ~enlisted[c] => back = disk /\ table = Content(disk)
        BY <1>1, <2>2, SeesDisk DEF MarksHold, HeldBy
      <3> QED
        BY <3>1
    <2> HIDE DEF st, back, cut, table
    <2>8. HeldBy(enlisted[c], st, back, cut, disk)
      BY <1>1, <2>5, <2>6 DEF HeldBy, MarksHold
    <2>9. table = IF enlisted[c] THEN SeenBy(st, back) ELSE Content(back)
      BY <2>5, <2>7
    <2>10. (\A d \in Connections : MarksHold(d)') /\ Alters(c, table, SavedRows(cut))
      BY <2>3, <2>8, <2>9, MovedStep
    <2>11. Alters(c, Saved[c][j + 1], SubSeq(Saved[c], 1, j + 1))
      BY <2>4, <2>10
    <2>12. Sql!Next
      BY <2>2, <2>11, AsRestore
    <2> QED
      BY <2>10, <2>12
  <1>3. CASE RollbackToBegin(c)
    <2> DEFINE st == IF enlisted[c] THEN RollbackToStart(state[c]).st ELSE state[c]
    <2>1. /\ view' = [view EXCEPT ![c] = disk] /\ marks' = [marks EXCEPT ![c] = <<>>]
          /\ SetState(c, st) /\ UNCHANGED <<disk, mode, enlisted>>
      BY <1>3 DEF RollbackToBegin
    <2>2. enlisted[c] => SeenBy(st, disk) = Content(disk) /\ NotBehind(st, Content(disk))
      BY <1>1, StartShows
    <2> HIDE DEF st
    <2>3. DOMAIN <<>> = {} /\ SavedRows(<<>>) = <<>>
      BY DEF SavedRows
    <2>4. HeldBy(enlisted[c], st, disk, <<>>, disk)
      BY <2>2, <2>3 DEF HeldBy, Held
    <2>5. stored = IF enlisted[c] THEN SeenBy(st, disk) ELSE Content(disk)
      BY <1>1, <2>2
    <2>6. (\A d \in Connections : MarksHold(d)') /\ Alters(c, stored, <<>>)
      BY <2>1, <2>3, <2>4, <2>5, MovedStep
    <2> QED
      BY <1>1, <2>6, AsRestoreBegin
  <1> QED
    BY <1>2, <1>3

(* The rollback of a failed statement, and the release of its journal.     *)
LEMMA AbortRefines ==
  ASSUME RefInv, ShownNow', PartialAfterBusy = FALSE, NEW c \in Connections, AbortStatement(c)
  PROVE  (\A d \in Connections : MarksHold(d)') /\ [Sql!Next]_(Sql!sqlVars)
PROOF
  <1> DEFINE j == TopMark(c)
             back == IF enlisted[c] THEN RollbackTo(state[c], j)
                                    ELSE Result(TRUE, state[c])
             st == IF enlisted[c] THEN Release(back.st, j) ELSE back.st
             storage == marks[c][j + 1].storage
             cut == SubSeq(marks[c], 1, j)
             longer == SubSeq(marks[c], 1, j + 1)
             table == marks[c][j + 1].rows
             base == Content(disk)
  <1>1. /\ CountInv /\ ExactInv /\ TypeOK /\ MarksHold(c) /\ marks[c] \in Seq(MarkRecord)
        /\ Saved[c] = SavedRows(marks[c]) /\ Agrees(c)
    BY RefFacts, ExactFacts
  <1>2. mode[c] = "write" /\ view[c].generation = disk.generation
    BY <1>1 DEF AbortStatement, PartialAllowed, Agrees, TypeOK
  <1>3. j \in 0 .. TopMark(c)
    BY <1>1, MarkIndex DEF AbortStatement
  <1>4. /\ j \in Nat /\ j \in 0 .. Len(marks[c]) /\ j + 1 \in 0 .. Len(marks[c])
        /\ j + 1 \in DOMAIN marks[c] /\ j + 1 \in 1 .. Len(Saved[c])
        /\ j \in {j + 1, (j + 1) - 1} /\ \A k \in 1 .. j : k - 1 \in Mark
    <2>1. j \in Mark /\ j + 1 \in 1 .. Len(marks[c]) /\ Len(marks[c]) \in Nat
          /\ DOMAIN marks[c] = 1 .. Len(marks[c])
          /\ \A k \in 1 .. Len(marks[c]) : k - 1 \in Mark
      BY <1>1, <1>3, MarkIndex, ExactFacts, MarksAreNumbered
    <2>2. Len(Saved[c]) = Len(marks[c])
      BY <1>1, SavedMarks
    <2> HIDE DEF j
    <2> QED
      BY <2>1, <2>2, MarkAssumption
  <1>5. AbortTo(c, j, back)
    BY DEF AbortStatement
  <1> HIDE DEF j
  <1>6. enlisted[c] => /\ back.ok /\ back.st \in State /\ back.st.txn \in Txn
                       /\ SeenBy(back.st, storage) = table
                       /\ NotBehind(back.st, base) /\ Held(back.st, base, longer)
    BY <1>2, <1>3, MarkShows
  <1>7. back.ok /\ (~enlisted[c] => back.st = state[c])
    BY <1>6 DEF Result
  <1> HIDE DEF back
  <1>8. Saved[c][j + 1] = table /\ SavedRows(cut) = SubSeq(Saved[c], 1, j)
    BY <1>1, <1>4, SavedMarks
  <1>9. \A i \in DOMAIN cut : /\ i \in DOMAIN marks[c] /\ cut[i] = marks[c][i]
                              /\ i \in 1 .. j /\ i \in DOMAIN longer /\ longer[i] = cut[i]
    <2>1. cut \in Seq(MarkRecord) /\ Len(cut) = j
      BY <1>1, <1>4, MarkPrefix
    <2>2. longer \in Seq(MarkRecord) /\ Len(longer) = j + 1
      BY <1>1, <1>4, MarkPrefix
    <2>3. DOMAIN cut = 1 .. j /\ DOMAIN longer = 1 .. j + 1
      BY <2>1, <2>2
    <2>4. \A i \in DOMAIN cut : i \in DOMAIN marks[c] /\ cut[i] = marks[c][i]
      BY <1>1, <1>4, FirstMarks
    <2>5. \A i \in DOMAIN longer : longer[i] = marks[c][i]
      BY <1>1, <1>4, FirstMarks
    <2>6. \A i \in 1 .. j : i \in 1 .. j + 1
      BY <1>4
    <2> QED
      BY <2>3, <2>4, <2>5, <2>6
  <1> HIDE DEF storage, cut, longer, table, base
  <1>10. enlisted[c] => /\ SeenBy(st, storage) = table
                        /\ NotBehind(st, base) /\ Held(st, base, cut)
    <2>1. SUFFICES ASSUME enlisted[c]
                   PROVE  /\ SeenBy(st, storage) = table
                          /\ NotBehind(st, base) /\ Held(st, base, cut)
      OBVIOUS
    <2>2. st = Release(back.st, j) /\ back.st \in State /\ back.st.txn \in Txn
      BY <1>6, <2>1
    <2> HIDE DEF st
    <2>3. SeenBy(st, storage) = SeenBy(back.st, storage)
      BY <2>2, ReleaseShows
    <2>4. NotBehind(st, base) /\ Held(st, base, cut)
      BY <1>4, <1>6, <1>9, <2>1, <2>2, ReleaseHeld
    <2> QED
      BY <1>6, <2>1, <2>3, <2>4
  <1>11. ~enlisted[c] => storage = disk /\ table = base
    BY <1>1, <1>2, <1>4, SeesDisk DEF MarksHold, HeldBy, storage, table, base
  <1>12. /\ view' = [view EXCEPT ![c] = storage]
         /\ marks' = [marks EXCEPT ![c] = cut]
         /\ SetState(c, st)
         /\ UNCHANGED <<disk, mode, enlisted>>
    BY <1>1, <1>5, <1>7 DEF AbortTo, TypeOK, storage, cut
  <1> HIDE DEF st
  <1>13. HeldBy(enlisted[c], st, storage, cut, disk)
    BY <1>1, <1>9, <1>10 DEF HeldBy, MarksHold, base
  <1>14. table = IF enlisted[c] THEN SeenBy(st, storage) ELSE Content(storage)
    BY <1>10, <1>11 DEF base
  <1>15. (\A d \in Connections : MarksHold(d)') /\ Alters(c, table, SavedRows(cut))
    BY <1>12, <1>13, <1>14, MovedStep
  <1>16. Alters(c, Saved[c][j + 1], SubSeq(Saved[c], 1, j))
    BY <1>8, <1>15
  <1>17. Sql!Next
    BY <1>4, <1>16, AsRestore
  <1> QED
    BY <1>15, <1>17
-----------------------------------------------------------------------------
(* The commit, and the theorem. *)

LEMMA CommitRefines ==
  ASSUME RefInv, ShownNow', MinDeltaBase > 0, NEW c \in Connections, Commit(c)
  PROVE  (\A d \in Connections : MarksHold(d)') /\ [Sql!Next]_(Sql!sqlVars)
PROOF
  <1> DEFINE synced == Sync(state[c], view[c])
             st == synced.st
             s == synced.s
  <1>1. /\ CountInv /\ TypeOK /\ MarksHold(c) /\ stored = Content(disk)
        /\ shown[c] = Now(c) /\ Saved[c] = SavedRows(marks[c])
        /\ Updating(c) /\ mode[c] = "write" /\ enlisted[c] = TRUE
    BY RefFacts DEF Commit, Updating, TypeOK
  <1>2. state[c] \in State /\ view[c] \in Storage /\ Counted(state[c], view[c])
    BY <1>1, CountFacts
  <1>3. synced.ok => /\ st \in State /\ s \in Storage
                     /\ Working(st, s) /\ Unsynced(st) = <<>>
                     /\ \/ st = state[c] /\ s = view[c]
                        \/ s.generation > disk.generation
    BY <1>1, CommitCounts DEF SyncLeaves
  <1>4. synced.ok => Content(s) = shown[c]
    <2>1. synced.ok => Content(s) = SeenBy(state[c], view[c])
      BY <1>2, SyncShows
    <2> QED
      BY <1>1, <2>1 DEF Now
  <1>5. \/ ~synced.ok /\ Ended(c, disk) /\ SetState(c, RolledBack(st))
        \/ /\ synced.ok
           /\ view' = [view EXCEPT ![c] = s] /\ SetState(c, st)
           /\ UNCHANGED <<disk, mode, marks, statement, enlisted>>
        \/ synced.ok /\ Ended(c, s) /\ SetState(c, Committed(st))
    BY DEF Commit, CommitSynced
  <1> HIDE DEF synced, st, s
  <1>6. CASE ~synced.ok /\ Ended(c, disk) /\ SetState(c, RolledBack(st))
    BY <1>6, AbandonShows
  <1>7. CASE /\ synced.ok
             /\ view' = [view EXCEPT ![c] = s] /\ SetState(c, st)
             /\ UNCHANGED <<disk, mode, marks, statement, enlisted>>
    <2>1. HeldBy(enlisted[c], st, s, marks[c], disk)
      <3>1. CASE st = state[c] /\ s = view[c]
        BY <1>1, <3>1 DEF MarksHold
      <3>2. CASE s.generation > disk.generation
        <4>1. s.generation \in Nat /\ disk.generation \in Nat
          BY <1>1, <1>3, <1>7 DEF TypeOK, Storage, Generation
        <4>2. s.generation # disk.generation
          BY <3>2, <4>1
        <4> QED
          BY <1>1, <4>2 DEF HeldBy
      <3> QED
        BY <1>3, <1>7, <3>1, <3>2
    <2>2. marks' = [marks EXCEPT ![c] = marks[c]]
      BY <1>1, <1>7 DEF TypeOK
    <2>3. shown[c] = IF enlisted[c] THEN SeenBy(st, s) ELSE Content(s)
      <3>1. SeenBy(st, s) = Content(s)
        BY <1>3, <1>7, SettledShows
      <3> QED
        BY <1>1, <1>4, <1>7, <3>1
    <2>4. (\A d \in Connections : MarksHold(d)') /\ Alters(c, shown[c], Saved[c])
      BY <1>1, <1>7, <2>1, <2>2, <2>3, MovedStep
    <2> QED
      BY <2>4, AsStutter
  <1>8. CASE synced.ok /\ Ended(c, s) /\ SetState(c, Committed(st))
    <2>1. s \in Storage
      BY <1>3, <1>8
    <2>2. (\A d \in Connections : MarksHold(d)') /\ Closes(c, Content(s))
      BY <1>1, <1>8, <2>1, EndShows
    <2>3. Sql!Commit(c)
      BY <1>1, <1>4, <1>8, <2>2 DEF Closes, Saved, SavedRows, Sql!Commit, Sql!End
    <2> QED
      BY <2>2, <2>3 DEF Sql!Next
  <1> QED
    BY <1>5, <1>6, <1>7, <1>8

LEMMA StepRefines ==
  ASSUME PartialAfterBusy = FALSE, EarlyMarks <= 1, MinDeltaBase > 0,
         RefInv, [RecordedNext]_refinementVars
  PROVE  RefInv' /\ [Sql!Next]_(Sql!sqlVars)
PROOF
  <1>1. CountInv /\ \A c \in Connections : MarksHold(c)
    BY DEF RefInv
  <1>2. [Next]_vars
    BY DEF RecordedNext, refinementVars
  <1>3. CountInv'
    BY <1>1, <1>2, NextCount
  <1>4. CASE UNCHANGED refinementVars
    <2>1. UNCHANGED <<disk, mode, view, marks, statement, enlisted, state, shown, stored>>
      BY <1>4 DEF refinementVars, vars
    <2>2. \A c \in Connections : MarksHold(c)' /\ Now(c)' = Now(c)
      BY <1>1, <2>1 DEF MarksHold, Now
    <2>3. ShownNow'
      BY <2>1, <2>2 DEF RefInv, ShownNow
    <2>4. UNCHANGED Sql!sqlVars
      BY <2>1 DEF Sql!sqlVars
    <2> QED
      BY <1>3, <2>2, <2>3, <2>4 DEF RefInv
  <1>5. CASE RecordedNext
    <2>1. ShownNow'
      BY <1>3, <1>5, RecordKeeps DEF RecordedNext
    <2>2. PICK c \in Connections :
            \/ Reopen(c) \/ BeginRead(c) \/ EndRead(c) \/ BeginWrite(c)
            \/ Search(c) \/ Scan(c) \/ CatchUpFails(c)
            \/ Enlist(c) \/ InsertRow(c) \/ DeleteRow(c)
            \/ OpenSavepoint(c) \/ ReleaseSavepoint(c)
            \/ RollbackToSavepoint(c) \/ RollbackToBegin(c)
            \/ OpenStatement(c) \/ CloseStatement(c) \/ AbortStatement(c)
            \/ Commit(c) \/ CommitFails(c) \/ Rollback(c)
      BY <1>5 DEF RecordedNext, Next
    <2>3. (\A d \in Connections : MarksHold(d)') /\ [Sql!Next]_(Sql!sqlVars)
      <3>1. CASE \/ BeginRead(c) \/ BeginWrite(c) \/ EndRead(c)
                 \/ Reopen(c) \/ Rollback(c) \/ CommitFails(c)
        BY <2>1, <3>1, SnapshotRefines
      <3>2. CASE Search(c) \/ Scan(c) \/ CatchUpFails(c)
        BY <2>1, <3>2, ReadRefines
      <3>3. CASE Enlist(c)
        BY <2>1, <3>3, EnlistRefines
      <3>4. CASE InsertRow(c) \/ DeleteRow(c)
        BY <2>1, <3>4, WriteRefines
      <3>5. CASE OpenSavepoint(c) \/ OpenStatement(c)
        BY <2>1, <3>5, PushMarkRefines
      <3>6. CASE ReleaseSavepoint(c) \/ CloseStatement(c)
        BY <2>1, <3>6, ReleaseMarkRefines
      <3>7. CASE RollbackToSavepoint(c) \/ RollbackToBegin(c)
        BY <2>1, <3>7, RollbackToRefines
      <3>8. CASE AbortStatement(c)
        BY <2>1, <3>8, AbortRefines
      <3>9. CASE Commit(c)
        BY <2>1, <3>9, CommitRefines
      <3> QED
        BY <2>2, <3>1, <3>2, <3>3, <3>4, <3>5, <3>6, <3>7, <3>8, <3>9
    <2> QED
      BY <1>3, <2>1, <2>3 DEF RefInv
  <1> QED
    BY <1>4, <1>5

LEMMA InitRefines ==
  ASSUME MinDeltaBase > 0
  PROVE  RecordedInit => RefInv /\ Sql!Init
PROOF
  <1>1. SUFFICES ASSUME RecordedInit PROVE RefInv /\ Sql!Init
    OBVIOUS
  <1>2. CountInv /\ disk \in Storage
    <2>1. CountInv
      BY <1>1, InitCount DEF RecordedInit
    <2>2. disk \in Storage
      BY <1>1, InitialStorageType DEF RecordedInit, Init
    <2> QED
      BY <2>1, <2>2
  <1>3. /\ mode = [c \in Connections |-> "idle"]
        /\ \A c \in Connections :
             view[c] = disk /\ marks[c] = <<>> /\ enlisted[c] = FALSE
    BY <1>1 DEF RecordedInit, Init
  <1>4. /\ stored = Content(disk)
        /\ shown = [c \in Connections |-> SeenRows(state[c], view[c])]
    BY <1>1 DEF RecordedInit
  <1>5. \A c \in Connections : SeenRows(state[c], view[c]) = Now(c)
    BY <1>2, ReadsNow
  <1>6. \A c \in Connections : Now(c) = Content(disk)
    BY <1>3 DEF Now
  <1>7. DOMAIN <<>> = {} /\ SavedRows(<<>>) = <<>>
    BY DEF SavedRows
  <1>8. \A c \in Connections : MarksHold(c)
    BY <1>3, <1>7 DEF MarksHold, HeldBy
  <1>9. RefInv
    BY <1>2, <1>4, <1>5, <1>8 DEF RefInv, ShownNow
  <1>10. Content(disk) \in Rows
    BY <1>2, ContentType
  <1>11. Saved = [c \in Connections |-> <<>>]
    BY <1>3, <1>7 DEF Saved
  <1>12. stored \in Rows /\ shown = [c \in Connections |-> stored]
    BY <1>4, <1>5, <1>6, <1>10
  <1>13. Sql!Init
    BY <1>3, <1>11, <1>12 DEF Sql!Init, Sql!Rows, Rows, Saved, SavedRows
  <1> QED
    BY <1>9, <1>13

(* turbovec0 is a transactional SQL table.  Whatever the connections do,   *)
(* and however reads, writes, savepoints, failed statements, commits, busy *)
(* commits, crashes and rollbacks interleave, what a search on each        *)
(* connection returns, what can be read from the committed file, and what  *)
(* each open savepoint would restore change as those of the abstract table *)
(* do, or not at all - as long as, in a transaction, nothing is rolled     *)
(* back in part after a busy COMMIT (by ROLLBACK TO or because a statement *)
(* failed), and SQLite announces the marks it may go back to.              *)
THEOREM ImplementsAlways ==
  ASSUME PartialAfterBusy = FALSE, EarlyMarks <= 1, MinDeltaBase > 0
  PROVE  RecordedSpec => ImplementsSqlTable
PROOF
  <1>1. RecordedInit => RefInv /\ Sql!Init
    BY InitRefines
  <1>2. RefInv /\ [RecordedNext]_refinementVars => RefInv' /\ [Sql!Next]_(Sql!sqlVars)
    BY StepRefines
  <1> QED
    BY <1>1, <1>2, PTL DEF RecordedSpec, ImplementsSqlTable, Sql!Spec
=============================================================================
