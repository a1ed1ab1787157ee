------------------------ MODULE TurboVecExactProofs ------------------------
(***************************************************************************)
(* What every read answers from is what the tables say.  In a transaction  *)
(* the index is the stored image with the changes not yet written on top;  *)
(* outside one, a copy whose generation is the stored one is the stored    *)
(* image.  The two need each other: a transaction starts from a copy, and  *)
(* a commit makes a copy of a transaction's index.                         *)
(* Both fail after a ROLLBACK TO that follows a busy COMMIT and after one  *)
(* to a savepoint xSavepoint was never called for, so the theorems are     *)
(* about PartialAfterBusy = FALSE and EarlyMarks <= 1.  The first leaves   *)
(* out statements that fail after a busy COMMIT too: they go back by the   *)
(* same xRollbackTo.                                                       *)
(***************************************************************************)
EXTENDS TurboVecTableProofs

(* The log says of each change what it did to the rows it began with: a    *)
(* delete or a replacement found its row, an append did not.               *)
Truthful(base, cs) ==
  \A i \in DOMAIN cs :
    /\ PresentAt(base, cs, i) <=> (cs[i].op = "delete" \/ cs[i].replaces)
    /\ cs[i].op = "delete" => cs[i].vector = None

(* rows are base with cs applied: exactly its ids, and each vector that    *)
(* the log still knows.                                                    *)
Exact(rows, base, cs) ==
  /\ rows \in Rows
  /\ \A id \in Rowid :
       IF Touching(cs, id) = {} THEN rows[id] = base[id]
       ELSE LET last == cs[LastTouch(cs, id)]
            IN  IF last.op = "insert"
                THEN rows[id] # None /\ last.vector \in {rows[id], None}
                ELSE rows[id] = None
-----------------------------------------------------------------------------
(* Logs. *)

LEMMA LogEntry ==
  ASSUME NEW cs \in Seq(Change), NEW i \in DOMAIN cs
  PROVE  /\ cs[i] \in Change /\ cs[i].id \in Rowid
         /\ cs[i].op \in {"insert", "delete"} /\ cs[i].replaces \in BOOLEAN
         /\ cs[i].vector \in Vector \cup {None}
PROOF
  <1>1. cs[i] \in Change
    OBVIOUS
  <1> QED
    BY <1>1 DEF Change

LEMMA LastEntry ==
  ASSUME NEW cs \in Seq(Change), NEW id, Touching(cs, id) # {}
  PROVE  /\ LastTouch(cs, id) \in DOMAIN cs
         /\ cs[LastTouch(cs, id)].op \in {"insert", "delete"}
         /\ cs[LastTouch(cs, id)].vector \in Vector \cup {None}
PROOF
  <1>1. LastTouch(cs, id) \in DOMAIN cs
    BY LastTouchProperties
  <1> QED
    BY <1>1, LogEntry

LEMMA NothingTouched ==
  ASSUME NEW id
  PROVE  Touching(<<>>, id) = {}
PROOF
  BY DEF Touching

LEMMA ExactNothing ==
  ASSUME NEW rows, NEW base \in Rows
  PROVE  /\ Exact(rows, base, <<>>) <=> rows = base
         /\ Truthful(base, <<>>)
         /\ KeysAfter(base, <<>>) = Keys(base)
PROOF
  <1>1. Exact(rows, base, <<>>) => rows = base
    <2>1. SUFFICES ASSUME Exact(rows, base, <<>>) PROVE rows = base
      OBVIOUS
    <2>2. rows \in Rows /\ \A id \in Rowid : rows[id] = base[id]
      BY <2>1, NothingTouched DEF Exact
    <2> QED
      BY <2>2 DEF Rows
  <1>2. rows = base => Exact(rows, base, <<>>)
    BY NothingTouched DEF Exact
  <1>3. Truthful(base, <<>>)
    BY DEF Truthful
  <1>4. KeysAfter(base, <<>>) = Keys(base)
    BY NothingTouched DEF KeysAfter, Keys
  <1> QED
    BY <1>1, <1>2, <1>3, <1>4

LEMMA ExactKeys ==
  ASSUME NEW cs \in Seq(Change), NEW base, NEW rows, Exact(rows, base, cs)
  PROVE  Keys(rows) = KeysAfter(base, cs)
PROOF
  <1>1. ASSUME NEW id \in Rowid
        PROVE  rows[id] # None <=>
                 IF Touching(cs, id) = {} THEN base[id] # None
                                          ELSE cs[LastTouch(cs, id)].op = "insert"
    BY DEF Exact
  <1> QED
    BY <1>1 DEF Keys, KeysAfter

(* A log that kept every vector replays to the exact rows.                 *)
LEMMA ExactReplay ==
  ASSUME NEW cs \in Seq(Change), NEW base \in Rows, NEW origin,
         Truthful(origin, cs), Encodable(cs)
  PROVE  /\ Exact(Replay(base, cs), base, cs)
         /\ \A rows : Exact(rows, base, cs) => rows = Replay(base, cs)
PROOF
  <1>1. ASSUME NEW id \in Rowid, Touching(cs, id) # {}
        PROVE  LET last == cs[LastTouch(cs, id)]
               IN  /\ last.op \in {"insert", "delete"}
                   /\ last.op = "insert" => last.vector # None
                   /\ last.op # "insert" => last.vector = None
    <2> DEFINE i == LastTouch(cs, id)
    <2>1. i \in DOMAIN cs /\ cs[i].op \in {"insert", "delete"}
      BY <1>1, LastEntry
    <2> HIDE DEF i
    <2>2. cs[i].op = "insert" => cs[i].vector # None
      BY <2>1 DEF Encodable, Inserts
    <2>3. cs[i].op = "delete" => cs[i].vector = None
      BY <2>1 DEF Truthful
    <2> QED
      BY <2>1, <2>2, <2>3 DEF i
  <1>2. Replay(base, cs) \in Rows
    BY ReplayType
  <1>3. \A id \in Rowid :
          Replay(base, cs)[id] = IF Touching(cs, id) = {} THEN base[id]
                                 ELSE cs[LastTouch(cs, id)].vector
    BY DEF Replay
  <1>4. Exact(Replay(base, cs), base, cs)
    BY <1>1, <1>2, <1>3 DEF Exact
  <1>5. ASSUME NEW rows, Exact(rows, base, cs)
        PROVE  rows = Replay(base, cs)
    <2>1. rows \in Rows
      BY <1>5 DEF Exact
    <2>2. ASSUME NEW id \in Rowid PROVE rows[id] = Replay(base, cs)[id]
      BY <1>1, <1>3, <1>5 DEF Exact
    <2> QED
      BY <1>2, <2>1, <2>2 DEF Rows
  <1> QED
    BY <1>4, <1>5

LEMMA TruthfulReplays ==
  ASSUME NEW cs \in Seq(Change), NEW base, Truthful(base, cs), Encodable(cs)
  PROVE  ReplayOK(base, cs)
PROOF
  <1>1. ASSUME NEW i \in DOMAIN cs
        PROVE  IF cs[i].op = "insert" THEN cs[i].vector # None ELSE PresentAt(base, cs, i)
    <2>1. cs[i].op \in {"insert", "delete"}
      BY LogEntry
    <2>2. cs[i].op = "insert" => cs[i].vector # None
      BY DEF Encodable, Inserts
    <2>3. cs[i].op = "delete" => PresentAt(base, cs, i)
      BY DEF Truthful
    <2> QED
      BY <2>1, <2>2, <2>3
  <1> QED
    BY <1>1 DEF ReplayOK

LEMMA ReplaysEncodable ==
  ASSUME NEW cs \in Seq(Change), NEW base, ReplayOK(base, cs)
  PROVE  Encodable(cs)
PROOF
  BY DEF ReplayOK, Encodable, Inserts
-----------------------------------------------------------------------------
(* Logs in two parts. *)

(* cs is a and then b. *)
Parts(cs, a, b) ==
  /\ cs \in Seq(Change) /\ a \in Seq(Change) /\ b \in Seq(Change)
  /\ Splits(cs, a, b) /\ \A i \in DOMAIN a : a[i] = cs[i]

LEMMA CutParts ==
  ASSUME NEW cs \in Seq(Change), NEW n \in 0 .. Len(cs)
  PROVE  /\ Parts(cs, SubSeq(cs, 1, n), SubSeq(cs, n + 1, Len(cs)))
         /\ Len(SubSeq(cs, 1, n)) = n
         /\ Len(SubSeq(cs, n + 1, Len(cs))) = Len(cs) - n
PROOF
  <1> DEFINE a == SubSeq(cs, 1, n)
             b == SubSeq(cs, n + 1, Len(cs))
  <1>1. Len(cs) \in Nat /\ n \in Nat /\ n <= Len(cs)
    OBVIOUS
  <1>2. \A i \in 1 .. Len(cs) : cs[i] \in Change
    OBVIOUS
  <1>3. a \in Seq(Change) /\ Len(a) = n /\ \A i \in 1 .. n : a[i] = cs[i]
    BY <1>1, <1>2, SubSeqProperties
  <1>4. /\ b \in Seq(Change) /\ Len(b) = Len(cs) - n
        /\ \A i \in 1 .. Len(cs) - n : b[i] = cs[n + i]
    BY CutLog
  <1> HIDE DEF a, b
  <1>5. Splits(cs, a, b)
    BY <1>1, <1>3, <1>4 DEF Splits
  <1>6. DOMAIN a = 1 .. n
    BY <1>3
  <1> QED
    BY <1>3, <1>4, <1>5, <1>6 DEF Parts, a, b

LEMMA AppendParts ==
  ASSUME NEW cs \in Seq(Change), NEW x \in Change
  PROVE  Parts(Append(cs, x), cs, <<x>>)
PROOF
  <1> DEFINE new == Append(cs, x)
  <1>1. /\ new \in Seq(Change) /\ Len(new) = Len(cs) + 1 /\ Len(cs) \in Nat
        /\ \A i \in 1 .. Len(cs) : new[i] = cs[i]
        /\ new[Len(cs) + 1] = x
    OBVIOUS
  <1>2. <<x>> \in Seq(Change) /\ Len(<<x>>) = 1 /\ <<x>>[1] = x
    OBVIOUS
  <1>3. DOMAIN cs = 1 .. Len(cs)
    OBVIOUS
  <1> HIDE DEF new
  <1>4. \A i \in 1 .. 1 : <<x>>[i] = new[Len(cs) + i]
    BY <1>1, <1>2
  <1>5. Splits(new, cs, <<x>>)
    BY <1>1, <1>2, <1>4 DEF Splits
  <1> QED
    BY <1>1, <1>2, <1>3, <1>5 DEF Parts, new

LEMMA LastOfParts ==
  ASSUME NEW cs, NEW a, NEW b, Parts(cs, a, b), NEW id
  PROVE  /\ Touching(b, id) # {} =>
              /\ Touching(cs, id) # {}
              /\ cs[LastTouch(cs, id)] = b[LastTouch(b, id)]
         /\ Touching(b, id) = {} /\ Touching(a, id) # {} =>
              /\ Touching(cs, id) # {}
              /\ cs[LastTouch(cs, id)].vector = a[LastTouch(a, id)].vector
              /\ cs[LastTouch(cs, id)].op = a[LastTouch(a, id)].op
         /\ Touching(b, id) = {} /\ Touching(a, id) = {} => Touching(cs, id) = {}
PROOF
  BY SplitLastTouch DEF Parts

LEMMA ExactJoin ==
  ASSUME NEW cs, NEW a, NEW b, Parts(cs, a, b), NEW base, NEW mid, NEW rows,
         Exact(mid, base, a), Exact(rows, mid, b)
  PROVE  Exact(rows, base, cs)
PROOF
  <1>1. rows \in Rows
    BY DEF Exact
  <1>2. ASSUME NEW id \in Rowid
        PROVE  IF Touching(cs, id) = {} THEN rows[id] = base[id]
               ELSE LET last == cs[LastTouch(cs, id)]
                    IN  IF last.op = "insert"
                        THEN rows[id] # None /\ last.vector \in {rows[id], None}
                        ELSE rows[id] = None
    <2>1. CASE Touching(b, id) # {}
      BY <2>1, LastOfParts DEF Exact
    <2>2. CASE Touching(b, id) = {} /\ Touching(a, id) # {}
      <3>1. rows[id] = mid[id]
        BY <2>2 DEF Exact
      <3>2. LET last == a[LastTouch(a, id)]
            IN  IF last.op = "insert"
                THEN mid[id] # None /\ last.vector \in {mid[id], None}
                ELSE mid[id] = None
        BY <2>2 DEF Exact
      <3> QED
        BY <2>2, <3>1, <3>2, LastOfParts
    <2>3. CASE Touching(b, id) = {} /\ Touching(a, id) = {}
      BY <2>3, LastOfParts DEF Exact
    <2> QED
      BY <2>1, <2>2, <2>3
  <1> QED
    BY <1>1, <1>2 DEF Exact

LEMMA KeysJoin ==
  ASSUME NEW cs, NEW a, NEW b, Parts(cs, a, b), NEW base, NEW mid,
         Keys(mid) = KeysAfter(base, a)
  PROVE  KeysAfter(base, cs) = KeysAfter(mid, b)
PROOF
  <1>1. ASSUME NEW id \in Rowid
        PROVE  id \in KeysAfter(base, cs) <=> id \in KeysAfter(mid, b)
    <2>1. mid[id] # None <=> IF Touching(a, id) = {} THEN base[id] # None
                             ELSE a[LastTouch(a, id)].op = "insert"
      BY DEF Keys, KeysAfter
    <2> QED
      BY <2>1, LastOfParts DEF KeysAfter
  <1> QED
    BY <1>1 DEF KeysAfter

LEMMA MaxUpTo ==
  ASSUME NEW n \in Nat, NEW S, S \subseteq 1 .. n, S # {}
  PROVE  Max(S) \in S /\ Max(S) \in 1 .. n /\ \A y \in S : y <= Max(S)
PROOF
  <1>1. 1 \in Int /\ n \in Int
    OBVIOUS
  <1> QED
    BY <1>1, MaxInRange

(* What an id was when a change of the first part came to it, and when one *)
(* of the second part did.                                                 *)
LEMMA PresentFirst ==
  ASSUME NEW cs, NEW a, NEW b, Parts(cs, a, b), NEW base, NEW i \in DOMAIN a
  PROVE  PresentAt(base, a, i) <=> PresentAt(base, cs, i)
PROOF
  <1> DEFINE id == a[i].id
             E == {j \in Touching(a, id) : j < i}
             F == {j \in Touching(cs, id) : j < i}
  <1>1. a \in Seq(Change) /\ cs \in Seq(Change) /\ Splits(cs, a, b) /\ a[i] = cs[i]
    BY DEF Parts
  <1>2. DOMAIN a = 1 .. Len(a) /\ Len(a) \in Nat
    BY <1>1
  <1>3. Touching(a, id) = {j \in Touching(cs, id) : j <= Len(a)}
    BY <1>1, SplitTouching DEF Parts
  <1>4. Touching(cs, id) \subseteq 1 .. Len(cs) /\ Len(cs) \in Nat
    BY <1>1 DEF Touching
  <1>5. E = F
    BY <1>2, <1>3, <1>4
  <1>6. E # {} => a[Max(E)].op = cs[Max(E)].op
    <2>1. SUFFICES ASSUME E # {} PROVE a[Max(E)].op = cs[Max(E)].op
      OBVIOUS
    <2>2. E \subseteq 1 .. Len(a)
      BY <1>2 DEF Touching
    <2>3. Max(E) \in 1 .. Len(a)
      <3> HIDE DEF E
      <3> QED BY <1>2, <2>1, <2>2, MaxUpTo
    <2> HIDE DEF E
    <2> QED
      BY <1>1, <2>3 DEF Splits
  <1>7. PresentAt(base, a, i) <=> IF E = {} THEN base[id] # None ELSE a[Max(E)].op = "insert"
    BY DEF PresentAt
  <1>8. PresentAt(base, cs, i) <=> IF F = {} THEN base[id] # None ELSE cs[Max(F)].op = "insert"
    BY <1>1 DEF PresentAt
  <1> QED
    BY <1>5, <1>6, <1>7, <1>8

LEMMA PresentRest ==
  ASSUME NEW cs, NEW a, NEW b, Parts(cs, a, b), NEW base, NEW mid,
         Keys(mid) = KeysAfter(base, a), NEW i \in DOMAIN b
  PROVE  PresentAt(mid, b, i) <=> PresentAt(base, cs, Len(a) + i)
PROOF
  <1> DEFINE k == Len(a) + i
             id == b[i].id
             inCs == {j \in Touching(cs, id) : j < k}
             inB == {j \in Touching(b, id) : j < i}
  <1>1. a \in Seq(Change) /\ b \in Seq(Change) /\ cs \in Seq(Change) /\ Splits(cs, a, b)
    BY DEF Parts
  <1>2. Len(a) \in Nat /\ Len(b) \in Nat /\ Len(cs) \in Nat /\ Len(cs) = Len(a) + Len(b)
    BY <1>1 DEF Splits
  <1>3. DOMAIN cs = 1 .. Len(cs) /\ DOMAIN b = 1 .. Len(b) /\ i \in 1 .. Len(b)
    BY <1>1
  <1>4. k \in DOMAIN cs /\ b[i] = cs[k] /\ id \in Rowid
    <2>1. id \in Rowid
      BY <1>1, LogEntry
    <2>2. k \in 1 .. Len(cs)
      BY <1>2, <1>3
    <2> QED
      BY <1>1, <1>3, <2>1, <2>2 DEF Splits
  <1>5. /\ Touching(a, id) = {j \in Touching(cs, id) : j <= Len(a)}
        /\ \A j \in Int : j \in Touching(b, id) <=>
                            Len(a) + j \in Touching(cs, id) /\ j >= 1
    BY <1>1, SplitTouching
  <1>6. Touching(cs, id) \subseteq 1 .. Len(cs) /\ Touching(b, id) \subseteq 1 .. Len(b)
    BY <1>3 DEF Touching
  <1>7. PresentAt(mid, b, i) <=> IF inB = {} THEN mid[id] # None ELSE b[Max(inB)].op = "insert"
    BY DEF PresentAt
  <1>8. PresentAt(base, cs, k) <=>
          IF inCs = {} THEN base[id] # None ELSE cs[Max(inCs)].op = "insert"
    BY <1>4 DEF PresentAt
  <1>9. mid[id] # None <=> IF Touching(a, id) = {} THEN base[id] # None
                           ELSE a[LastTouch(a, id)].op = "insert"
    BY <1>4 DEF Keys, KeysAfter
  <1> HIDE DEF k, id
  <1>10. \A j \in inCs : j > Len(a) => j - Len(a) \in inB
    <2>1. SUFFICES ASSUME NEW j \in inCs, j > Len(a) PROVE j - Len(a) \in inB
      OBVIOUS
    <2>2. /\ j \in Int /\ j - Len(a) \in Int /\ Len(a) + (j - Len(a)) = j
          /\ j - Len(a) >= 1 /\ j - Len(a) < i
      BY <1>2, <1>3, <1>6, <2>1 DEF k
    <2> QED
      BY <1>5, <2>1, <2>2
  <1>11. CASE inB # {}
    <2> DEFINE m == Max(inB)
               top == Len(a) + m
    <2>1. inB \subseteq 1 .. Len(b)
      BY <1>6
    <2>2. m \in inB /\ m \in 1 .. Len(b) /\ \A j \in inB : j <= m
      <3> HIDE DEF inB
      <3> QED BY <1>2, <1>11, <2>1, MaxUpTo
    <2> HIDE DEF m
    <2>3. top \in inCs
      BY <1>2, <1>3, <1>5, <2>2 DEF k
    <2>4. \A j \in inCs : j <= top
      BY <1>2, <1>6, <1>10, <2>2
    <2>5. inCs \subseteq 1 .. Len(cs)
      BY <1>6
    <2>6. Max(inCs) = top
      <3>1. Len(cs) \in Int
        BY <1>2
      <3> HIDE DEF top, inCs
      <3> QED BY <2>3, <2>4, <2>5, <3>1, MaxIs
    <2>7. b[m] = cs[top]
      BY <1>1, <2>2 DEF Splits
    <2> QED
      BY <1>7, <1>8, <1>11, <2>3, <2>6, <2>7 DEF m, k
  <1>12. CASE inB = {}
    <2>1. inCs = Touching(a, id)
      BY <1>2, <1>3, <1>5, <1>6, <1>10, <1>12 DEF k
    <2>2. Touching(a, id) # {} => a[LastTouch(a, id)].op = cs[Max(inCs)].op
      <3>1. SUFFICES ASSUME Touching(a, id) # {}
                     PROVE  a[LastTouch(a, id)].op = cs[LastTouch(a, id)].op
        BY <2>1 DEF LastTouch
      <3>2. LastTouch(a, id) \in 1 .. Len(a)
        BY <1>1, <3>1, LastTouchProperties
      <3> QED
        BY <1>1, <3>2 DEF Splits
    <2> QED
      BY <1>7, <1>8, <1>9, <1>12, <2>1, <2>2 DEF k
  <1> QED
    BY <1>11, <1>12 DEF k

LEMMA TruthfulFirst ==
  ASSUME NEW cs, NEW a, NEW b, Parts(cs, a, b), NEW base, Truthful(base, cs)
  PROVE  Truthful(base, a)
PROOF
  <1>1. a \in Seq(Change) /\ cs \in Seq(Change) /\ Splits(cs, a, b)
        /\ \A i \in DOMAIN a : a[i] = cs[i]
    BY DEF Parts
  <1>2. Len(cs) = Len(a) + Len(b) /\ Len(b) \in Nat
    BY DEF Parts, Splits
  <1>3. DOMAIN a \subseteq DOMAIN cs
    BY <1>1, <1>2
  <1>4. ASSUME NEW i \in DOMAIN a
        PROVE  /\ PresentAt(base, a, i) <=> (a[i].op = "delete" \/ a[i].replaces)
               /\ a[i].op = "delete" => a[i].vector = None
    <2>1. i \in DOMAIN cs /\ a[i] = cs[i]
      BY <1>1, <1>3
    <2>2. PresentAt(base, a, i) <=> PresentAt(base, cs, i)
      BY PresentFirst
    <2> QED
      BY <2>1, <2>2 DEF Truthful
  <1> QED
    BY <1>4 DEF Truthful

LEMMA TruthfulJoin ==
  ASSUME NEW cs, NEW a, NEW b, Parts(cs, a, b), NEW base, NEW mid,
         Keys(mid) = KeysAfter(base, a)
  PROVE  Truthful(base, cs) <=> Truthful(base, a) /\ Truthful(mid, b)
PROOF
  <1>1. /\ a \in Seq(Change) /\ b \in Seq(Change) /\ cs \in Seq(Change)
        /\ Splits(cs, a, b) /\ \A i \in DOMAIN a : a[i] = cs[i]
    BY DEF Parts
  <1>2. /\ Len(cs) = Len(a) + Len(b) /\ Len(b) \in Nat /\ Len(a) \in Nat
        /\ \A i \in 1 .. Len(b) : b[i] = cs[Len(a) + i]
    BY <1>1 DEF Splits
  <1>3. DOMAIN a = 1 .. Len(a) /\ DOMAIN b = 1 .. Len(b) /\ DOMAIN cs = 1 .. Len(cs)
    BY <1>1
  <1>4. ASSUME Truthful(base, cs) PROVE Truthful(mid, b)
    <2>1. ASSUME NEW i \in DOMAIN b
          PROVE  /\ PresentAt(mid, b, i) <=> (b[i].op = "delete" \/ b[i].replaces)
                 /\ b[i].op = "delete" => b[i].vector = None
      <3>1. Len(a) + i \in DOMAIN cs /\ b[i] = cs[Len(a) + i]
        BY <1>2, <1>3
      <3>2. PresentAt(mid, b, i) <=> PresentAt(base, cs, Len(a) + i)
        BY PresentRest
      <3> QED
        BY <1>4, <3>1, <3>2 DEF Truthful
    <2> QED
      BY <2>1 DEF Truthful
  <1>5. ASSUME Truthful(base, a), Truthful(mid, b) PROVE Truthful(base, cs)
    <2>1. ASSUME NEW i \in DOMAIN cs
          PROVE  /\ PresentAt(base, cs, i) <=> (cs[i].op = "delete" \/ cs[i].replaces)
                 /\ cs[i].op = "delete" => cs[i].vector = None
      <3>1. CASE i \in DOMAIN a
        <4>1. a[i] = cs[i] /\ (PresentAt(base, a, i) <=> PresentAt(base, cs, i))
          BY <1>1, <3>1, PresentFirst
        <4> QED
          BY <1>5, <3>1, <4>1 DEF Truthful
      <3>2. CASE i \notin DOMAIN a
        <4> DEFINE j == i - Len(a)
        <4>1. j \in DOMAIN b /\ i = Len(a) + j /\ b[j] = cs[i]
          BY <1>2, <1>3, <3>2
        <4> HIDE DEF j
        <4>2. PresentAt(mid, b, j) <=> PresentAt(base, cs, i)
          BY <4>1, PresentRest
        <4> QED
          BY <1>5, <4>1, <4>2 DEF Truthful
      <3> QED
        BY <3>1, <3>2
    <2> QED
      BY <2>1 DEF Truthful
  <1> QED
    BY <1>4, <1>5, TruthfulFirst

(* Rows with given ids; of their vectors nothing is said.                  *)
LEMMA SomeRows ==
  ASSUME NEW S, S \subseteq Rowid
  PROVE  \E mid : Keys(mid) = S
PROOF
  <1> DEFINE mid == [id \in Rowid |-> IF id \in S THEN 0 ELSE None]
  <1>1. 0 # None
    BY TransactionAssumption
  <1>2. \A id \in Rowid : mid[id] # None <=> id \in S
    BY <1>1
  <1> HIDE DEF mid
  <1>3. Keys(mid) = S
    BY <1>2 DEF Keys
  <1> QED
    BY <1>3

LEMMA KeysAfterIds ==
  ASSUME NEW base, NEW cs
  PROVE  KeysAfter(base, cs) \subseteq Rowid
PROOF
  BY DEF KeysAfter

-----------------------------------------------------------------------------
(* A log that grows by one change, and one that is cut. *)

LEMMA OneChange ==
  ASSUME NEW x \in Change
  PROVE  /\ <<x>> \in Seq(Change)
         /\ \A id : Touching(<<x>>, id) = IF x.id = id THEN {1} ELSE {}
         /\ LastTouch(<<x>>, x.id) = 1 /\ <<x>>[1] = x
PROOF
  <1>1. DOMAIN <<x>> = {1} /\ <<x>>[1] = x /\ <<x>> \in Seq(Change)
    OBVIOUS
  <1>2. \A id : Touching(<<x>>, id) = IF x.id = id THEN {1} ELSE {}
    BY <1>1 DEF Touching
  <1>3. Max({1}) = 1
    BY MaxUpTo
  <1> QED
    BY <1>1, <1>2, <1>3 DEF LastTouch

LEMMA OneChangeKeys ==
  ASSUME NEW x \in Change, NEW mid
  PROVE  /\ KeysAfter(mid, <<x>>) =
              IF x.op = "insert" THEN Keys(mid) \cup {x.id} ELSE Keys(mid) \ {x.id}
         /\ Truthful(mid, <<x>>) <=>
              /\ x.id \in Keys(mid) <=> (x.op = "delete" \/ x.replaces)
              /\ x.op = "delete" => x.vector = None
PROOF
  <1>1. x.id \in Rowid
    BY DEF Change
  <1>2. DOMAIN <<x>> = {1} /\ <<x>>[1] = x
    OBVIOUS
  <1>3. \A id \in Rowid : id \in KeysAfter(mid, <<x>>) <=>
          IF x.id = id THEN x.op = "insert" ELSE mid[id] # None
    BY OneChange DEF KeysAfter
  <1>4. KeysAfter(mid, <<x>>) \subseteq Rowid /\ Keys(mid) \subseteq Rowid
    BY DEF KeysAfter, Keys
  <1>5. \A id \in Rowid : id \in Keys(mid) <=> mid[id] # None
    BY DEF Keys
  <1>6. KeysAfter(mid, <<x>>) =
          IF x.op = "insert" THEN Keys(mid) \cup {x.id} ELSE Keys(mid) \ {x.id}
    BY <1>1, <1>3, <1>4, <1>5
  <1>7. {j \in Touching(<<x>>, <<x>>[1].id) : j < 1} = {}
    <2>1. Touching(<<x>>, <<x>>[1].id) = {1}
      BY <1>2, OneChange
    <2> QED
      BY <2>1
  <1>8. PresentAt(mid, <<x>>, 1) <=> mid[x.id] # None
    BY <1>2, <1>7 DEF PresentAt
  <1> QED
    BY <1>1, <1>2, <1>5, <1>6, <1>8 DEF Truthful

LEMMA AppendChange ==
  ASSUME NEW cs \in Seq(Change), NEW x \in Change, NEW base, Truthful(base, cs),
         x.id \in KeysAfter(base, cs) <=> (x.op = "delete" \/ x.replaces),
         x.op = "delete" => x.vector = None
  PROVE  /\ Truthful(base, Append(cs, x))
         /\ KeysAfter(base, Append(cs, x)) =
              IF x.op = "insert" THEN KeysAfter(base, cs) \cup {x.id}
                                 ELSE KeysAfter(base, cs) \ {x.id}
PROOF
  <1>1. PICK mid : Keys(mid) = KeysAfter(base, cs)
    BY KeysAfterIds, SomeRows
  <1>2. Parts(Append(cs, x), cs, <<x>>)
    BY AppendParts
  <1>3. Truthful(mid, <<x>>)
    BY <1>1, OneChangeKeys
  <1>4. Truthful(base, Append(cs, x))
    BY <1>1, <1>2, <1>3, TruthfulJoin
  <1>5. KeysAfter(base, Append(cs, x)) = KeysAfter(mid, <<x>>)
    BY <1>1, <1>2, KeysJoin
  <1> QED
    BY <1>1, <1>4, <1>5, OneChangeKeys

LEMMA AppendExact ==
  ASSUME NEW cs \in Seq(Change), NEW x \in Change, NEW base, NEW rows,
         Exact(rows, base, cs), NEW value \in Vector \cup {None},
         IF x.op = "insert" THEN value # None /\ x.vector \in {value, None}
                            ELSE value = None
  PROVE  Exact([rows EXCEPT ![x.id] = value], base, Append(cs, x))
PROOF
  <1> DEFINE new == [rows EXCEPT ![x.id] = value]
  <1>1. rows \in Rows /\ x.id \in Rowid
    BY DEF Exact, Change
  <1>2. /\ new \in Rows /\ new[x.id] = value
        /\ \A id \in Rowid : id # x.id => new[id] = rows[id]
    BY <1>1 DEF Rows
  <1> HIDE DEF new
  <1>3. Exact(new, rows, <<x>>)
    BY <1>2, OneChange DEF Exact
  <1>4. Exact(new, base, Append(cs, x))
    BY <1>3, AppendParts, ExactJoin
  <1> QED
    BY <1>4 DEF new

LEMMA CutPrefix ==
  ASSUME NEW cs \in Seq(Change), NEW m \in 0 .. Len(cs), NEW n \in 0 .. m
  PROVE  /\ Parts(SubSeq(cs, 1, m), SubSeq(cs, 1, n), SubSeq(cs, n + 1, m))
         /\ Len(SubSeq(cs, 1, m)) = m
         /\ SubSeq(SubSeq(cs, 1, m), 1, n) = SubSeq(cs, 1, n)
PROOF
  <1> DEFINE p == SubSeq(cs, 1, m)
             a == SubSeq(cs, 1, n)
             b == SubSeq(cs, n + 1, m)
  <1>1. Len(cs) \in Nat /\ n \in Nat /\ m \in Nat /\ n <= m /\ m <= Len(cs)
    OBVIOUS
  <1>2. \A i \in 1 .. Len(cs) : cs[i] \in Change
    OBVIOUS
  <1>3. p \in Seq(Change) /\ Len(p) = m /\ \A i \in 1 .. m : p[i] = cs[i]
    BY <1>1, <1>2, SubSeqProperties
  <1>4. a \in Seq(Change) /\ Len(a) = n /\ \A i \in 1 .. n : a[i] = cs[i]
    BY <1>1, <1>2, SubSeqProperties
  <1>5. /\ b \in Seq(Change) /\ Len(b) = m - n
        /\ \A i \in 1 .. m - n : b[i] = cs[n + i]
    BY <1>1, <1>2, SubSeqProperties
  <1> HIDE DEF a, b, p
  <1>6. Splits(p, a, b)
    <2>1. \A i \in 1 .. n : a[i] = p[i]
      BY <1>1, <1>3, <1>4
    <2>2. \A i \in 1 .. m - n : n + i \in 1 .. m
      BY <1>1
    <2>3. \A i \in 1 .. m - n : b[i] = p[n + i]
      BY <1>3, <1>5, <2>2
    <2>4. Len(p) = Len(a) + Len(b)
      BY <1>1, <1>3, <1>4, <1>5
    <2> QED
      BY <1>4, <1>5, <2>1, <2>3, <2>4 DEF Splits
  <1>7. DOMAIN a = 1 .. n
    BY <1>4
  <1>8. Parts(p, a, b)
    BY <1>1, <1>3, <1>4, <1>5, <1>6, <1>7 DEF Parts
  <1>9. SubSeq(p, 1, n) = a
    <2>1. \A i \in 1 .. Len(p) : p[i] \in Change
      BY <1>3
    <2>2. SubSeq(p, 1, n) \in Seq(Change) /\ Len(SubSeq(p, 1, n)) = n
          /\ \A i \in 1 .. n : SubSeq(p, 1, n)[i] = p[i]
      BY <1>1, <1>3, <2>1, SubSeqProperties
    <2> DEFINE q == SubSeq(p, 1, n)
    <2>3. \A i \in 1 .. Len(q) : q[i] = a[i]
      BY <1>1, <1>3, <1>4, <2>2
    <2> HIDE DEF q
    <2>4. q \in Seq(Change) /\ Len(q) = n
      BY <2>2 DEF q
    <2>5. q = a
      BY <1>4, <2>3, <2>4
    <2> QED
      BY <2>5 DEF q
  <1> QED
    BY <1>3, <1>8, <1>9 DEF a, b, p

LEMMA WholeLog1 ==
  ASSUME NEW cs \in Seq(Change)
  PROVE  SubSeq(cs, 1, Len(cs)) = cs
PROOF
  <1>1. \A i \in 1 .. Len(cs) : cs[i] \in Change
    OBVIOUS
  <1> DEFINE q == SubSeq(cs, 1, Len(cs))
  <1>2. q \in Seq(Change) /\ Len(q) = Len(cs) /\ \A i \in 1 .. Len(cs) : q[i] = cs[i]
    BY <1>1, SubSeqProperties
  <1> HIDE DEF q
  <1>3. q = cs
    BY <1>2
  <1> QED
    BY <1>3 DEF q

LEMMA KindsOfParts ==
  ASSUME NEW cs, NEW a, NEW b, Parts(cs, a, b)
  PROVE  /\ AppendOnly(cs) <=> AppendOnly(a) /\ AppendOnly(b)
         /\ Encodable(cs) <=> Encodable(a) /\ Encodable(b)
PROOF
  <1>1. /\ a \in Seq(Change) /\ b \in Seq(Change) /\ cs \in Seq(Change)
        /\ Splits(cs, a, b) /\ \A i \in DOMAIN a : a[i] = cs[i]
    BY DEF Parts
  <1>2. /\ Len(cs) = Len(a) + Len(b) /\ Len(b) \in Nat /\ Len(a) \in Nat
        /\ \A i \in 1 .. Len(b) : b[i] = cs[Len(a) + i]
    BY <1>1 DEF Splits
  <1>3. DOMAIN a = 1 .. Len(a) /\ DOMAIN b = 1 .. Len(b) /\ DOMAIN cs = 1 .. Len(cs)
    BY <1>1
  <1>4. \A i \in DOMAIN a : i \in DOMAIN cs
    BY <1>2, <1>3
  <1>5. \A i \in DOMAIN b : Len(a) + i \in DOMAIN cs /\ b[i] = cs[Len(a) + i]
    BY <1>2, <1>3
  <1>6. ASSUME NEW i \in DOMAIN cs
        PROVE  i \in DOMAIN a \/ \E j \in DOMAIN b : b[j] = cs[i]
    <2>1. SUFFICES ASSUME i \notin DOMAIN a PROVE \E j \in DOMAIN b : b[j] = cs[i]
      OBVIOUS
    <2> DEFINE j == i - Len(a)
    <2>2. j \in DOMAIN b /\ Len(a) + j = i
      BY <1>2, <1>3, <2>1
    <2> HIDE DEF j
    <2> QED
      BY <1>5, <2>2
  <1>7. AppendOnly(cs) <=> AppendOnly(a) /\ AppendOnly(b)
    <2>1. AppendOnly(cs) => AppendOnly(a)
      BY <1>1, <1>4 DEF AppendOnly
    <2>2. AppendOnly(cs) => AppendOnly(b)
      BY <1>5 DEF AppendOnly
    <2>3. AppendOnly(a) /\ AppendOnly(b) => AppendOnly(cs)
      BY <1>1, <1>6 DEF AppendOnly
    <2> QED
      BY <2>1, <2>2, <2>3
  <1>8. Encodable(cs) <=> Encodable(a) /\ Encodable(b)
    <2>1. Encodable(cs) => Encodable(a)
      BY <1>1, <1>4 DEF Encodable, Inserts
    <2>2. Encodable(cs) => Encodable(b)
      BY <1>5 DEF Encodable, Inserts
    <2>3. Encodable(a) /\ Encodable(b) => Encodable(cs)
      BY <1>1, <1>6 DEF Encodable, Inserts
    <2> QED
      BY <2>1, <2>2, <2>3
  <1> QED
    BY <1>7, <1>8

(* Replaying a truthful second part on the exact rows of the first.        *)
LEMMA ExactRedo ==
  ASSUME NEW cs, NEW a, NEW b, Parts(cs, a, b), NEW base, NEW mid,
         Exact(mid, base, a), Truthful(base, cs), Encodable(b)
  PROVE  ReplayOK(mid, b) /\ Exact(Replay(mid, b), base, cs)
PROOF
  <1>1. a \in Seq(Change) /\ b \in Seq(Change) /\ mid \in Rows
    BY DEF Parts, Exact
  <1>2. Keys(mid) = KeysAfter(base, a)
    BY <1>1, ExactKeys
  <1>3. Truthful(mid, b)
    BY <1>2, TruthfulJoin
  <1>4. ReplayOK(mid, b)
    BY <1>1, <1>3, TruthfulReplays
  <1>5. Exact(Replay(mid, b), mid, b)
    BY <1>1, <1>3, ExactReplay
  <1> QED
    BY <1>4, <1>5, ExactJoin

(* Undoing a second part that only appends.                                *)
LEMMA ExactUndo ==
  ASSUME NEW cs, NEW a, NEW b, Parts(cs, a, b), NEW base, NEW rows,
         Exact(rows, base, cs), Truthful(base, cs), AppendOnly(b)
  PROVE  UndoFaults(rows, b) = {} /\ Exact(UndoInserts(rows, b), base, a)
PROOF
  <1>1. a \in Seq(Change) /\ b \in Seq(Change) /\ cs \in Seq(Change) /\ rows \in Rows
    BY DEF Parts, Exact
  <1>2. PICK mid : Keys(mid) = KeysAfter(base, a)
    BY KeysAfterIds, SomeRows
  <1>3. Truthful(mid, b)
    BY <1>2, TruthfulJoin
  <1>4. DOMAIN b = 1 .. Len(b) /\ Len(b) \in Nat
    BY <1>1
  <1>5. ASSUME NEW i \in DOMAIN b
        PROVE  mid[b[i].id] = None /\ \A j \in Touching(b, b[i].id) : ~(j < i)
    <2> DEFINE E == {j \in Touching(b, b[i].id) : j < i}
    <2>1. ~PresentAt(mid, b, i)
      <3>1. b[i].op = "insert" /\ ~b[i].replaces
        BY DEF AppendOnly
      <3> QED
        BY <1>3, <3>1 DEF Truthful
    <2>2. IF E = {} THEN mid[b[i].id] = None ELSE b[Max(E)].op # "insert"
      BY <2>1 DEF PresentAt
    <2>3. E = {}
      <3>1. SUFFICES ASSUME E # {} PROVE FALSE
        OBVIOUS
      <3>2. E \subseteq 1 .. Len(b)
        BY <1>4 DEF Touching
      <3>3. Max(E) \in DOMAIN b
        <4> HIDE DEF E
        <4> QED BY <1>4, <3>1, <3>2, MaxUpTo
      <3>4. b[Max(E)].op = "insert"
        <4> HIDE DEF E
        <4> QED BY <3>3 DEF AppendOnly
      <3> QED
        BY <2>2, <3>1, <3>4
    <2> QED
      BY <2>2, <2>3
  <1>6. ASSUME NEW i \in DOMAIN b, NEW j \in Touching(b, b[i].id)
        PROVE  j <= i
    <2>1. j \in DOMAIN b /\ b[j].id = b[i].id /\ i \in Touching(b, b[j].id)
      BY DEF Touching
    <2>2. ~(i < j)
      BY <1>5, <2>1
    <2> QED
      BY <1>4, <2>1, <2>2
  <1>7. KeysAfter(base, cs) = KeysAfter(mid, b) /\ Keys(rows) = KeysAfter(base, cs)
    BY <1>1, <1>2, KeysJoin, ExactKeys
  <1>8. ASSUME NEW i \in DOMAIN b PROVE Undoable(rows, b, i)
    <2>1. b[i].op = "insert" /\ ~b[i].replaces
      BY DEF AppendOnly
    <2>2. i \in Touching(b, b[i].id) /\ b[i].id \in Rowid
      BY <1>1, LogEntry DEF Touching
    <2>3. LastTouch(b, b[i].id) \in DOMAIN b
      BY <1>1, <2>2, LastEntry
    <2>4. b[i].id \in KeysAfter(mid, b)
      BY <2>2, <2>3 DEF KeysAfter, AppendOnly
    <2>5. rows[b[i].id] # None
      BY <1>7, <2>4 DEF Keys
    <2> QED
      BY <1>6, <2>1, <2>5 DEF Undoable
  <1>9. UndoFaults(rows, b) = {}
    BY <1>8 DEF UndoFaults
  <1>10. \A id \in Rowid : UndoInserts(rows, b)[id] =
           IF Touching(b, id) # {} THEN None ELSE rows[id]
    BY <1>9 DEF UndoInserts, Touching
  <1>11. ASSUME NEW id \in Rowid, Touching(b, id) # {}
         PROVE  IF Touching(a, id) = {} THEN base[id] = None
                ELSE a[LastTouch(a, id)].op # "insert"
    <2>1. PICK i \in DOMAIN b : b[i].id = id
      BY <1>11 DEF Touching
    <2>2. mid[id] = None
      BY <1>5, <2>1
    <2>3. id \notin KeysAfter(base, a)
      BY <1>2, <2>2 DEF Keys
    <2> QED
      BY <2>3 DEF KeysAfter
  <1>12. ASSUME NEW id \in Rowid
         PROVE  LET new == UndoInserts(rows, b)
                IN  IF Touching(a, id) = {} THEN new[id] = base[id]
                    ELSE LET last == a[LastTouch(a, id)]
                         IN  IF last.op = "insert"
                             THEN new[id] # None /\ last.vector \in {new[id], None}
                             ELSE new[id] = None
    <2>1. CASE Touching(b, id) # {}
      BY <1>10, <1>11, <2>1
    <2>2. CASE Touching(b, id) = {}
      BY <1>10, <2>2, LastOfParts DEF Exact
    <2> QED
      BY <2>1, <2>2
  <1>13. UndoInserts(rows, b) \in Rows
    BY <1>1, UndoInsertsType
  <1> QED
    BY <1>9, <1>12, <1>13 DEF Exact

-----------------------------------------------------------------------------
(* Versions of the shadow tables. *)

(* Two versions of storage that differ in _ids at most.                    *)
SameData(s, t) == s = [t EXCEPT !.ids = s.ids]
SameImage(s, t) ==
  s.generation = t.generation /\ s.base = t.base /\ s.deltas = t.deltas

(* The generations at which refresh takes a copy for the stored image, or  *)
(* for an older one that the deltas bring forward.                         *)
Covers(s, g) ==
  g = s.generation \/ (g < s.generation /\ \E d \in Stored(s) : d <= g)
ContentAt(s, g) == ReplayDeltas(s.base, s, -1, g)
Faithful(rows, g, s) == Covers(s, g) => rows = ContentAt(s, g)

(* t is s or a later version: where t still covers a generation of s, it   *)
(* holds what s held.                                                      *)
Extends(s, t) ==
  /\ s.generation <= t.generation
  /\ \A g \in 0 .. s.generation :
       Covers(t, g) => Covers(s, g) /\ ContentAt(t, g) = ContentAt(s, g)

LEMMA GenerationType ==
  ASSUME NEW s \in Storage
  PROVE  s.generation \in Generation /\ s.generation \in 0 .. s.generation
         /\ s.generation \in Int
PROOF
  BY DEF Storage, Generation

LEMMA SameImageExtends ==
  ASSUME NEW s \in Storage, NEW t \in Storage, SameImage(s, t)
  PROVE  Extends(s, t) /\ Content(s) = Content(t) /\ Stored(s) = Stored(t)
         /\ \A rows : DeltasReplayOK(rows, s, -1) <=> DeltasReplayOK(rows, t, -1)
PROOF
  <1>1. Stored(s) = Stored(t)
    BY DEF SameImage, Stored
  <1>2. \A g : Covers(s, g) <=> Covers(t, g)
    BY <1>1 DEF Covers, SameImage
  <1>3. \A rows, g, h : ReplayDeltas(rows, s, g, h) = ReplayDeltas(rows, t, g, h)
    BY <1>1 DEF ReplayDeltas, DeltasAfter, SameImage
  <1>4. \A g : ContentAt(s, g) = ContentAt(t, g)
    BY <1>3 DEF ContentAt, SameImage
  <1>5. Content(s) = Content(t)
    BY <1>3 DEF Content, SameImage
  <1>6. s.generation <= t.generation
    BY GenerationType DEF SameImage
  <1>7. \A rows : DeltasReplayOK(rows, s, -1) <=> DeltasReplayOK(rows, t, -1)
    BY <1>1, <1>3 DEF DeltasReplayOK, DeltasAfter, SameImage
  <1> QED
    BY <1>1, <1>2, <1>4, <1>5, <1>6, <1>7 DEF Extends

LEMMA SameDataFacts ==
  ASSUME NEW s \in Storage, NEW t \in Storage, SameData(s, t)
  PROVE  /\ SameImage(s, t) /\ s.layout = t.layout /\ s.rowCount = t.rowCount
         /\ s.byteLen = t.byteLen /\ s.deltaBytes = t.deltaBytes
         /\ s.deltaOps = t.deltaOps
         /\ s.ids = t.ids => s = t
         /\ SameData(t, s)
         /\ \A u \in Storage : SameData(t, u) => SameData(s, u)
PROOF
  BY DEF SameData, SameImage, Storage

LEMMA ExtendsOrder ==
  /\ \A s \in Storage : Extends(s, s)
  /\ \A s, t, u \in Storage : Extends(s, t) /\ Extends(t, u) => Extends(s, u)
PROOF
  <1>1. ASSUME NEW s \in Storage PROVE Extends(s, s)
    BY GenerationType DEF Extends
  <1>2. ASSUME NEW s \in Storage, NEW t \in Storage, NEW u \in Storage,
               Extends(s, t), Extends(t, u)
        PROVE  Extends(s, u)
    <2>1. /\ s.generation \in Nat /\ t.generation \in Nat /\ u.generation \in Nat
          /\ s.generation <= t.generation /\ t.generation <= u.generation
      BY <1>2 DEF Extends, Storage, Generation
    <2>2. \A g \in 0 .. s.generation : g \in 0 .. t.generation
      BY <2>1
    <2>3. \A g \in 0 .. s.generation :
            Covers(u, g) => Covers(s, g) /\ ContentAt(u, g) = ContentAt(s, g)
      BY <1>2, <2>2 DEF Extends
    <2> QED
      BY <2>1, <2>3 DEF Extends
  <1> QED
    BY <1>1, <1>2

LEMMA FaithfulLater ==
  ASSUME NEW s \in Storage, NEW t \in Storage, Extends(s, t),
         NEW g \in 0 .. s.generation, NEW rows, Faithful(rows, g, s)
  PROVE  Faithful(rows, g, t) /\ g <= t.generation
PROOF
  <1>1. s.generation <= t.generation /\ s.generation \in Int /\ t.generation \in Int
    BY GenerationType DEF Extends
  <1> QED
    BY <1>1 DEF Extends, Faithful

LEMMA OwnContent ==
  ASSUME NEW s \in Storage
  PROVE  /\ Content(s) = ContentAt(s, s.generation)
         /\ \A rows : Faithful(rows, s.generation, s) <=> rows = Content(s)
PROOF
  BY DEF Content, ContentAt, Faithful, Covers

(* Only the deltas in between matter.                                      *)
LEMMA ReplayDeltasSame ==
  ASSUME NEW s \in Storage, NEW t \in Storage, NEW rows, NEW g, NEW h,
         \A d \in Generation : g < d /\ d <= h => s.deltas[d] = t.deltas[d]
  PROVE  ReplayDeltas(rows, s, g, h) = ReplayDeltas(rows, t, g, h)
PROOF
  <1> DEFINE T(x, id) == {d \in DeltasAfter(x, g) :
                            d <= h /\ Touching(x.deltas[d].changes, id) # {}}
             after(x, id, d) == x.deltas[d].changes[LastTouch(x.deltas[d].changes, id)].vector
  <1>1. ASSUME NEW id \in Rowid
        PROVE  /\ T(s, id) = T(t, id)
               /\ \A d \in T(s, id) : s.deltas[d] = t.deltas[d]
    <2>1. \A d : d \in T(s, id) => d \in T(t, id) /\ s.deltas[d] = t.deltas[d]
      BY DEF DeltasAfter, Stored
    <2>2. \A d : d \in T(t, id) => d \in T(s, id)
      BY DEF DeltasAfter, Stored
    <2> QED
      BY <2>1, <2>2
  <1>2. ASSUME NEW id \in Rowid
        PROVE  (IF T(s, id) = {} THEN rows[id] ELSE after(s, id, Max(T(s, id))))
               = (IF T(t, id) = {} THEN rows[id] ELSE after(t, id, Max(T(t, id))))
    <2>1. CASE T(s, id) = {}
      <3>1. T(t, id) = {}
        BY <1>1, <2>1
      <3> QED
        BY <2>1, <3>1
    <2>2. CASE T(s, id) # {}
      <3> DEFINE U == T(s, id)
                 m == Max(U)
      <3>1. U \subseteq Stored(s)
        BY DEF DeltasAfter
      <3>2. m \in U
        <4> HIDE DEF U
        <4> QED BY <2>2, <3>1, LatestOf DEF U
      <3>3. U = T(t, id)
        BY <1>1
      <3>4. s.deltas[m] = t.deltas[m]
        <4> HIDE DEF m
        <4> QED BY <1>1, <3>2
      <3>5. after(s, id, m) = after(t, id, m)
        BY <3>4
      <3> HIDE DEF after, T
      <3> QED
        BY <2>2, <3>3, <3>5
    <2> QED
      BY <2>1, <2>2
  <1>3. /\ ReplayDeltas(rows, s, g, h) =
             [id \in Rowid |-> IF T(s, id) = {} THEN rows[id]
                               ELSE after(s, id, Max(T(s, id)))]
        /\ ReplayDeltas(rows, t, g, h) =
             [id \in Rowid |-> IF T(t, id) = {} THEN rows[id]
                               ELSE after(t, id, Max(T(t, id)))]
    BY DEF ReplayDeltas
  <1> HIDE DEF T, after
  <1> QED
    BY <1>2, <1>3

LEMMA DecodedReplay ==
  ASSUME NEW rows, NEW cs \in Seq(Change)
  PROVE  /\ Replay(rows, Decoded(cs)) = Replay(rows, cs)
         /\ ReplayOK(rows, Decoded(cs)) <=> ReplayOK(rows, cs)
PROOF
  <1>1. DOMAIN Decoded(cs) = DOMAIN cs
    BY DEF Decoded
  <1>2. ASSUME NEW i \in DOMAIN cs
        PROVE  /\ Decoded(cs)[i].id = cs[i].id /\ Decoded(cs)[i].op = cs[i].op
               /\ Decoded(cs)[i].vector = cs[i].vector
    <2>1. Decoded(cs)[i] = [cs[i] EXCEPT !.replaces = (cs[i].op = "insert")]
      BY DEF Decoded
    <2>2. cs[i] \in Change
      OBVIOUS
    <2> QED
      BY <2>1, <2>2 DEF Change
  <1>3. \A id : Touching(Decoded(cs), id) = Touching(cs, id)
    BY <1>1, <1>2 DEF Touching
  <1>4. \A id : LastTouch(Decoded(cs), id) = LastTouch(cs, id)
    BY <1>3 DEF LastTouch
  <1>5. \A id : Touching(cs, id) # {} => LastTouch(cs, id) \in DOMAIN cs
    BY LastTouchProperties
  <1>6. ASSUME NEW id \in Rowid
        PROVE  (IF Touching(Decoded(cs), id) = {} THEN rows[id]
                ELSE Decoded(cs)[LastTouch(Decoded(cs), id)].vector)
               = (IF Touching(cs, id) = {} THEN rows[id]
                  ELSE cs[LastTouch(cs, id)].vector)
    BY <1>2, <1>3, <1>4, <1>5
  <1>7. Replay(rows, Decoded(cs)) = Replay(rows, cs)
    BY <1>6 DEF Replay
  <1>8. ASSUME NEW i \in DOMAIN cs
        PROVE  PresentAt(rows, Decoded(cs), i) <=> PresentAt(rows, cs, i)
    <2> DEFINE E == {j \in Touching(cs, cs[i].id) : j < i}
    <2>1. E # {} => Max(E) \in DOMAIN cs
      <3>1. SUFFICES ASSUME E # {} PROVE Max(E) \in DOMAIN cs
        OBVIOUS
      <3>2. E \subseteq 1 .. Len(cs) /\ Len(cs) \in Nat /\ DOMAIN cs = 1 .. Len(cs)
        BY DEF Touching
      <3> HIDE DEF E
      <3> QED
        BY <3>1, <3>2, MaxUpTo
    <2>2. {j \in Touching(Decoded(cs), Decoded(cs)[i].id) : j < i} = E
      BY <1>2, <1>3
    <2>3. PresentAt(rows, cs, i) <=>
            IF E = {} THEN rows[cs[i].id] # None ELSE cs[Max(E)].op = "insert"
      BY DEF PresentAt
    <2>4. PresentAt(rows, Decoded(cs), i) <=>
            IF E = {} THEN rows[Decoded(cs)[i].id] # None
                      ELSE Decoded(cs)[Max(E)].op = "insert"
      BY <2>2 DEF PresentAt
    <2> HIDE DEF E
    <2> QED
      BY <1>2, <2>1, <2>3, <2>4
  <1>9. ReplayOK(rows, Decoded(cs)) <=> ReplayOK(rows, cs)
    BY <1>1, <1>2, <1>8 DEF ReplayOK
  <1> QED
    BY <1>7, <1>9

LEMMA BaseContent ==
  ASSUME NEW s \in Storage, s.deltas = NoDeltas
  PROVE  Stored(s) = {} /\ Content(s) = s.base
PROOF
  <1>1. Stored(s) = {}
    BY DEF Stored, NoDeltas
  <1>2. \A id \in Rowid : Content(s)[id] = s.base[id]
    BY <1>1 DEF Content, ReplayDeltas, DeltasAfter
  <1>3. Content(s) \in Rows /\ s.base \in Rows
    BY ContentType DEF Storage
  <1> QED
    BY <1>1, <1>2, <1>3 DEF Rows

(* The two writes of a commit.                                             *)
LEMMA CompactionContent ==
  ASSUME NEW s \in Storage, NEW rows \in Rows, NEW g \in Generation,
         g > s.generation, NEW rowCount \in Nat
  PROVE  LET t == RecordCompaction(WriteIndex(s, rows), g, ImageLen(rows), rowCount)
         IN  /\ t \in Storage /\ t.generation = g /\ t.layout = s.layout
             /\ t.ids = s.ids /\ Content(t) = rows /\ Extends(s, t)
PROOF
  <1> DEFINE t == RecordCompaction(WriteIndex(s, rows), g, ImageLen(rows), rowCount)
  <1>1. t \in Storage
    BY RecordCompactionType, ImageLenType
  <1>2. /\ t.base = rows /\ t.deltas = NoDeltas /\ t.generation = g
        /\ t.layout = s.layout /\ t.ids = s.ids
    BY DEF RecordCompaction, WriteIndex, Storage
  <1> HIDE DEF t
  <1>3. Stored(t) = {} /\ Content(t) = rows
    BY <1>1, <1>2, BaseContent
  <1>4. s.generation \in Int /\ g \in Int
    BY GenerationType DEF Generation
  <1>5. \A h \in 0 .. s.generation : ~Covers(t, h)
    BY <1>2, <1>3, <1>4 DEF Covers
  <1>6. Extends(s, t)
    BY <1>2, <1>4, <1>5 DEF Extends
  <1> QED
    BY <1>1, <1>2, <1>3, <1>6 DEF t

(* t is s with a delta of cs, generation g.                                *)
DeltaOn(s, t, cs, g) ==
  /\ t \in Storage /\ t.generation = g /\ t.layout = s.layout
  /\ t.ids = s.ids /\ Extends(s, t) /\ Content(t) = Replay(Content(s), cs)

LEMMA DeltaContent ==
  ASSUME NEW s \in Storage, Chained(s), NEW cs \in Seq(Change),
         NEW g \in Generation, g = s.generation + 1, NEW rowCount \in Nat,
         NEW deltaBytes \in Int, NEW deltaOps \in Int
  PROVE  DeltaOn(s, RecordDelta(WriteDelta(s, g, cs), g, rowCount, deltaBytes, deltaOps),
                 cs, g)
PROOF
  <1> DEFINE w == WriteDelta(s, g, cs)
             t == RecordDelta(w, g, rowCount, deltaBytes, deltaOps)
             batch == BatchOf(s, cs)
             f == s.generation
  <1>1. w \in Storage /\ batch \in Batch
    BY WriteDeltaType, BatchType
  <1>2. t \in Storage
    <2> HIDE DEF w
    <2> QED BY <1>1, RecordDeltaType
  <1>3. /\ t.base = s.base /\ t.deltas = [s.deltas EXCEPT ![g] = batch]
        /\ t.generation = g /\ t.layout = s.layout /\ t.ids = s.ids
    BY DEF RecordDelta, WriteDelta, Storage
  <1>4. batch.changes = Decoded(cs) /\ batch # None
    BY <1>1, BatchAssumption DEF BatchOf
  <1>5. s.deltas \in [Generation -> Batch \cup {None}]
    BY DEF Storage, Deltas
  <1>6. f \in 0 .. MaxGeneration /\ f \in Int /\ g \in Int /\ -1 <= f /\ f <= g /\ -1 \in Int
        /\ g = f + 1
    BY GenerationType DEF Generation
  <1> HIDE DEF w, t, batch
  <1>7. /\ t.deltas[g] = batch
        /\ \A d \in Generation : d # g => t.deltas[d] = s.deltas[d]
    BY <1>3, <1>5
  <1>8. \A h \in Int : h <= f => ReplayDeltas(s.base, t, -1, h) = ReplayDeltas(s.base, s, -1, h)
    <2>1. SUFFICES ASSUME NEW h \in Int, h <= f
                   PROVE  ReplayDeltas(s.base, t, -1, h) = ReplayDeltas(s.base, s, -1, h)
      OBVIOUS
    <2>2. \A d \in Generation : -1 < d /\ d <= h => t.deltas[d] = s.deltas[d]
      BY <1>6, <1>7, <2>1 DEF Generation
    <2> QED
      BY <1>2, <2>2, ReplayDeltasSame
  <1>9. Stored(t) = Stored(s) \cup {g}
    BY <1>4, <1>7 DEF Stored
  <1>10. \A d \in Stored(s) : d \in Int /\ d <= f
    <2>1. Stored(s) \subseteq Stored(s) /\ Stored(s) \subseteq Int
      BY DEF Stored, Generation
    <2>2. Stored(s) # {} => Max(Stored(s)) = f
      BY DEF Chained
    <2> QED
      BY <2>1, <2>2, LatestOf
  <1>11. Extends(s, t)
    <2>1. ASSUME NEW h \in 0 .. f, Covers(t, h)
          PROVE  Covers(s, h) /\ ContentAt(t, h) = ContentAt(s, h)
      <3>1. h \in Int /\ h <= f /\ h < g
        BY <1>6
      <3>2. PICK d \in Stored(t) : d <= h
        BY <1>3, <2>1, <3>1 DEF Covers
      <3>3. d \in Stored(s)
        BY <1>6, <1>9, <3>1, <3>2
      <3>4. Covers(s, h)
        BY <1>6, <3>1, <3>2, <3>3 DEF Covers
      <3> QED
        BY <1>3, <1>8, <3>1, <3>4 DEF ContentAt
    <2> QED
      BY <1>3, <1>6, <2>1 DEF Extends
  <1>12. Content(t) = Replay(Content(s), cs)
    <2> DEFINE mid == Content(s)
    <2>1. s.base \in Rows /\ mid \in Rows
      BY ContentType DEF Storage
    <2>2. ReplayDeltas(s.base, t, -1, f) = mid
      BY <1>6, <1>8 DEF Content
    <2>3. Content(t) = ReplayDeltas(s.base, t, -1, g)
      BY <1>3 DEF Content
    <2>4. ReplayDeltas(s.base, t, -1, g) = ReplayDeltas(mid, t, f, g)
      <3> HIDE DEF mid, f
      <3> QED BY <1>2, <1>6, <2>1, <2>2, ReplayDeltasCompose
    <2>5. ASSUME NEW id \in Rowid
          PROVE  ReplayDeltas(mid, t, f, g)[id] = Replay(mid, Decoded(cs))[id]
      <3> DEFINE T == {d \in DeltasAfter(t, f) :
                         d <= g /\ Touching(t.deltas[d].changes, id) # {}}
      <3>1. ReplayDeltas(mid, t, f, g)[id] =
              IF T = {} THEN mid[id]
              ELSE t.deltas[Max(T)].changes[LastTouch(t.deltas[Max(T)].changes, id)].vector
        BY DEF ReplayDeltas
      <3>2. Replay(mid, Decoded(cs))[id] =
              IF Touching(Decoded(cs), id) = {} THEN mid[id]
              ELSE Decoded(cs)[LastTouch(Decoded(cs), id)].vector
        BY DEF Replay
      <3>3. DeltasAfter(t, f) = {g}
        BY <1>6, <1>9, <1>10 DEF DeltasAfter
      <3>4. T = IF Touching(Decoded(cs), id) = {} THEN {} ELSE {g}
        BY <1>4, <1>6, <1>7, <3>3
      <3>5. T # {} => Max(T) = g
        <4>1. {g} \subseteq Int /\ g \in {g} /\ \A x \in {g} : x <= g
          BY <1>6
        <4>2. Max({g}) = g
          BY <4>1, MaxOf
        <4> QED
          BY <3>4, <4>2
      <3> HIDE DEF T, mid
      <3> QED
        BY <1>4, <1>7, <3>1, <3>2, <3>4, <3>5
    <2> HIDE DEF mid
    <2>6. ReplayDeltas(mid, t, f, g) \in Rows /\ Replay(mid, Decoded(cs)) \in Rows
      BY <1>2, <2>1, ReplayDeltasType, ReplayType, DecodedType
    <2>7. ReplayDeltas(mid, t, f, g) = Replay(mid, Decoded(cs))
      BY <2>5, <2>6 DEF Rows
    <2> QED
      BY <2>3, <2>4, <2>7, DecodedReplay DEF mid
  <1> QED
    BY <1>2, <1>3, <1>11, <1>12 DEF t, w, DeltaOn

-----------------------------------------------------------------------------
(* Copies outside a transaction. *)

(* A copy that is the stored image.                                        *)
Fresh(st, s) ==
  st.index # None => st.index = Content(s) /\ st.generation = s.generation
Copied(new, st, s) ==
  /\ new.dirty = st.dirty
  /\ (new.index = st.index /\ new.generation = st.generation) \/ Fresh(new, s)

LEMMA NothingUnsynced ==
  ASSUME NEW st, st.txn = None, NEW rows \in Rows
  PROVE  Unsynced(st) = <<>> /\ Replay(rows, Unsynced(st)) = rows
PROOF
  <1>1. Unsynced(st) = <<>>
    BY DEF Unsynced
  <1>2. \A id \in Rowid : Replay(rows, <<>>)[id] = rows[id]
    BY NothingTouched DEF Replay
  <1>3. <<>> \in Seq(Change)
    OBVIOUS
  <1>4. Replay(rows, <<>>) \in Rows
    BY <1>3, ReplayType
  <1>5. Replay(rows, <<>>) = rows
    BY <1>2, <1>4 DEF Rows
  <1> QED
    BY <1>1, <1>5

LEMMA LoadedParts ==
  ASSUME NEW st \in State, NEW s \in Storage
  PROVE  LET new == EnsureLoaded(st, s) content == Content(s)
         IN  /\ new \in State /\ new.txn = st.txn /\ new.dirty = st.dirty
             /\ new.layout = st.layout
             /\ \/ new = st
                \/ /\ st.index = None /\ new.generation = s.generation
                   /\ new.index = IF ReplayOK(content, Unsynced(st))
                                  THEN Replay(content, Unsynced(st)) ELSE None
PROOF
  <1>1. EnsureLoaded(st, s) \in State
    BY EnsureLoadedType
  <1>2. CASE ~(st.index = None /\ Loadable(st, s))
    BY <1>1, <1>2 DEF EnsureLoaded
  <1>3. CASE st.index = None /\ Loadable(st, s)
    <2> DEFINE content == Content(s)
               new == Loaded(st, s, content)
    <2>1. EnsureLoaded(st, s) = new
      BY <1>3 DEF EnsureLoaded
    <2>2. /\ new.txn = st.txn /\ new.dirty = st.dirty /\ new.layout = st.layout
          /\ new.generation = s.generation
          /\ new.index = IF ReplayOK(content, Unsynced(st))
                         THEN Replay(content, Unsynced(st)) ELSE None
      BY DEF Loaded, State
    <2> HIDE DEF new
    <2> QED
      BY <1>1, <1>3, <2>1, <2>2
  <1> QED
    BY <1>2, <1>3

LEMMA LoadFresh ==
  ASSUME NEW st \in State, NEW s \in Storage, st.txn = None
  PROVE  /\ EnsureLoaded(st, s).dirty = st.dirty
         /\ EnsureLoaded(st, s) = st \/ Fresh(EnsureLoaded(st, s), s)
         /\ st.index = None => Fresh(EnsureLoaded(st, s), s)
         /\ Fresh(st, s) => Fresh(EnsureLoaded(st, s), s)
PROOF
  <1>1. Content(s) \in Rows
    BY ContentType
  <1>2. Replay(Content(s), Unsynced(st)) = Content(s)
    BY <1>1, NothingUnsynced
  <1> QED
    BY <1>2, LoadedParts DEF Fresh

LEMMA RefreshCopies ==
  ASSUME NEW st \in State, NEW s \in Storage, st.txn = None,
         st.index # None => Faithful(st.index, st.generation, s)
  PROVE  LET fresh == Refresh(st, s)
         IN  /\ fresh.st \in State /\ fresh.st.txn = None
             /\ Copied(fresh.st, st, s)
             /\ fresh.ok => Fresh(fresh.st, s)
PROOF
  <1> DEFINE Good(r) == /\ r.st.txn = None /\ Copied(r.st, st, s)
                        /\ r.ok => Fresh(r.st, s)
  <1>1. Refresh(st, s).st \in State
    BY RefreshType DEF ReadResult
  <1>2. st.index # None /\ CatchesUp(st, s) => CaughtUp(st, s).index = Content(s)
    <2>1. SUFFICES ASSUME st.index # None, CatchesUp(st, s)
                   PROVE  CaughtUp(st, s).index = Content(s)
      OBVIOUS
    <2>2. st.generation \in Int /\ s.generation \in Int
      BY DEF State, Storage, Generation
    <2>3. st.generation < s.generation /\ st.generation <= s.generation
          /\ \E d \in Stored(s) : d <= st.generation
      BY <2>1, <2>2 DEF CatchesUp
    <2>4. st.index = ReplayDeltas(s.base, s, -1, st.generation)
      BY <2>1, <2>3 DEF Faithful, Covers, ContentAt
    <2> QED
      BY <2>3, <2>4, CatchUpIsReload
  <1>3. ASSUME NEW x \in State, x.txn = None, x.dirty = st.dirty,
               NEW y, y \in {x, Dropped(x), CaughtUp(x, s)}
        PROVE  /\ y.txn = None /\ y.dirty = st.dirty
               /\ y \in State =>
                    /\ Adopt(y, s).txn = None /\ Adopt(y, s).dirty = st.dirty
                    /\ Adopt(y, s).index = y.index /\ Adopt(y, s).generation = s.generation
                    /\ Recounted(y).txn = None /\ Recounted(y).dirty = st.dirty
                    /\ Recounted(y).index = y.index
                    /\ Recounted(y).generation = y.generation
    <2>1. y.txn = None /\ y.dirty = st.dirty
      BY <1>3 DEF Dropped, CaughtUp, State
    <2>2. y \in State =>
                    /\ Adopt(y, s).txn = y.txn /\ Adopt(y, s).dirty = y.dirty
                    /\ Adopt(y, s).index = y.index /\ Adopt(y, s).generation = s.generation
                    /\ Recounted(y).txn = y.txn /\ Recounted(y).dirty = y.dirty
                    /\ Recounted(y).index = y.index
                    /\ Recounted(y).generation = y.generation
      BY DEF Adopt, Recounted, State
    <2> QED
      BY <2>1, <2>2
  <1>4. \A x \in State : /\ Dropped(x).index = None /\ Dropped(x) \in State
                         /\ Dropped(x).generation = x.generation
    BY DroppedType DEF Dropped, State
  <1>5. CaughtUp(st, s).generation = s.generation
    BY DEF CaughtUp, State
  <1>6. st.index # None => CaughtUp(st, s) \in State
    BY CaughtUpType
  <1>7. Good(RefreshLegacy(st, s))
    <2>1. CASE st.index # None /\ s.generation = st.generation
      <3>1. RefreshLegacy(st, s) = Result(TRUE, st)
        BY <2>1 DEF RefreshLegacy
      <3>2. st.index = Content(s)
        BY <2>1, OwnContent
      <3> QED
        BY <2>1, <3>1, <3>2 DEF Result, Copied, Fresh
    <2>2. CASE st.index # None /\ s.generation # st.generation /\ CatchesUp(st, s)
      <3>1. RefreshLegacy(st, s) \in {Result(TRUE, Recounted(CaughtUp(st, s))),
                                      Result(FALSE, Dropped(st))}
        BY <2>2 DEF RefreshLegacy
      <3>2. Fresh(Recounted(CaughtUp(st, s)), s)
        BY <1>2, <1>3, <1>5, <1>6, <2>2 DEF Fresh
      <3>3. Fresh(Dropped(st), s)
        BY <1>4 DEF Fresh
      <3> QED
        BY <1>3, <1>4, <1>6, <2>2, <3>1, <3>2, <3>3 DEF Result, Copied
    <2>3. CASE ~(st.index # None /\ (s.generation = st.generation \/ CatchesUp(st, s)))
      <3>1. RefreshLegacy(st, s) = LoadResult(EnsureLoaded(Dropped(st), s))
        BY <2>3 DEF RefreshLegacy
      <3>2. Dropped(st).txn = None /\ Dropped(st).dirty = st.dirty
        BY <1>3
      <3>3. RefreshLegacy(st, s).st = EnsureLoaded(Dropped(st), s)
        BY <3>1 DEF LoadResult, Result
      <3>4. /\ Fresh(EnsureLoaded(Dropped(st), s), s)
            /\ EnsureLoaded(Dropped(st), s).dirty = st.dirty
            /\ EnsureLoaded(Dropped(st), s).txn = None
        BY <1>4, <3>2, LoadFresh, LoadedParts
      <3> QED
        BY <3>3, <3>4 DEF Copied
    <2> QED
      BY <2>1, <2>2, <2>3
  <1>8. ASSUME NEW x \in State, x.txn = None, x.dirty = st.dirty,
               x.index = None \/ x = st
        PROVE  Good(RefreshCurrent(x, s))
    <2>1. CASE x.index = None \/ s.generation = x.generation
      <3>1. RefreshCurrent(x, s) = Result(TRUE, Adopt(x, s))
        BY <2>1 DEF RefreshCurrent
      <3>2. x.index # None => x.index = Content(s)
        BY <1>8, <2>1, OwnContent
      <3> QED
        BY <1>3, <1>8, <3>1, <3>2 DEF Result, Copied, Fresh
    <2>2. CASE x.index # None /\ s.generation # x.generation /\ ~CatchesUp(x, s)
      <3>1. RefreshCurrent(x, s) = Result(TRUE, Adopt(Dropped(x), s))
        BY <2>2 DEF RefreshCurrent
      <3> QED
        BY <1>3, <1>4, <1>8, <3>1 DEF Result, Copied, Fresh
    <2>3. CASE x.index # None /\ s.generation # x.generation /\ CatchesUp(x, s)
      <3>1. RefreshCurrent(x, s) \in {Result(TRUE, Adopt(CaughtUp(x, s), s)),
                                      Result(FALSE, Dropped(x))}
        BY <2>3 DEF RefreshCurrent
      <3>2. x = st
        BY <1>8, <2>3
      <3>3. Fresh(Adopt(CaughtUp(st, s), s), s)
        BY <1>2, <1>3, <1>6, <2>3, <3>2 DEF Fresh
      <3>4. Fresh(Dropped(st), s)
        BY <1>4 DEF Fresh
      <3> QED
        BY <1>3, <1>4, <1>6, <2>3, <3>1, <3>2, <3>3, <3>4 DEF Result, Copied
    <2> QED
      BY <2>1, <2>2, <2>3
  <1>9. Good(Refresh(st, s))
    <2> DEFINE x == [Dropped(st) EXCEPT !.layout = "current"]
    <2>1. x \in State /\ x.txn = None /\ x.dirty = st.dirty /\ x.index = None
      <3>1. x \in State /\ x.txn = Dropped(st).txn /\ x.dirty = Dropped(st).dirty
            /\ x.index = Dropped(st).index
        BY <1>4 DEF State
      <3> QED
        BY <1>3, <1>4, <3>1
    <2> HIDE DEF x
    <2>2. Good(Result(FALSE, st))
      BY DEF Result, Copied
    <2>3. Good(RefreshCurrent(x, s)) /\ Good(RefreshCurrent(st, s))
      BY <1>8, <2>1
    <2>4. Refresh(st, s) \in {RefreshLegacy(st, s), RefreshCurrent(x, s),
                              RefreshCurrent(st, s), Result(FALSE, st)}
      BY DEF Refresh, x
    <2> QED
      BY <1>7, <2>2, <2>3, <2>4
  <1> QED
    BY <1>1, <1>9


(* What a connection outside a transaction may read with: a copy of s, the *)
(* version it sees, and of d, the committed one, by its generation.        *)
CopyOf(st, s, d) ==
  /\ ~st.dirty
  /\ st.index # None =>
       /\ st.generation <= d.generation
       /\ Faithful(st.index, st.generation, s)
       /\ Faithful(st.index, st.generation, d)

LEMMA CopiedKeeps ==
  ASSUME NEW s \in Storage, NEW d \in Storage, Extends(s, d),
         NEW st, CopyOf(st, s, d), NEW new, Copied(new, st, s)
  PROVE  CopyOf(new, s, d)
PROOF
  <1>1. CASE new.index = st.index /\ new.generation = st.generation
    BY <1>1 DEF CopyOf, Copied
  <1>2. CASE Fresh(new, s)
    <2>1. Faithful(Content(s), s.generation, s)
      BY OwnContent
    <2>2. Faithful(Content(s), s.generation, d) /\ s.generation <= d.generation
      BY <2>1, FaithfulLater, GenerationType
    <2> QED
      BY <1>2, <2>1, <2>2 DEF CopyOf, Copied, Fresh
  <1> QED
    BY <1>1, <1>2 DEF Copied

LEMMA OpenedCopy ==
  ASSUME NEW s \in Storage, NEW d \in Storage, Extends(s, d)
  PROVE  CopyOf(OpenStorage(s), s, d)
PROOF
  <1> DEFINE st == Unread(s)
  <1>1. st \in State /\ st.index = None /\ st.txn = None /\ st.dirty = FALSE
    <2>1. 0 \in Generation
      BY SizeAssumption DEF Generation
    <2> QED
      BY <2>1 DEF Unread, State, Storage
  <1>2. CopyOf(st, s, d)
    BY <1>1 DEF CopyOf
  <1>3. Copied(Adopt(st, s), st, s)
    BY <1>1 DEF Adopt, Copied, Fresh, State
  <1>4. Copied(EnsureLoaded(st, s), st, s)
    BY <1>1, LoadFresh DEF Copied
  <1>5. OpenStorage(s) \in {Adopt(st, s), EnsureLoaded(st, s)}
    BY DEF OpenStorage
  <1> QED
    BY <1>2, <1>3, <1>4, <1>5, CopiedKeeps

LEMMA ReadsCopy ==
  ASSUME NEW st \in State, NEW s \in Storage, st.txn = None,
         st.index # None => Faithful(st.index, st.generation, s),
         NEW new \in {Searched(st, s).st, Scanned(st, s), Dropped(st)}
  PROVE  new.txn = None /\ Copied(new, st, s)
PROOF
  <1> DEFINE fresh == Refresh(st, s)
             loaded == EnsureLoaded(fresh.st, s)
  <1>1. /\ fresh.st \in State /\ fresh.st.txn = None
        /\ Copied(fresh.st, st, s)
        /\ fresh.ok => Fresh(fresh.st, s)
    BY RefreshCopies
  <1>2. /\ loaded.txn = None /\ loaded.dirty = fresh.st.dirty
        /\ fresh.ok => Fresh(loaded, s)
    BY <1>1, LoadedParts, LoadFresh
  <1>3. Dropped(st).txn = None /\ Dropped(st).dirty = st.dirty /\ Dropped(st).index = None
    BY DEF Dropped, State
  <1>4. LoadResult(loaded).st = loaded
    BY DEF LoadResult, Result
  <1>5. \/ new = Dropped(st) \/ new = fresh.st
        \/ fresh.ok /\ new = loaded
    BY <1>4 DEF Searched, SearchedAfter, Scanned, ScannedAfter
  <1> HIDE DEF fresh, loaded
  <1> QED
    BY <1>1, <1>2, <1>3, <1>5 DEF Copied, Fresh
-----------------------------------------------------------------------------
(* In a transaction.                                                       *)

(* The state of a transaction, over the storage its connection sees.       *)
Working(st, s) ==
  /\ st.txn \in Txn /\ st.txn.synced <= Len(st.txn.changes)
  /\ Truthful(Content(s), Unsynced(st))
  /\ s.layout = "current" => s.ids = KeysAfter(Content(s), Unsynced(st))
  /\ st.index # None => Exact(st.index, Content(s), Unsynced(st))
  /\ st.dirty <=> Unsynced(st) # <<>>

(* Until xSync has written, any part of the log can be taken back: from a  *)
(* checkpoint that holds what the appends before it did, by undoing        *)
(* appends, or by replaying the log on the stored image.                   *)
Recoverable(st, base) ==
  LET cs == st.txn.changes
      cp == st.txn.checkpoint
  IN  /\ st.txn.synced = 0
      /\ cp = None /\ st.index # None => AppendOnly(cs) \/ Encodable(cs)
      /\ cp # None =>
           /\ cp.position <= Len(cs)
           /\ AppendOnly(SubSeq(cs, 1, cp.position))
           /\ Encodable(SubSeq(cs, cp.position + 1, Len(cs)))
           /\ Exact(cp.payload, base, SubSeq(cs, 1, cp.position))

LEMMA TxnIsThere ==
  ASSUME NEW st, st.txn \in Txn
  PROVE  st.txn # None
PROOF
  BY TransactionAssumption

LEMMA TxnFields ==
  ASSUME NEW txn \in Txn
  PROVE  /\ txn.changes \in Seq(Change) /\ Len(txn.changes) \in Nat
         /\ txn.synced \in Nat /\ txn.savepoints \in [Mark -> Nat \cup {None}]
         /\ txn.checkpoint \in Checkpoint \cup {None}
         /\ txn.checkpoint # None =>
              /\ txn.checkpoint.position \in Nat /\ txn.checkpoint.payload \in Rows
PROOF
  BY DEF Txn, Checkpoint

LEMMA UnsyncedAll ==
  ASSUME NEW st, st.txn \in Txn, st.txn.synced = 0
  PROVE  Unsynced(st) = st.txn.changes
PROOF
  <1>1. Unsynced(st) = SubSeq(st.txn.changes, 1, Len(st.txn.changes))
    BY TxnIsThere DEF Unsynced
  <1> QED
    BY <1>1, TxnFields, WholeLog1

LEMMA UnsyncedLog ==
  ASSUME NEW st, st.txn \in Txn
  PROVE  Unsynced(st) \in Seq(Change)
PROOF
  BY TxnIsThere, TxnFields, SubLog DEF Unsynced

LEMMA BeginWorks ==
  ASSUME NEW st \in State, NEW s \in Storage, st.txn = None, ~st.dirty,
         st.index # None => Faithful(st.index, st.generation, s),
         s.layout = "current" => s.ids = Keys(Content(s))
  PROVE  LET begun == Begin(st, s)
         IN  IF begun.ok
             THEN /\ Working(begun.st, s) /\ Recoverable(begun.st, Content(s))
                  /\ begun.st.txn.changes = <<>>
                  /\ begun.st.txn.savepoints = NoSavepoints
             ELSE begun.st.txn = None /\ Copied(begun.st, st, s)
PROOF
  <1> DEFINE fresh == Refresh(st, s)
             new == EnsureTxn(fresh.st)
  <1>1. /\ fresh.st \in State /\ fresh.st.txn = None
        /\ Copied(fresh.st, st, s)
        /\ fresh.ok => Fresh(fresh.st, s)
    BY RefreshCopies
  <1>2. CASE ~fresh.ok
    <2>1. Begin(st, s) = fresh
      BY <1>2 DEF Begin, BegunAfter
    <2> QED
      BY <1>1, <1>2, <2>1
  <1>3. CASE fresh.ok
    <2>1. Begin(st, s).ok /\ Begin(st, s).st = new
      BY <1>3 DEF Begin, BegunAfter, Result
    <2>2. new.index = fresh.st.index /\ new.txn \in Txn /\ new.dirty = FALSE
      <3>1. new = [fresh.st EXCEPT !.txn = StartTxn(fresh.st)]
        BY <1>1 DEF EnsureTxn
      <3>2. new.dirty = fresh.st.dirty
        BY <1>1, <3>1 DEF State
      <3>3. fresh.st.dirty = FALSE
        BY <1>1 DEF Copied, State
      <3> QED
        BY <1>1, <3>2, <3>3, EnsureTxnType
    <2>3. /\ new.txn.changes = <<>> /\ new.txn.savepoints = NoSavepoints
          /\ new.txn.synced = 0 /\ new.txn.checkpoint = None
      <3>1. new.txn = StartTxn(fresh.st)
        BY <1>1 DEF EnsureTxn, State
      <3> QED
        BY <3>1 DEF StartTxn
    <2>4. Unsynced(new) = <<>>
      BY <2>2, <2>3, UnsyncedAll
    <2>5. Content(s) \in Rows
      BY ContentType
    <2>6. new.index # None => Exact(new.index, Content(s), <<>>)
      BY <1>1, <1>3, <2>2, <2>5, ExactNothing DEF Fresh
    <2>7. Working(new, s)
      BY <2>2, <2>3, <2>4, <2>5, <2>6, ExactNothing DEF Working
    <2>8. Recoverable(new, Content(s))
      BY <2>3 DEF Recoverable, AppendOnly
    <2> QED
      BY <2>1, <2>3, <2>7, <2>8
  <1> QED
    BY <1>2, <1>3


(* A read may load the index, with the log on top. *)
LEMMA LoadWorks ==
  ASSUME NEW st \in State, NEW s \in Storage, Working(st, s)
  PROVE  LET new == EnsureLoaded(st, s)
         IN  /\ new \in State /\ new.txn = st.txn /\ Working(new, s)
             /\ Recoverable(st, Content(s)) => Recoverable(new, Content(s))
PROOF
  <1> DEFINE new == EnsureLoaded(st, s)
             us == Unsynced(st)
  <1>1. /\ new \in State /\ new.txn = st.txn /\ new.dirty = st.dirty
        /\ \/ new = st
           \/ new.index = IF ReplayOK(Content(s), us) THEN Replay(Content(s), us) ELSE None
    BY LoadedParts
  <1>2. us \in Seq(Change) /\ Content(s) \in Rows
    BY UnsyncedLog, ContentType DEF Working
  <1>3. Unsynced(new) = us
    BY <1>1 DEF Unsynced
  <1> HIDE DEF new
  <1>4. CASE new = st
    BY <1>1, <1>4 DEF new
  <1>5. CASE new.index = IF ReplayOK(Content(s), us) THEN Replay(Content(s), us) ELSE None
    <2>1. new.index # None => Encodable(us) /\ new.index = Replay(Content(s), us)
      BY <1>2, <1>5, ReplaysEncodable
    <2>2. Truthful(Content(s), us)
      BY DEF Working
    <2>3. new.index # None => Exact(new.index, Content(s), us)
      BY <1>2, <2>1, <2>2, ExactReplay
    <2>4. Working(new, s)
      BY <1>1, <1>3, <2>3 DEF Working
    <2>5. ASSUME Recoverable(st, Content(s)) PROVE Recoverable(new, Content(s))
      <3>1. us = st.txn.changes
        BY <2>5, UnsyncedAll DEF Working, Recoverable
      <3> QED
        BY <1>1, <2>1, <2>5, <3>1 DEF Recoverable
    <2> QED
      BY <1>1, <2>4, <2>5 DEF new
  <1> QED
    BY <1>1, <1>4, <1>5

LEMMA ReadsWork ==
  ASSUME NEW st \in State, NEW s \in Storage, Working(st, s),
         NEW new \in {Searched(st, s).st, Scanned(st, s), Prepare(st, s).st}
  PROVE  /\ new \in State /\ new.txn = st.txn /\ Working(new, s)
         /\ new.layout = st.layout
         /\ Recoverable(st, Content(s)) => Recoverable(new, Content(s))
PROOF
  <1> DEFINE loaded == EnsureLoaded(st, s)
  <1>1. Refresh(st, s) = Result(TRUE, st)
    BY TxnIsThere, RefreshGeneration DEF Working
  <1>2. Refresh(st, s).ok /\ Refresh(st, s).st = st
    BY <1>1 DEF Result
  <1>3. LoadResult(loaded).st = loaded
    BY DEF LoadResult, Result
  <1>4. new \in {st, loaded}
    BY <1>2, <1>3 DEF Searched, SearchedAfter, Scanned, ScannedAfter, Prepare, PreparedAfter
  <1>5. loaded.layout = st.layout
    BY EnsureLoadedType
  <1> HIDE DEF loaded
  <1>6. CASE new = st
    BY <1>6
  <1>7. CASE new = loaded
    BY <1>5, <1>7, LoadWorks DEF loaded
  <1> QED
    BY <1>4, <1>6, <1>7

(* A row is there when the log says so, in _ids and in the index alike:    *)
(* the two never disagree.                                                 *)
LEMMA ExistsIs ==
  ASSUME NEW st \in State, NEW s \in Storage, Working(st, s), st.layout = s.layout,
         st.layout = "legacy" => st.index # None, NEW id \in Rowid
  PROVE  /\ Exists(st, s, id) <=> id \in KeysAfter(Content(s), Unsynced(st))
         /\ ~Disagree(st, s, id)
PROOF
  <1>1. st.layout \in {"legacy", "current"}
    BY DEF State
  <1>2. Unsynced(st) \in Seq(Change)
    BY UnsyncedLog DEF Working
  <1>3. st.index # None =>
          (st.index[id] # None <=> id \in KeysAfter(Content(s), Unsynced(st)))
    BY <1>2, ExactKeys DEF Working, Keys
  <1>4. st.layout = "current" => s.ids = KeysAfter(Content(s), Unsynced(st))
    BY DEF Working
  <1> QED
    BY <1>1, <1>3, <1>4 DEF Exists, Disagree

LEMMA CheckpointWorks ==
  ASSUME NEW st \in State, NEW s \in Storage, Working(st, s)
  PROVE  LET open == EnsureCheckpoint(st)
         IN  /\ open \in State /\ open.index = st.index /\ open.layout = st.layout
             /\ open.txn.changes = st.txn.changes
             /\ open.txn.savepoints = st.txn.savepoints
             /\ Unsynced(open) = Unsynced(st) /\ Working(open, s)
             /\ open.index # None /\ open.txn.checkpoint = None =>
                  Encodable(open.txn.changes)
             /\ Recoverable(st, Content(s)) => Recoverable(open, Content(s))
PROOF
  <1> DEFINE cs == st.txn.changes
             open == EnsureCheckpoint(st)
             image == [position |-> Len(cs), payload |-> st.index]
  <1>1. st.txn \in Txn /\ st.txn # None /\ EnsureTxn(st) = st
    BY TxnIsThere DEF Working, EnsureTxn
  <1>2. cs \in Seq(Change) /\ Len(cs) \in Nat /\ st.txn.synced \in Nat
    BY <1>1, TxnFields
  <1>3. open \in State /\ open.txn \in Txn /\ open.index = st.index
    BY EnsureCheckpointType
  <1>4. CASE ~(st.txn.checkpoint = None /\ (\E i \in Inserts(cs) : cs[i].vector = None)
               /\ st.index # None)
    <2>1. open = st
      BY <1>1, <1>4 DEF EnsureCheckpoint
    <2>2. open.index # None /\ open.txn.checkpoint = None => Encodable(cs)
      BY <1>4, <2>1 DEF Encodable
    <2> HIDE DEF open
    <2> QED
      BY <1>3, <2>1, <2>2 DEF open
  <1>5. CASE st.txn.checkpoint = None /\ (\E i \in Inserts(cs) : cs[i].vector = None)
             /\ st.index # None
    <2>1. open = [st EXCEPT !.txn.checkpoint = image]
      BY <1>1, <1>5 DEF EnsureCheckpoint
    <2>2. /\ open.txn.changes = cs /\ open.txn.savepoints = st.txn.savepoints
          /\ open.txn.synced = st.txn.synced /\ open.txn.checkpoint = image
          /\ open.dirty = st.dirty /\ open.layout = st.layout
      BY <1>1, <2>1 DEF State, Txn
    <2>3. open.txn # None
      BY <1>3, TxnIsThere
    <2> HIDE DEF open
    <2>4. Unsynced(open) = Unsynced(st)
      BY <1>1, <2>2, <2>3 DEF Unsynced
    <2>5. Working(open, s)
      BY <1>3, <2>2, <2>4 DEF Working
    <2>6. image # None
      <3>1. image \in Checkpoint
        <4>1. st.index \in Rows
          BY <1>5 DEF State
        <4> QED
          BY <1>2, <4>1 DEF Checkpoint
      <3> QED
        BY <3>1, TransactionAssumption
    <2>7. ASSUME Recoverable(st, Content(s)) PROVE Recoverable(open, Content(s))
      <3>1. ~Encodable(cs)
        BY <1>5 DEF Encodable
      <3>2. AppendOnly(cs)
        BY <1>5, <2>7, <3>1 DEF Recoverable
      <3>3. SubSeq(cs, 1, Len(cs)) = cs
        BY <1>2, WholeLog1
      <3>4. Unsynced(st) = cs
        BY <1>1, <2>7, UnsyncedAll DEF Recoverable
      <3>5. Exact(st.index, Content(s), cs)
        BY <1>5, <3>4 DEF Working
      <3>6. Encodable(SubSeq(cs, Len(cs) + 1, Len(cs)))
        <4>1. SubSeq(cs, Len(cs) + 1, Len(cs)) = <<>>
          BY <1>2
        <4> QED
          BY <4>1 DEF Encodable, Inserts
      <3>7. image.position = Len(cs) /\ image.payload = st.index
        OBVIOUS
      <3>8. open.txn.synced = 0
        BY <2>2, <2>7 DEF Recoverable
      <3>9. Len(cs) <= Len(cs)
        BY <1>2
      <3> HIDE DEF image, cs
      <3>10. open.txn.changes = cs /\ open.txn.checkpoint = image
        BY <2>2 DEF cs
      <3> QED
        BY <2>6, <3>2, <3>3, <3>5, <3>6, <3>7, <3>8, <3>9, <3>10 DEF Recoverable
    <2> QED
      BY <1>3, <2>2, <2>4, <2>5, <2>6, <2>7 DEF open
  <1> QED
    BY <1>4, <1>5


LEMMA AppendTail ==
  ASSUME NEW cs \in Seq(Change), NEW x \in Change, NEW k \in 0 .. Len(cs)
  PROVE  /\ SubSeq(Append(cs, x), k + 1, Len(cs) + 1) = Append(SubSeq(cs, k + 1, Len(cs)), x)
         /\ SubSeq(Append(cs, x), 1, k) = SubSeq(cs, 1, k)
PROOF
  <1>1. Len(cs) \in Nat /\ Append(cs, x) \in Seq(Change) /\ Len(Append(cs, x)) = Len(cs) + 1
    OBVIOUS
  <1>2. \A i \in 1 .. Len(cs) : Append(cs, x)[i] = cs[i]
    OBVIOUS
  <1>3. Append(cs, x)[Len(cs) + 1] = x
    OBVIOUS
  <1>4. SubSeq(Append(cs, x), 1, k) = SubSeq(cs, 1, k)
    BY <1>1, <1>2
  <1>5. SubSeq(Append(cs, x), k + 1, Len(cs) + 1) = Append(SubSeq(cs, k + 1, Len(cs)), x)
    <2> DEFINE a == SubSeq(Append(cs, x), k + 1, Len(cs) + 1)
               b == SubSeq(cs, k + 1, Len(cs))
    <2>1. a \in Seq(Change) /\ Len(a) = Len(cs) + 1 - k
          /\ \A i \in 1 .. Len(cs) + 1 - k : a[i] = Append(cs, x)[k + i]
      BY <1>1
    <2>2. b \in Seq(Change) /\ Len(b) = Len(cs) - k
          /\ \A i \in 1 .. Len(cs) - k : b[i] = cs[k + i]
      OBVIOUS
    <2> HIDE DEF a, b
    <2>3. Append(b, x) \in Seq(Change) /\ Len(Append(b, x)) = Len(cs) + 1 - k
      BY <1>1, <2>2
    <2>4. ASSUME NEW i \in 1 .. Len(cs) + 1 - k PROVE a[i] = Append(b, x)[i]
      <3>1. CASE i = Len(cs) + 1 - k
        <4>1. a[i] = x
          BY <1>1, <1>3, <2>1, <3>1
        <4>2. Append(b, x)[Len(b) + 1] = x
          BY <2>2
        <4>3. i = Len(b) + 1
          BY <1>1, <2>2, <3>1
        <4> QED
          BY <4>1, <4>2, <4>3
      <3>2. CASE i # Len(cs) + 1 - k
        <4>1. i \in 1 .. Len(cs) - k /\ k + i \in 1 .. Len(cs)
          BY <1>1, <3>2
        <4>2. a[i] = cs[k + i]
          BY <1>2, <2>1, <4>1
        <4>3. Append(b, x)[i] = b[i]
          BY <2>2, <4>1
        <4> QED
          BY <2>2, <4>1, <4>2, <4>3
      <3> QED
        BY <3>1, <3>2
    <2> DEFINE c == Append(b, x)
    <2>5. c \in Seq(Change) /\ Len(c) = Len(a) /\ \A i \in 1 .. Len(a) : a[i] = c[i]
      BY <2>1, <2>3, <2>4
    <2> HIDE DEF c
    <2>6. a = c
      BY <2>1, <2>5
    <2> QED
      BY <2>6 DEF a, b, c
  <1> QED
    BY <1>4, <1>5

(* The log of new is that of st with changes added at its end at most.     *)
Grows(new, st) ==
  /\ new.txn.savepoints = st.txn.savepoints
  /\ Len(st.txn.changes) <= Len(new.txn.changes)
  /\ \A n \in 0 .. Len(st.txn.changes) :
       SubSeq(new.txn.changes, 1, n) = SubSeq(st.txn.changes, 1, n)

(* One change of row id, which the index holds as value afterwards. *)
Applies(x, id, value, there) ==
  /\ x \in Change /\ x.id = id /\ id \in Rowid /\ value \in Vector \cup {None}
  /\ there <=> (x.op = "delete" \/ x.replaces)
  /\ IF x.op = "insert" THEN value # None /\ x.vector \in {value, None}
                        ELSE value = None /\ x.vector = None

(* new is open with x logged and, if there is an index, applied to it. *)
WithChange(new, open, id, value, x) ==
  /\ new \in State /\ new.txn \in Txn
  /\ new.txn.changes = Append(open.txn.changes, x)
  /\ new.txn.savepoints = open.txn.savepoints
  /\ new.txn.checkpoint = open.txn.checkpoint
  /\ new.txn.synced = open.txn.synced
  /\ new.dirty = TRUE
  /\ IF open.index = None THEN new.index = None
     ELSE new.index = [open.index EXCEPT ![id] = value]
  /\ new.index # None <=> open.index # None

LEMMA LoggedFields ==
  ASSUME NEW open \in State, open.txn \in Txn, NEW id \in Rowid,
         NEW value \in Vector \cup {None}, NEW x \in Change
  PROVE  WithChange(Logged(SetId(open, id, value), x), open, id, value, x)
PROOF
  <1> DEFINE set == SetId(open, id, value)
             new == Logged(set, x)
  <1>1. set \in State /\ new \in State
    BY SetIdType, LoggedType
  <1>2. /\ set.txn = open.txn
        /\ IF open.index = None THEN set.index = None
           ELSE set.index = [open.index EXCEPT ![id] = value]
    BY DEF SetId, State
  <1>3. set.index # None <=> open.index # None
    <2>1. open.index # None => [open.index EXCEPT ![id] = value] \in Rows
      BY DEF State, Rows
    <2> QED
      BY <1>2, <2>1, NoneAssumption DEF Rows
  <1> HIDE DEF set
  <1>4. set.txn # None /\ EnsureTxn(set) = set
    BY <1>2, TxnIsThere DEF EnsureTxn
  <1>5. new = [set EXCEPT !.txn.changes = Append(@, x), !.dirty = TRUE]
    BY <1>4 DEF Logged
  <1>6. open.txn.changes \in Seq(Change)
    BY TxnFields
  <1>7. Append(open.txn.changes, x) \in Seq(Change)
    BY <1>6
  <1>8. /\ new.txn = [set.txn EXCEPT !.changes = Append(set.txn.changes, x)]
        /\ new.dirty = TRUE /\ new.index = set.index
    BY <1>1, <1>5 DEF State
  <1> HIDE DEF new
  <1>9. /\ new.txn.changes = Append(open.txn.changes, x)
        /\ new.txn.savepoints = open.txn.savepoints
        /\ new.txn.checkpoint = open.txn.checkpoint
        /\ new.txn.synced = open.txn.synced
        /\ new.txn \in Txn
    <2> DEFINE txn == open.txn
               cs == Append(txn.changes, x)
    <2>1. new.txn = [txn EXCEPT !.changes = cs]
      BY <1>2, <1>8
    <2>2. txn \in Txn /\ cs \in Seq(Change)
      BY <1>7
    <2> HIDE DEF txn, cs
    <2>3. /\ new.txn.changes = cs /\ new.txn.savepoints = txn.savepoints
          /\ new.txn.checkpoint = txn.checkpoint /\ new.txn.synced = txn.synced
          /\ new.txn \in Txn
      BY <2>1, <2>2 DEF Txn
    <2> QED
      BY <2>3 DEF txn, cs
  <1>10. /\ IF open.index = None THEN new.index = None
            ELSE new.index = [open.index EXCEPT ![id] = value]
         /\ new.index # None <=> open.index # None
    BY <1>2, <1>3, <1>8
  <1> QED
    BY <1>1, <1>8, <1>9, <1>10 DEF WithChange, new, set

LEMMA AppendWorks ==
  ASSUME NEW open \in State, NEW s \in Storage, NEW t \in Storage,
         Working(open, s), SameData(t, s),
         NEW id, NEW value, NEW x,
         Applies(x, id, value, id \in KeysAfter(Content(s), Unsynced(open))),
         s.layout = "current" =>
           t.ids = IF x.op = "insert" THEN s.ids \cup {id} ELSE s.ids \ {id}
  PROVE  LET new == Logged(SetId(open, id, value), x)
         IN  Working(new, t) /\ Grows(new, open)
PROOF
  <1> DEFINE new == Logged(SetId(open, id, value), x)
             us == Unsynced(open)
             base == Content(s)
  <1>1. open.txn \in Txn /\ x \in Change /\ id \in Rowid /\ value \in Vector \cup {None}
        /\ x.id = id
    BY DEF Working, Applies
  <1>2. /\ new.txn \in Txn
        /\ new.txn.changes = Append(open.txn.changes, x)
        /\ new.txn.savepoints = open.txn.savepoints
        /\ new.txn.synced = open.txn.synced
        /\ new.dirty = TRUE
        /\ IF open.index = None THEN new.index = None
           ELSE new.index = [open.index EXCEPT ![id] = value]
        /\ new.index # None <=> open.index # None
    <2>1. WithChange(new, open, id, value, x)
      BY <1>1, LoggedFields
    <2> HIDE DEF new
    <2> QED
      BY <2>1 DEF WithChange
  <1> HIDE DEF new
  <1>3. /\ open.txn.changes \in Seq(Change) /\ Len(open.txn.changes) \in Nat
        /\ open.txn.synced \in 0 .. Len(open.txn.changes)
        /\ Len(Append(open.txn.changes, x)) = Len(open.txn.changes) + 1
    <2>1. open.txn.changes \in Seq(Change) /\ Len(open.txn.changes) \in Nat /\ open.txn.synced \in Nat
      BY <1>1, TxnFields
    <2>2. open.txn.synced <= Len(open.txn.changes)
      BY DEF Working
    <2> QED
      BY <1>1, <2>1, <2>2
  <1>4. us \in Seq(Change)
    BY <1>1, UnsyncedLog
  <1>5. Unsynced(new) = Append(us, x)
    <2>1. Unsynced(new) = SubSeq(Append(open.txn.changes, x), open.txn.synced + 1,
                                 Len(open.txn.changes) + 1)
      BY <1>2, <1>3, TxnIsThere DEF Unsynced
    <2>2. us = SubSeq(open.txn.changes, open.txn.synced + 1, Len(open.txn.changes))
      BY <1>1, TxnIsThere DEF Unsynced
    <2> DEFINE cs == open.txn.changes
               k == open.txn.synced
    <2>3. cs \in Seq(Change) /\ k \in 0 .. Len(cs)
      BY <1>3
    <2> HIDE DEF cs, k
    <2>4. SubSeq(Append(cs, x), k + 1, Len(cs) + 1) = Append(SubSeq(cs, k + 1, Len(cs)), x)
      BY <1>1, <2>3, AppendTail
    <2> QED
      BY <2>1, <2>2, <2>4 DEF cs, k
  <1>6. Grows(new, open)
    <2>1. \A n \in 0 .. Len(open.txn.changes) :
            SubSeq(Append(open.txn.changes, x), 1, n) = SubSeq(open.txn.changes, 1, n)
      BY <1>1, <1>3, AppendTail
    <2> QED
      BY <1>2, <1>3, <2>1 DEF Grows
  <1>7. Content(t) = base /\ t.layout = s.layout
    BY SameDataFacts, SameImageExtends
  <1>8. /\ Truthful(base, us)
        /\ s.layout = "current" => s.ids = KeysAfter(base, us)
        /\ open.index # None => Exact(open.index, base, us)
    BY DEF Working
  <1> HIDE DEF us, base
  <1>9. /\ Truthful(base, Append(us, x))
        /\ KeysAfter(base, Append(us, x)) =
             IF x.op = "insert" THEN KeysAfter(base, us) \cup {id}
                                ELSE KeysAfter(base, us) \ {id}
    <2>1. id \in KeysAfter(base, us) <=> (x.op = "delete" \/ x.replaces)
      BY DEF Applies, us, base
    <2>2. x.op = "delete" => x.vector = None
      BY DEF Applies
    <2> QED
      BY <1>1, <1>4, <1>8, <2>1, <2>2, AppendChange
  <1>10. new.index # None => Exact(new.index, base, Append(us, x))
    <2>1. IF x.op = "insert" THEN value # None /\ x.vector \in {value, None} ELSE value = None
      BY DEF Applies
    <2>2. SUFFICES ASSUME new.index # None
                   PROVE  Exact(new.index, base, Append(us, x))
      OBVIOUS
    <2>3. Exact(open.index, base, us) /\ new.index = [open.index EXCEPT ![x.id] = value]
      BY <1>1, <1>2, <1>8, <2>2
    <2>4. Exact([open.index EXCEPT ![x.id] = value], base, Append(us, x))
      BY <1>1, <1>4, <2>1, <2>3, AppendExact
    <2> QED
      BY <2>3, <2>4
  <1>11. Append(us, x) # <<>>
    <2>1. Len(Append(us, x)) = Len(us) + 1 /\ Len(us) \in Nat
      BY <1>1, <1>4
    <2>2. Len(Append(us, x)) # 0 /\ Len(<<>>) = 0
      BY <2>1
    <2> QED
      BY <2>2
  <1>12. new.txn.synced <= Len(new.txn.changes)
    BY <1>2, <1>3
  <1>13. t.layout = "current" => t.ids = KeysAfter(base, Append(us, x))
    BY <1>7, <1>8, <1>9
  <1>14. Working(new, t)
    BY <1>2, <1>5, <1>7, <1>9, <1>10, <1>11, <1>12, <1>13 DEF Working
  <1> QED
    BY <1>6, <1>14 DEF new


(* What the log must keep of x for it to be taken back later. *)
Retained(open, x) ==
  /\ open.txn.checkpoint = None /\ open.index # None =>
       \/ AppendOnly(open.txn.changes) /\ x.op = "insert" /\ ~x.replaces
       \/ Encodable(open.txn.changes) /\ (x.op = "insert" => x.vector # None)
  /\ open.txn.checkpoint # None => (x.op = "insert" => x.vector # None)

LEMMA OneChangeKinds ==
  ASSUME NEW x \in Change
  PROVE  /\ AppendOnly(<<x>>) <=> x.op = "insert" /\ ~x.replaces
         /\ Encodable(<<x>>) <=> (x.op = "insert" => x.vector # None)
PROOF
  <1>1. DOMAIN <<x>> = {1} /\ <<x>>[1] = x
    OBVIOUS
  <1> QED
    BY <1>1 DEF AppendOnly, Encodable, Inserts

LEMMA AppendRecovers ==
  ASSUME NEW open \in State, open.txn \in Txn, NEW id, NEW value, NEW x \in Change,
         NEW new, WithChange(new, open, id, value, x),
         NEW base, Recoverable(open, base), Retained(open, x)
  PROVE  Recoverable(new, base)
PROOF
  <1> DEFINE cs == open.txn.changes
             cp == open.txn.checkpoint
             p == cp.position
  <1>1. cs \in Seq(Change) /\ Len(cs) \in Nat
    BY TxnFields
  <1>2. cp # None => p \in 0 .. Len(cs)
    <2>1. cp # None => p \in Nat
      BY TxnFields
    <2>2. cp # None => p <= Len(cs)
      BY DEF Recoverable
    <2> QED
      BY <1>1, <2>1, <2>2
  <1>3. /\ new.txn.changes = Append(cs, x) /\ new.txn.checkpoint = cp
        /\ new.txn.synced = open.txn.synced
        /\ new.index # None <=> open.index # None
    BY DEF WithChange
  <1>4. /\ open.txn.synced = 0
        /\ cp # None =>
             /\ AppendOnly(SubSeq(cs, 1, p))
             /\ Encodable(SubSeq(cs, p + 1, Len(cs)))
             /\ Exact(cp.payload, base, SubSeq(cs, 1, p))
    BY DEF Recoverable
  <1>5. /\ cp = None /\ open.index # None =>
             \/ AppendOnly(cs) /\ x.op = "insert" /\ ~x.replaces
             \/ Encodable(cs) /\ (x.op = "insert" => x.vector # None)
        /\ cp # None => (x.op = "insert" => x.vector # None)
    BY DEF Retained
  <1> HIDE DEF cs, cp, p
  <1>6. /\ AppendOnly(Append(cs, x)) <=> AppendOnly(cs) /\ x.op = "insert" /\ ~x.replaces
        /\ Encodable(Append(cs, x)) <=> Encodable(cs) /\ (x.op = "insert" => x.vector # None)
    BY <1>1, AppendParts, KindsOfParts, OneChangeKinds
  <1>7. cp = None /\ new.index # None => AppendOnly(Append(cs, x)) \/ Encodable(Append(cs, x))
    BY <1>3, <1>5, <1>6
  <1>8. ASSUME cp # None
        PROVE  /\ p <= Len(Append(cs, x))
               /\ SubSeq(Append(cs, x), 1, p) = SubSeq(cs, 1, p)
               /\ Encodable(SubSeq(Append(cs, x), p + 1, Len(Append(cs, x))))
    <2>1. p \in 0 .. Len(cs) /\ Len(Append(cs, x)) = Len(cs) + 1
      BY <1>1, <1>2, <1>8
    <2>2. /\ SubSeq(Append(cs, x), p + 1, Len(cs) + 1) = Append(SubSeq(cs, p + 1, Len(cs)), x)
          /\ SubSeq(Append(cs, x), 1, p) = SubSeq(cs, 1, p)
      BY <1>1, <2>1, AppendTail
    <2> DEFINE rest == SubSeq(cs, p + 1, Len(cs))
    <2>3. rest \in Seq(Change)
      BY <1>1, <2>1
    <2>4. Encodable(rest) /\ (x.op = "insert" => x.vector # None)
      BY <1>4, <1>5, <1>8
    <2>5. SubSeq(Append(cs, x), p + 1, Len(Append(cs, x))) = Append(rest, x)
      BY <2>1, <2>2
    <2> HIDE DEF rest
    <2>6. Encodable(Append(rest, x))
      BY <2>3, <2>4, AppendParts, KindsOfParts, OneChangeKinds
    <2>7. p <= Len(Append(cs, x))
      BY <1>1, <2>1
    <2> QED
      BY <2>2, <2>5, <2>6, <2>7
  <1>9. new.txn.checkpoint.position = p /\ new.txn.checkpoint.payload = cp.payload
    BY <1>3 DEF p
  <1> QED
    BY <1>3, <1>4, <1>7, <1>8, <1>9 DEF Recoverable

(* What a write may do, besides fail. *)
WriteKeeps(result, st, s) ==
  /\ Working(result.st, result.s) /\ SameData(result.s, s) /\ Grows(result.st, st)
  /\ Recoverable(st, Content(s)) => Recoverable(result.st, Content(s))

LEMMA ChangeKeeps ==
  ASSUME NEW st, NEW open \in State, NEW s \in Storage, NEW t \in Storage,
         Working(open, s), SameData(t, s),
         open.txn.changes = st.txn.changes, open.txn.savepoints = st.txn.savepoints,
         Recoverable(st, Content(s)) => Recoverable(open, Content(s)),
         NEW id, NEW value, NEW x,
         Applies(x, id, value, id \in KeysAfter(Content(s), Unsynced(open))),
         s.layout = "current" =>
           t.ids = IF x.op = "insert" THEN s.ids \cup {id} ELSE s.ids \ {id},
         Recoverable(open, Content(s)) => Retained(open, x)
  PROVE  WriteKeeps(Written(TRUE, Logged(SetId(open, id, value), x), t), st, s)
PROOF
  <1> DEFINE new == Logged(SetId(open, id, value), x)
  <1>1. Working(new, t) /\ Grows(new, open)
    BY AppendWorks
  <1>2. open.txn \in Txn /\ id \in Rowid /\ value \in Vector \cup {None} /\ x \in Change
    BY DEF Working, Applies
  <1>3. WithChange(new, open, id, value, x)
    BY <1>2, LoggedFields
  <1> HIDE DEF new
  <1>4. Recoverable(open, Content(s)) => Recoverable(new, Content(s))
    BY <1>2, <1>3, AppendRecovers
  <1>5. Grows(new, st)
    BY <1>1 DEF Grows
  <1>6. Written(TRUE, new, t).st = new /\ Written(TRUE, new, t).s = t
    BY DEF Written
  <1>7. WriteKeeps(Written(TRUE, new, t), st, s)
    BY <1>1, <1>4, <1>5, <1>6 DEF WriteKeeps
  <1> QED
    BY <1>7 DEF new

(* A write that fails before it changes anything. *)
LEMMA FailureKeeps ==
  ASSUME NEW st \in State, NEW s \in Storage, NEW new, Working(new, s), new.txn = st.txn,
         Recoverable(st, Content(s)) => Recoverable(new, Content(s))
  PROVE  WriteKeeps(Written(FALSE, new, s), st, s)
PROOF
  <1>1. SameData(s, s)
    BY DEF SameData, Storage
  <1>2. new.txn \in Txn
    BY DEF Working
  <1>3. Len(new.txn.changes) \in Nat
    BY <1>2, TxnFields
  <1>4. Grows(new, st)
    BY <1>3 DEF Grows
  <1>5. Written(FALSE, new, s).st = new /\ Written(FALSE, new, s).s = s
    BY DEF Written
  <1> QED
    BY <1>1, <1>4, <1>5 DEF WriteKeeps

LEMMA PreparedIndex ==
  ASSUME NEW st \in State, NEW s \in Storage, st.txn # None, Prepare(st, s).ok,
         st.layout = "legacy"
  PROVE  Prepare(st, s).st.index # None
PROOF
  <1>1. Refresh(st, s) = Result(TRUE, st)
    BY RefreshGeneration
  <1>2. Prepare(st, s) = LoadResult(EnsureLoaded(st, s))
    BY <1>1 DEF Prepare, PreparedAfter, Result
  <1> QED
    BY <1>2, LoadGeneration

LEMMA ClaimedData ==
  ASSUME NEW st, NEW s \in Storage, st.layout = s.layout, NEW id \in Rowid
  PROVE  /\ SameData(Claimed(st, s, id), s) /\ SameData(Unclaimed(st, s, id), s)
         /\ Claimed(st, s, id) \in Storage /\ Unclaimed(st, s, id) \in Storage
         /\ s.layout = "current" =>
              /\ Claimed(st, s, id).ids = s.ids \cup {id}
              /\ Unclaimed(st, s, id).ids = s.ids \ {id}
         /\ s.layout # "current" =>
              Claimed(st, s, id) = s /\ Unclaimed(st, s, id) = s
         /\ id \in s.ids => Claimed(st, s, id) = s
         /\ id \notin s.ids => Unclaimed(st, s, id) = s
PROOF
  <1>1. s = [s EXCEPT !.ids = s.ids]
    BY DEF Storage
  <1>2. id \in s.ids => s.ids \cup {id} = s.ids
    OBVIOUS
  <1>3. id \notin s.ids => s.ids \ {id} = s.ids
    OBVIOUS
  <1>4. ASSUME NEW ids, ids \in SUBSET Rowid
        PROVE  LET t == [s EXCEPT !.ids = ids]
               IN  t \in Storage /\ t.ids = ids /\ SameData(t, s)
    BY <1>4 DEF Storage, SameData
  <1>5. s.ids \cup {id} \in SUBSET Rowid /\ s.ids \ {id} \in SUBSET Rowid
    BY DEF Storage
  <1>6. SameData(s, s)
    BY <1>1 DEF SameData
  <1> QED
    BY <1>1, <1>2, <1>3, <1>4, <1>5, <1>6 DEF Claimed, Unclaimed


LEMMA InsertWorks ==
  ASSUME NEW st0 \in State, NEW s \in Storage, Working(st0, s), st0.layout = s.layout,
         NEW id \in Rowid, NEW vector \in Vector, NEW replace \in BOOLEAN
  PROVE  WriteKeeps(Insert(st0, s, id, vector, replace), st0, s)
PROOF
  <1> DEFINE ready == Prepare(st0, s)
             st == ready.st
             t == Claimed(st, s, id)
             exists == Exists(st, s, id)
             open == IF st.index # None /\ exists THEN EnsureCheckpoint(st) ELSE EnsureTxn(st)
             kept == IF RetainsVector(open, exists) THEN vector ELSE None
             x == InsertOf(id, kept, exists)
             result == Insert(st0, s, id, vector, replace)
  <1>1. /\ st \in State /\ st.txn = st0.txn /\ Working(st, s) /\ st.layout = s.layout
        /\ Recoverable(st0, Content(s)) => Recoverable(st, Content(s))
    BY ReadsWork
  <1>2. st.txn \in Txn /\ st.txn # None /\ st0.txn # None
    BY <1>1, TxnIsThere DEF Working
  <1>3. ready.ok /\ st.layout = "legacy" => st.index # None
    BY <1>1, <1>2, PreparedIndex, ReadsWork
  <1>4. result \in {Written(FALSE, st, s)}
          \/ (ready.ok /\ (Disagree(st, s, id) \/ (exists /\ ~replace))
                /\ result = Written(FALSE, st, t))
          \/ (ready.ok /\ ~Disagree(st, s, id)
                /\ result = Written(TRUE, Inserted(open, id, vector, exists), t))
    BY DEF Insert, InsertAfter, InsertPrepared
  <1> HIDE DEF ready, st, result
  <1>5. WriteKeeps(Written(FALSE, st, s), st0, s)
    BY <1>1, FailureKeeps
  <1>6. SUFFICES ASSUME ready.ok PROVE WriteKeeps(result, st0, s)
    BY <1>4, <1>5 DEF result
  <1>7. /\ exists <=> id \in KeysAfter(Content(s), Unsynced(st))
        /\ ~Disagree(st, s, id) /\ exists \in BOOLEAN
    BY <1>1, <1>3, <1>6, ExistsIs, ExistsType
  <1>8. /\ t \in Storage /\ SameData(t, s)
        /\ s.layout = "current" => t.ids = s.ids \cup {id}
        /\ s.layout # "current" => t = s
        /\ id \in s.ids => t = s
    BY <1>1, ClaimedData
  <1>9. CASE exists /\ result = Written(FALSE, st, t)
    <2>1. s.layout = "current" => s.ids = KeysAfter(Content(s), Unsynced(st))
      BY <1>1 DEF Working
    <2>2. t = s
      BY <1>7, <1>8, <1>9, <2>1
    <2> QED
      BY <1>5, <1>9, <2>2
  <1>10. CASE result = Written(TRUE, Inserted(open, id, vector, exists), t)
    <2>1. EnsureTxn(st) = st
      BY <1>2 DEF EnsureTxn
    <2>2. /\ open \in State /\ open.index = st.index
          /\ open.txn.changes = st.txn.changes
          /\ open.txn.savepoints = st.txn.savepoints
          /\ Working(open, s)
          /\ Recoverable(st, Content(s)) => Recoverable(open, Content(s))
          /\ exists /\ open.index # None /\ open.txn.checkpoint = None =>
               Encodable(open.txn.changes)
      BY <1>1, <2>1, CheckpointWorks
    <2>3. Unsynced(open) = Unsynced(st)
      BY <1>1, <2>1, CheckpointWorks
    <2> HIDE DEF open, exists, t
    <2>4. open.txn \in Txn /\ open.txn # None
      BY <2>2, TxnIsThere DEF Working
    <2>5. /\ x \in Change /\ x.id = id /\ x.op = "insert" /\ x.replaces = exists
          /\ x.vector = kept /\ kept \in {vector, None}
      BY <1>7 DEF InsertOf, Change
    <2>6. Inserted(open, id, vector, exists) = Logged(SetId(open, id, vector), x)
      BY DEF Inserted
    <2>7. vector # None
      BY NoneAssumption
    <2> HIDE DEF x
    <2>8. Applies(x, id, vector, id \in KeysAfter(Content(s), Unsynced(open)))
      BY <1>7, <2>3, <2>5, <2>7 DEF Applies
    <2>9. Recoverable(open, Content(s)) => Retained(open, x)
      <3>1. exists \/ open.txn.checkpoint # None => x.vector # None
        BY <2>4, <2>5, <2>7 DEF RetainsVector
      <3>2. ~AppendOnly(open.txn.changes) => x.vector # None
        <4>1. SUFFICES ASSUME ~AppendOnly(open.txn.changes) PROVE x.vector # None
          OBVIOUS
        <4>2. open.txn.changes \in Seq(Change)
          BY <2>4, TxnFields
        <4>3. \E i \in DOMAIN open.txn.changes : Destructive(open.txn.changes[i])
          <5>1. PICK i \in DOMAIN open.txn.changes :
                  ~(open.txn.changes[i].op = "insert" /\ ~open.txn.changes[i].replaces)
            BY <4>1 DEF AppendOnly
          <5>2. open.txn.changes[i].op \in {"insert", "delete"}
            BY <4>2, LogEntry
          <5> QED
            BY <5>1, <5>2 DEF Destructive
        <4> QED
          BY <2>4, <2>5, <2>7, <4>3 DEF RetainsVector
      <3>3. ASSUME Recoverable(open, Content(s)), open.txn.checkpoint = None, open.index # None
            PROVE  AppendOnly(open.txn.changes) \/ Encodable(open.txn.changes)
        BY <3>3 DEF Recoverable
      <3> QED
        BY <2>2, <2>5, <3>1, <3>2, <3>3 DEF Retained
    <2>10. Recoverable(st0, Content(s)) => Recoverable(open, Content(s))
      BY <1>1, <2>2
    <2>11. open.txn.changes = st0.txn.changes /\ open.txn.savepoints = st0.txn.savepoints
      BY <1>1, <2>2
    <2>12. WriteKeeps(Written(TRUE, Logged(SetId(open, id, vector), x), t), st0, s)
      BY <1>8, <2>2, <2>5, <2>8, <2>9, <2>10, <2>11, ChangeKeeps
    <2> QED
      BY <1>10, <2>6, <2>12
  <1> QED
    BY <1>4, <1>5, <1>7, <1>9, <1>10

LEMMA DeleteWorks ==
  ASSUME NEW st0 \in State, NEW s \in Storage, Working(st0, s), st0.layout = s.layout,
         NEW id \in Rowid
  PROVE  WriteKeeps(Delete(st0, s, id), st0, s)
PROOF
  <1> DEFINE ready == Prepare(st0, s)
             st == ready.st
             t == Unclaimed(st, s, id)
             exists == Exists(st, s, id)
             open == IF st.index = None THEN st ELSE EnsureCheckpoint(st)
             x == DeleteOf(id)
             result == Delete(st0, s, id)
  <1>1. /\ st \in State /\ st.txn = st0.txn /\ Working(st, s) /\ st.layout = s.layout
        /\ Recoverable(st0, Content(s)) => Recoverable(st, Content(s))
    BY ReadsWork
  <1>2. st.txn \in Txn /\ st.txn # None /\ st0.txn # None
    BY <1>1, TxnIsThere DEF Working
  <1>3. ready.ok /\ st.layout = "legacy" => st.index # None
    BY <1>1, <1>2, PreparedIndex, ReadsWork
  <1>4. result \in {Written(FALSE, st, s)}
          \/ (ready.ok /\ (Disagree(st, s, id) \/ ~exists)
                /\ result = Written(FALSE, st, t))
          \/ (ready.ok /\ ~Disagree(st, s, id) /\ exists
                /\ result = Written(TRUE, Logged(IF st.index = None THEN st
                                                 ELSE SetId(EnsureCheckpoint(st), id, None),
                                                 x), t))
    BY DEF Delete, DeleteAfter, DeletePrepared
  <1> HIDE DEF ready, st, result
  <1>5. WriteKeeps(Written(FALSE, st, s), st0, s)
    BY <1>1, FailureKeeps
  <1>6. SUFFICES ASSUME ready.ok PROVE WriteKeeps(result, st0, s)
    BY <1>4, <1>5 DEF result
  <1>7. /\ exists <=> id \in KeysAfter(Content(s), Unsynced(st))
        /\ ~Disagree(st, s, id) /\ exists \in BOOLEAN
    BY <1>1, <1>3, <1>6, ExistsIs, ExistsType
  <1>8. /\ t \in Storage /\ SameData(t, s)
        /\ s.layout = "current" => t.ids = s.ids \ {id}
        /\ s.layout # "current" => t = s
        /\ id \notin s.ids => t = s
    BY <1>1, ClaimedData
  <1>9. CASE ~exists /\ result = Written(FALSE, st, t)
    <2>1. s.layout = "current" => s.ids = KeysAfter(Content(s), Unsynced(st))
      BY <1>1 DEF Working
    <2>2. t = s
      BY <1>7, <1>8, <1>9, <2>1
    <2> QED
      BY <1>5, <1>9, <2>2
  <1>10. CASE exists
              /\ result = Written(TRUE, Logged(IF st.index = None THEN st
                                               ELSE SetId(EnsureCheckpoint(st), id, None),
                                               x), t)
    <2>1. EnsureTxn(st) = st
      BY <1>2 DEF EnsureTxn
    <2>2. /\ open \in State /\ open.index = st.index
          /\ open.txn.changes = st.txn.changes
          /\ open.txn.savepoints = st.txn.savepoints
          /\ Working(open, s)
          /\ Recoverable(st, Content(s)) => Recoverable(open, Content(s))
          /\ open.index # None /\ open.txn.checkpoint = None =>
               Encodable(open.txn.changes)
      BY <1>1, CheckpointWorks
    <2>3. Unsynced(open) = Unsynced(st)
      BY <1>1, CheckpointWorks
    <2>4. (IF st.index = None THEN st ELSE SetId(EnsureCheckpoint(st), id, None))
            = SetId(open, id, None)
      BY DEF SetId
    <2> HIDE DEF open, exists, t
    <2>5. x \in Change /\ x.id = id /\ x.op = "delete" /\ x.vector = None
      BY DEF DeleteOf, Change
    <2> HIDE DEF x
    <2>6. Applies(x, id, None, id \in KeysAfter(Content(s), Unsynced(open)))
      BY <1>7, <1>10, <2>3, <2>5 DEF Applies
    <2>7. Recoverable(open, Content(s)) => Retained(open, x)
      BY <2>2, <2>5 DEF Retained
    <2>8. Recoverable(st0, Content(s)) => Recoverable(open, Content(s))
      BY <1>1, <2>2
    <2>9. open.txn.changes = st0.txn.changes /\ open.txn.savepoints = st0.txn.savepoints
      BY <1>1, <2>2
    <2>10. WriteKeeps(Written(TRUE, Logged(SetId(open, id, None), x), t), st0, s)
      BY <1>8, <2>2, <2>5, <2>6, <2>7, <2>8, <2>9, ChangeKeeps
    <2> QED
      BY <1>10, <2>4, <2>10
  <1> QED
    BY <1>4, <1>5, <1>7, <1>9, <1>10

-----------------------------------------------------------------------------
(* xSavepoint, xRelease, xRollbackTo. *)

LEMMA OnlySavepoints ==
  ASSUME NEW st \in State, st.txn \in Txn,
         NEW savepoints \in [Mark -> Nat \cup {None}]
  PROVE  LET new == [st EXCEPT !.txn.savepoints = savepoints]
         IN  /\ new \in State /\ new.txn.savepoints = savepoints
             /\ new.txn.changes = st.txn.changes
             /\ \A s : Working(st, s) => Working(new, s)
             /\ \A base : Recoverable(st, base) => Recoverable(new, base)
PROOF
  <1> DEFINE new == [st EXCEPT !.txn.savepoints = savepoints]
  <1>1. new \in State
    BY SavepointsType
  <1>2. /\ new.txn = [st.txn EXCEPT !.savepoints = savepoints]
        /\ new.index = st.index /\ new.dirty = st.dirty
    BY DEF State
  <1> HIDE DEF new
  <1>3. /\ new.txn \in Txn /\ new.txn.savepoints = savepoints
        /\ new.txn.changes = st.txn.changes /\ new.txn.synced = st.txn.synced
        /\ new.txn.checkpoint = st.txn.checkpoint
    BY <1>2 DEF Txn
  <1>4. Unsynced(new) = Unsynced(st)
    BY <1>3, TxnIsThere DEF Unsynced
  <1>5. \A s : Working(st, s) => Working(new, s)
    BY <1>2, <1>3, <1>4 DEF Working
  <1>6. \A base : Recoverable(st, base) => Recoverable(new, base)
    BY <1>2, <1>3 DEF Recoverable
  <1> QED
    BY <1>1, <1>3, <1>5, <1>6 DEF new

LEMMA SavepointWorks ==
  ASSUME NEW st \in State, st.txn \in Txn, NEW j \in Mark
  PROVE  LET new == Savepoint(st, j)
         IN  /\ new \in State /\ new.txn.changes = st.txn.changes
             /\ new.txn.savepoints =
                  [Forget(st.txn.savepoints, Below(j)) EXCEPT ![j] = Len(st.txn.changes)]
             /\ \A s : Working(st, s) => Working(new, s)
             /\ \A base : Recoverable(st, base) => Recoverable(new, base)
PROOF
  <1> DEFINE savepoints == [Forget(st.txn.savepoints, Below(j))
                              EXCEPT ![j] = Len(st.txn.changes)]
  <1>1. EnsureTxn(st) = st
    BY TxnIsThere DEF EnsureTxn
  <1>2. Savepoint(st, j) = [st EXCEPT !.txn.savepoints = savepoints]
    BY <1>1 DEF Savepoint
  <1>3. savepoints \in [Mark -> Nat \cup {None}]
    BY TxnFields, ForgetType
  <1> HIDE DEF savepoints
  <1>4. LET new == [st EXCEPT !.txn.savepoints = savepoints]
        IN  /\ new \in State /\ new.txn.savepoints = savepoints
            /\ new.txn.changes = st.txn.changes
            /\ \A s : Working(st, s) => Working(new, s)
            /\ \A base : Recoverable(st, base) => Recoverable(new, base)
    BY <1>3, OnlySavepoints
  <1> QED
    BY <1>2, <1>4 DEF savepoints

LEMMA ForgetWorks ==
  ASSUME NEW st \in State, st.txn \in Txn, NEW keep
  PROVE  LET new == [st EXCEPT !.txn.savepoints = Forget(@, keep)]
         IN  /\ new \in State /\ new.txn.changes = st.txn.changes
             /\ new.txn.savepoints = Forget(st.txn.savepoints, keep)
             /\ \A s : Working(st, s) => Working(new, s)
             /\ \A base : Recoverable(st, base) => Recoverable(new, base)
PROOF
  <1> DEFINE savepoints == Forget(st.txn.savepoints, keep)
  <1>1. savepoints \in [Mark -> Nat \cup {None}]
    BY TxnFields, ForgetType
  <1>2. [st EXCEPT !.txn.savepoints = Forget(@, keep)]
          = [st EXCEPT !.txn.savepoints = savepoints]
    OBVIOUS
  <1> HIDE DEF savepoints
  <1>3. LET new == [st EXCEPT !.txn.savepoints = savepoints]
        IN  /\ new \in State /\ new.txn.savepoints = savepoints
            /\ new.txn.changes = st.txn.changes
            /\ \A s : Working(st, s) => Working(new, s)
            /\ \A base : Recoverable(st, base) => Recoverable(new, base)
    BY <1>1, OnlySavepoints
  <1> QED
    BY <1>2, <1>3 DEF savepoints

(* The log of st cut back to its first n changes, over the storage t.      *)
Restored(result, st, t, n) ==
  /\ result.ok /\ result.st \in State
  /\ result.st.txn.changes = SubSeq(st.txn.changes, 1, n)
  /\ result.st.txn.savepoints = st.txn.savepoints
  /\ Working(result.st, t) /\ Recoverable(result.st, Content(t))

LEMMA TruncatedWorks ==
  ASSUME NEW st \in State, NEW s \in Storage, NEW t \in Storage,
         Working(st, s), Recoverable(st, Content(s)), SameData(t, s),
         NEW n \in 0 .. Len(st.txn.changes),
         NEW log, log = SubSeq(st.txn.changes, 1, n),
         t.layout = "current" => t.ids = KeysAfter(Content(s), log),
         NEW index \in Rows \cup {None}, NEW cp \in Checkpoint \cup {None},
         index # None => Exact(index, Content(s), log),
         cp = None /\ index # None => AppendOnly(log) \/ Encodable(log),
         cp # None =>
           /\ cp.position <= n
           /\ AppendOnly(SubSeq(log, 1, cp.position))
           /\ Encodable(SubSeq(log, cp.position + 1, n))
           /\ Exact(cp.payload, Content(s), SubSeq(log, 1, cp.position))
  PROVE  Restored(Truncated(st, n, index, cp), st, t, n)
PROOF
  <1> DEFINE cs == st.txn.changes
             txn == [st.txn EXCEPT !.changes = log, !.checkpoint = cp, !.synced = 0]
             dirty == n > 0
             new == [st EXCEPT !.index = index, !.txn = txn, !.dirty = dirty]
  <1>1. /\ st.txn \in Txn /\ cs \in Seq(Change) /\ Len(cs) \in Nat
        /\ st.txn.synced = 0 /\ st.txn # None
    BY TxnIsThere, TxnFields DEF Working, Recoverable
  <1>2. /\ Parts(cs, log, SubSeq(cs, n + 1, Len(cs))) /\ Len(log) = n
        /\ log \in Seq(Change)
    BY <1>1, CutParts DEF Parts
  <1>3. Truncated(st, n, index, cp).ok /\ Truncated(st, n, index, cp).st = new
    <2>1. (IF st.txn.synced < n THEN st.txn.synced ELSE n) = 0
      BY <1>1
    <2> QED
      BY <1>1, <2>1 DEF Truncated, Result
  <1>4. /\ txn \in Txn /\ txn.changes = log /\ txn.checkpoint = cp /\ txn.synced = 0
        /\ txn.savepoints = st.txn.savepoints
    BY <1>1, <1>2 DEF Txn
  <1>12. dirty \in BOOLEAN
    OBVIOUS
  <1> HIDE DEF txn, dirty
  <1>5. /\ new \in State /\ new.txn = txn /\ new.index = index /\ new.dirty = dirty
    BY <1>4, <1>12 DEF State
  <1> HIDE DEF new, cs
  <1>6. Content(t) = Content(s)
    BY SameDataFacts, SameImageExtends
  <1>7. Unsynced(new) = log
    BY <1>4, <1>5, UnsyncedAll
  <1>8. Truthful(Content(s), log)
    <2>1. Unsynced(st) = cs
      BY <1>1, UnsyncedAll DEF cs
    <2> QED
      BY <1>2, <2>1, TruthfulFirst DEF Working
  <1>9. new.dirty <=> log # <<>>
    <2>1. n > 0 <=> log # <<>>
      BY <1>1, <1>2
    <2> QED
      BY <1>5, <2>1 DEF dirty
  <1>10. Working(new, t)
    <2>1. new.txn.synced <= Len(new.txn.changes)
      BY <1>2, <1>4, <1>5
    <2>2. new.txn \in Txn
      BY <1>4, <1>5
    <2>3. new.index # None => Exact(new.index, Content(s), log)
      BY <1>5
    <2> QED
      BY <1>6, <1>7, <1>8, <1>9, <2>1, <2>2, <2>3 DEF Working
  <1>11. Recoverable(new, Content(t))
    BY <1>2, <1>4, <1>5, <1>6 DEF Recoverable
  <1> QED
    BY <1>3, <1>4, <1>5, <1>10, <1>11 DEF Restored

LEMMA CutMiddle ==
  ASSUME NEW cs \in Seq(Change), NEW n \in 0 .. Len(cs), NEW p \in 0 .. n
  PROVE  /\ SubSeq(SubSeq(cs, 1, n), p + 1, n) = SubSeq(cs, p + 1, n)
         /\ Encodable(SubSeq(cs, p + 1, Len(cs))) => Encodable(SubSeq(cs, p + 1, n))
PROOF
  <1> DEFINE a == SubSeq(cs, 1, n)
             b == SubSeq(a, p + 1, n)
             c == SubSeq(cs, p + 1, n)
             d == SubSeq(cs, p + 1, Len(cs))
  <1>1. a \in Seq(Change) /\ Len(a) = n /\ \A i \in 1 .. n : a[i] = cs[i]
    OBVIOUS
  <1>2. c \in Seq(Change) /\ Len(c) = n - p /\ \A i \in 1 .. n - p : c[i] = cs[p + i]
    OBVIOUS
  <1>3. d \in Seq(Change) /\ Len(d) = Len(cs) - p
        /\ \A i \in 1 .. Len(cs) - p : d[i] = cs[p + i]
    OBVIOUS
  <1> HIDE DEF a
  <1>4. b \in Seq(Change) /\ Len(b) = n - p /\ \A i \in 1 .. n - p : b[i] = a[p + i]
    BY <1>1
  <1> HIDE DEF b, c, d
  <1>5. b = c
    <2>1. ASSUME NEW i \in 1 .. n - p PROVE b[i] = c[i]
      <3>1. p + i \in 1 .. n
        OBVIOUS
      <3>2. b[i] = a[p + i] /\ c[i] = cs[p + i]
        BY <1>2, <1>4
      <3>3. a[p + i] = cs[p + i]
        BY <1>1, <3>1
      <3> QED
        BY <3>2, <3>3
    <2>2. Len(b) = Len(c) /\ \A i \in 1 .. Len(b) : b[i] = c[i]
      BY <1>2, <1>4, <2>1
    <2> QED
      BY <1>2, <1>4, <2>2
  <1>6. ASSUME Encodable(d) PROVE Encodable(c)
    <2>1. SUFFICES ASSUME NEW i \in DOMAIN c, c[i].op = "insert" PROVE c[i].vector # None
      BY DEF Encodable, Inserts
    <2>2. i \in 1 .. n - p /\ i \in DOMAIN d /\ d[i] = c[i]
      BY <1>2, <1>3
    <2> QED
      BY <1>6, <2>1, <2>2 DEF Encodable, Inserts
  <1> QED
    BY <1>5, <1>6 DEF a, b, c, d


LEMMA RestoreWorks ==
  ASSUME NEW st \in State, NEW s \in Storage, NEW t \in Storage,
         Working(st, s), Recoverable(st, Content(s)), SameData(t, s),
         NEW n \in 0 .. Len(st.txn.changes),
         t.layout = "current" =>
           t.ids = KeysAfter(Content(s), SubSeq(st.txn.changes, 1, n))
  PROVE  Restored(RestoreTo(st, n), st, t, n)
PROOF
  <1> DEFINE cs == st.txn.changes
             log == SubSeq(cs, 1, n)
             tail == SubSeq(cs, n + 1, Len(cs))
             cp == st.txn.checkpoint
             base == Content(s)
  <1>1. /\ st.txn \in Txn /\ cs \in Seq(Change) /\ Len(cs) \in Nat
        /\ st.txn.synced = 0 /\ st.txn # None
    BY TxnIsThere, TxnFields DEF Working, Recoverable
  <1>2. /\ Parts(cs, log, tail) /\ Len(log) = n /\ Len(tail) = Len(cs) - n
        /\ log \in Seq(Change) /\ tail \in Seq(Change)
    BY <1>1, CutParts DEF Parts
  <1>3. Unsynced(st) = cs /\ Truthful(base, cs) /\ (st.index # None => Exact(st.index, base, cs))
    BY <1>1, UnsyncedAll DEF Working
  <1>4. ASSUME NEW index \in Rows \cup {None}, NEW kept \in Checkpoint \cup {None},
               index # None => Exact(index, base, log),
               kept = None /\ index # None => AppendOnly(log) \/ Encodable(log),
               kept # None =>
                 /\ kept.position <= n
                 /\ AppendOnly(SubSeq(log, 1, kept.position))
                 /\ Encodable(SubSeq(log, kept.position + 1, n))
                 /\ Exact(kept.payload, base, SubSeq(log, 1, kept.position))
        PROVE  Restored(Truncated(st, n, index, kept), st, t, n)
    BY <1>4, TruncatedWorks
  <1>5. RestoreTo(st, n) = IF cp # None THEN RestoreFromCheckpoint(st, n) ELSE RestoreTail(st, n)
    <2>1. Changes(st) = cs
      BY <1>1 DEF Changes
    <2>2. ~(n > Len(Changes(st)))
      BY <1>1, <2>1
    <2> QED
      BY <1>1, <2>2 DEF RestoreTo
  <1>6. CASE cp # None
    <2> DEFINE p == cp.position
               undo == SubSeq(cs, n + 1, p)
               redo == SubSeq(cs, p + 1, n)
    <2>1. /\ p \in 0 .. Len(cs) /\ p \in Nat /\ cp.payload \in Rows /\ cp \in Checkpoint
          /\ AppendOnly(SubSeq(cs, 1, p)) /\ Encodable(SubSeq(cs, p + 1, Len(cs)))
          /\ Exact(cp.payload, base, SubSeq(cs, 1, p))
      <3>1. p \in Nat /\ cp.payload \in Rows /\ cp \in Checkpoint
        BY <1>1, <1>6, TxnFields
      <3>2. /\ p <= Len(cs)
            /\ AppendOnly(SubSeq(cs, 1, p)) /\ Encodable(SubSeq(cs, p + 1, Len(cs)))
            /\ Exact(cp.payload, base, SubSeq(cs, 1, p))
        BY <1>6 DEF Recoverable
      <3> QED
        BY <1>1, <3>1, <3>2
    <2>2. RestoreFromCheckpoint(st, n) =
            IF n < p
            THEN IF UndoFaults(cp.payload, undo) # {} THEN Result(FALSE, [st EXCEPT !.txn = None])
                 ELSE Truncated(st, n, UndoInserts(cp.payload, undo), None)
            ELSE IF ~ReplayOK(cp.payload, redo) THEN Result(FALSE, [st EXCEPT !.txn = None])
                 ELSE Truncated(st, n, Replay(cp.payload, redo), cp)
      BY DEF RestoreFromCheckpoint
    <2>3. CASE n < p
      <3> DEFINE before == SubSeq(cs, 1, p)
      <3>1. n \in 0 .. p /\ Parts(before, log, undo)
        BY <1>1, <2>1, <2>3, CutPrefix
      <3>2. Truthful(base, before)
        BY <1>1, <1>3, <2>1, CutParts, TruthfulFirst
      <3>3. AppendOnly(log) /\ AppendOnly(undo)
        BY <2>1, <3>1, KindsOfParts
      <3>4. UndoFaults(cp.payload, undo) = {}
            /\ Exact(UndoInserts(cp.payload, undo), base, log)
        BY <2>1, <3>1, <3>2, <3>3, ExactUndo
      <3>5. UndoInserts(cp.payload, undo) \in Rows
        BY <2>1, UndoInsertsType
      <3>6. Restored(Truncated(st, n, UndoInserts(cp.payload, undo), None), st, t, n)
        BY <1>4, <3>3, <3>4, <3>5
      <3> QED
        BY <1>5, <1>6, <2>2, <2>3, <3>4, <3>6
    <2>4. CASE ~(n < p)
      <3>1. p \in 0 .. n
        BY <2>1, <2>4
      <3>2. /\ Parts(log, SubSeq(cs, 1, p), redo)
            /\ SubSeq(log, 1, p) = SubSeq(cs, 1, p)
            /\ SubSeq(log, p + 1, n) = redo
            /\ Encodable(redo)
        BY <1>1, <2>1, <3>1, CutPrefix, CutMiddle
      <3>3. Truthful(base, log)
        BY <1>2, <1>3, TruthfulFirst
      <3>4. ReplayOK(cp.payload, redo) /\ Exact(Replay(cp.payload, redo), base, log)
        BY <2>1, <3>2, <3>3, ExactRedo
      <3>5. redo \in Seq(Change)
        BY <3>2 DEF Parts
      <3>6. Replay(cp.payload, redo) \in Rows
        BY <2>1, <3>5, ReplayType
      <3> HIDE DEF log, redo
      <3>7. /\ p <= n /\ AppendOnly(SubSeq(log, 1, p)) /\ Encodable(SubSeq(log, p + 1, n))
            /\ Exact(cp.payload, base, SubSeq(log, 1, p))
        <4>1. p <= n
          BY <2>1, <3>1
        <4> QED
          BY <2>1, <3>2, <4>1
      <3>8. Restored(Truncated(st, n, Replay(cp.payload, redo), cp), st, t, n)
        BY <1>4, <1>6, <2>1, <3>4, <3>6, <3>7
      <3> QED
        BY <1>5, <1>6, <2>2, <2>4, <3>4, <3>8 DEF redo
    <2> QED
      BY <2>3, <2>4
  <1>7. CASE cp = None
    <2>1. RestoreTail(st, n) =
            IF st.index # None /\ AppendOnly(tail)
            THEN IF UndoFaults(st.index, tail) = {}
                 THEN Truncated(st, n, UndoInserts(st.index, tail), None)
                 ELSE Result(FALSE, [st EXCEPT !.index = UndoInserts(st.index, tail),
                                               !.txn = None])
            ELSE IF tail = <<>> THEN Truncated(st, n, st.index, None)
            ELSE IF st.txn.synced # 0 THEN Result(FALSE, st)
            ELSE Truncated(st, n, None, None)
      BY DEF RestoreTail
    <2>2. st.index # None => AppendOnly(log) \/ Encodable(log)
      <3>1. st.index # None => AppendOnly(cs) \/ Encodable(cs)
        BY <1>7 DEF Recoverable
      <3> QED
        BY <1>2, <3>1, KindsOfParts
    <2>3. st.index \in Rows \cup {None}
      BY DEF State
    <2>4. CASE st.index # None /\ AppendOnly(tail)
      <3>1. UndoFaults(st.index, tail) = {} /\ Exact(UndoInserts(st.index, tail), base, log)
        BY <1>2, <1>3, <2>4, ExactUndo
      <3>2. UndoInserts(st.index, tail) \in Rows
        BY <2>3, <2>4, UndoInsertsType
      <3>3. Restored(Truncated(st, n, UndoInserts(st.index, tail), None), st, t, n)
        BY <1>4, <2>2, <2>4, <3>1, <3>2
      <3> QED
        BY <1>5, <1>7, <2>1, <2>4, <3>1, <3>3
    <2>5. CASE ~(st.index # None /\ AppendOnly(tail)) /\ tail = <<>>
      <3>1. log = cs
        <4>1. n = Len(cs)
          <5>1. Len(tail) = 0
            <6>1. Len(<<>>) = 0
              OBVIOUS
            <6>2. tail = <<>>
              BY <2>5
            <6> HIDE DEF tail
            <6> QED
              BY <6>1, <6>2
          <5>2. Len(tail) = Len(cs) - n
            BY <1>2
          <5> QED
            BY <1>1, <5>1, <5>2
        <4> QED
          BY <1>1, <4>1, WholeLog1
      <3>2. Restored(Truncated(st, n, st.index, None), st, t, n)
        BY <1>3, <1>4, <2>2, <2>3, <3>1
      <3> QED
        BY <1>5, <1>7, <2>1, <2>5, <3>2
    <2>6. CASE ~(st.index # None /\ AppendOnly(tail)) /\ tail # <<>>
      <3>1. Restored(Truncated(st, n, None, None), st, t, n)
        BY <1>4
      <3> QED
        BY <1>1, <1>5, <1>7, <2>1, <2>6, <3>1
    <2> QED
      BY <2>4, <2>5, <2>6
  <1> QED
    BY <1>6, <1>7

LEMMA ResetWorks ==
  ASSUME NEW st \in State, NEW t, NEW n, NEW restored, Restored(restored, st, t, n),
         NEW keep
  PROVE  LET result == Reset(restored, keep)
         IN  /\ result.ok /\ result.st \in State
             /\ result.st.txn.changes = SubSeq(st.txn.changes, 1, n)
             /\ result.st.txn.savepoints = Forget(st.txn.savepoints, keep)
             /\ Working(result.st, t) /\ Recoverable(result.st, Content(t))
PROOF
  <1> DEFINE back == restored.st
             new == [back EXCEPT !.txn.savepoints = Forget(@, keep)]
  <1>1. /\ restored.ok /\ back \in State /\ back.txn \in Txn
        /\ back.txn.changes = SubSeq(st.txn.changes, 1, n)
        /\ back.txn.savepoints = st.txn.savepoints
        /\ Working(back, t) /\ Recoverable(back, Content(t))
    BY DEF Restored, Working
  <1>2. Reset(restored, keep).ok /\ Reset(restored, keep).st = new
    BY <1>1 DEF Reset, Result
  <1> HIDE DEF back
  <1>3. /\ new \in State /\ new.txn.changes = back.txn.changes
        /\ new.txn.savepoints = Forget(back.txn.savepoints, keep)
        /\ \A s : Working(back, s) => Working(new, s)
        /\ \A base : Recoverable(back, base) => Recoverable(new, base)
    BY <1>1, ForgetWorks
  <1> HIDE DEF new
  <1> QED
    BY <1>1, <1>2, <1>3

(* ROLLBACK TO a savepoint whose place in the log is known is never        *)
(* refused, and what it leaves is the log up to there, over the storage    *)
(* SQLite has brought back.                                                *)
LEMMA RollbackToWorks ==
  ASSUME NEW st \in State, NEW s \in Storage, NEW t \in Storage,
         Working(st, s), Recoverable(st, Content(s)), SameData(t, s), NEW j \in Mark,
         st.txn.savepoints[j] \in 0 .. Len(st.txn.changes),
         t.layout = "current" =>
           t.ids = KeysAfter(Content(s), SubSeq(st.txn.changes, 1, st.txn.savepoints[j]))
  PROVE  LET result == RollbackTo(st, j)
         IN  /\ result.ok /\ result.st \in State
             /\ result.st.txn.changes = SubSeq(st.txn.changes, 1, st.txn.savepoints[j])
             /\ result.st.txn.savepoints = Forget(st.txn.savepoints, Below(j + 1))
             /\ Working(result.st, t) /\ Recoverable(result.st, Content(t))
PROOF
  <1> DEFINE n == st.txn.savepoints[j]
  <1>1. st.txn # None
    BY TxnIsThere DEF Working
  <1>2. n # None
    <2>1. n \in Nat
      OBVIOUS
    <2> QED
      BY <2>1, TransactionAssumption
  <1>3. Restored(RestoreTo(st, n), st, t, n)
    BY RestoreWorks
  <1>4. RollbackTo(st, j) = Reset(RestoreTo(st, n), Below(j + 1))
    BY <1>1, <1>2 DEF RollbackTo
  <1> QED
    BY <1>3, <1>4, ResetWorks

LEMMA RollbackToStartWorks ==
  ASSUME NEW st \in State, NEW s \in Storage, NEW t \in Storage,
         Working(st, s), Recoverable(st, Content(s)), SameData(t, s),
         t.layout = "current" => t.ids = Keys(Content(s))
  PROVE  LET result == RollbackToStart(st)
         IN  /\ result.ok /\ result.st \in State
             /\ result.st.txn.changes = <<>>
             /\ Working(result.st, t) /\ Recoverable(result.st, Content(t))
PROOF
  <1>1. st.txn.changes \in Seq(Change) /\ Len(st.txn.changes) \in Nat
    BY TxnFields DEF Working
  <1>2. SubSeq(st.txn.changes, 1, 0) = <<>> /\ 0 \in 0 .. Len(st.txn.changes)
    BY <1>1
  <1>3. KeysAfter(Content(s), <<>>) = Keys(Content(s))
    BY ContentType, ExactNothing
  <1>4. Restored(RestoreTo(st, 0), st, t, 0)
    BY <1>2, <1>3, RestoreWorks
  <1> QED
    BY <1>2, <1>4, ResetWorks DEF RollbackToStart

-----------------------------------------------------------------------------
(* xSync. *)

(* What xSync has written: all of the log, as a version of s that is one   *)
(* generation newer.                                                       *)
Settled(result, s) ==
  /\ Working(result.st, result.s) /\ Unsynced(result.st) = <<>>
  /\ Extends(s, result.s)

LEMMA SyncedWorks ==
  ASSUME NEW st \in State, st.txn \in Txn, NEW g \in Generation, NEW rowCount \in Nat,
         NEW s \in Storage, NEW t \in Storage, Extends(s, t),
         st.index # None => st.index = Content(t), t.ids = Keys(Content(t))
  PROVE  Settled(Written(TRUE, Synced(st, g, rowCount), t), s)
PROOF
  <1> DEFINE cs == st.txn.changes
             txn == [st.txn EXCEPT !.synced = Len(cs)]
             new == Synced(st, g, rowCount)
  <1>1. cs \in Seq(Change) /\ Len(cs) \in Nat
    BY TxnFields
  <1>2. txn \in Txn /\ txn.changes = cs /\ txn.synced = Len(cs)
    BY <1>1 DEF Txn
  <1>3. new.txn = txn /\ new.index = st.index /\ new.dirty = FALSE
    <2>1. new = [st EXCEPT !.txn = txn, !.generation = g, !.rowCount = rowCount,
                           !.dirty = FALSE]
      BY DEF Synced, State
    <2> QED
      BY <2>1 DEF State
  <1> HIDE DEF cs, txn, new
  <1>4. Unsynced(new) = <<>>
    <2>1. Unsynced(new) = SubSeq(cs, Len(cs) + 1, Len(cs))
      BY <1>2, <1>3, TxnIsThere DEF Unsynced
    <2> QED
      BY <1>1, <2>1
  <1>5. Content(t) \in Rows
    BY ContentType
  <1>6. /\ Truthful(Content(t), <<>>)
        /\ t.ids = KeysAfter(Content(t), <<>>)
        /\ new.index # None => Exact(new.index, Content(t), <<>>)
    BY <1>3, <1>5, ExactNothing
  <1>7. new.txn \in Txn /\ new.txn.synced <= Len(new.txn.changes)
    BY <1>1, <1>2, <1>3
  <1>8. Working(new, t)
    BY <1>3, <1>4, <1>6, <1>7 DEF Working
  <1>9. Written(TRUE, new, t).st = new /\ Written(TRUE, new, t).s = t
    BY DEF Written
  <1>10. Settled(Written(TRUE, new, t), s)
    BY <1>4, <1>8, <1>9 DEF Settled
  <1> QED
    BY <1>10 DEF new

LEMMA NextGeneration ==
  ASSUME NEW st \in State, NEW s \in Storage, st.generation = s.generation,
         st.generation # MaxGeneration
  PROVE  /\ st.generation + 1 \in Generation /\ st.generation + 1 > s.generation
         /\ st.generation + 1 = s.generation + 1
PROOF
  BY SizeAssumption DEF Generation, State

LEMMA CompactionWorks ==
  ASSUME NEW st \in State, NEW s \in Storage, Working(st, s), s.layout = "current",
         st.generation = s.generation, st.generation # MaxGeneration,
         NEW rowCount \in Nat, SyncCompaction(st, s, rowCount).ok
  PROVE  Settled(SyncCompaction(st, s, rowCount), s)
PROOF
  <1> DEFINE loaded == EnsureLoaded(st, s)
             g == st.generation + 1
             length == ImageLen(loaded.index)
             zero == 0
             fresh == [loaded EXCEPT !.baseBytes = length, !.deltaBytes = zero, !.deltaOps = zero]
             t == RecordCompaction(WriteIndex(s, loaded.index), g, length, rowCount)
  <1>1. loaded \in State /\ loaded.txn = st.txn /\ Working(loaded, s)
    BY LoadWorks
  <1>2. g \in Generation /\ g > s.generation
    BY NextGeneration
  <1>3. SyncCompaction(st, s, rowCount) =
          IF loaded.index = None THEN Written(FALSE, loaded, s)
          ELSE Written(TRUE, Synced(fresh, g, rowCount), t)
    BY DEF SyncCompaction, Compact
  <1>4. length \in Nat /\ zero \in Int
    BY ImageLenType
  <1> HIDE DEF loaded, g, length, zero
  <1>5. loaded.index # None
    BY <1>3 DEF Written
  <1>6. loaded.index \in Rows
    BY <1>1, <1>5 DEF State
  <1>7. t \in Storage /\ t.ids = s.ids /\ Content(t) = loaded.index /\ Extends(s, t)
    BY <1>2, <1>6, CompactionContent DEF length
  <1>8. fresh \in State /\ fresh.txn = loaded.txn /\ fresh.index = loaded.index
    BY <1>1, <1>4 DEF State
  <1> HIDE DEF fresh, t
  <1>9. t.ids = Keys(loaded.index)
    <2>1. Unsynced(loaded) \in Seq(Change)
      BY <1>1, UnsyncedLog DEF Working
    <2>2. Exact(loaded.index, Content(s), Unsynced(loaded))
          /\ s.ids = KeysAfter(Content(s), Unsynced(loaded))
      BY <1>1, <1>5 DEF Working
    <2> QED
      BY <1>7, <2>1, <2>2, ExactKeys
  <1>10. fresh.txn \in Txn
    BY <1>1, <1>8 DEF Working
  <1>11. Settled(Written(TRUE, Synced(fresh, g, rowCount), t), s)
    BY <1>2, <1>7, <1>8, <1>9, <1>10, SyncedWorks
  <1> QED
    BY <1>3, <1>5, <1>11

LEMMA DeltaWorks ==
  ASSUME NEW st \in State, NEW s \in Storage, Working(st, s), s.layout = "current",
         st.generation = s.generation, st.generation # MaxGeneration, Chained(s),
         NEW rowCount \in Nat, NEW deltaBytes \in Int, NEW deltaOps \in Int,
         SyncDelta(st, s, rowCount, deltaBytes, deltaOps).ok
  PROVE  Settled(SyncDelta(st, s, rowCount, deltaBytes, deltaOps), s)
PROOF
  <1> DEFINE g == st.generation + 1
             us == Unsynced(st)
             fresh == [st EXCEPT !.deltaBytes = deltaBytes, !.deltaOps = deltaOps]
             t == RecordDelta(WriteDelta(s, g, us), g, rowCount, deltaBytes, deltaOps)
  <1>1. g \in Generation /\ g = s.generation + 1
    BY NextGeneration
  <1>2. /\ us \in Seq(Change) /\ Content(s) \in Rows /\ st.txn \in Txn
        /\ Truthful(Content(s), us) /\ s.ids = KeysAfter(Content(s), us)
        /\ st.index # None => Exact(st.index, Content(s), us)
    BY UnsyncedLog, ContentType DEF Working
  <1>3. SyncDelta(st, s, rowCount, deltaBytes, deltaOps) =
          IF ~Encodable(us) \/ g \in Stored(s) THEN Written(FALSE, st, s)
          ELSE Written(TRUE, Synced(fresh, g, rowCount), t)
    BY DEF SyncDelta
  <1>4. fresh \in State /\ fresh.txn = st.txn /\ fresh.index = st.index
    BY DEF State
  <1> HIDE DEF g, us, fresh
  <1>5. Encodable(us) /\ ~(g \in Stored(s))
    BY <1>3 DEF Written
  <1>6. t \in Storage /\ t.ids = s.ids /\ Extends(s, t) /\ Content(t) = Replay(Content(s), us)
    <2>1. us \in Seq(Change)
      BY <1>2
    <2>2. DeltaOn(s, t, us, g)
      BY <1>1, <2>1, DeltaContent
    <2> HIDE DEF t
    <2> QED
      BY <2>2 DEF DeltaOn
  <1> HIDE DEF t
  <1>7. Exact(Content(t), Content(s), us)
        /\ \A rows : Exact(rows, Content(s), us) => rows = Content(t)
    BY <1>2, <1>5, <1>6, ExactReplay
  <1>8. t.ids = Keys(Content(t))
    BY <1>2, <1>6, <1>7, ExactKeys
  <1>9. fresh.index # None => fresh.index = Content(t)
    BY <1>2, <1>4, <1>7
  <1>10. Settled(Written(TRUE, Synced(fresh, g, rowCount), t), s)
    BY <1>1, <1>2, <1>4, <1>6, <1>8, <1>9, SyncedWorks
  <1> QED
    BY <1>3, <1>5, <1>10

LEMMA PendingWorks ==
  ASSUME NEW st \in State, NEW s \in Storage, Working(st, s), s.layout = "current",
         st.generation = s.generation, st.generation # MaxGeneration, Chained(s),
         SyncPending(st, s).ok
  PROVE  Settled(SyncPending(st, s), s)
PROOF
  <1> DEFINE pending == Unsynced(st)
             rowCount == st.rowCount + NetRows(pending)
             deltaBytes == st.deltaBytes + DeltaLen(pending)
             deltaOps == st.deltaOps + Len(pending)
  <1>1. rowCount \in Int /\ deltaBytes \in Int /\ deltaOps \in Int
    <2>1. pending \in Seq(Change)
      BY LogType
    <2>2. NetRows(pending) \in Int /\ DeltaLen(pending) \in Int
      BY <2>1, NetRowsType, DeltaLenType
    <2> HIDE DEF pending
    <2>3. Len(pending) \in Nat
      BY <2>1
    <2> QED
      BY <2>2, <2>3 DEF State
  <1>2. \/ SyncPending(st, s) = Written(FALSE, st, s)
        \/ ~(rowCount < 0) /\ SyncPending(st, s) = SyncCompaction(st, s, rowCount)
        \/ ~(rowCount < 0) /\ SyncPending(st, s) = SyncDelta(st, s, rowCount, deltaBytes, deltaOps)
    BY DEF SyncPending
  <1> HIDE DEF pending, rowCount, deltaBytes, deltaOps
  <1>3. ~Written(FALSE, st, s).ok
    BY DEF Written
  <1>4. ~(rowCount < 0) => rowCount \in Nat
    BY <1>1
  <1>5. CASE ~(rowCount < 0) /\ SyncPending(st, s) = SyncCompaction(st, s, rowCount)
    BY <1>4, <1>5, CompactionWorks
  <1>6. CASE ~(rowCount < 0)
             /\ SyncPending(st, s) = SyncDelta(st, s, rowCount, deltaBytes, deltaOps)
    BY <1>1, <1>4, <1>6, DeltaWorks
  <1> QED
    BY <1>2, <1>3, <1>5, <1>6

(* The upgrade fills _ids from the index, which has the log on top. *)
LEMMA UpgradeWorks ==
  ASSUME NEW st \in State, NEW s \in Storage, Working(st, s),
         st.generation = s.generation, Upgrade(st, s).ok
  PROVE  LET up == Upgrade(st, s)
         IN  /\ up.st \in State /\ up.s \in Storage /\ Working(up.st, up.s)
             /\ up.s.layout = "current" /\ up.st.generation = up.s.generation
             /\ up.s.generation = s.generation /\ Extends(s, up.s)
PROOF
  <1> DEFINE loaded == EnsureLoaded(st, s)
             txn == [loaded.txn EXCEPT !.upgraded = TRUE]
             new == [loaded EXCEPT !.layout = "current", !.txn = txn]
             t == Upgraded(s, loaded.generation, loaded.index, loaded.rowCount,
                           loaded.deltaBytes, loaded.deltaOps)
             up == Upgrade(st, s)
  <1>1. /\ loaded \in State /\ loaded.txn = st.txn /\ Working(loaded, s)
        /\ loaded.txn \in Txn /\ loaded.txn # None
    BY LoadWorks, TxnIsThere DEF Working
  <1>2. loaded.generation = s.generation
    BY <1>1, EnsureLoadedType
  <1>3. \/ up = Written(FALSE, loaded, s)
        \/ loaded.index # None /\ up = Written(TRUE, new, t)
    <2>1. new = [loaded EXCEPT !.layout = "current", !.txn.upgraded = TRUE]
      BY <1>1 DEF State
    <2> QED
      BY <2>1 DEF Upgrade, UpgradeLoaded
  <1> HIDE DEF loaded, up
  <1>4. loaded.index # None /\ up.st = new /\ up.s = t
    <2>1. up.ok
      BY DEF up
    <2> QED
      BY <1>3, <2>1 DEF Written
  <1>5. /\ txn \in Txn /\ txn.changes = loaded.txn.changes
        /\ txn.synced = loaded.txn.synced
    BY <1>1 DEF Txn
  <1> HIDE DEF txn
  <1>6. /\ new \in State /\ new.txn = txn /\ new.index = loaded.index
        /\ new.dirty = loaded.dirty /\ new.generation = s.generation
    BY <1>1, <1>2, <1>5 DEF State
  <1>7. t \in Storage
    BY <1>1, UpgradedType DEF State
  <1>8. /\ t.layout = "current" /\ t.generation = s.generation
        /\ t.ids = Keys(loaded.index) /\ SameImage(s, t)
    BY <1>2 DEF Upgraded, Storage, SameImage
  <1> HIDE DEF new, t
  <1>9. Extends(s, t) /\ Content(t) = Content(s)
    BY <1>7, <1>8, SameImageExtends
  <1>10. Unsynced(new) = Unsynced(loaded)
    BY <1>1, <1>5, <1>6, TxnIsThere DEF Unsynced
  <1>11. t.ids = KeysAfter(Content(s), Unsynced(loaded))
    <2>1. Unsynced(loaded) \in Seq(Change)
      BY <1>1, UnsyncedLog
    <2>2. Exact(loaded.index, Content(s), Unsynced(loaded))
      BY <1>1, <1>4 DEF Working
    <2> QED
      BY <1>8, <2>1, <2>2, ExactKeys
  <1>12. Working(new, t)
    BY <1>1, <1>5, <1>6, <1>9, <1>10, <1>11 DEF Working
  <1> QED
    BY <1>4, <1>6, <1>7, <1>8, <1>9, <1>12 DEF up

LEMMA SyncWorks ==
  ASSUME NEW st \in State, NEW s \in Storage, Working(st, s), Sized(st, s), Chained(s),
         Sync(st, s).ok
  PROVE  IF st.dirty THEN Settled(Sync(st, s), s)
         ELSE Sync(st, s) = Written(TRUE, st, s)
PROOF
  <1> DEFINE up == Upgrade(st, s)
  <1>1. CASE ~st.dirty
    BY <1>1 DEF Sync
  <1>2. CASE st.dirty
    <2>1. st.generation # MaxGeneration /\ Unsynced(st) # <<>>
      BY <1>2 DEF Sync, Written
    <2>2. Sync(st, s) = IF st.layout = "legacy" THEN SyncUpgraded(up) ELSE SyncPending(st, s)
      BY <1>2, <2>1 DEF Sync
    <2>3. st.generation = s.generation /\ st.layout = s.layout
          /\ st.layout \in {"legacy", "current"} /\ st.txn # None
      BY TxnIsThere DEF Sized, State, Working
    <2> HIDE DEF up
    <2>4. CASE st.layout = "current"
      BY <1>2, <2>1, <2>2, <2>3, <2>4, PendingWorks
    <2>5. CASE st.layout = "legacy"
      <3>1. Sync(st, s) = SyncUpgraded(up)
        BY <2>2, <2>5
      <3>2. up.ok /\ Sync(st, s) = SyncPending(up.st, up.s)
        BY <3>1 DEF SyncUpgraded
      <3>3. /\ up.st \in State /\ up.s \in Storage /\ Working(up.st, up.s)
            /\ up.s.layout = "current" /\ up.st.generation = up.s.generation
            /\ up.s.generation = s.generation /\ Extends(s, up.s)
        BY <2>3, <3>2, UpgradeWorks DEF up
      <3>4. Chained(up.s)
        BY <2>3, <3>2, UpgradeInStep DEF up
      <3>5. Settled(SyncPending(up.st, up.s), up.s)
        BY <2>1, <2>3, <3>2, <3>3, <3>4, PendingWorks
      <3>6. SyncPending(up.st, up.s).s \in Storage
        BY <3>2, SyncType DEF WriteResult
      <3>7. Settled(Sync(st, s), s)
        BY <3>2, <3>3, <3>5, <3>6, ExtendsOrder DEF Settled
      <3> QED
        BY <1>2, <3>7
    <2> QED
      BY <2>3, <2>4, <2>5
  <1> QED
    BY <1>1, <1>2

-----------------------------------------------------------------------------
(* The invariant, connection by connection. *)

(* The i-th mark remembers a length of the log, and the _ids the log says  *)
(* there were then; the marks before it remember no more.                  *)
MarkFits(st, d, i, mark) ==
  LET n == st.txn.savepoints[i - 1]
  IN  /\ n \in 0 .. Len(st.txn.changes)
      /\ d.layout = "current" =>
           mark.ids = KeysAfter(Content(d), SubSeq(st.txn.changes, 1, n))
      /\ \A k \in 1 .. i : st.txn.savepoints[k - 1] <= n

(* The writer: d is committed, s is what it sees, m its marks, st its      *)
(* State, and begun says whether xBegin was called.  Until xSync has       *)
(* written, s and every mark differ from d in _ids at most.                *)
Writes(d, s, m, begun, st) ==
  /\ Extends(d, s)
  /\ ~begun => s = d /\ \A i \in DOMAIN m : m[i].storage = d
  /\ begun => Working(st, s)
  /\ s.generation = d.generation =>
       /\ SameData(s, d)
       /\ \A i \in DOMAIN m : SameData(m[i].storage, d)
       /\ begun => /\ Recoverable(st, Content(d))
                   /\ \A i \in DOMAIN m : MarkFits(st, d, i, m[i].storage)

ExactParts(c) ==
  /\ mode[c] = "write" => Writes(disk, view[c], marks[c], enlisted[c], state[c])
  /\ mode[c] # "write" => Extends(view[c], disk)
  /\ ~enlisted[c] => CopyOf(state[c], view[c], disk)
OwnIds(s) == s.layout = "current" => s.ids = Keys(Content(s))
Exactness == OwnIds(disk) /\ \A c \in Connections : ExactParts(c)
ExactInv == BudgetInv /\ Exactness

LEMMA ExactFacts ==
  ASSUME ExactInv, NEW c \in Connections
  PROVE  /\ TypeOK /\ OneWriter /\ Agrees(c) /\ Whole(c) /\ ExactParts(c) /\ OwnIds(disk)
         /\ state[c] \in State /\ view[c] \in Storage /\ disk \in Storage
         /\ marks[c] \in Seq(MarkRecord) /\ DOMAIN marks[c] = 1 .. Len(marks[c])
         /\ \A i \in DOMAIN marks[c] : marks[c][i].storage \in Storage
         /\ ~enlisted[c] => state[c].txn = None /\ CopyOf(state[c], view[c], disk)
         /\ enlisted[c] => /\ Sized(state[c], view[c]) /\ mode[c] = "write"
                           /\ Working(state[c], view[c]) /\ state[c].txn \in Txn
                           /\ state[c].txn # None
PROOF
  <1>1. PICK first \in Storage : BudgetOf(first)
    BY DEF ExactInv, BudgetInv
  <1>2. /\ TypeOK /\ OneWriter /\ Whole(c) /\ Agrees(c)
        /\ state[c] \in State /\ view[c] \in Storage /\ disk \in Storage
        /\ enlisted[c] => Sized(state[c], view[c])
    BY <1>1, KeptParts
  <1>3. marks[c] \in Seq(MarkRecord)
    BY <1>2 DEF TypeOK
  <1>4. \A i \in DOMAIN marks[c] : marks[c][i] \in MarkRecord
    BY <1>3
  <1>5. /\ DOMAIN marks[c] = 1 .. Len(marks[c])
        /\ \A i \in DOMAIN marks[c] : marks[c][i].storage \in Storage
    BY <1>3, <1>4 DEF MarkRecord
  <1>6. ExactParts(c) /\ OwnIds(disk)
    BY DEF ExactInv, Exactness
  <1>7. enlisted[c] => mode[c] = "write" /\ Working(state[c], view[c])
    BY <1>2, <1>6 DEF ExactParts, Writes, Agrees
  <1>8. enlisted[c] => state[c].txn \in Txn /\ state[c].txn # None
    BY <1>7, TxnIsThere DEF Working
  <1> QED
    BY <1>2, <1>3, <1>5, <1>6, <1>7, <1>8 DEF Agrees, ExactParts

LEMMA SameDataSelf ==
  ASSUME NEW s \in Storage
  PROVE  SameData(s, s)
PROOF
  BY DEF SameData, Storage

LEMMA FitsKept ==
  ASSUME NEW st, NEW new, NEW d, NEW i \in Nat, i >= 1, NEW mark, MarkFits(st, d, i, mark),
         Len(new.txn.changes) \in Nat,
         \A k \in 1 .. i : new.txn.savepoints[k - 1] = st.txn.savepoints[k - 1],
         st.txn.savepoints[i - 1] <= Len(new.txn.changes),
         SubSeq(new.txn.changes, 1, st.txn.savepoints[i - 1])
           = SubSeq(st.txn.changes, 1, st.txn.savepoints[i - 1])
  PROVE  MarkFits(new, d, i, mark)
PROOF
  <1>1. i \in 1 .. i
    OBVIOUS
  <1>2. new.txn.savepoints[i - 1] = st.txn.savepoints[i - 1]
    BY <1>1
  <1>3. st.txn.savepoints[i - 1] \in 0 .. Len(st.txn.changes)
    BY DEF MarkFits
  <1>4. st.txn.savepoints[i - 1] \in 0 .. Len(new.txn.changes)
    BY <1>3
  <1> QED
    BY <1>2, <1>4 DEF MarkFits

LEMMA ForgetBelow ==
  ASSUME NEW savepoints, NEW j \in Nat, NEW k \in 1 .. j, k - 1 \in Mark
  PROVE  Forget(savepoints, Below(j))[k - 1] = savepoints[k - 1]
PROOF
  <1>1. k - 1 < j
    OBVIOUS
  <1>2. k - 1 \in Below(j)
    BY <1>1 DEF Below
  <1> QED
    BY <1>2 DEF Forget

-----------------------------------------------------------------------------
(* Steps. *)

(* A step that moves one connection and keeps the file.                    *)
LEMMA OneExact ==
  ASSUME ExactInv, NEW c \in Connections, disk' = disk,
         \A d \in Connections \ {c} :
           /\ mode'[d] = mode[d] /\ view'[d] = view[d] /\ marks'[d] = marks[d]
           /\ enlisted'[d] = enlisted[d] /\ state'[d] = state[d],
         ExactParts(c)'
  PROVE  Exactness'
PROOF
  <1>1. ASSUME NEW d \in Connections \ {c} PROVE ExactParts(d)'
    <2>1. ExactParts(d)
      BY DEF ExactInv, Exactness
    <2> QED
      BY <2>1 DEF ExactParts
  <1>2. OwnIds(disk)'
    BY DEF ExactInv, Exactness, OwnIds
  <1> QED
    BY <1>1, <1>2 DEF Exactness

(* The end of a transaction. *)
LEMMA EndExact ==
  ASSUME ExactInv, NEW c \in Connections, NEW s \in Storage, NEW st,
         Ended(c, s), SetState(c, st), CopyOf(st, s, s), OwnIds(s),
         s = disk \/ (mode[c] = "write" /\ Extends(disk, s))
  PROVE  Exactness'
PROOF
  <1>1. TypeOK /\ OneWriter
    BY ExactFacts
  <1>2. Extends(disk, s) /\ Extends(s, s)
    BY ExactFacts, ExtendsOrder
  <1>3. disk' = s
    BY DEF Ended
  <1>4. ExactParts(c)'
    <2>1. /\ view'[c] = s /\ mode'[c] = "idle" /\ state'[c] = st
      BY <1>1 DEF Ended, SetState, TypeOK
    <2> QED
      BY <1>2, <1>3, <2>1 DEF ExactParts
  <1>5. ASSUME NEW d \in Connections \ {c} PROVE ExactParts(d)'
    <2>1. /\ mode'[d] = mode[d] /\ marks'[d] = marks[d] /\ enlisted'[d] = enlisted[d]
          /\ state'[d] = state[d]
          /\ view'[d] = IF mode[d] = "idle" THEN s ELSE view[d]
      BY <1>1 DEF Ended, SetState, TypeOK
    <2>2. /\ ExactParts(d) /\ view[d] \in Storage /\ disk \in Storage /\ state[d] \in State
      BY ExactFacts
    <2>3. CASE s = disk
      <3>1. mode[d] # "write" => Extends(view'[d], disk)
        BY <1>2, <2>1, <2>2, <2>3 DEF ExactParts
      <3>2. ~enlisted[d] => CopyOf(state[d], view'[d], disk)
        BY <2>1, <2>2, <2>3 DEF ExactParts, CopyOf
      <3>3. mode[d] = "write" => view'[d] = view[d]
        BY <2>1
      <3> QED
        BY <1>3, <2>1, <2>2, <2>3, <3>1, <3>2, <3>3 DEF ExactParts
    <2>4. CASE mode[c] = "write"
      <3>1. mode[d] # "write" /\ ~enlisted[d]
        BY <1>1, <2>4, ExactFacts DEF OneWriter
      <3>2. Extends(view'[d], s)
        BY <1>2, <2>1, <2>2, <3>1, ExtendsOrder DEF ExactParts
      <3>3. CopyOf(state[d], view'[d], s)
        <4>1. CopyOf(state[d], view[d], disk)
          BY <2>2, <3>1 DEF ExactParts
        <4>2. state[d].index # None => Faithful(state[d].index, state[d].generation, s)
                                       /\ state[d].generation <= s.generation
          <5>1. SUFFICES ASSUME state[d].index # None
                         PROVE  Faithful(state[d].index, state[d].generation, s)
                                /\ state[d].generation <= s.generation
            OBVIOUS
          <5>2. state[d].generation \in 0 .. disk.generation
            BY <2>2, <4>1, <5>1 DEF CopyOf, State, Storage, Generation
          <5>3. Faithful(state[d].index, state[d].generation, disk)
            BY <4>1, <5>1 DEF CopyOf
          <5> QED
            BY <1>2, <2>2, <5>2, <5>3, FaithfulLater
        <4>3. state[d].index # None => Faithful(state[d].index, state[d].generation, view'[d])
          BY <2>1, <4>1, <4>2 DEF CopyOf
        <4> QED
          BY <4>1, <4>2, <4>3 DEF CopyOf
      <3> QED
        BY <1>3, <2>1, <3>1, <3>2, <3>3 DEF ExactParts
    <2> QED
      BY <2>3, <2>4
  <1>6. OwnIds(disk)'
    BY <1>3 DEF OwnIds
  <1> QED
    BY <1>4, <1>5, <1>6 DEF Exactness

-----------------------------------------------------------------------------
(* The actions, in the order of Next. *)

LEMMA SnapshotExact ==
  ASSUME ExactInv, NEW c \in Connections, BeginRead(c) \/ EndRead(c) \/ BeginWrite(c)
  PROVE  Exactness'
PROOF
  <1>1. /\ TypeOK /\ Agrees(c) /\ ExactParts(c) /\ OwnIds(disk)
        /\ state[c] \in State /\ disk \in Storage
    BY ExactFacts
  <1>2. CASE EndRead(c)
    <2>1. SetState(c, state[c]) /\ Ended(c, disk)
      BY <1>1, <1>2 DEF EndRead, SetState, TypeOK
    <2>2. ~enlisted[c]
      BY <1>1, <1>2 DEF EndRead, Agrees
    <2>3. CopyOf(state[c], disk, disk)
      BY <1>1, <2>2 DEF ExactParts, CopyOf
    <2> QED
      BY <1>1, <2>1, <2>3, EndExact
  <1>3. CASE BeginRead(c) \/ BeginWrite(c)
    <2>1. /\ UNCHANGED <<disk, view, marks, statement, enlisted, state>>
          /\ \A d \in Connections \ {c} : mode'[d] = mode[d]
          /\ mode'[c] = "write" => view[c] = disk
          /\ mode[c] # "write"
      BY <1>1, <1>3 DEF BeginRead, BeginWrite, TypeOK
    <2>2. ~enlisted[c] /\ DOMAIN marks[c] = {}
      BY <1>1, <2>1 DEF Agrees
    <2>3. Extends(view[c], disk) /\ CopyOf(state[c], view[c], disk)
      BY <1>1, <2>1, <2>2 DEF ExactParts
    <2>4. view[c] = disk => Writes(disk, view[c], marks[c], enlisted[c], state[c])
      BY <1>1, <2>2, SameDataSelf, ExtendsOrder DEF Writes
    <2>5. ExactParts(c)'
      BY <2>1, <2>2, <2>3, <2>4 DEF ExactParts
    <2> QED
      BY <2>1, <2>5, OneExact
  <1> QED
    BY <1>2, <1>3

LEMMA SeesDisk ==
  ASSUME ExactInv, NEW c \in Connections, ~enlisted[c]
  PROVE  /\ Extends(view[c], disk) /\ CopyOf(state[c], view[c], disk)
         /\ mode[c] = "write" => /\ view[c] = disk
                                 /\ \A i \in DOMAIN marks[c] : marks[c][i].storage = disk
PROOF
  BY ExactFacts, ExtendsOrder DEF ExactParts, Writes

(* A State that a read has changed. *)
LEMMA ReadWrites ==
  ASSUME NEW d \in Storage, NEW s \in Storage, NEW m, NEW st, NEW new,
         Writes(d, s, m, TRUE, st), Working(new, s), new.txn = st.txn,
         Recoverable(st, Content(s)) => Recoverable(new, Content(s))
  PROVE  Writes(d, s, m, TRUE, new)
PROOF
  <1>1. \A i : MarkFits(st, d, i, m[i].storage) => MarkFits(new, d, i, m[i].storage)
    BY DEF MarkFits
  <1>2. SameData(s, d) => Content(s) = Content(d)
    BY SameDataFacts, SameImageExtends
  <1> QED
    BY <1>1, <1>2 DEF Writes

LEMMA ReadExact ==
  ASSUME ExactInv, NEW c \in Connections, Search(c) \/ Scan(c) \/ CatchUpFails(c)
  PROVE  Exactness'
PROOF
  <1>1. /\ TypeOK /\ ExactParts(c) /\ state[c] \in State /\ view[c] \in Storage
        /\ disk \in Storage
    BY ExactFacts
  <1>2. PICK new : /\ new \in {Searched(state[c], view[c]).st, Scanned(state[c], view[c])}
                        \/ (new = Dropped(state[c]) /\ state[c].txn = None)
                   /\ SetState(c, new)
                   /\ UNCHANGED <<disk, mode, view, marks, statement, enlisted>>
    BY DEF Search, Scan, CatchUpFails
  <1>3. \A d \in Connections : state'[d] = IF d = c THEN new ELSE state[d]
    BY <1>1, <1>2 DEF SetState, TypeOK
  <1>4. ExactParts(c)'
    <2>1. CASE enlisted[c]
      <3>1. mode[c] = "write" /\ Working(state[c], view[c]) /\ state[c].txn # None
        BY <2>1, ExactFacts
      <3>2. new \in {Searched(state[c], view[c]).st, Scanned(state[c], view[c]),
                     Prepare(state[c], view[c]).st}
        BY <1>2, <3>1
      <3>3. /\ new.txn = state[c].txn /\ Working(new, view[c])
            /\ Recoverable(state[c], Content(view[c])) => Recoverable(new, Content(view[c]))
        BY <1>1, <3>1, <3>2, ReadsWork
      <3>4. Writes(disk, view[c], marks[c], TRUE, state[c])
        BY <1>1, <2>1, <3>1 DEF ExactParts, TypeOK
      <3>5. Writes(disk, view[c], marks[c], TRUE, new)
        BY <1>1, <3>3, <3>4, ReadWrites
      <3>6. enlisted'[c] = TRUE
        BY <1>1, <1>2, <2>1 DEF TypeOK
      <3> QED
        BY <1>1, <1>2, <1>3, <2>1, <3>1, <3>5, <3>6 DEF ExactParts
    <2>2. CASE ~enlisted[c]
      <3>1. /\ state[c].txn = None /\ CopyOf(state[c], view[c], disk)
            /\ Extends(view[c], disk)
        BY <2>2, ExactFacts, SeesDisk
      <3>2. state[c].index # None => Faithful(state[c].index, state[c].generation, view[c])
        BY <3>1 DEF CopyOf
      <3>3. new \in {Searched(state[c], view[c]).st, Scanned(state[c], view[c]),
                     Dropped(state[c])}
        BY <1>2
      <3>4. Copied(new, state[c], view[c])
        BY <1>1, <3>1, <3>2, <3>3, ReadsCopy
      <3>5. CopyOf(new, view[c], disk)
        BY <1>1, <3>1, <3>4, CopiedKeeps
      <3>6. mode[c] = "write" => Writes(disk, view[c], marks[c], enlisted[c], new)
        BY <1>1, <2>2 DEF ExactParts, Writes
      <3> QED
        BY <1>1, <1>2, <1>3, <2>2, <3>5, <3>6 DEF ExactParts
    <2> QED
      BY <2>1, <2>2
  <1> QED
    BY <1>2, <1>3, <1>4, OneExact

LEMMA EnlistExact ==
  ASSUME ExactInv, EarlyMarks <= 1, NEW c \in Connections, Enlist(c)
  PROVE  Exactness'
PROOF
  <1> DEFINE begun == Begin(state[c], view[c])
             st == IF begun.ok /\ marks[c] # <<>>
                   THEN Savepoint(begun.st, TopMark(c)) ELSE begun.st
  <1>1. /\ TypeOK /\ ExactParts(c) /\ state[c] \in State /\ view[c] \in Storage
        /\ disk \in Storage /\ ~enlisted[c] /\ mode[c] = "write" /\ OwnIds(disk)
        /\ state[c].txn = None /\ CopyOf(state[c], view[c], disk)
    BY ExactFacts DEF Enlist
  <1>2. /\ view[c] = disk /\ \A i \in DOMAIN marks[c] : marks[c][i].storage = disk
        /\ Len(marks[c]) <= 1
    <2>1. Len(marks[c]) \in Nat /\ Len(marks[c]) <= EarlyMarks /\ EarlyMarks \in Nat
      BY <1>1, MarkIndex, TableAssumption DEF Enlist
    <2> QED
      BY <1>1, <2>1, SeesDisk
  <1>3. /\ begun.st \in State /\ begun.ok \in BOOLEAN
        /\ IF begun.ok
           THEN /\ Working(begun.st, disk) /\ Recoverable(begun.st, Content(disk))
                /\ begun.st.txn.changes = <<>>
           ELSE begun.st.txn = None /\ Copied(begun.st, state[c], disk)
    <2>1. ~state[c].dirty
          /\ (state[c].index # None => Faithful(state[c].index, state[c].generation, disk))
      BY <1>1 DEF CopyOf
    <2>2. begun \in ReadResult
      BY <1>1, BeginType
    <2>3. begun = Begin(state[c], disk)
      BY <1>2
    <2> HIDE DEF begun
    <2>4. begun.st \in State /\ begun.ok \in BOOLEAN
      BY <2>2 DEF ReadResult
    <2> QED
      BY <1>1, <2>1, <2>3, <2>4, BeginWorks DEF OwnIds
  <1>4. /\ SetState(c, st)
        /\ enlisted' = [enlisted EXCEPT ![c] = begun.ok]
        /\ UNCHANGED <<disk, mode, view, marks, statement>>
    BY DEF Enlist, EnlistBegun
  <1> HIDE DEF begun
  <1>5. ~begun.ok => CopyOf(st, disk, disk)
    BY <1>1, <1>2, <1>3, CopiedKeeps, ExtendsOrder
  <1>6. begun.ok => Writes(disk, disk, marks[c], TRUE, st)
    <2>1. SUFFICES ASSUME begun.ok PROVE Writes(disk, disk, marks[c], TRUE, st)
      OBVIOUS
    <2>2. begun.st.txn \in Txn /\ Working(begun.st, disk)
          /\ Recoverable(begun.st, Content(disk)) /\ begun.st.txn.changes = <<>>
      BY <1>3, <2>1 DEF Working
    <2>3. CASE marks[c] = <<>>
      <3>1. st = begun.st /\ DOMAIN marks[c] = {}
        BY <2>3
      <3> QED
        BY <1>1, <2>2, <3>1, SameDataSelf, ExtendsOrder DEF Writes
    <2>4. CASE marks[c] # <<>>
      <3>1. Len(marks[c]) = 1 /\ TopMark(c) = 0 /\ 0 \in Mark /\ DOMAIN marks[c] = {1}
        <4>1. /\ marks[c] \in Seq(MarkRecord) /\ Len(marks[c]) \in Nat
              /\ DOMAIN marks[c] = 1 .. Len(marks[c])
          BY ExactFacts
        <4>2. Len(marks[c]) # 0
          BY <2>4, <4>1
        <4>3. Len(marks[c]) = 1
          <5>1. \A n \in Nat : n # 0 /\ n <= 1 => n = 1
            OBVIOUS
          <5>2. Len(marks[c]) \in Nat /\ Len(marks[c]) # 0 /\ Len(marks[c]) <= 1
            BY <1>2, <4>1, <4>2
          <5> QED
            BY <5>1, <5>2, Zenon
        <4>4. TopMark(c) = 0 /\ DOMAIN marks[c] = {1} /\ 0 \in 0 .. TopMark(c)
          BY <4>1, <4>3 DEF TopMark
        <4> QED
          BY <1>1, <4>3, <4>4, MarkIndex
      <3>2. st = Savepoint(begun.st, 0)
        BY <2>1, <2>4, <3>1
      <3>3. /\ st.txn.changes = <<>> /\ Working(st, disk) /\ Recoverable(st, Content(disk))
            /\ st.txn.savepoints =
                 [Forget(begun.st.txn.savepoints, Below(0)) EXCEPT ![0] = Len(<<>>)]
        BY <1>3, <2>2, <3>1, <3>2, SavepointWorks
      <3>4. st.txn.savepoints[0] = 0
        BY <3>1, <3>3 DEF Forget
      <3>5. MarkFits(st, disk, 1, marks[c][1].storage)
        <4>1. SubSeq(<<>>, 1, 0) = <<>>
          OBVIOUS
        <4>2. disk.layout = "current" => disk.ids = KeysAfter(Content(disk), <<>>)
          BY <1>1, ContentType, ExactNothing DEF OwnIds
        <4>3. marks[c][1].storage = disk
          BY <1>2, <3>1
        <4>4. 0 \in 0 .. Len(<<>>) /\ 1 - 1 = 0 /\ 1 .. 1 = {1} /\ 0 <= 0
          OBVIOUS
        <4> QED
          BY <3>3, <3>4, <4>1, <4>2, <4>3, <4>4 DEF MarkFits
      <3> HIDE DEF st
      <3> QED
        BY <1>1, <1>2, <3>1, <3>3, <3>5, SameDataSelf, ExtendsOrder DEF Writes
    <2> QED
      BY <2>3, <2>4
  <1>7. ~begun.ok => Writes(disk, disk, marks[c], FALSE, st)
    BY <1>1, <1>2, SameDataSelf, ExtendsOrder DEF Writes
  <1> HIDE DEF st
  <1>8. /\ \A d \in Connections : state'[d] = IF d = c THEN st ELSE state[d]
        /\ \A d \in Connections : enlisted'[d] = IF d = c THEN begun.ok ELSE enlisted[d]
    BY <1>1, <1>4 DEF SetState, TypeOK
  <1>9. Writes(disk, view[c], marks[c], begun.ok, st)
    <2>1. begun.ok = TRUE \/ begun.ok = FALSE
      BY <1>3
    <2> QED
      BY <1>2, <1>6, <1>7, <2>1
  <1>10. ExactParts(c)'
    BY <1>1, <1>2, <1>4, <1>5, <1>8, <1>9 DEF ExactParts
  <1> QED
    BY <1>4, <1>8, <1>10, OneExact

LEMMA WriteExact ==
  ASSUME ExactInv, NEW c \in Connections, InsertRow(c) \/ DeleteRow(c)
  PROVE  Exactness'
PROOF
  <1>1. Updating(c)
    BY DEF InsertRow, DeleteRow, Update
  <1>2. /\ TypeOK /\ enlisted[c] = TRUE /\ mode[c] = "write" /\ ExactParts(c)
        /\ state[c] \in State /\ view[c] \in Storage /\ disk \in Storage
        /\ Sized(state[c], view[c]) /\ Working(state[c], view[c])
        /\ state[c].txn \in Txn /\ DOMAIN marks[c] = 1 .. Len(marks[c])
        /\ Len(marks[c]) \in Nat
    BY <1>1, ExactFacts, MarkIndex DEF Updating, TypeOK
  <1>3. PICK result : /\ Update(c, result) /\ result \in WriteResult
                      /\ WriteKeeps(result, state[c], view[c])
    <2>1. state[c].layout = view[c].layout
      BY <1>2 DEF Sized
    <2> QED
      BY <1>2, <2>1, InsertWorks, DeleteWorks, InsertType, DeleteType
      DEF InsertRow, DeleteRow
  <1>4. /\ \A d \in Connections : state'[d] = IF d = c THEN result.st ELSE state[d]
        /\ \A d \in Connections : view'[d] = IF d = c THEN result.s ELSE view[d]
        /\ UNCHANGED <<disk, mode, marks, statement, enlisted>>
    BY <1>2, <1>3 DEF Update, SetState, TypeOK
  <1>5. /\ result.s \in Storage /\ result.st \in State
        /\ Working(result.st, result.s) /\ SameData(result.s, view[c])
        /\ Grows(result.st, state[c])
        /\ Recoverable(state[c], Content(view[c]))
             => Recoverable(result.st, Content(view[c]))
    BY <1>3 DEF WriteResult, WriteKeeps
  <1>6. Writes(disk, view[c], marks[c], TRUE, state[c])
    BY <1>2 DEF ExactParts
  <1>7. Extends(disk, result.s) /\ result.s.generation = view[c].generation
    <2>1. Extends(view[c], result.s) /\ result.s.generation = view[c].generation
      BY <1>2, <1>5, SameDataFacts, SameImageExtends DEF SameImage
    <2> QED
      BY <1>2, <1>5, <1>6, <2>1, ExtendsOrder DEF Writes
  <1>8. ASSUME NEW i \in DOMAIN marks[c], MarkFits(state[c], disk, i, marks[c][i].storage)
        PROVE  MarkFits(result.st, disk, i, marks[c][i].storage)
    <2>1. i \in Nat /\ i >= 1
      BY <1>2
    <2>2. /\ state[c].txn.savepoints[i - 1] \in 0 .. Len(state[c].txn.changes)
          /\ Len(state[c].txn.changes) \in Nat /\ Len(result.st.txn.changes) \in Nat
      BY <1>2, <1>5, <1>8, TxnFields DEF MarkFits, Working
    <2>3. /\ result.st.txn.savepoints = state[c].txn.savepoints
          /\ Len(state[c].txn.changes) <= Len(result.st.txn.changes)
          /\ SubSeq(result.st.txn.changes, 1, state[c].txn.savepoints[i - 1])
               = SubSeq(state[c].txn.changes, 1, state[c].txn.savepoints[i - 1])
      BY <1>5, <2>2 DEF Grows
    <2>4. state[c].txn.savepoints[i - 1] <= Len(result.st.txn.changes)
      BY <2>2, <2>3
    <2> QED
      BY <1>8, <2>1, <2>2, <2>3, <2>4, FitsKept
  <1>9. view[c].generation = disk.generation =>
          /\ SameData(result.s, disk)
          /\ Recoverable(result.st, Content(disk))
    <2>1. SUFFICES ASSUME view[c].generation = disk.generation
                   PROVE  SameData(result.s, disk) /\ Recoverable(result.st, Content(disk))
      OBVIOUS
    <2>2. SameData(view[c], disk) /\ Recoverable(state[c], Content(disk))
      BY <1>6, <2>1 DEF Writes
    <2>3. SameData(result.s, disk)
      BY <1>2, <1>5, <2>2, SameDataFacts
    <2>4. Content(view[c]) = Content(disk)
      BY <1>2, <2>2, SameDataFacts, SameImageExtends
    <2> QED
      BY <1>5, <2>2, <2>3, <2>4
  <1>10. Writes(disk, result.s, marks[c], TRUE, result.st)
    BY <1>5, <1>6, <1>7, <1>8, <1>9 DEF Writes
  <1>11. ExactParts(c)'
    BY <1>2, <1>4, <1>10 DEF ExactParts
  <1> QED
    BY <1>4, <1>11, OneExact

-----------------------------------------------------------------------------
(* Savepoints. *)

LEMMA PushFits ==
  ASSUME NEW st \in State, st.txn \in Txn, NEW j \in Mark, NEW d,
         NEW i \in 1 .. j, NEW mark, MarkFits(st, d, i, mark),
         \A k \in 1 .. j : k - 1 \in Mark
  PROVE  MarkFits(Savepoint(st, j), d, i, mark)
PROOF
  <1> DEFINE new == Savepoint(st, j)
  <1>1. j \in Nat /\ i \in Nat /\ i >= 1 /\ i <= j
    BY MarkAssumption
  <1>2. /\ new.txn.changes = st.txn.changes
        /\ new.txn.savepoints =
             [Forget(st.txn.savepoints, Below(j)) EXCEPT ![j] = Len(st.txn.changes)]
    BY SavepointWorks
  <1> HIDE DEF new
  <1>3. ASSUME NEW k \in 1 .. i PROVE new.txn.savepoints[k - 1] = st.txn.savepoints[k - 1]
    <2>1. k \in 1 .. j /\ k - 1 # j
      BY <1>1
    <2>2. Forget(st.txn.savepoints, Below(j))[k - 1] = st.txn.savepoints[k - 1]
      BY <1>1, <2>1, ForgetBelow
    <2> QED
      BY <1>2, <2>1, <2>2
  <1>4. Len(st.txn.changes) \in Nat /\ st.txn.savepoints[i - 1] <= Len(st.txn.changes)
    <2>1. st.txn.savepoints[i - 1] \in 0 .. Len(st.txn.changes)
      BY DEF MarkFits
    <2> QED
      BY <2>1, TxnFields
  <1>5. MarkFits(new, d, i, mark)
    BY <1>1, <1>2, <1>3, <1>4, FitsKept
  <1> QED
    BY <1>5 DEF new

LEMMA PushNew ==
  ASSUME NEW st \in State, st.txn \in Txn, NEW j \in Mark, NEW s \in Storage,
         NEW d \in Storage, SameData(s, d), Working(st, s), Recoverable(st, Content(d)),
         \A k \in 1 .. j : k - 1 \in Mark /\ st.txn.savepoints[k - 1] \in 0 .. Len(st.txn.changes)
  PROVE  MarkFits(Savepoint(st, j), d, j + 1, s)
PROOF
  <1> DEFINE new == Savepoint(st, j)
             n == Len(st.txn.changes)
  <1>1. j \in Nat /\ n \in Nat
    BY MarkAssumption, TxnFields
  <1>2. /\ new.txn.changes = st.txn.changes
        /\ new.txn.savepoints = [Forget(st.txn.savepoints, Below(j)) EXCEPT ![j] = n]
    BY SavepointWorks
  <1> HIDE DEF new
  <1>3. new.txn.savepoints[j] = n
    BY <1>2 DEF Forget
  <1>4. ASSUME NEW k \in 1 .. j + 1 PROVE new.txn.savepoints[k - 1] <= n
    <2>1. CASE k = j + 1
      <3>1. k - 1 = j
        BY <1>1, <2>1
      <3> QED
        BY <1>1, <1>3, <3>1
    <2>2. CASE k # j + 1
      <3>1. k \in 1 .. j /\ k - 1 # j
        BY <1>1, <2>2
      <3>2. Forget(st.txn.savepoints, Below(j))[k - 1] = st.txn.savepoints[k - 1]
        BY <1>1, <3>1, ForgetBelow
      <3>3. new.txn.savepoints[k - 1] = st.txn.savepoints[k - 1]
        BY <1>2, <3>1, <3>2
      <3>4. st.txn.savepoints[k - 1] \in 0 .. n
        BY <3>1
      <3> QED
        BY <1>1, <3>3, <3>4
    <2> QED
      BY <2>1, <2>2
  <1>5. Content(s) = Content(d) /\ s.layout = d.layout
    BY SameDataFacts, SameImageExtends
  <1>6. d.layout = "current" => s.ids = KeysAfter(Content(d), SubSeq(st.txn.changes, 1, n))
    <2>1. Unsynced(st) = st.txn.changes
      BY UnsyncedAll DEF Recoverable
    <2>2. SubSeq(st.txn.changes, 1, n) = st.txn.changes
      BY TxnFields, WholeLog1
    <2> QED
      BY <1>5, <2>1, <2>2 DEF Working
  <1> HIDE DEF n
  <1>7. (j + 1) - 1 = j /\ n \in 0 .. n
    BY <1>1
  <1>8. MarkFits(new, d, j + 1, s)
    BY <1>2, <1>3, <1>4, <1>6, <1>7 DEF MarkFits, n
  <1> QED
    BY <1>8 DEF new

LEMMA ReleaseFits ==
  ASSUME NEW st \in State, st.txn \in Txn, NEW j \in Mark
  PROVE  LET new == Release(st, j)
         IN  /\ new.txn.changes = st.txn.changes
             /\ \A s : Working(st, s) => Working(new, s)
             /\ \A base : Recoverable(st, base) => Recoverable(new, base)
             /\ \A d, mark : \A i \in 1 .. j :
                  MarkFits(st, d, i, mark) /\ (\A k \in 1 .. j : k - 1 \in Mark)
                    => MarkFits(new, d, i, mark)
PROOF
  <1> DEFINE new == Release(st, j)
  <1>1. new = [st EXCEPT !.txn.savepoints = Forget(@, Below(j))]
    BY TxnIsThere DEF Release
  <1>2. /\ new.txn.changes = st.txn.changes
        /\ new.txn.savepoints = Forget(st.txn.savepoints, Below(j))
        /\ \A s : Working(st, s) => Working(new, s)
        /\ \A base : Recoverable(st, base) => Recoverable(new, base)
    BY <1>1, ForgetWorks
  <1> HIDE DEF new
  <1>3. ASSUME NEW d, NEW mark, NEW i \in 1 .. j, MarkFits(st, d, i, mark),
               \A k \in 1 .. j : k - 1 \in Mark
        PROVE  MarkFits(new, d, i, mark)
    <2>1. j \in Nat /\ i \in Nat /\ i >= 1 /\ i <= j
      BY MarkAssumption
    <2>2. \A k \in 1 .. i : new.txn.savepoints[k - 1] = st.txn.savepoints[k - 1]
      <3>1. \A k \in 1 .. i : k \in 1 .. j
        BY <2>1
      <3> QED
        BY <1>2, <1>3, <2>1, <3>1, ForgetBelow
    <2>3. Len(st.txn.changes) \in Nat /\ st.txn.savepoints[i - 1] <= Len(st.txn.changes)
      <3>1. st.txn.savepoints[i - 1] \in 0 .. Len(st.txn.changes)
        BY <1>3 DEF MarkFits
      <3> QED
        BY <3>1, TxnFields
    <2> QED
      BY <1>2, <1>3, <2>1, <2>2, <2>3, FitsKept
  <1>4. \A d, mark : \A i \in 1 .. j :
          MarkFits(st, d, i, mark) /\ (\A k \in 1 .. j : k - 1 \in Mark)
            => MarkFits(new, d, i, mark)
    BY <1>3
  <1> QED
    BY <1>2, <1>4 DEF new

(* Back at mark number j, the marks up to it are as they were.             *)
BackTo(new, st, j) ==
  /\ new.txn.changes = SubSeq(st.txn.changes, 1, st.txn.savepoints[j])
  /\ new.txn.savepoints = Forget(st.txn.savepoints, Below(j + 1))

LEMMA BackFits ==
  ASSUME NEW st, NEW new, NEW j \in Nat, NEW d, NEW i \in 1 .. j + 1,
         NEW mark, MarkFits(st, d, i, mark), NEW top, MarkFits(st, d, j + 1, top),
         st.txn.changes \in Seq(Change),
         \A k \in 1 .. j + 1 : k - 1 \in Mark, BackTo(new, st, j)
  PROVE  MarkFits(new, d, i, mark)
PROOF
  <1> DEFINE n == st.txn.savepoints[j]
             m == st.txn.savepoints[i - 1]
  <1>1. i \in Nat /\ i >= 1 /\ i <= j + 1 /\ j + 1 \in Nat /\ (j + 1) - 1 = j
    OBVIOUS
  <1>2. n \in 0 .. Len(st.txn.changes) /\ m \in 0 .. Len(st.txn.changes) /\ m <= n
    BY <1>1 DEF MarkFits
  <1>3. \A k \in 1 .. i : new.txn.savepoints[k - 1] = st.txn.savepoints[k - 1]
    <2>1. \A k \in 1 .. i : k \in 1 .. j + 1
      BY <1>1
    <2> QED
      BY <1>1, <2>1, ForgetBelow DEF BackTo
  <1> HIDE DEF n, m
  <1>4. m \in 0 .. n /\ n \in Nat /\ m <= n
    <2>1. \A l \in Nat : n \in 0 .. l /\ m \in 0 .. l /\ m <= n => m \in 0 .. n /\ n \in Nat
      OBVIOUS
    <2>2. Len(st.txn.changes) \in Nat
      OBVIOUS
    <2> QED
      BY <1>2, <2>1, <2>2, Zenon
  <1>5. new.txn.changes = SubSeq(st.txn.changes, 1, n)
    BY DEF n, BackTo
  <1>6. /\ Len(new.txn.changes) = n
        /\ SubSeq(new.txn.changes, 1, m) = SubSeq(st.txn.changes, 1, m)
    BY <1>2, <1>4, <1>5, CutPrefix
  <1>7. Len(new.txn.changes) \in Nat /\ m <= Len(new.txn.changes)
    BY <1>4, <1>6, Zenon
  <1> QED
    BY <1>1, <1>3, <1>6, <1>7, FitsKept DEF m

LEMMA MarksAreNumbered ==
  ASSUME ExactInv, NEW c \in Connections
  PROVE  /\ Len(marks[c]) \in Nat /\ DOMAIN marks[c] = 1 .. Len(marks[c])
         /\ \A k \in 1 .. Len(marks[c]) : k - 1 \in Mark
PROOF
  <1>1. /\ Len(marks[c]) \in Nat /\ DOMAIN marks[c] = 1 .. Len(marks[c])
        /\ \A j \in 0 .. TopMark(c) : j \in Mark
    BY ExactFacts, MarkIndex
  <1>2. \A k \in 1 .. Len(marks[c]) : k - 1 \in 0 .. TopMark(c)
    BY <1>1 DEF TopMark
  <1> QED
    BY <1>1, <1>2


(* A State that keeps the log and the first n marks is as good.            *)
LEMMA MarkWrites ==
  ASSUME NEW d \in Storage, NEW s \in Storage, NEW m, NEW new, NEW cut,
         NEW st, Writes(d, s, m, TRUE, st), Working(new, s),
         Recoverable(st, Content(d)) => Recoverable(new, Content(d)),
         \A i \in DOMAIN cut :
           \/ /\ i \in DOMAIN m /\ cut[i] = m[i]
              /\ MarkFits(st, d, i, m[i].storage) => MarkFits(new, d, i, m[i].storage)
           \/ /\ cut[i].storage = s
              /\ s.generation = d.generation => MarkFits(new, d, i, s)
  PROVE  Writes(d, s, cut, TRUE, new)
PROOF
  BY DEF Writes

LEMMA PushMarkExact ==
  ASSUME ExactInv, NEW c \in Connections, OpenSavepoint(c) \/ OpenStatement(c)
  PROVE  Exactness'
PROOF
  <1> DEFINE mark == [storage |-> view[c], rows |-> SeenRows(state[c], view[c])]
             j == Len(marks[c])
             st == IF enlisted[c] THEN Savepoint(state[c], j) ELSE state[c]
             longer == Append(marks[c], mark)
  <1>1. /\ TypeOK /\ ExactParts(c) /\ state[c] \in State /\ view[c] \in Storage
        /\ disk \in Storage /\ marks[c] \in Seq(MarkRecord)
        /\ PushMark(c) /\ mode[c] = "write" /\ enlisted[c] \in BOOLEAN
    BY ExactFacts DEF OpenSavepoint, OpenStatement, PushMark, Writing, TypeOK
  <1>2. /\ j \in Mark /\ j \in Nat /\ DOMAIN marks[c] = 1 .. j
        /\ \A k \in 1 .. j : k - 1 \in Mark
    <2>1. j \in Nat /\ j < MaxMarks /\ MaxMarks \in Nat
      BY <1>1, MarksAreNumbered, TableAssumption DEF PushMark
    <2>2. j \in 0 .. MaxMarks - 1
      BY <2>1
    <2> QED
      BY <2>1, <2>2, MarksAreNumbered, TableAssumption
  <1>3. mark.storage = view[c]
    OBVIOUS
  <1>4. /\ marks' = [marks EXCEPT ![c] = longer]
        /\ SetState(c, st)
        /\ UNCHANGED <<disk, mode, view, enlisted>>
    BY <1>1 DEF PushMark, TypeOK
  <1>5. \A i \in DOMAIN longer : (i \in DOMAIN marks[c] /\ longer[i] = marks[c][i])
                                 \/ (i = j + 1 /\ longer[i] = mark)
    BY <1>1
  <1> HIDE DEF mark, longer
  <1>6. Writes(disk, view[c], marks[c], enlisted[c], state[c])
    BY <1>1 DEF ExactParts
  <1>7. CASE enlisted[c]
    <2>1. /\ state[c].txn \in Txn /\ Working(state[c], view[c])
          /\ Writes(disk, view[c], marks[c], TRUE, state[c]) /\ enlisted[c] = TRUE
      BY <1>1, <1>6, <1>7, ExactFacts
    <2>2. st = Savepoint(state[c], j)
      BY <1>7
    <2> HIDE DEF st, j
    <2>3. /\ Working(st, view[c])
          /\ Recoverable(state[c], Content(disk)) => Recoverable(st, Content(disk))
      BY <1>1, <1>2, <2>1, <2>2, SavepointWorks
    <2>4. ASSUME NEW i \in DOMAIN marks[c], MarkFits(state[c], disk, i, marks[c][i].storage)
          PROVE  MarkFits(st, disk, i, marks[c][i].storage)
      BY <1>1, <1>2, <2>1, <2>2, <2>4, PushFits
    <2>5. view[c].generation = disk.generation => MarkFits(st, disk, j + 1, view[c])
      <3>1. SUFFICES ASSUME view[c].generation = disk.generation
                     PROVE  MarkFits(st, disk, j + 1, view[c])
        OBVIOUS
      <3>2. /\ SameData(view[c], disk) /\ Recoverable(state[c], Content(disk))
            /\ \A i \in DOMAIN marks[c] : MarkFits(state[c], disk, i, marks[c][i].storage)
        BY <2>1, <3>1 DEF Writes
      <3>3. \A k \in 1 .. j : /\ k - 1 \in Mark
                              /\ state[c].txn.savepoints[k - 1] \in 0 .. Len(state[c].txn.changes)
        BY <1>2, <3>2 DEF MarkFits
      <3> QED
        BY <1>1, <1>2, <2>1, <2>2, <3>2, <3>3, PushNew
    <2>6. \A i \in DOMAIN longer :
            \/ /\ i \in DOMAIN marks[c] /\ longer[i] = marks[c][i]
               /\ MarkFits(state[c], disk, i, marks[c][i].storage)
                    => MarkFits(st, disk, i, marks[c][i].storage)
            \/ /\ longer[i].storage = view[c]
               /\ view[c].generation = disk.generation => MarkFits(st, disk, i, view[c])
      BY <1>3, <1>5, <2>4, <2>5
    <2>7. Writes(disk, view[c], longer, TRUE, st)
      BY <1>1, <2>1, <2>3, <2>6, MarkWrites
    <2>8. /\ \A d \in Connections : state'[d] = IF d = c THEN st ELSE state[d]
          /\ \A d \in Connections : marks'[d] = IF d = c THEN longer ELSE marks[d]
      BY <1>1, <1>4 DEF SetState, TypeOK
    <2>9. ExactParts(c)'
      BY <1>1, <1>4, <2>1, <2>7, <2>8 DEF ExactParts
    <2> QED
      BY <1>4, <2>8, <2>9, OneExact
  <1>8. CASE ~enlisted[c]
    <2>1. st = state[c] /\ enlisted[c] = FALSE
      BY <1>1, <1>8
    <2>2. view[c] = disk /\ \A i \in DOMAIN marks[c] : marks[c][i].storage = disk
      BY <1>1, <1>8, SeesDisk
    <2>3. \A i \in DOMAIN longer : longer[i].storage = disk
      BY <1>3, <1>5, <2>2
    <2>4. Writes(disk, view[c], longer, FALSE, state[c])
      BY <1>1, <2>2, <2>3, SameDataSelf, ExtendsOrder DEF Writes
    <2> HIDE DEF st
    <2>5. /\ \A d \in Connections : state'[d] = state[d]
          /\ \A d \in Connections : marks'[d] = IF d = c THEN longer ELSE marks[d]
      BY <1>1, <1>4, <2>1 DEF SetState, TypeOK
    <2>6. ExactParts(c)'
      BY <1>1, <1>4, <2>1, <2>4, <2>5 DEF ExactParts
    <2> QED
      BY <1>4, <2>5, <2>6, OneExact
  <1> QED
    BY <1>7, <1>8

LEMMA ReleaseExact ==
  ASSUME ExactInv, NEW c \in Connections, ReleaseSavepoint(c) \/ CloseStatement(c)
  PROVE  Exactness'
PROOF
  <1>1. /\ TypeOK /\ ExactParts(c) /\ state[c] \in State /\ view[c] \in Storage
        /\ disk \in Storage /\ marks[c] \in Seq(MarkRecord)
        /\ enlisted[c] \in BOOLEAN /\ mode[c] = "write"
    <2>1. /\ TypeOK /\ ExactParts(c) /\ state[c] \in State /\ view[c] \in Storage
          /\ disk \in Storage /\ marks[c] \in Seq(MarkRecord) /\ Agrees(c)
      BY ExactFacts
    <2>2. mode[c] = "write"
      BY <2>1 DEF ReleaseSavepoint, CloseStatement, Writing, TypeOK, Agrees
    <2> QED
      BY <2>1, <2>2 DEF TypeOK
  <1>2. PICK j \in 0 .. TopMark(c) : ReleaseMark(c, j)
    BY <1>1, MarkIndex DEF ReleaseSavepoint, CloseStatement
  <1>3. /\ j \in Mark /\ j \in 0 .. Len(marks[c]) /\ j \in Nat
        /\ \A k \in 1 .. j : k - 1 \in Mark
    <2>1. j \in Mark /\ j + 1 \in 1 .. Len(marks[c]) /\ Len(marks[c]) \in Nat
      BY <1>1, MarkIndex
    <2>2. j \in 0 .. Len(marks[c]) /\ j \in Nat /\ \A k \in 1 .. j : k \in 1 .. Len(marks[c])
      BY <2>1, MarkAssumption
    <2> QED
      BY <2>1, <2>2, MarksAreNumbered
  <1> DEFINE st == IF enlisted[c] THEN Release(state[c], j) ELSE state[c]
             cut == SubSeq(marks[c], 1, j)
  <1>4. /\ \A d \in Connections : marks'[d] = IF d = c THEN cut ELSE marks[d]
        /\ SetState(c, st)
        /\ UNCHANGED <<disk, mode, view, enlisted>>
    BY <1>1, <1>2 DEF ReleaseMark, TypeOK
  <1>5. \A i \in DOMAIN cut : i \in DOMAIN marks[c] /\ cut[i] = marks[c][i] /\ i \in 1 .. j
    <2>1. cut \in Seq(MarkRecord) /\ Len(cut) = j
      BY <1>1, <1>3, MarkPrefix
    <2>2. DOMAIN cut = 1 .. j
      BY <2>1
    <2> QED
      BY <1>1, <1>3, <2>2, FirstMarks
  <1> HIDE DEF cut
  <1>6. Writes(disk, view[c], marks[c], enlisted[c], state[c])
    BY <1>1 DEF ExactParts
  <1>7. Writes(disk, view[c], cut, enlisted[c], st)
    <2>1. CASE enlisted[c]
      <3>1. /\ state[c].txn \in Txn /\ Working(state[c], view[c])
            /\ Writes(disk, view[c], marks[c], TRUE, state[c]) /\ enlisted[c] = TRUE
        BY <1>1, <1>6, <2>1, ExactFacts
      <3>2. st = Release(state[c], j)
        BY <2>1
      <3> HIDE DEF st
      <3>3. /\ Working(st, view[c])
            /\ Recoverable(state[c], Content(disk)) => Recoverable(st, Content(disk))
            /\ \A i \in 1 .. j : MarkFits(state[c], disk, i, marks[c][i].storage)
                                   => MarkFits(st, disk, i, marks[c][i].storage)
        BY <1>1, <1>3, <3>1, <3>2, ReleaseFits
      <3>4. Writes(disk, view[c], cut, TRUE, st)
        BY <1>1, <1>5, <3>1, <3>3, MarkWrites
      <3> QED
        BY <3>1, <3>4
    <2>2. CASE ~enlisted[c]
      BY <1>1, <1>5, <1>6, <2>2 DEF Writes
    <2> QED
      BY <2>1, <2>2
  <1>8. ~enlisted[c] => st = state[c]
    OBVIOUS
  <1> HIDE DEF st
  <1>9. \A d \in Connections : state'[d] = IF d = c THEN st ELSE state[d]
    BY <1>1, <1>4 DEF SetState, TypeOK
  <1>10. ExactParts(c)'
    BY <1>1, <1>4, <1>7, <1>8, <1>9 DEF ExactParts
  <1> QED
    BY <1>4, <1>9, <1>10, OneExact


(* What xRollbackTo(j) leaves when xSync has not written yet.              *)
GoneBack(result, d, m, j) ==
  /\ result.ok /\ result.st \in State /\ result.st.txn \in Txn
  /\ Working(result.st, m[j + 1].storage) /\ Recoverable(result.st, Content(d))
  /\ \A i \in 1 .. j + 1 : MarkFits(result.st, d, i, m[i].storage)

LEMMA MarkBack ==
  ASSUME ExactInv, NEW c \in Connections, enlisted[c],
         view[c].generation = disk.generation, NEW j \in 0 .. TopMark(c)
  PROVE  GoneBack(RollbackTo(state[c], j), disk, marks[c], j)
PROOF
  <1> DEFINE result == RollbackTo(state[c], j)
             back == marks[c][j + 1].storage
             cs == state[c].txn.changes
             n == state[c].txn.savepoints[j]
  <1>1. /\ state[c] \in State /\ view[c] \in Storage /\ disk \in Storage
        /\ Working(state[c], view[c]) /\ state[c].txn \in Txn
        /\ cs \in Seq(Change) /\ ExactParts(c) /\ mode[c] = "write"
    BY ExactFacts, TxnFields
  <1>2. /\ j \in Mark /\ j \in Nat /\ j + 1 \in DOMAIN marks[c] /\ (j + 1) - 1 = j
        /\ \A k \in 1 .. j + 1 : k - 1 \in Mark /\ k \in DOMAIN marks[c]
    <2>1. /\ j \in Mark /\ j + 1 \in 1 .. Len(marks[c]) /\ Len(marks[c]) \in Nat
          /\ DOMAIN marks[c] = 1 .. Len(marks[c])
          /\ \A k \in 1 .. Len(marks[c]) : k - 1 \in Mark
      BY ExactFacts, MarkIndex, MarksAreNumbered
    <2>2. j \in Nat /\ (j + 1) - 1 = j /\ \A k \in 1 .. j + 1 : k \in 1 .. Len(marks[c])
      BY <2>1, MarkAssumption
    <2> QED
      BY <2>1, <2>2
  <1>3. /\ SameData(view[c], disk) /\ Recoverable(state[c], Content(disk))
        /\ \A i \in DOMAIN marks[c] :
             /\ SameData(marks[c][i].storage, disk)
             /\ MarkFits(state[c], disk, i, marks[c][i].storage)
    BY <1>1 DEF ExactParts, Writes
  <1>4. /\ back \in Storage /\ SameData(back, disk)
        /\ MarkFits(state[c], disk, j + 1, back)
    BY <1>2, <1>3, ExactFacts
  <1> HIDE DEF back
  <1>5. /\ SameData(back, view[c]) /\ Content(view[c]) = Content(disk)
        /\ Content(back) = Content(disk) /\ back.layout = disk.layout
    BY <1>1, <1>3, <1>4, SameDataFacts, SameImageExtends
  <1>6. /\ n \in 0 .. Len(cs)
        /\ back.layout = "current" => back.ids = KeysAfter(Content(view[c]), SubSeq(cs, 1, n))
    BY <1>2, <1>4, <1>5 DEF MarkFits
  <1>7. /\ result.ok /\ result.st \in State
        /\ result.st.txn.changes = SubSeq(cs, 1, n)
        /\ result.st.txn.savepoints = Forget(state[c].txn.savepoints, Below(j + 1))
        /\ Working(result.st, back) /\ Recoverable(result.st, Content(back))
    BY <1>1, <1>2, <1>3, <1>4, <1>5, <1>6, RollbackToWorks
  <1> HIDE DEF result
  <1>8. ASSUME NEW i \in 1 .. j + 1 PROVE MarkFits(result.st, disk, i, marks[c][i].storage)
    <2>1. MarkFits(state[c], disk, i, marks[c][i].storage)
      BY <1>2, <1>3
    <2>2. MarkFits(state[c], disk, j + 1, back)
      BY <1>4
    <2>3. j \in Nat /\ state[c].txn.changes \in Seq(Change)
      BY <1>1, <1>2
    <2>4. \A k \in 1 .. j + 1 : k - 1 \in Mark
      BY <1>2
    <2>5. /\ result.st.txn.changes
               = SubSeq(state[c].txn.changes, 1, state[c].txn.savepoints[j])
          /\ result.st.txn.savepoints = Forget(state[c].txn.savepoints, Below(j + 1))
      BY <1>7
    <2> DEFINE st == state[c]
               new == result.st
               mark == marks[c][i].storage
    <2>6. st.txn.changes \in Seq(Change) /\ BackTo(new, st, j)
      BY <2>3, <2>5 DEF BackTo
    <2>7. MarkFits(st, disk, i, mark) /\ MarkFits(st, disk, j + 1, back)
      BY <2>1, <2>2
    <2> HIDE DEF st, new, mark
    <2>8. MarkFits(new, disk, i, mark)
      BY <2>3, <2>4, <2>6, <2>7, BackFits
    <2> QED
      BY <2>8 DEF new, mark
  <1>9. result.st.txn \in Txn
    BY <1>7 DEF Working
  <1>10. GoneBack(result, disk, marks[c], j)
    BY <1>5, <1>7, <1>8, <1>9 DEF GoneBack, back
  <1> QED
    BY <1>10 DEF result

(* A step back to the first n marks, to storage that is the committed one  *)
(* but for its _ids.                                                       *)
LEMMA BackExact ==
  ASSUME ExactInv, NEW c \in Connections, mode[c] = "write",
         NEW back, NEW n \in 0 .. Len(marks[c]), NEW st,
         SetState(c, st),
         view' = [view EXCEPT ![c] = back],
         marks' = [marks EXCEPT ![c] = SubSeq(marks[c], 1, n)],
         UNCHANGED <<disk, mode, enlisted>>,
         view[c].generation = disk.generation,
         ~enlisted[c] => back = disk /\ st = state[c],
         enlisted[c] =>
           /\ back \in Storage /\ SameData(back, disk)
           /\ Working(st, back) /\ Recoverable(st, Content(disk))
           /\ \A i \in 1 .. n : MarkFits(st, disk, i, marks[c][i].storage)
  PROVE  Exactness'
PROOF
  <1> DEFINE cut == SubSeq(marks[c], 1, n)
  <1>1. /\ TypeOK /\ ExactParts(c) /\ disk \in Storage
        /\ marks[c] \in Seq(MarkRecord)
    BY ExactFacts
  <1>2. /\ \A d \in Connections : state'[d] = IF d = c THEN st ELSE state[d]
        /\ \A d \in Connections : view'[d] = IF d = c THEN back ELSE view[d]
        /\ \A d \in Connections : marks'[d] = IF d = c THEN cut ELSE marks[d]
    BY <1>1 DEF SetState, TypeOK
  <1>3. \A i \in DOMAIN cut : i \in DOMAIN marks[c] /\ cut[i] = marks[c][i] /\ i \in 1 .. n
    <2>1. cut \in Seq(MarkRecord) /\ Len(cut) = n
      BY <1>1, MarkPrefix
    <2>2. DOMAIN cut = 1 .. n
      BY <2>1
    <2> QED
      BY <1>1, <2>2, FirstMarks
  <1> HIDE DEF cut
  <1>4. Writes(disk, view[c], marks[c], enlisted[c], state[c])
    BY <1>1 DEF ExactParts
  <1>5. SameData(disk, disk) /\ Extends(disk, disk)
    BY <1>1, SameDataSelf, ExtendsOrder
  <1>6. Writes(disk, back, cut, enlisted[c], st)
    <2>1. CASE enlisted[c]
      <3>1. Extends(disk, back)
        BY <1>1, <2>1, SameDataFacts, SameImageExtends
      <3>2. \A i \in DOMAIN cut : SameData(cut[i].storage, disk)
        BY <1>3, <1>4 DEF Writes
      <3> QED
        BY <1>3, <2>1, <3>1, <3>2 DEF Writes
    <2>2. CASE ~enlisted[c]
      BY <1>3, <1>4, <1>5, <2>2 DEF Writes
    <2> QED
      BY <2>1, <2>2
  <1>7. ~enlisted[c] => CopyOf(st, back, disk)
    BY <1>1 DEF ExactParts, CopyOf
  <1>8. ExactParts(c)'
    BY <1>1, <1>2, <1>6, <1>7 DEF ExactParts
  <1> QED
    BY <1>2, <1>8, OneExact

LEMMA RollbackToExact ==
  ASSUME ExactInv, PartialAfterBusy = FALSE,
         NEW c \in Connections, RollbackToSavepoint(c) \/ RollbackToBegin(c)
  PROVE  Exactness'
PROOF
  <1>1. /\ TypeOK /\ state[c] \in State /\ disk \in Storage /\ view[c] \in Storage
        /\ mode[c] = "write" /\ view[c].generation = disk.generation
        /\ marks[c] \in Seq(MarkRecord) /\ OwnIds(disk) /\ ExactParts(c)
    BY ExactFacts DEF RollbackToSavepoint, RollbackToBegin, Writing, PartialAllowed
  <1>2. Writes(disk, view[c], marks[c], enlisted[c], state[c])
    BY <1>1 DEF ExactParts
  <1>3. CASE RollbackToSavepoint(c)
    <2>1. PICK j \in 0 .. TopMark(c) :
            /\ view' = [view EXCEPT ![c] = marks[c][j + 1].storage]
            /\ marks' = [marks EXCEPT ![c] = SubSeq(@, 1, j + 1)]
            /\ SetState(c, IF enlisted[c] THEN RollbackTo(state[c], j).st ELSE state[c])
      BY <1>3 DEF RollbackToSavepoint
    <2> DEFINE st == IF enlisted[c] THEN RollbackTo(state[c], j).st ELSE state[c]
               back == marks[c][j + 1].storage
    <2>2. j + 1 \in 0 .. Len(marks[c]) /\ j + 1 \in DOMAIN marks[c]
      <3>1. j + 1 \in 1 .. Len(marks[c]) /\ Len(marks[c]) \in Nat
            /\ DOMAIN marks[c] = 1 .. Len(marks[c])
        BY <1>1, MarkIndex, ExactFacts
      <3> QED
        BY <3>1
    <2>3. enlisted[c] =>
            /\ back \in Storage /\ SameData(back, disk)
            /\ Working(st, back) /\ Recoverable(st, Content(disk))
            /\ \A i \in 1 .. j + 1 : MarkFits(st, disk, i, marks[c][i].storage)
      <3>1. SUFFICES ASSUME enlisted[c]
                     PROVE  /\ back \in Storage /\ SameData(back, disk)
                            /\ Working(st, back) /\ Recoverable(st, Content(disk))
                            /\ \A i \in 1 .. j + 1 :
                                 MarkFits(st, disk, i, marks[c][i].storage)
        OBVIOUS
      <3>2. GoneBack(RollbackTo(state[c], j), disk, marks[c], j)
        BY <1>1, <3>1, MarkBack
      <3>3. back \in Storage /\ SameData(back, disk)
        BY <1>1, <1>2, <2>2, ExactFacts DEF Writes
      <3> QED
        BY <3>1, <3>2, <3>3 DEF GoneBack
    <2>4. ~enlisted[c] => back = disk /\ st = state[c]
      BY <1>2, <2>2 DEF Writes
    <2>5. /\ marks' = [marks EXCEPT ![c] = SubSeq(marks[c], 1, j + 1)]
          /\ view' = [view EXCEPT ![c] = back] /\ SetState(c, st)
          /\ UNCHANGED <<disk, mode, enlisted>>
      BY <1>1, <1>3, <2>1 DEF RollbackToSavepoint, TypeOK
    <2> HIDE DEF st, back
    <2> QED
      BY <1>1, <2>2, <2>3, <2>4, <2>5, BackExact
  <1>4. CASE RollbackToBegin(c)
    <2> DEFINE st == IF enlisted[c] THEN RollbackToStart(state[c]).st ELSE state[c]
    <2>1. enlisted[c] => Working(st, disk) /\ Recoverable(st, Content(disk))
      <3>1. SUFFICES ASSUME enlisted[c]
                     PROVE  Working(st, disk) /\ Recoverable(st, Content(disk))
        OBVIOUS
      <3>2. /\ SameData(view[c], disk) /\ Working(state[c], view[c])
            /\ Recoverable(state[c], Content(disk))
        BY <1>1, <1>2, <3>1 DEF Writes
      <3>3. SameData(disk, view[c]) /\ Content(view[c]) = Content(disk)
        BY <1>1, <3>2, SameDataFacts, SameImageExtends
      <3>4. disk.layout = "current" => disk.ids = Keys(Content(view[c]))
        BY <1>1, <3>3 DEF OwnIds
      <3> QED
        BY <1>1, <3>1, <3>2, <3>3, <3>4, RollbackToStartWorks
    <2>2. /\ view' = [view EXCEPT ![c] = disk] /\ marks' = [marks EXCEPT ![c] = <<>>]
          /\ SetState(c, st) /\ UNCHANGED <<disk, mode, enlisted>>
      BY <1>4 DEF RollbackToBegin
    <2>3. ~enlisted[c] => st = state[c]
      OBVIOUS
    <2> HIDE DEF st
    <2>4. 0 \in 0 .. Len(marks[c]) /\ SubSeq(marks[c], 1, 0) = <<>>
          /\ \A i \in 1 .. 0 : FALSE
      BY <1>1
    <2>5. SameData(disk, disk)
      BY <1>1, SameDataSelf
    <2> QED
      BY <1>1, <2>1, <2>2, <2>3, <2>4, <2>5, BackExact
  <1> QED
    BY <1>3, <1>4

LEMMA AbortExact ==
  ASSUME ExactInv, PartialAfterBusy = FALSE, NEW c \in Connections, AbortStatement(c)
  PROVE  Exactness'
PROOF
  <1> DEFINE j == TopMark(c)
             back == IF enlisted[c] THEN RollbackTo(state[c], j)
                                    ELSE Result(TRUE, state[c])
             st == IF enlisted[c] THEN Release(back.st, j) ELSE back.st
             storage == marks[c][j + 1].storage
  <1>1. /\ TypeOK /\ Agrees(c) /\ state[c] \in State /\ disk \in Storage
        /\ ExactParts(c) /\ marks[c] \in Seq(MarkRecord)
    BY ExactFacts
  <1>2. mode[c] = "write" /\ view[c].generation = disk.generation
    BY <1>1 DEF AbortStatement, PartialAllowed, Agrees, TypeOK
  <1>3. j \in 0 .. TopMark(c)
    BY <1>1, MarkIndex DEF AbortStatement
  <1>4. /\ j \in Mark /\ j \in 0 .. Len(marks[c]) /\ j + 1 \in DOMAIN marks[c]
        /\ \A k \in 1 .. j : k - 1 \in Mark /\ k \in 1 .. j + 1
    <2>1. j \in Mark /\ j + 1 \in 1 .. Len(marks[c]) /\ Len(marks[c]) \in Nat
          /\ DOMAIN marks[c] = 1 .. Len(marks[c])
          /\ \A k \in 1 .. Len(marks[c]) : k - 1 \in Mark
      BY <1>1, <1>3, MarkIndex, MarksAreNumbered, ExactFacts
    <2> HIDE DEF j
    <2>2. /\ j \in 0 .. Len(marks[c])
          /\ \A k \in 1 .. j : k \in 1 .. Len(marks[c]) /\ k \in 1 .. j + 1
      BY <2>1, MarkAssumption
    <2> QED
      BY <2>1, <2>2
  <1>5. AbortTo(c, j, back)
    BY DEF AbortStatement
  <1> HIDE DEF j
  <1>6. Writes(disk, view[c], marks[c], enlisted[c], state[c])
    BY <1>1, <1>2 DEF ExactParts
  <1>7. enlisted[c] => GoneBack(back, disk, marks[c], j)
    <2>1. enlisted[c] => GoneBack(RollbackTo(state[c], j), disk, marks[c], j)
      BY <1>2, <1>3, MarkBack
    <2> QED
      BY <2>1
  <1>8. back.ok /\ (~enlisted[c] => back.st = state[c])
    BY <1>7 DEF GoneBack, Result
  <1> HIDE DEF back
  <1>9. enlisted[c] =>
          /\ storage \in Storage /\ SameData(storage, disk)
          /\ Working(st, storage) /\ Recoverable(st, Content(disk))
          /\ \A i \in 1 .. j : MarkFits(st, disk, i, marks[c][i].storage)
    <2>1. SUFFICES ASSUME enlisted[c]
                   PROVE  /\ storage \in Storage /\ SameData(storage, disk)
                          /\ Working(st, storage) /\ Recoverable(st, Content(disk))
                          /\ \A i \in 1 .. j : MarkFits(st, disk, i, marks[c][i].storage)
      OBVIOUS
    <2>2. /\ back.st \in State /\ back.st.txn \in Txn
          /\ Working(back.st, storage) /\ Recoverable(back.st, Content(disk))
          /\ \A i \in 1 .. j + 1 : MarkFits(back.st, disk, i, marks[c][i].storage)
      BY <1>7, <2>1 DEF GoneBack
    <2>3. st = Release(back.st, j)
      BY <2>1
    <2>4. storage \in Storage /\ SameData(storage, disk)
      BY <1>2, <1>4, <1>6, ExactFacts DEF Writes
    <2> HIDE DEF st, storage
    <2>5. Working(st, storage) /\ Recoverable(st, Content(disk))
      BY <1>4, <2>2, <2>3, ReleaseFits
    <2>6. ASSUME NEW i \in 1 .. j PROVE MarkFits(st, disk, i, marks[c][i].storage)
      <3>1. MarkFits(back.st, disk, i, marks[c][i].storage)
        BY <1>4, <2>2
      <3> QED
        BY <1>4, <2>2, <2>3, <3>1, ReleaseFits
    <2> QED
      BY <2>4, <2>5, <2>6
  <1>10. ~enlisted[c] => storage = disk /\ st = state[c]
    BY <1>4, <1>6, <1>8 DEF Writes
  <1>11. /\ view' = [view EXCEPT ![c] = storage]
         /\ marks' = [marks EXCEPT ![c] = SubSeq(marks[c], 1, j)]
         /\ SetState(c, st)
         /\ UNCHANGED <<disk, mode, enlisted>>
    BY <1>1, <1>5, <1>8 DEF AbortTo, TypeOK
  <1> HIDE DEF st, storage
  <1> QED
    BY <1>2, <1>4, <1>9, <1>10, <1>11, BackExact


-----------------------------------------------------------------------------
(* The end of a transaction. *)

LEMMA RolledBackCopy ==
  ASSUME NEW x \in State, x.txn # None, NEW d
  PROVE  CopyOf(RolledBack(x), d, d)
PROOF
  <1>1. RolledBack(x).dirty = FALSE /\ RolledBack(x).index = None
    BY DEF RolledBack, State
  <1> QED
    BY <1>1 DEF CopyOf

(* A COMMIT that fails still has its transaction to roll back.             *)
LEMMA FailedTxn ==
  ASSUME NEW st \in State, NEW s \in Storage, st.txn \in Txn,
         NEW x, (x = Sync(st, s).st /\ ~Sync(st, s).ok) \/ x \in PartialSync(st, s)
  PROVE  x.txn # None
PROOF
  <1> DEFINE up == Upgrade(st, s)
             loaded == EnsureLoaded(st, s)
  <1>1. ASSUME NEW y \in State, y.txn # None, NEW t \in Storage, ~SyncPending(y, t).ok
        PROVE  SyncPending(y, t).st.txn # None
    <2>1. EnsureLoaded(y, t).txn = y.txn
      BY EnsureLoadedType
    <2>2. \A rowCount, bytes, ops :
            /\ ~SyncCompaction(y, t, rowCount).ok =>
                 SyncCompaction(y, t, rowCount).st.txn # None
            /\ ~SyncDelta(y, t, rowCount, bytes, ops).ok =>
                 SyncDelta(y, t, rowCount, bytes, ops).st.txn # None
      BY <1>1, <2>1 DEF SyncCompaction, Compact, SyncDelta, Written
    <2> QED
      BY <1>1, <2>2 DEF SyncPending, Written
  <1>2. st.txn # None /\ loaded \in State /\ loaded.txn = st.txn
    BY TxnIsThere, EnsureLoadedType
  <1>3. up \in WriteResult /\ up.st.txn # None
    <2>1. up \in WriteResult
      BY <1>2, UpgradeType
    <2>2. [loaded EXCEPT !.layout = "current", !.txn.upgraded = TRUE].txn
            = [loaded.txn EXCEPT !.upgraded = TRUE]
      BY <1>2 DEF State
    <2>3. [loaded.txn EXCEPT !.upgraded = TRUE] \in Txn
      BY <1>2 DEF Txn
    <2>4. [loaded EXCEPT !.layout = "current", !.txn.upgraded = TRUE].txn # None
      BY <2>2, <2>3, TransactionAssumption
    <2> HIDE DEF loaded
    <2>5. up.st = loaded
          \/ up.st = [loaded EXCEPT !.layout = "current", !.txn.upgraded = TRUE]
      BY DEF Upgrade, UpgradeLoaded, Written, loaded
    <2> QED
      BY <1>2, <2>1, <2>4, <2>5
  <1>4. x \in PartialSync(st, s) => x.txn # None
    BY <1>2, <1>3 DEF PartialSync
  <1>5. ~Sync(st, s).ok => Sync(st, s).st.txn # None
    <2>1. SUFFICES ASSUME ~Sync(st, s).ok PROVE Sync(st, s).st.txn # None
      OBVIOUS
    <2>2. \/ Sync(st, s) = Written(FALSE, st, s)
          \/ Sync(st, s) = SyncUpgraded(up)
          \/ Sync(st, s) = SyncPending(st, s)
      BY <2>1 DEF Sync, Written
    <2> HIDE DEF up
    <2>3. CASE Sync(st, s) = Written(FALSE, st, s)
      BY <1>2, <2>3 DEF Written
    <2>4. CASE Sync(st, s) = SyncUpgraded(up)
      BY <1>1, <1>3, <2>1, <2>4 DEF SyncUpgraded, WriteResult
    <2>5. CASE Sync(st, s) = SyncPending(st, s)
      BY <1>1, <1>2, <2>1, <2>5
    <2> QED
      BY <2>2, <2>3, <2>4, <2>5
  <1> QED
    BY <1>4, <1>5

(* What a COMMIT that xSync accepts has in hand: storage that extends the  *)
(* committed one, with all of the log, and an index that is that storage.  *)
SyncLeaves(synced, st, s, d) ==
  /\ synced.st \in State /\ synced.s \in Storage /\ Sized(synced.st, synced.s)
  /\ Working(synced.st, synced.s) /\ Unsynced(synced.st) = <<>>
  /\ Extends(d, synced.s) /\ OwnIds(synced.s)
  /\ \/ synced.st = st /\ synced.s = s
     \/ synced.s.generation > d.generation

LEMMA CommitWorks ==
  ASSUME ExactInv, MinDeltaBase > 0, NEW c \in Connections, Updating(c),
         Sync(state[c], view[c]).ok
  PROVE  SyncLeaves(Sync(state[c], view[c]), state[c], view[c], disk)
PROOF
  <1> DEFINE synced == Sync(state[c], view[c])
  <1>1. /\ state[c] \in State /\ view[c] \in Storage /\ disk \in Storage
        /\ Sized(state[c], view[c]) /\ Working(state[c], view[c]) /\ Chained(view[c])
        /\ mode[c] = "write" /\ Agrees(c)
    BY ExactFacts DEF Updating, Whole
  <1>2. synced.st \in State /\ synced.s \in Storage /\ Sized(synced.st, synced.s)
    <2>1. PICK first : BudgetOf(first)
      BY DEF ExactInv, BudgetInv
    <2> QED
      BY <2>1, CommitSizes
  <1>3. IF state[c].dirty THEN Settled(synced, view[c])
        ELSE synced = Written(TRUE, state[c], view[c])
    BY <1>1, SyncWorks
  <1>4. Extends(disk, view[c])
    BY <1>1, ExactFacts DEF ExactParts, Writes
  <1>5. state[c].dirty => synced.s.generation = view[c].generation + 1
    BY <1>1, SyncInStep DEF OneOn, Sized
  <1> HIDE DEF synced
  <1>6. CASE ~state[c].dirty
    <2>1. synced.st = state[c] /\ synced.s = view[c]
      BY <1>3, <1>6 DEF Written
    <2>2. Working(synced.st, synced.s) /\ Unsynced(synced.st) = <<>>
      BY <1>1, <1>6, <2>1 DEF Working
    <2>3. OwnIds(synced.s)
      BY <1>2, <2>2, ContentType, ExactNothing DEF Working, OwnIds
    <2> QED
      BY <1>2, <1>4, <2>1, <2>2, <2>3 DEF SyncLeaves, synced
  <1>7. CASE state[c].dirty
    <2>1. /\ Working(synced.st, synced.s) /\ Unsynced(synced.st) = <<>>
          /\ Extends(view[c], synced.s)
      BY <1>3, <1>7 DEF Settled
    <2>2. OwnIds(synced.s)
      BY <1>2, <2>1, ContentType, ExactNothing DEF Working, OwnIds
    <2>3. Extends(disk, synced.s)
      BY <1>1, <1>2, <1>4, <2>1, ExtendsOrder
    <2>4. synced.s.generation > disk.generation
      <3>1. view[c].generation \in Int /\ disk.generation \in Int
        BY <1>1, GenerationType
      <3>2. view[c].generation >= disk.generation
        BY <1>1 DEF Agrees
      <3>3. synced.s.generation = view[c].generation + 1
        BY <1>5, <1>7
      <3> QED
        BY <3>1, <3>2, <3>3
    <2> QED
      BY <1>2, <2>1, <2>2, <2>3, <2>4 DEF SyncLeaves, synced
  <1> QED
    BY <1>6, <1>7

LEMMA CommittedCopy ==
  ASSUME NEW synced, NEW st, NEW s, NEW d, SyncLeaves(synced, st, s, d)
  PROVE  CopyOf(Committed(synced.st), synced.s, synced.s)
PROOF
  <1> DEFINE new == Committed(synced.st)
             t == synced.s
  <1>1. /\ synced.st \in State /\ t \in Storage /\ Sized(synced.st, t)
        /\ Working(synced.st, t) /\ Unsynced(synced.st) = <<>>
    BY DEF SyncLeaves
  <1>2. synced.st.dirty = FALSE
    BY <1>1 DEF Working, State
  <1>3. /\ new.dirty = FALSE /\ new.index = synced.st.index
        /\ new.generation = t.generation
    BY <1>1, <1>2 DEF Committed, State, Sized
  <1>4. new.index # None => new.index = Content(t)
    BY <1>1, <1>3, ContentType, ExactNothing DEF Working
  <1> HIDE DEF new, t
  <1>5. new.index # None => Faithful(new.index, new.generation, t)
    BY <1>1, <1>3, <1>4, OwnContent
  <1>6. new.generation <= t.generation
    BY <1>1, <1>3, GenerationType
  <1>7. CopyOf(new, t, t)
    BY <1>3, <1>5, <1>6 DEF CopyOf
  <1> QED
    BY <1>7 DEF new, t

LEMMA CommitExact ==
  ASSUME ExactInv, MinDeltaBase > 0, NEW c \in Connections, Commit(c)
  PROVE  Exactness'
PROOF
  <1> DEFINE synced == Sync(state[c], view[c])
  <1>1. /\ TypeOK /\ state[c] \in State /\ view[c] \in Storage /\ disk \in Storage
        /\ Updating(c) /\ mode[c] = "write" /\ enlisted[c] = TRUE
        /\ ExactParts(c) /\ OwnIds(disk) /\ state[c].txn \in Txn
    BY ExactFacts DEF Commit, Updating, TypeOK
  <1>2. synced.st \in State
    BY <1>1, SyncType DEF WriteResult
  <1>3. ~synced.ok => CopyOf(RolledBack(synced.st), disk, disk)
    BY <1>1, <1>2, FailedTxn, RolledBackCopy
  <1>4. synced.ok => SyncLeaves(synced, state[c], view[c], disk)
    BY <1>1, CommitWorks
  <1>5. \/ ~synced.ok /\ Ended(c, disk) /\ SetState(c, RolledBack(synced.st))
        \/ /\ synced.ok
           /\ view' = [view EXCEPT ![c] = synced.s]
           /\ SetState(c, synced.st)
           /\ UNCHANGED <<disk, mode, marks, statement, enlisted>>
        \/ synced.ok /\ Ended(c, synced.s) /\ SetState(c, Committed(synced.st))
    BY DEF Commit, CommitSynced
  <1> HIDE DEF synced
  <1>6. CASE ~synced.ok /\ Ended(c, disk) /\ SetState(c, RolledBack(synced.st))
    BY <1>1, <1>3, <1>6, EndExact
  <1>7. CASE /\ synced.ok
             /\ view' = [view EXCEPT ![c] = synced.s]
             /\ SetState(c, synced.st)
             /\ UNCHANGED <<disk, mode, marks, statement, enlisted>>
    <2>1. /\ \A d \in Connections : state'[d] = IF d = c THEN synced.st ELSE state[d]
          /\ \A d \in Connections : view'[d] = IF d = c THEN synced.s ELSE view[d]
      BY <1>1, <1>7 DEF SetState, TypeOK
    <2>2. Writes(disk, view[c], marks[c], TRUE, state[c])
      BY <1>1 DEF ExactParts
    <2>3. Writes(disk, synced.s, marks[c], TRUE, synced.st)
      <3>1. CASE synced.st = state[c] /\ synced.s = view[c]
        BY <2>2, <3>1
      <3>2. CASE synced.s.generation > disk.generation
        <4>1. synced.s \in Storage /\ Extends(disk, synced.s) /\ Working(synced.st, synced.s)
          BY <1>4, <1>7 DEF SyncLeaves
        <4>2. synced.s.generation # disk.generation
          BY <1>1, <3>2, <4>1, GenerationType
        <4> QED
          BY <4>1, <4>2 DEF Writes
      <3> QED
        BY <1>4, <1>7, <3>1, <3>2 DEF SyncLeaves
    <2>4. ExactParts(c)'
      BY <1>1, <1>7, <2>1, <2>3 DEF ExactParts
    <2> QED
      BY <1>7, <2>1, <2>4, OneExact
  <1>8. CASE synced.ok /\ Ended(c, synced.s) /\ SetState(c, Committed(synced.st))
    <2>1. CopyOf(Committed(synced.st), synced.s, synced.s)
      BY <1>4, <1>8, CommittedCopy
    <2>2. synced.s \in Storage /\ OwnIds(synced.s) /\ Extends(disk, synced.s)
      BY <1>4, <1>8 DEF SyncLeaves
    <2> QED
      BY <1>1, <1>8, <2>1, <2>2, EndExact
  <1> QED
    BY <1>5, <1>6, <1>7, <1>8

LEMMA RolledBackEndExact ==
  ASSUME ExactInv, NEW c \in Connections, Reopen(c) \/ CommitFails(c) \/ Rollback(c)
  PROVE  Exactness'
PROOF
  <1>1. /\ state[c] \in State /\ view[c] \in Storage /\ disk \in Storage
        /\ OwnIds(disk)
        /\ enlisted[c] => state[c].txn \in Txn /\ state[c].txn # None
    BY ExactFacts
  <1>2. CASE Reopen(c)
    <2>1. CopyOf(OpenStorage(disk), disk, disk)
      BY <1>1, OpenedCopy, ExtendsOrder
    <2> QED
      BY <1>1, <1>2, <2>1, EndExact DEF Reopen
  <1>3. CASE CommitFails(c)
    <2>1. PICK st \in PartialSync(state[c], view[c]) : SetState(c, RolledBack(st))
      BY <1>3 DEF CommitFails
    <2>2. st \in State /\ st.txn # None
      BY <1>1, <1>3, ExactFacts, PartialSyncType, FailedTxn DEF CommitFails, Updating
    <2>3. CopyOf(RolledBack(st), disk, disk)
      BY <2>2, RolledBackCopy
    <2> QED
      BY <1>1, <1>3, <2>1, <2>3, EndExact DEF CommitFails
  <1>4. CASE Rollback(c)
    <2> DEFINE st == IF enlisted[c] THEN RolledBack(state[c]) ELSE state[c]
    <2>1. Ended(c, disk) /\ SetState(c, st) /\ mode[c] = "write"
      BY <1>4 DEF Rollback
    <2>2. enlisted[c] => CopyOf(st, disk, disk)
      BY <1>1, ExactFacts, RolledBackCopy
    <2>3. ~enlisted[c] => CopyOf(st, disk, disk)
      BY <2>1, SeesDisk DEF CopyOf
    <2> HIDE DEF st
    <2> QED
      BY <1>1, <2>1, <2>2, <2>3, EndExact
  <1> QED
    BY <1>2, <1>3, <1>4

-----------------------------------------------------------------------------
LEMMA InitExact ==
  ASSUME MinDeltaBase > 0
  PROVE  Init => ExactInv
PROOF
  <1>1. SUFFICES ASSUME Init PROVE ExactInv
    OBVIOUS
  <1>2. BudgetInv
    BY <1>1, InitBudget
  <1>3. TypeOK /\ disk \in Storage
    BY <1>1, InitType DEF TypeOK
  <1>4. disk.layout = "legacy" \/ \E rows \in Rows : disk = NewStorage(rows)
    <2>1. \A rows : LegacyStorage(rows).layout = "legacy"
      BY DEF LegacyStorage, NewStorage
    <2>2. ASSUME NEW rows \in Rows, NEW cs PROVE LegacyWithDelta(rows, cs).layout = "legacy"
      BY DEF LegacyWithDelta, LegacyStorage, NewStorage, WriteDelta
    <2> DEFINE stored(r) == {x \in Change :
                              \/ x.op = "insert" /\ x.vector # None /\ x.replaces
                              \/ x.id \in Keys(r) /\ x = DeleteOf(x.id)}
    <2>3. \/ \E r \in Rows : disk = NewStorage(r) \/ disk = LegacyStorage(r)
          \/ \E r \in Rows : disk \in {LegacyWithDelta(r, <<x>>) : x \in stored(r)}
      BY <1>1 DEF Init, InitialStorage
    <2> HIDE DEF stored
    <2> QED
      BY <2>1, <2>2, <2>3
  <1>5. OwnIds(disk)
    <2>1. CASE disk.layout = "legacy"
      BY <2>1 DEF OwnIds
    <2>2. ASSUME NEW rows \in Rows, disk = NewStorage(rows) PROVE OwnIds(disk)
      <3>1. disk.deltas = NoDeltas /\ disk.base = rows /\ disk.ids = Keys(rows)
        BY <2>2 DEF NewStorage
      <3>2. Content(disk) = rows
        BY <1>3, <3>1, BaseContent
      <3> QED
        BY <3>1, <3>2 DEF OwnIds
    <2> QED
      BY <1>4, <2>1, <2>2
  <1>6. ASSUME NEW c \in Connections PROVE ExactParts(c)
    <2>1. /\ view[c] = disk /\ mode[c] = "idle" /\ state[c] = OpenStorage(disk)
      BY <1>1 DEF Init
    <2>2. Extends(disk, disk) /\ CopyOf(OpenStorage(disk), disk, disk)
      BY <1>3, ExtendsOrder, OpenedCopy
    <2> QED
      BY <2>1, <2>2 DEF ExactParts
  <1> QED
    BY <1>2, <1>5, <1>6 DEF ExactInv, Exactness

LEMMA NextExact ==
  ASSUME PartialAfterBusy = FALSE, EarlyMarks <= 1, MinDeltaBase > 0
  PROVE  ExactInv /\ [Next]_vars => ExactInv'
PROOF
  <1>1. SUFFICES ASSUME ExactInv, [Next]_vars PROVE ExactInv'
    OBVIOUS
  <1>2. BudgetInv'
    BY <1>1, NextBudget DEF ExactInv
  <1>3. CASE UNCHANGED vars
    <2>1. Exactness'
      BY <1>1, <1>3 DEF vars, ExactInv, Exactness, ExactParts, OwnIds
    <2> QED
      BY <1>2, <2>1 DEF ExactInv
  <1>4. CASE Next
    <2>1. PICK c \in Connections :
            \/ Reopen(c) \/ BeginRead(c) \/ EndRead(c) \/ BeginWrite(c)
            \/ Search(c) \/ Scan(c) \/ CatchUpFails(c)
            \/ Enlist(c) \/ InsertRow(c) \/ DeleteRow(c)
            \/ OpenSavepoint(c) \/ ReleaseSavepoint(c)
            \/ RollbackToSavepoint(c) \/ RollbackToBegin(c)
            \/ OpenStatement(c) \/ CloseStatement(c) \/ AbortStatement(c)
            \/ Commit(c) \/ CommitFails(c) \/ Rollback(c)
      BY <1>4 DEF Next
    <2>2. Exactness'
      BY <1>1, <2>1, SnapshotExact, ReadExact, EnlistExact, WriteExact,
         PushMarkExact, ReleaseExact, RollbackToExact, AbortExact,
         CommitExact, RolledBackEndExact
    <2> QED
      BY <1>2, <2>2 DEF ExactInv
  <1> QED
    BY <1>1, <1>3, <1>4

(* No COMMIT changes the file and leaves its generation: if xSync wrote    *)
(* nothing there was nothing to write, and storage that differs from the   *)
(* committed one in _ids at most does not differ there either.             *)
LEMMA StepAdvances ==
  ASSUME MinDeltaBase > 0, ExactInv, Next, disk' # disk
  PROVE  disk'.generation > disk.generation
PROOF
  <1>1. PICK c \in Connections : Commit(c)
    BY DEF Next, Reopen, BeginRead, EndRead, BeginWrite, Search, Scan, CatchUpFails,
           Enlist, InsertRow, DeleteRow, Update, OpenSavepoint, ReleaseSavepoint,
           PushMark, ReleaseMark, RollbackToSavepoint, RollbackToBegin, OpenStatement,
           CloseStatement, AbortStatement, AbortTo, CommitFails, Rollback, Ended
  <1> DEFINE synced == Sync(state[c], view[c])
  <1>2. disk' = synced.s /\ synced.ok /\ Updating(c)
    BY <1>1 DEF Commit, CommitSynced, Ended
  <1>3. SyncLeaves(synced, state[c], view[c], disk)
    BY <1>2, CommitWorks
  <1> HIDE DEF synced
  <1>4. /\ view[c] \in Storage /\ disk \in Storage /\ ExactParts(c) /\ mode[c] = "write"
        /\ OwnIds(disk) /\ TypeOK
    BY <1>2, ExactFacts DEF Updating
  <1>5. PICK first : Accounted(view[c], first) /\ Accounted(disk, first)
    BY KeptParts DEF ExactInv, BudgetInv
  <1>6. SUFFICES ASSUME synced.s = view[c], synced.s.generation <= disk.generation
                 PROVE  FALSE
    <2>1. synced.s.generation \in Int /\ disk.generation \in Int
      BY <1>3, <1>4, GenerationType DEF SyncLeaves
    <2>2. \/ synced.s = view[c]
          \/ synced.s.generation > disk.generation
      BY <1>3 DEF SyncLeaves
    <2> QED
      BY <1>2, <2>1, <2>2
  <1>7. view[c].generation = disk.generation
    <2>1. disk.generation <= view[c].generation
      BY <1>3, <1>6 DEF SyncLeaves, Extends
    <2> QED
      BY <1>4, <1>6, <2>1, GenerationType
  <1>8. SameData(view[c], disk)
    BY <1>4, <1>7 DEF ExactParts, Writes
  <1>9. view[c].ids = disk.ids
    <2>1. view[c].layout = disk.layout /\ Content(view[c]) = Content(disk)
      BY <1>4, <1>8, SameDataFacts, SameImageExtends
    <2>2. CASE disk.layout = "current"
      BY <1>3, <1>4, <1>6, <2>1, <2>2 DEF SyncLeaves, OwnIds
    <2>3. CASE disk.layout # "current"
      BY <1>4, <1>5, <2>1, <2>3 DEF Accounted, Storage
    <2> QED
      BY <2>2, <2>3
  <1>10. view[c] = disk
    BY <1>4, <1>8, <1>9, SameDataFacts
  <1> QED
    BY <1>2, <1>6, <1>10

LEMMA ExactImplies ==
  ASSUME PartialAfterBusy = FALSE, ExactInv
  PROVE  TransactionIndexExact /\ GenerationIdentifiesCopy /\ RollbackNeverRefused
PROOF
  <1>1. TransactionIndexExact
    <2>1. SUFFICES ASSUME NEW c \in Connections,
                          state[c].index # None, state[c].txn # None
                   PROVE  /\ Keys(state[c].index)
                               = KeysAfter(Content(view[c]), Unsynced(state[c]))
                          /\ \A id \in Keys(state[c].index) :
                               Replay(Content(view[c]), Unsynced(state[c]))[id]
                                 \in {state[c].index[id], None}
      BY DEF TransactionIndexExact
    <2> DEFINE rows == state[c].index
               base == Content(view[c])
               us == Unsynced(state[c])
    <2>2. Exact(rows, base, us) /\ us \in Seq(Change)
      BY <2>1, ExactFacts, UnsyncedLog DEF Working
    <2> HIDE DEF rows, base, us
    <2>3. Keys(rows) = KeysAfter(base, us)
      BY <2>2, ExactKeys
    <2>4. ASSUME NEW id \in Keys(rows) PROVE Replay(base, us)[id] \in {rows[id], None}
      <3>1. id \in Rowid /\ rows[id] # None
        BY DEF Keys
      <3>2. Replay(base, us)[id] = IF Touching(us, id) = {} THEN base[id]
                                   ELSE us[LastTouch(us, id)].vector
        BY <3>1 DEF Replay
      <3>3. IF Touching(us, id) = {} THEN rows[id] = base[id]
            ELSE IF us[LastTouch(us, id)].op = "insert"
                 THEN us[LastTouch(us, id)].vector \in {rows[id], None}
                 ELSE rows[id] = None
        BY <2>2, <3>1 DEF Exact
      <3> QED
        BY <3>1, <3>2, <3>3
    <2> QED
      BY <2>3, <2>4 DEF rows, base, us
  <1>2. GenerationIdentifiesCopy
    <2>1. SUFFICES ASSUME NEW c \in Connections, state[c].index # None,
                          state[c].txn = None, state[c].generation = view[c].generation
                   PROVE  state[c].index = Content(view[c])
      BY DEF GenerationIdentifiesCopy
    <2>2. CopyOf(state[c], view[c], disk) /\ view[c] \in Storage
      BY <2>1, ExactFacts
    <2> QED
      BY <2>1, <2>2, OwnContent DEF CopyOf
  <1>3. RollbackNeverRefused
    <2>1. SUFFICES ASSUME NEW c \in Connections, Updating(c), PartialAllowed(c)
                   PROVE  /\ \A j \in 0 .. TopMark(c) : RollbackTo(state[c], j).ok
                          /\ RollbackToStart(state[c]).ok
      BY DEF RollbackNeverRefused
    <2>2. /\ enlisted[c] /\ mode[c] = "write" /\ view[c].generation = disk.generation
          /\ state[c] \in State /\ view[c] \in Storage /\ disk \in Storage
          /\ Working(state[c], view[c]) /\ ExactParts(c) /\ OwnIds(disk)
      BY <2>1, ExactFacts DEF Updating, PartialAllowed
    <2>3. \A j \in 0 .. TopMark(c) : RollbackTo(state[c], j).ok
      BY <2>2, MarkBack DEF GoneBack
    <2>4. RollbackToStart(state[c]).ok
      <3>1. SameData(view[c], disk) /\ Recoverable(state[c], Content(disk))
        BY <2>2 DEF ExactParts, Writes
      <3>2. SameData(disk, view[c]) /\ Content(view[c]) = Content(disk)
        BY <2>2, <3>1, SameDataFacts, SameImageExtends
      <3>3. disk.layout = "current" => disk.ids = Keys(Content(view[c]))
        BY <2>2, <3>2 DEF OwnIds
      <3> QED
        BY <2>2, <3>1, <3>2, <3>3, RollbackToStartWorks
    <2> QED
      BY <2>3, <2>4
  <1> QED
    BY <1>1, <1>2, <1>3

(* In a transaction a loaded index is the storage with the changes not yet *)
(* written on top - through every insert, replacement, checkpoint,         *)
(* savepoint, undo, busy COMMIT and upgrade - as long as neither ROLLBACK  *)
(* TO nor the rollback of a failed statement follows a busy COMMIT in its  *)
(* transaction, and SQLite announces the marks it may go back to.          *)
THEOREM TransactionIndexAlways ==
  ASSUME PartialAfterBusy = FALSE, EarlyMarks <= 1, MinDeltaBase > 0
  PROVE  Spec => []TransactionIndexExact
PROOF
  <1>1. Init => ExactInv
    BY InitExact
  <1>2. ExactInv /\ [Next]_vars => ExactInv'
    BY NextExact
  <1>3. ExactInv => TransactionIndexExact
    BY ExactImplies
  <1> QED
    BY <1>1, <1>2, <1>3, PTL DEF Spec

(* Outside a transaction a copy whose generation is the stored one is the  *)
(* stored image: the one comparison that refresh makes is enough, whatever *)
(* other connections committed, failed to commit or upgraded meanwhile.    *)
THEOREM GenerationIdentifiesAlways ==
  ASSUME PartialAfterBusy = FALSE, EarlyMarks <= 1, MinDeltaBase > 0
  PROVE  Spec => []GenerationIdentifiesCopy
PROOF
  <1>1. Init => ExactInv
    BY InitExact
  <1>2. ExactInv /\ [Next]_vars => ExactInv'
    BY NextExact
  <1>3. ExactInv => GenerationIdentifiesCopy
    BY ExactImplies
  <1> QED
    BY <1>1, <1>2, <1>3, PTL DEF Spec

(* xRollbackTo can always go back to every mark SQLite can name, and to    *)
(* the start: by the checkpoint, by undoing appends, or by dropping the    *)
(* index.                                                                  *)
THEOREM RollbackAlways ==
  ASSUME PartialAfterBusy = FALSE, EarlyMarks <= 1, MinDeltaBase > 0
  PROVE  Spec => []RollbackNeverRefused
PROOF
  <1>1. Init => ExactInv
    BY InitExact
  <1>2. ExactInv /\ [Next]_vars => ExactInv'
    BY NextExact
  <1>3. ExactInv => RollbackNeverRefused
    BY ExactImplies
  <1> QED
    BY <1>1, <1>2, <1>3, PTL DEF Spec

(* Storage that changed has a new generation: no commit, no busy one that  *)
(* was resumed, and no write that was undone in part, leaves it.           *)
THEOREM GenerationAlwaysAdvances ==
  ASSUME PartialAfterBusy = FALSE, EarlyMarks <= 1, MinDeltaBase > 0
  PROVE  Spec => GenerationAdvances
PROOF
  <1>1. Init => ExactInv
    BY InitExact
  <1>2. ExactInv /\ [Next]_vars => ExactInv'
    BY NextExact
  <1>3. ExactInv /\ [Next]_vars => [disk' # disk => disk'.generation > disk.generation]_disk
    BY StepAdvances DEF vars
  <1> QED
    BY <1>1, <1>2, <1>3, PTL DEF Spec, GenerationAdvances
=============================================================================
