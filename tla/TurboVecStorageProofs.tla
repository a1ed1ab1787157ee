----------------------- MODULE TurboVecStorageProofs -----------------------
(***************************************************************************)
(* Lemmas about the operators of TurboVecStorage: what each one returns,   *)
(* for every value of the constants.                                       *)
(***************************************************************************)
EXTENDS TurboVecStorage, SequenceTheorems, FiniteSetTheorems,
        WellFoundedInduction, TLAPS

(* A set of integers with a lower bound, or an upper bound, has a least,   *)
(* or a greatest, element.                                                 *)
LEMMA MinExists ==
  ASSUME NEW S, S \subseteq Nat, S # {}
  PROVE  \E x \in S : \A y \in S : x <= y
PROOF
  <1>1. PICK x \in S : \A y \in S : ~ (<<y, x>> \in OpToRel(<, Nat))
    BY NatLessThanWellFounded, WFMin
  <1>2. \A y \in S : ~ (y < x)
    BY <1>1 DEF OpToRel
  <1>3. x \in Nat /\ \A y \in S : y \in Nat
    BY <1>1
  <1>4. \A y \in S : x <= y
    BY <1>2, <1>3
  <1> QED
    BY <1>1, <1>4

LEMMA MaxExists ==
  ASSUME NEW S, NEW n \in Int, S \subseteq Int, S # {}, \A x \in S : x <= n
  PROVE  /\ Max(S) \in S
         /\ \A y \in S : y <= Max(S)
PROOF
  <1> DEFINE T == {n - x : x \in S}
  <1>1. T \subseteq Nat /\ T # {}
    OBVIOUS
  <1>2. PICK t \in T : \A u \in T : t <= u
    <2> HIDE DEF T
    <2> QED BY <1>1, MinExists
  <1>3. PICK x \in S : t = n - x
    OBVIOUS
  <1>4. \A y \in S : x >= y
    <2>1. TAKE y \in S
    <2>2. x \in Int /\ y \in Int /\ n - y \in T
      BY <1>3
    <2>3. t <= n - y
      BY <1>2, <2>2
    <2> QED
      BY <1>3, <2>2, <2>3
  <1>5. \E z \in S : \A y \in S : z >= y
    BY <1>3, <1>4
  <1> QED
    BY <1>5 DEF Max

LEMMA MaxInRange ==
  ASSUME NEW a \in Int, NEW b \in Int, NEW S, S \subseteq a .. b, S # {}
  PROVE  /\ Max(S) \in S
         /\ Max(S) \in a .. b
         /\ \A y \in S : y <= Max(S)
PROOF
  <1>1. S \subseteq Int /\ \A x \in S : x <= b
    OBVIOUS
  <1> QED
    BY <1>1, MaxExists
-----------------------------------------------------------------------------
(* The index and the log. *)

LEMMA CountOfKeys ==
  ASSUME NEW rows
  PROVE  Cardinality(Keys(rows)) \in Nat
PROOF
  BY SizeAssumption, FS_Subset, FS_CardinalityType DEF Keys

LEMMA ImageLenType ==
  ASSUME NEW rows
  PROVE  ImageLen(rows) \in Nat
PROOF
  BY CountOfKeys, SizeAssumption DEF ImageLen

LEMMA LogSets ==
  ASSUME NEW cs \in Seq(Change)
  PROVE  /\ DOMAIN cs = 1 .. Len(cs)
         /\ Len(cs) \in Nat
         /\ Cardinality(Inserts(cs)) \in Nat
         /\ Cardinality(DOMAIN cs \ Inserts(cs)) \in Nat
         /\ Cardinality({i \in Inserts(cs) : ~cs[i].replaces}) \in Nat
PROOF
  <1>1. DOMAIN cs = 1 .. Len(cs) /\ Len(cs) \in Nat
    OBVIOUS
  <1>2. IsFiniteSet(1 .. Len(cs))
    BY <1>1, FS_Interval
  <1>3. \A S \in SUBSET (1 .. Len(cs)) : Cardinality(S) \in Nat
    BY <1>2, FS_Subset, FS_CardinalityType
  <1> QED
    BY <1>1, <1>3 DEF Inserts

(* The last change to touch a rowid is one that touches it. *)
LEMMA LastTouchProperties ==
  ASSUME NEW cs \in Seq(Change), NEW id, Touching(cs, id) # {}
  PROVE  /\ LastTouch(cs, id) \in Touching(cs, id)
         /\ LastTouch(cs, id) \in 1 .. Len(cs)
         /\ \A j \in Touching(cs, id) : j <= LastTouch(cs, id)
PROOF
  <1> DEFINE T == Touching(cs, id)
  <1>1. T \subseteq 1 .. Len(cs) /\ T # {} /\ 1 \in Int /\ Len(cs) \in Int
    BY DEF Touching
  <1>2. Max(T) \in T /\ Max(T) \in 1 .. Len(cs) /\ \A j \in T : j <= Max(T)
    <2> HIDE DEF T
    <2> QED BY <1>1, MaxInRange
  <1> QED
    BY <1>2 DEF LastTouch

LEMMA ReplayType ==
  ASSUME NEW rows \in Rows, NEW cs \in Seq(Change)
  PROVE  Replay(rows, cs) \in Rows
PROOF
  <1>1. ASSUME NEW id \in Rowid, Touching(cs, id) # {}
        PROVE  cs[LastTouch(cs, id)].vector \in Vector \cup {None}
    <2>1. LastTouch(cs, id) \in 1 .. Len(cs)
      BY <1>1, LastTouchProperties
    <2>2. cs[LastTouch(cs, id)] \in Change
      BY <2>1
    <2> QED
      BY <2>2 DEF Change
  <1> QED
    BY <1>1 DEF Replay, Rows

LEMMA UndoInsertsType ==
  ASSUME NEW rows \in Rows, NEW cs
  PROVE  UndoInserts(rows, cs) \in Rows
PROOF
  BY DEF UndoInserts, Rows

LEMMA NetRowsType ==
  ASSUME NEW cs \in Seq(Change)
  PROVE  NetRows(cs) \in Int
PROOF
  BY LogSets DEF NetRows

LEMMA DeltaLenType ==
  ASSUME NEW cs \in Seq(Change)
  PROVE  DeltaLen(cs) \in Nat
PROOF
  <1> DEFINE n == Cardinality(Inserts(cs))
  <1>1. Len(cs) \in Nat /\ n \in Nat
    BY LogSets
  <1>2. \A a, b \in Nat : a * b \in Nat
    OBVIOUS
  <1>3. OpBytes * Len(cs) \in Nat /\ VectorBytes * n \in Nat
    BY <1>1, <1>2, SizeAssumption
  <1> QED
    BY <1>3, SizeAssumption DEF DeltaLen

LEMMA DecodedType ==
  ASSUME NEW cs \in Seq(Change)
  PROVE  /\ Decoded(cs) \in Seq(Change)
         /\ Len(Decoded(cs)) = Len(cs)
PROOF
  <1>1. DOMAIN cs = 1 .. Len(cs) /\ Len(cs) \in Nat
    OBVIOUS
  <1>2. ASSUME NEW i \in 1 .. Len(cs)
        PROVE  [cs[i] EXCEPT !.replaces = (cs[i].op = "insert")] \in Change
    <2>1. cs[i] \in Change
      OBVIOUS
    <2> QED
      BY <2>1 DEF Change
  <1>3. Decoded(cs) \in [1 .. Len(cs) -> Change]
    BY <1>1, <1>2 DEF Decoded
  <1> QED
    BY <1>1, <1>3
-----------------------------------------------------------------------------
(* The last change to an id is the one no later change to it follows.      *)
LEMMA LastTouchIs ==
  ASSUME NEW cs \in Seq(Change), NEW id, NEW i \in Touching(cs, id),
         \A j \in Touching(cs, id) : j <= i
  PROVE  LastTouch(cs, id) = i
PROOF
  <1>1. /\ LastTouch(cs, id) \in Touching(cs, id)
        /\ LastTouch(cs, id) \in 1 .. Len(cs)
        /\ i <= LastTouch(cs, id)
    BY LastTouchProperties
  <1>2. LastTouch(cs, id) <= i
    BY <1>1
  <1>3. i \in 1 .. Len(cs)
    BY DEF Touching
  <1> QED
    BY <1>1, <1>2, <1>3

(* A log cut at n, with its first part as storage gives it back.           *)
LEMMA CutLog ==
  ASSUME NEW cs \in Seq(Change), NEW n \in 0 .. Len(cs)
  PROVE  LET stored == Decoded(SubSeq(cs, 1, n))
             rest == SubSeq(cs, n + 1, Len(cs))
         IN  /\ stored \in Seq(Change) /\ Len(stored) = n
             /\ \A i \in 1 .. n : /\ stored[i].op = cs[i].op
                                  /\ stored[i].id = cs[i].id
                                  /\ stored[i].vector = cs[i].vector
             /\ rest \in Seq(Change) /\ Len(rest) = Len(cs) - n
             /\ \A i \in 1 .. Len(cs) - n : rest[i] = cs[n + i]
PROOF
  <1> DEFINE prefix == SubSeq(cs, 1, n)
             stored == Decoded(prefix)
             rest == SubSeq(cs, n + 1, Len(cs))
  <1>1. Len(cs) \in Nat /\ n \in Nat /\ n <= Len(cs)
    OBVIOUS
  <1>2. /\ prefix \in Seq(Change) /\ Len(prefix) = n
        /\ \A i \in 1 .. n : prefix[i] = cs[i]
    <2>1. \A i \in 1 .. n : cs[i] \in Change
      BY <1>1
    <2> QED
      BY <1>1, <2>1, SubSeqProperties
  <1>3. /\ rest \in Seq(Change) /\ Len(rest) = Len(cs) - n
        /\ \A i \in 1 .. Len(cs) - n : rest[i] = cs[n + i]
    <2>1. \A i \in n + 1 .. Len(cs) : cs[i] \in Change
      BY <1>1
    <2> QED
      BY <1>1, <2>1, SubSeqProperties
  <1>4. stored \in Seq(Change) /\ Len(stored) = n
    <2> HIDE DEF prefix
    <2> QED BY <1>2, DecodedType
  <1>5. ASSUME NEW i \in 1 .. n
        PROVE  /\ stored[i].op = cs[i].op
               /\ stored[i].id = cs[i].id
               /\ stored[i].vector = cs[i].vector
    <2>1. stored[i] = [prefix[i] EXCEPT !.replaces = (prefix[i].op = "insert")]
      <3> HIDE DEF prefix
      <3> QED BY <1>1, <1>2 DEF Decoded
    <2>2. cs[i] \in Change /\ prefix[i] = cs[i]
      BY <1>1, <1>2
    <2> QED
      BY <2>1, <2>2 DEF Change
  <1> QED
    BY <1>3, <1>4, <1>5

(* b continues a in cs, with the `replaces` of the first part forgotten.   *)
Splits(cs, a, b) ==
  /\ Len(cs) = Len(a) + Len(b)
  /\ \A i \in 1 .. Len(a) : /\ a[i].op = cs[i].op
                            /\ a[i].id = cs[i].id
                            /\ a[i].vector = cs[i].vector
  /\ \A i \in 1 .. Len(b) : b[i] = cs[Len(a) + i]

LEMMA SplitTouching ==
  ASSUME NEW cs \in Seq(Change), NEW a \in Seq(Change), NEW b \in Seq(Change),
         Splits(cs, a, b), NEW id
  PROVE  /\ Touching(a, id) = {i \in Touching(cs, id) : i <= Len(a)}
         /\ \A i \in Int : i \in Touching(b, id) <=>
                             Len(a) + i \in Touching(cs, id) /\ i >= 1
PROOF
  <1>1. DOMAIN cs = 1 .. Len(cs) /\ DOMAIN a = 1 .. Len(a) /\ DOMAIN b = 1 .. Len(b)
    OBVIOUS
  <1>2. Len(a) \in Nat /\ Len(b) \in Nat /\ Len(cs) \in Nat
    OBVIOUS
  <1>3. \A i \in 1 .. Len(a) : a[i].id = cs[i].id
    BY DEF Splits
  <1>4. \A i \in 1 .. Len(b) : b[i].id = cs[Len(a) + i].id
    BY DEF Splits
  <1>5. Len(cs) = Len(a) + Len(b)
    BY DEF Splits
  <1>6. /\ Touching(a, id) = {i \in 1 .. Len(a) : a[i].id = id}
        /\ Touching(b, id) = {i \in 1 .. Len(b) : b[i].id = id}
        /\ Touching(cs, id) = {i \in 1 .. Len(cs) : cs[i].id = id}
    BY <1>1 DEF Touching
  <1>7. Touching(a, id) = {i \in Touching(cs, id) : i <= Len(a)}
    BY <1>2, <1>3, <1>5, <1>6
  <1>8. ASSUME NEW i \in Int
        PROVE  i \in Touching(b, id) <=> Len(a) + i \in Touching(cs, id) /\ i >= 1
    <2>1. i \in 1 .. Len(b) <=> Len(a) + i \in 1 .. Len(cs) /\ i >= 1
      BY <1>2, <1>5
    <2> QED
      BY <1>4, <1>6, <2>1
  <1> QED
    BY <1>7, <1>8

(* The last change to an id in cs is the last one in b, else that in a.    *)
LEMMA SplitLastTouch ==
  ASSUME NEW cs \in Seq(Change), NEW a \in Seq(Change), NEW b \in Seq(Change),
         Splits(cs, a, b), NEW id
  PROVE  /\ Touching(b, id) # {} =>
              /\ Touching(cs, id) # {}
              /\ cs[LastTouch(cs, id)] = b[LastTouch(b, id)]
         /\ Touching(b, id) = {} /\ Touching(a, id) # {} =>
              /\ Touching(cs, id) # {}
              /\ cs[LastTouch(cs, id)].vector = a[LastTouch(a, id)].vector
              /\ cs[LastTouch(cs, id)].op = a[LastTouch(a, id)].op
         /\ Touching(b, id) = {} /\ Touching(a, id) = {} => Touching(cs, id) = {}
PROOF
  <1>1. Len(a) \in Nat /\ Len(b) \in Nat /\ Len(cs) \in Nat /\ Len(cs) = Len(a) + Len(b)
    BY DEF Splits
  <1>2. Touching(cs, id) \subseteq 1 .. Len(cs)
    BY DEF Touching
  <1>3. Touching(b, id) \subseteq 1 .. Len(b)
    BY DEF Touching
  <1>4. /\ Touching(a, id) = {i \in Touching(cs, id) : i <= Len(a)}
        /\ \A i \in Int : i \in Touching(b, id) <=>
                            Len(a) + i \in Touching(cs, id) /\ i >= 1
    BY SplitTouching
  <1>5. \A i \in Touching(cs, id) : i > Len(a) => i - Len(a) \in Touching(b, id)
    <2>1. SUFFICES ASSUME NEW i \in Touching(cs, id), i > Len(a)
                   PROVE  i - Len(a) \in Touching(b, id)
      OBVIOUS
    <2>2. i \in Int /\ i - Len(a) \in Int /\ Len(a) + (i - Len(a)) = i /\ i - Len(a) >= 1
      BY <1>1, <1>2, <2>1
    <2> QED
      BY <1>4, <2>1, <2>2
  <1>6. CASE Touching(b, id) # {}
    <2> DEFINE m == LastTouch(b, id)
    <2>1. m \in Touching(b, id) /\ m \in 1 .. Len(b) /\ \A j \in Touching(b, id) : j <= m
      BY <1>6, LastTouchProperties
    <2> HIDE DEF m
    <2>2. Len(a) + m \in Touching(cs, id)
      BY <1>4, <2>1
    <2>3. \A j \in Touching(cs, id) : j <= Len(a) + m
      BY <1>1, <1>2, <1>5, <2>1
    <2>4. LastTouch(cs, id) = Len(a) + m
      BY <2>2, <2>3, LastTouchIs
    <2>5. b[m] = cs[Len(a) + m]
      BY <2>1 DEF Splits
    <2> QED
      BY <1>6, <2>2, <2>4, <2>5 DEF m
  <1>7. CASE Touching(b, id) = {} /\ Touching(a, id) # {}
    <2> DEFINE m == LastTouch(a, id)
    <2>1. m \in Touching(a, id) /\ m \in 1 .. Len(a) /\ \A j \in Touching(a, id) : j <= m
      BY <1>7, LastTouchProperties
    <2> HIDE DEF m
    <2>2. m \in Touching(cs, id)
      BY <1>4, <2>1
    <2>3. \A j \in Touching(cs, id) : j <= m
      BY <1>1, <1>2, <1>4, <1>5, <1>7, <2>1
    <2>4. LastTouch(cs, id) = m
      BY <2>2, <2>3, LastTouchIs
    <2>5. a[m].vector = cs[m].vector /\ a[m].op = cs[m].op
      BY <2>1 DEF Splits
    <2> QED
      BY <1>7, <2>2, <2>4, <2>5 DEF m
  <1>8. CASE Touching(b, id) = {} /\ Touching(a, id) = {}
    BY <1>1, <1>2, <1>4, <1>5, <1>8
  <1> QED
    BY <1>6, <1>7, <1>8

LEMMA SplitReplay ==
  ASSUME NEW rows \in Rows, NEW cs \in Seq(Change), NEW a \in Seq(Change),
         NEW b \in Seq(Change), Splits(cs, a, b)
  PROVE  Replay(Replay(rows, a), b) = Replay(rows, cs)
PROOF
  <1>1. ASSUME NEW id \in Rowid
        PROVE  Replay(Replay(rows, a), b)[id] = Replay(rows, cs)[id]
    <2>1. Replay(rows, a)[id] = IF Touching(a, id) = {} THEN rows[id]
                                ELSE a[LastTouch(a, id)].vector
      BY DEF Replay
    <2>2. Replay(rows, cs)[id] = IF Touching(cs, id) = {} THEN rows[id]
                                 ELSE cs[LastTouch(cs, id)].vector
      BY DEF Replay
    <2>3. Replay(Replay(rows, a), b)[id] = IF Touching(b, id) = {} THEN Replay(rows, a)[id]
                                           ELSE b[LastTouch(b, id)].vector
      BY DEF Replay
    <2> QED
      BY <2>1, <2>2, <2>3, SplitLastTouch
  <1>2. Replay(Replay(rows, a), b) \in Rows /\ Replay(rows, cs) \in Rows
    BY ReplayType
  <1> QED
    BY <1>1, <1>2 DEF Rows

LEMMA MaxIs ==
  ASSUME NEW n \in Int, NEW S, S \subseteq 1 .. n, NEW m \in S, \A y \in S : y <= m
  PROVE  Max(S) = m
PROOF
  <1>1. S \subseteq Int /\ S # {} /\ \A x \in S : x <= n
    OBVIOUS
  <1>2. Max(S) \in S /\ \A y \in S : y <= Max(S)
    BY <1>1, MaxExists
  <1>3. Max(S) \in Int /\ m \in Int /\ Max(S) <= m /\ m <= Max(S)
    BY <1>1, <1>2
  <1> QED
    BY <1>3

(* A log that replays leaves rows on which its second part replays.        *)
LEMMA SplitReplayOK ==
  ASSUME NEW rows \in Rows, NEW cs \in Seq(Change), NEW a \in Seq(Change),
         NEW b \in Seq(Change), Splits(cs, a, b), ReplayOK(rows, cs)
  PROVE  ReplayOK(Replay(rows, a), b)
PROOF
  <1>1. Len(a) \in Nat /\ Len(b) \in Nat /\ Len(cs) \in Nat /\ Len(cs) = Len(a) + Len(b)
    BY DEF Splits
  <1>2. DOMAIN cs = 1 .. Len(cs) /\ DOMAIN b = 1 .. Len(b)
    OBVIOUS
  <1>3. SUFFICES ASSUME NEW i \in 1 .. Len(b)
                 PROVE  IF b[i].op = "insert" THEN b[i].vector # None
                        ELSE PresentAt(Replay(rows, a), b, i)
    BY <1>2 DEF ReplayOK
  <1> DEFINE k == Len(a) + i
             id == b[i].id
             inCs == {j \in Touching(cs, id) : j < k}
             inB == {j \in Touching(b, id) : j < i}
  <1>4. k \in 1 .. Len(cs) /\ k \in DOMAIN cs /\ b[i] = cs[k] /\ id \in Rowid
    <2>1. b[i] \in Change
      BY <1>2, <1>3
    <2>2. id \in Rowid
      BY <2>1 DEF Change
    <2>3. k \in 1 .. Len(cs)
      BY <1>1, <1>3
    <2> QED
      BY <1>2, <1>3, <2>2, <2>3 DEF Splits
  <1>5. IF cs[k].op = "insert" THEN cs[k].vector # None ELSE PresentAt(rows, cs, k)
    BY <1>4 DEF ReplayOK
  <1>6. CASE b[i].op = "insert"
    BY <1>4, <1>5, <1>6
  <1>7. CASE b[i].op # "insert"
    <2>1. IF inCs = {} THEN rows[id] # None ELSE cs[Max(inCs)].op = "insert"
      BY <1>4, <1>5, <1>7 DEF PresentAt
    <2>2. /\ Touching(a, id) = {j \in Touching(cs, id) : j <= Len(a)}
          /\ \A j \in Int : j \in Touching(b, id) <=>
                              Len(a) + j \in Touching(cs, id) /\ j >= 1
      BY SplitTouching
    <2>3. Touching(cs, id) \subseteq 1 .. Len(cs) /\ Touching(b, id) \subseteq 1 .. Len(b)
      BY DEF Touching
    <2>4. PresentAt(Replay(rows, a), b, i) <=>
            IF inB = {} THEN Replay(rows, a)[id] # None ELSE b[Max(inB)].op = "insert"
      BY DEF PresentAt
    <2> HIDE DEF k, id
    <2>5. \A j \in inCs : j > Len(a) => j - Len(a) \in inB
      <3>1. SUFFICES ASSUME NEW j \in inCs, j > Len(a) PROVE j - Len(a) \in inB
        OBVIOUS
      <3>2. /\ j \in Int /\ j - Len(a) \in Int /\ Len(a) + (j - Len(a)) = j
            /\ j - Len(a) >= 1 /\ j - Len(a) < i
        BY <1>1, <1>3, <2>3, <3>1 DEF k
      <3> QED
        BY <2>2, <3>1, <3>2
    <2>6. CASE inB # {}
      <3> DEFINE m == Max(inB)
      <3>1. inB \subseteq 1 .. Len(b)
        BY <2>3
      <3>2. m \in inB /\ m \in 1 .. Len(b) /\ \A j \in inB : j <= m
        <4>1. inB \subseteq Int /\ Len(b) \in Int /\ \A j \in inB : j <= Len(b)
          BY <1>1, <3>1
        <4> HIDE DEF inB
        <4>2. m \in inB /\ \A j \in inB : j <= m
          BY <1>1, <2>6, <4>1, MaxExists
        <4> QED
          BY <3>1, <4>2
      <3> HIDE DEF m
      <3>3. Len(a) + m \in inCs
        BY <1>1, <1>3, <2>2, <3>2 DEF k
      <3>4. \A j \in inCs : j <= Len(a) + m
        BY <1>1, <2>3, <2>5, <3>2
      <3>5. inCs \subseteq 1 .. Len(cs)
        BY <2>3
      <3> HIDE DEF inCs
      <3>6. Max(inCs) = Len(a) + m
        <4> DEFINE top == Len(a) + m
        <4>1. top \in inCs /\ \A j \in inCs : j <= top
          BY <3>3, <3>4
        <4>2. Len(cs) \in Int
          BY <1>1
        <4> HIDE DEF top
        <4>3. Max(inCs) = top
          BY <3>5, <4>1, <4>2, MaxIs
        <4> QED
          BY <4>3 DEF top
      <3>7. b[m] = cs[Len(a) + m]
        BY <3>2 DEF Splits
      <3> QED
        BY <1>7, <2>1, <2>4, <2>6, <3>3, <3>6, <3>7 DEF m
    <2>7. CASE inB = {}
      <3>1. inCs = Touching(a, id)
        BY <1>1, <1>3, <2>2, <2>3, <2>5, <2>7 DEF k
      <3>2. Replay(rows, a)[id] = IF Touching(a, id) = {} THEN rows[id]
                                  ELSE a[LastTouch(a, id)].vector
        BY <1>4 DEF Replay
      <3>3. Touching(a, id) # {} => a[LastTouch(a, id)].vector # None
        <4>1. SUFFICES ASSUME Touching(a, id) # {}
                       PROVE  a[LastTouch(a, id)].vector # None
          OBVIOUS
        <4> DEFINE m == Max(inCs)
        <4>2. m = LastTouch(a, id) /\ cs[m].op = "insert"
          BY <2>1, <3>1, <4>1 DEF LastTouch
        <4>3. m \in 1 .. Len(a)
          BY <4>1, <4>2, LastTouchProperties
        <4>4. m \in DOMAIN cs
          BY <1>1, <1>2, <4>3
        <4> HIDE DEF m
        <4>5. cs[m].vector # None
          BY <4>2, <4>4 DEF ReplayOK
        <4>6. a[m].vector = cs[m].vector
          BY <4>3 DEF Splits
        <4> QED
          BY <4>2, <4>5, <4>6
      <3> QED
        BY <1>7, <2>1, <2>4, <2>7, <3>1, <3>2, <3>3
    <2> QED
      BY <2>6, <2>7
  <1> QED
    BY <1>6, <1>7
-----------------------------------------------------------------------------
(* The shadow tables. *)

LEMMA BaseBytesType ==
  ASSUME NEW s \in Storage
  PROVE  BaseBytes(s) \in Nat
PROOF
  BY DEF BaseBytes, HasDeltas, Storage

LEMMA StoredBatch ==
  ASSUME NEW s \in Storage, NEW d \in Stored(s)
  PROVE  /\ s.deltas[d] \in Batch
         /\ s.deltas[d].changes \in Seq(Change)
         /\ s.deltas[d].bytes \in Nat
         /\ s.deltas[d].ops \in Nat
PROOF
  <1>1. d \in Generation /\ s.deltas[d] # None /\ s.deltas \in [Generation -> Batch \cup {None}]
    BY DEF Stored, Storage, Deltas
  <1>2. s.deltas[d] \in Batch
    BY <1>1
  <1> QED
    BY <1>2 DEF Batch

(* The greatest generation of a set of stored batches is one of them.      *)
LEMMA LatestOf ==
  ASSUME NEW s, NEW G, G \subseteq Stored(s), G # {}
  PROVE  /\ Max(G) \in G
         /\ Max(G) \in Generation
         /\ \A d \in G : d <= Max(G)
PROOF
  <1>1. G \subseteq 0 .. MaxGeneration
    BY DEF Stored, Generation
  <1>2. 0 \in Int /\ MaxGeneration \in Int
    BY SizeAssumption
  <1> QED
    BY <1>1, <1>2, MaxInRange DEF Generation

LEMMA UpToType ==
  ASSUME NEW s \in Storage, NEW g
  PROVE  BytesUpTo(s, g) \in Nat /\ OpsUpTo(s, g) \in Nat
PROOF
  <1> DEFINE G == {d \in Stored(s) : d <= g}
  <1>1. G # {} => Max(G) \in Stored(s)
    <2>1. G \subseteq Stored(s)
      OBVIOUS
    <2> HIDE DEF G
    <2> QED BY <2>1, LatestOf
  <1>2. G # {} => s.deltas[Max(G)].bytes \in Nat /\ s.deltas[Max(G)].ops \in Nat
    BY <1>1, StoredBatch
  <1> QED
    BY <1>2 DEF BytesUpTo, OpsUpTo

LEMMA ReplayDeltasType ==
  ASSUME NEW rows \in Rows, NEW s \in Storage, NEW g, NEW h
  PROVE  ReplayDeltas(rows, s, g, h) \in Rows
PROOF
  <1> DEFINE T(id) == {d \in DeltasAfter(s, g) :
                         d <= h /\ Touching(s.deltas[d].changes, id) # {}}
             L(id) == s.deltas[Max(T(id))].changes
  <1>1. ASSUME NEW id \in Rowid, T(id) # {}
        PROVE  L(id)[LastTouch(L(id), id)].vector \in Vector \cup {None}
    <2>1. T(id) \subseteq Stored(s)
      BY DEF DeltasAfter
    <2>2. Max(T(id)) \in T(id)
      BY <1>1, <2>1, LatestOf
    <2>3. L(id) \in Seq(Change) /\ Touching(L(id), id) # {}
      BY <2>1, <2>2, StoredBatch
    <2> HIDE DEF L
    <2>4. LastTouch(L(id), id) \in 1 .. Len(L(id))
      BY <2>3, LastTouchProperties
    <2>5. L(id)[LastTouch(L(id), id)] \in Change
      BY <2>3, <2>4
    <2> QED
      BY <2>5 DEF Change
  <1>2. \A id \in Rowid : rows[id] \in Vector \cup {None}
    BY DEF Rows
  <1>3. ReplayDeltas(rows, s, g, h) =
          [id \in Rowid |-> IF T(id) = {} THEN rows[id]
                            ELSE L(id)[LastTouch(L(id), id)].vector]
    BY DEF ReplayDeltas
  <1> QED
    <2> HIDE DEF T, L
    <2> QED BY <1>1, <1>2, <1>3 DEF Rows

(* Replaying the deltas up to g, and from there the newer ones, is the same *)
(* as replaying all of them.                                               *)
LEMMA ReplayDeltasCompose ==
  ASSUME NEW rows \in Rows, NEW s \in Storage, NEW f \in Int, NEW g \in Int,
         NEW h \in Int, f <= g, g <= h
  PROVE  ReplayDeltas(ReplayDeltas(rows, s, f, g), s, g, h) = ReplayDeltas(rows, s, f, h)
PROOF
  <1> DEFINE T(id, x, y) == {d \in DeltasAfter(s, x) :
                              d <= y /\ Touching(s.deltas[d].changes, id) # {}}
             after(id, d) == s.deltas[d].changes[LastTouch(s.deltas[d].changes, id)].vector
             middle == ReplayDeltas(rows, s, f, g)
  <1>1. \A r, x, y : \A id \in Rowid :
          ReplayDeltas(r, s, x, y)[id] =
            IF T(id, x, y) = {} THEN r[id] ELSE after(id, Max(T(id, x, y)))
    BY DEF ReplayDeltas
  <1>2. ASSUME NEW id \in Rowid
        PROVE  ReplayDeltas(middle, s, g, h)[id] = ReplayDeltas(rows, s, f, h)[id]
    <2>1. Stored(s) \subseteq Int
      BY DEF Stored, Generation
    <2>2. /\ T(id, f, g) \subseteq Stored(s) /\ T(id, g, h) \subseteq Stored(s)
          /\ T(id, f, h) \subseteq Stored(s)
      BY DEF DeltasAfter
    <2>3. T(id, f, h) = T(id, f, g) \cup T(id, g, h)
      BY <2>1 DEF DeltasAfter
    <2>4. \A d \in T(id, f, g) : \A e \in T(id, g, h) : d < e
      BY <2>1 DEF DeltasAfter
    <2>5. T(id, g, h) # {} => Max(T(id, f, h)) = Max(T(id, g, h))
      <3> DEFINE U == T(id, g, h)
                 W == T(id, f, h)
                 V == T(id, f, g)
      <3>1. SUFFICES ASSUME U # {} PROVE Max(W) = Max(U)
        OBVIOUS
      <3>2. U \subseteq Stored(s) /\ W \subseteq Stored(s) /\ W = V \cup U
            /\ \A d \in V : \A e \in U : d < e
        BY <2>2, <2>3, <2>4
      <3> HIDE DEF U, V, W
      <3>3. Max(U) \in U /\ \A d \in U : d <= Max(U)
        BY <3>1, <3>2, LatestOf
      <3>4. Max(W) \in W /\ \A d \in W : d <= Max(W)
        BY <3>1, <3>2, LatestOf
      <3>5. Max(U) \in Int /\ Max(W) \in Int
        BY <2>1, <3>2, <3>3, <3>4
      <3>6. Max(U) <= Max(W) /\ Max(W) <= Max(U)
        BY <3>2, <3>3, <3>4, <3>5
      <3> QED
        BY <3>5, <3>6
    <2> HIDE DEF T, after, middle
    <2>6. /\ middle[id] = IF T(id, f, g) = {} THEN rows[id]
                           ELSE after(id, Max(T(id, f, g)))
          /\ ReplayDeltas(middle, s, g, h)[id] =
               IF T(id, g, h) = {} THEN middle[id] ELSE after(id, Max(T(id, g, h)))
          /\ ReplayDeltas(rows, s, f, h)[id] =
               IF T(id, f, h) = {} THEN rows[id] ELSE after(id, Max(T(id, f, h)))
      <3>1. middle[id] = IF T(id, f, g) = {} THEN rows[id]
                         ELSE after(id, Max(T(id, f, g)))
        BY <1>1 DEF middle
      <3>2. ReplayDeltas(middle, s, g, h)[id] =
              IF T(id, g, h) = {} THEN middle[id] ELSE after(id, Max(T(id, g, h)))
        BY <1>1
      <3>3. ReplayDeltas(rows, s, f, h)[id] =
              IF T(id, f, h) = {} THEN rows[id] ELSE after(id, Max(T(id, f, h)))
        BY <1>1
      <3> QED
        BY <3>1, <3>2, <3>3
    <2>7. CASE T(id, g, h) = {}
      <3>1. T(id, f, h) = T(id, f, g)
        BY <2>3, <2>7
      <3> QED
        BY <2>6, <2>7, <3>1
    <2>8. CASE T(id, g, h) # {}
      BY <2>3, <2>5, <2>6, <2>8
    <2> QED
      BY <2>7, <2>8
  <1>3. /\ ReplayDeltas(middle, s, g, h) \in Rows
        /\ ReplayDeltas(rows, s, f, h) \in Rows
    BY ReplayDeltasType
  <1> QED
    BY <1>2, <1>3 DEF Rows

LEMMA ContentType ==
  ASSUME NEW s \in Storage
  PROVE  Content(s) \in Rows
PROOF
  BY ReplayDeltasType DEF Content, Storage

(* The writes of a commit leave storage.                                   *)
LEMMA RecordCompactionType ==
  ASSUME NEW s \in Storage, NEW rows \in Rows, NEW g \in Generation,
         NEW byteLen \in Nat, NEW rowCount \in Nat
  PROVE  RecordCompaction(WriteIndex(s, rows), g, byteLen, rowCount) \in Storage
PROOF
  <1>1. NoDeltas \in Deltas
    BY DEF NoDeltas, Deltas
  <1>2. WriteIndex(s, rows) \in Storage
    BY <1>1 DEF WriteIndex, Storage
  <1>3. byteLen \in Int /\ 0 \in Int
    OBVIOUS
  <1> QED
    BY <1>2, <1>3 DEF RecordCompaction, Storage

LEMMA BatchType ==
  ASSUME NEW s \in Storage, NEW cs \in Seq(Change)
  PROVE  BatchOf(s, cs) \in Batch
PROOF
  <1>1. Len(cs) \in Nat
    OBVIOUS
  <1>2. BytesUpTo(s, MaxGeneration) + DeltaLen(cs) \in Nat
    BY UpToType, DeltaLenType
  <1>3. OpsUpTo(s, MaxGeneration) + Len(cs) \in Nat
    BY UpToType, <1>1
  <1> QED
    BY <1>2, <1>3, DecodedType DEF BatchOf, Batch

LEMMA WriteDeltaType ==
  ASSUME NEW s \in Storage, NEW g \in Generation, NEW cs \in Seq(Change)
  PROVE  WriteDelta(s, g, cs) \in Storage
PROOF
  <1>1. [s.deltas EXCEPT ![g] = BatchOf(s, cs)] \in Deltas
    BY BatchType DEF Storage, Deltas
  <1> QED
    BY <1>1 DEF WriteDelta, Storage

LEMMA RecordDeltaType ==
  ASSUME NEW s \in Storage, NEW g \in Generation, NEW rowCount \in Nat,
         NEW deltaBytes \in Int, NEW deltaOps \in Int
  PROVE  RecordDelta(s, g, rowCount, deltaBytes, deltaOps) \in Storage
PROOF
  <1> DEFINE length == IF s.byteLen >= 0 THEN -s.byteLen - 1 ELSE s.byteLen
  <1>1. length \in Int
    BY DEF Storage
  <1>2. RecordDelta(s, g, rowCount, deltaBytes, deltaOps) =
          [s EXCEPT !.generation = g, !.byteLen = length, !.rowCount = rowCount,
                    !.deltaBytes = deltaBytes, !.deltaOps = deltaOps]
    BY DEF RecordDelta
  <1> HIDE DEF length
  <1> QED
    BY <1>1, <1>2 DEF Storage

LEMMA UpgradedType ==
  ASSUME NEW s \in Storage, NEW g \in Generation, NEW rows, NEW rowCount \in Nat,
         NEW deltaBytes \in Int, NEW deltaOps \in Int
  PROVE  Upgraded(s, g, rows, rowCount, deltaBytes, deltaOps) \in Storage
PROOF
  BY DEF Upgraded, Storage, Keys

(* The tables a database may start with.                                   *)
LEMMA NewStorageType ==
  ASSUME NEW rows \in Rows, MaxGeneration >= 1
  PROVE  NewStorage(rows) \in Storage /\ LegacyStorage(rows) \in Storage
PROOF
  <1>1. 0 \in Generation /\ 1 \in Generation
    BY SizeAssumption DEF Generation
  <1>2. NoDeltas \in Deltas
    BY DEF NoDeltas, Deltas
  <1>3. NewStorage(rows) \in Storage
    BY <1>1, <1>2, ImageLenType, CountOfKeys DEF NewStorage, Storage, Keys
  <1> QED
    BY <1>3 DEF LegacyStorage, Storage

LEMMA LegacyWithDeltaType ==
  ASSUME NEW rows \in Rows, NEW cs \in Seq(Change), MaxGeneration >= 2
  PROVE  LegacyWithDelta(rows, cs) \in Storage
PROOF
  <1>1. 2 \in Generation
    BY SizeAssumption DEF Generation
  <1>2. MaxGeneration >= 1
    BY SizeAssumption
  <1>3. WriteDelta(LegacyStorage(rows), 2, cs) \in Storage
    BY <1>1, <1>2, NewStorageType, WriteDeltaType
  <1> DEFINE w == WriteDelta(LegacyStorage(rows), 2, cs)
  <1>4. -w.byteLen - 1 \in Int
    BY <1>3 DEF Storage
  <1>5. LegacyWithDelta(rows, cs) =
          [w EXCEPT !.generation = 2, !.byteLen = -w.byteLen - 1]
    BY DEF LegacyWithDelta
  <1>6. w \in Storage
    BY <1>3
  <1> HIDE DEF w
  <1> DEFINE length == -w.byteLen - 1
  <1>7. [w EXCEPT !.generation = 2, !.byteLen = length] \in Storage
    <2>1. length \in Int
      BY <1>4
    <2> HIDE DEF length
    <2> QED BY <1>1, <1>6, <2>1 DEF Storage
  <1> QED
    BY <1>5, <1>7
-----------------------------------------------------------------------------
(* The row count of a log. *)

LEMMA FiniteKeys ==
  ASSUME NEW S, S \subseteq Rowid
  PROVE  IsFiniteSet(S) /\ Cardinality(S) \in Nat
PROOF
  BY FS_Subset, FS_CardinalityType, SizeAssumption

(* One more change: what it adds to the count of rows is what it adds to   *)
(* the rows.                                                               *)
LEMMA NetOfOneMore ==
  ASSUME NEW cs \in Seq(Change), NEW x \in Change
  PROVE  NetRows(Append(cs, x)) =
           IF x.op = "delete" THEN NetRows(cs) - 1
           ELSE IF x.replaces THEN NetRows(cs) ELSE NetRows(cs) + 1
PROOF
  <1> DEFINE n == Len(cs) + 1
             more == Append(cs, x)
             Added(s) == {i \in Inserts(s) : ~s[i].replaces}
             Removed(s) == DOMAIN s \ Inserts(s)
  <1>1. /\ DOMAIN cs = 1 .. Len(cs) /\ Len(cs) \in Nat /\ DOMAIN more = 1 .. n
        /\ more[n] = x /\ \A i \in 1 .. Len(cs) : more[i] = cs[i]
    OBVIOUS
  <1>2. IsFiniteSet(Added(cs)) /\ IsFiniteSet(Removed(cs)) /\ n \notin Added(cs)
        /\ n \notin Removed(cs)
    <2>1. IsFiniteSet(1 .. Len(cs))
      BY <1>1, FS_Interval
    <2>2. Added(cs) \subseteq 1 .. Len(cs) /\ Removed(cs) \subseteq 1 .. Len(cs)
      BY <1>1 DEF Inserts
    <2>3. n \notin 1 .. Len(cs)
      BY <1>1
    <2> QED
      BY <2>1, <2>2, <2>3, FS_Subset
  <1>3. x.op \in {"insert", "delete"} /\ x.replaces \in BOOLEAN
    BY DEF Change
  <1> HIDE DEF more, n
  <1>4. DOMAIN more = DOMAIN cs \cup {n} /\ n \notin DOMAIN cs
    BY <1>1 DEF n
  <1>5. Inserts(more) = IF x.op = "insert" THEN Inserts(cs) \cup {n} ELSE Inserts(cs)
    BY <1>1, <1>4 DEF Inserts
  <1>6. Inserts(cs) \subseteq DOMAIN cs
    BY DEF Inserts
  <1>7. Added(more) = IF x.op = "insert" /\ ~x.replaces THEN Added(cs) \cup {n} ELSE Added(cs)
    BY <1>1, <1>4, <1>5, <1>6
  <1>8. Removed(more) = IF x.op = "insert" THEN Removed(cs) ELSE Removed(cs) \cup {n}
    BY <1>4, <1>5, <1>6
  <1>9. /\ NetRows(cs) = Cardinality(Added(cs)) - Cardinality(Removed(cs))
        /\ NetRows(more) = Cardinality(Added(more)) - Cardinality(Removed(more))
    BY DEF NetRows
  <1>10. /\ Cardinality(Added(cs) \cup {n}) = Cardinality(Added(cs)) + 1
         /\ Cardinality(Removed(cs) \cup {n}) = Cardinality(Removed(cs)) + 1
         /\ Cardinality(Added(cs)) \in Nat /\ Cardinality(Removed(cs)) \in Nat
    BY <1>2, FS_AddElement, FS_CardinalityType
  <1> HIDE DEF Added, Removed
  <1> QED
    BY <1>3, <1>7, <1>8, <1>9, <1>10 DEF more
=============================================================================
