------------------------- MODULE TurboVecLogProofs -------------------------
(***************************************************************************)
(* What reloading and catching up rest on, for logs of every length: a log *)
(* replays in two parts as it does in one, wherever it is cut; undoing the *)
(* appends at its end gives the rows from before them; the closed forms    *)
(* the other modules use do what the loops of the code do; the BLOB        *)
(* functions and turbovec_build make of a blob what the table makes of the *)
(* index in it; and a delta batch is read back as it was written.          *)
(***************************************************************************)
EXTENDS TurboVecCodec, TurboVecBlob, TurboVecStorageProofs

(* What is written in a log: changes, and no vector with a delete.         *)
DeletesBare(cs) == \A i \in DOMAIN cs : cs[i].op = "delete" => cs[i].vector = None
LogTypeOK == start \in Rows /\ log \in Seq(Change) /\ DeletesBare(log)

LEMMA AppendBare ==
  ASSUME NEW cs \in Seq(Change), DeletesBare(cs), NEW change \in Change,
         change.op = "delete" => change.vector = None
  PROVE  Append(cs, change) \in Seq(Change) /\ DeletesBare(Append(cs, change))
PROOF
  <1> DEFINE log2 == Append(cs, change)
  <1>1. /\ log2 \in Seq(Change) /\ Len(log2) = Len(cs) + 1 /\ Len(cs) \in Nat
        /\ \A i \in 1 .. Len(cs) : log2[i] = cs[i]
        /\ log2[Len(cs) + 1] = change
    OBVIOUS
  <1>2. DOMAIN log2 = 1 .. Len(cs) + 1 /\ DOMAIN cs = 1 .. Len(cs)
    BY <1>1
  <1> HIDE DEF log2
  <1>3. ASSUME NEW i \in DOMAIN log2, log2[i].op = "delete"
        PROVE  log2[i].vector = None
    <2>1. i \in 1 .. Len(cs) \/ i = Len(cs) + 1
      BY <1>1, <1>2
    <2> QED
      BY <1>1, <1>2, <1>3, <2>1 DEF DeletesBare
  <1>4. DeletesBare(log2)
    BY <1>3 DEF DeletesBare
  <1> QED
    BY <1>1, <1>4 DEF log2

LEMMA LogTypeCorrect == LogSpec => []LogTypeOK
PROOF
  <1>1. LogInit => LogTypeOK
    BY DEF LogInit, LogTypeOK, DeletesBare
  <1>2. LogTypeOK /\ [LogNext]_logVars => LogTypeOK'
    <2>1. SUFFICES ASSUME LogTypeOK, [LogNext]_logVars PROVE LogTypeOK'
      OBVIOUS
    <2>2. CASE UNCHANGED logVars
      BY <2>1, <2>2 DEF logVars, LogTypeOK
    <2>3. CASE AppendInsert /\ UNCHANGED start
      <3>1. PICK id \in Rowid, vector \in Vector \cup {None}, replaces \in BOOLEAN :
              log' = Append(log, InsertOf(id, vector, replaces))
        BY <2>3 DEF AppendInsert
      <3> DEFINE change == InsertOf(id, vector, replaces)
      <3>2. change \in Change /\ change.op # "delete"
        BY DEF InsertOf, Change
      <3> HIDE DEF change
      <3>3. log' = Append(log, change)
        BY <3>1 DEF change
      <3> QED
        BY <2>1, <2>3, <3>2, <3>3, AppendBare DEF LogTypeOK
    <2>4. CASE AppendDelete /\ UNCHANGED start
      <3>1. PICK id \in Rowid : log' = Append(log, DeleteOf(id))
        BY <2>4 DEF AppendDelete
      <3>2. DeleteOf(id) \in Change /\ DeleteOf(id).vector = None
        BY DEF DeleteOf, Change
      <3> QED
        BY <2>1, <2>4, <3>1, <3>2, AppendBare DEF LogTypeOK
    <2> QED
      BY <2>1, <2>2, <2>3, <2>4 DEF LogNext
  <1> QED
    BY <1>1, <1>2, PTL DEF LogSpec
-----------------------------------------------------------------------------
(* A reload replays what is in storage and then what is not written yet.   *)
(* However long the log and wherever xSync cut it, that is the same as     *)
(* replaying the log at once (ensure_loaded, catch_up).                    *)
THEOREM ReplayComposesAlways == LogSpec => []ReplayComposes
PROOF
  <1>1. LogTypeOK => ReplayComposes
    <2>1. SUFFICES ASSUME LogTypeOK, ReplayOK(start, log), NEW n \in 0 .. Len(log)
                   PROVE  LET stored == Decoded(SubSeq(log, 1, n))
                              rest == SubSeq(log, n + 1, Len(log))
                          IN  /\ ReplayOK(Replay(start, stored), rest)
                              /\ Replay(Replay(start, stored), rest) = Replay(start, log)
      BY DEF ReplayComposes
    <2> DEFINE stored == Decoded(SubSeq(log, 1, n))
               rest == SubSeq(log, n + 1, Len(log))
    <2>2. start \in Rows /\ log \in Seq(Change)
      BY <2>1 DEF LogTypeOK
    <2>3. stored \in Seq(Change) /\ rest \in Seq(Change) /\ Splits(log, stored, rest)
      <3>1. /\ stored \in Seq(Change) /\ Len(stored) = n
            /\ \A i \in 1 .. n : /\ stored[i].op = log[i].op
                                 /\ stored[i].id = log[i].id
                                 /\ stored[i].vector = log[i].vector
            /\ rest \in Seq(Change) /\ Len(rest) = Len(log) - n
            /\ \A i \in 1 .. Len(log) - n : rest[i] = log[n + i]
        BY <2>1, <2>2, CutLog
      <3>2. Len(log) \in Nat /\ n \in Int
        BY <2>2
      <3> HIDE DEF stored, rest
      <3>3. Len(log) = Len(stored) + Len(rest)
        BY <3>1, <3>2
      <3> QED
        BY <3>1, <3>3 DEF Splits
    <2> HIDE DEF stored, rest
    <2>4. /\ ReplayOK(Replay(start, stored), rest)
          /\ Replay(Replay(start, stored), rest) = Replay(start, log)
      BY <2>1, <2>2, <2>3, SplitReplay, SplitReplayOK
    <2> QED
      BY <2>4 DEF stored, rest
  <1> QED
    BY <1>1, LogTypeCorrect, PTL
-----------------------------------------------------------------------------
(* Undoing appends.  Of a truthful log whose second part only appends, an  *)
(* id occurs in the second part at most once, and is not there before it.  *)

LEMMA AppendsAreNew ==
  ASSUME LogTypeOK, Truthful, NEW a \in Seq(Change), NEW b \in Seq(Change),
         Splits(log, a, b), AppendOnly(b), NEW i \in 1 .. Len(b)
  PROVE  /\ \A j \in Touching(b, b[i].id) : j <= i
         /\ Replay(start, a)[b[i].id] = None
PROOF
  <1> DEFINE id == b[i].id
             before(k) == {j \in Touching(log, id) : j < k}
  <1>1. start \in Rows /\ log \in Seq(Change) /\ DeletesBare(log)
    BY DEF LogTypeOK
  <1>2. Len(a) \in Nat /\ Len(b) \in Nat /\ Len(log) \in Nat /\ Len(log) = Len(a) + Len(b)
    BY <1>1 DEF Splits
  <1>3. DOMAIN log = 1 .. Len(log) /\ DOMAIN b = 1 .. Len(b)
    BY <1>1
  <1>4. id \in Rowid
    <2>1. b[i] \in Change
      BY <1>3
    <2> QED
      BY <2>1 DEF Change
  <1>5. /\ Touching(a, id) = {j \in Touching(log, id) : j <= Len(a)}
        /\ \A j \in Int : j \in Touching(b, id) <=>
                            Len(a) + j \in Touching(log, id) /\ j >= 1
    BY <1>1, SplitTouching
  <1>6. Touching(log, id) \subseteq 1 .. Len(log) /\ Touching(b, id) \subseteq 1 .. Len(b)
    BY <1>3 DEF Touching
  <1>7. ASSUME NEW j \in Touching(b, id)
        PROVE  LET E == before(Len(a) + j)
               IN  IF E = {} THEN start[id] = None ELSE log[Max(E)].op # "insert"
    <2> DEFINE k == Len(a) + j
    <2>1. k \in DOMAIN log /\ log[k] = b[j] /\ log[k].id = id
      BY <1>2, <1>3, <1>6, <1>7 DEF Splits, Touching
    <2>2. log[k].op = "insert" /\ ~log[k].replaces
      BY <1>3, <1>6, <1>7, <2>1 DEF AppendOnly
    <2>3. log[k].replaces = PresentAt(start, log, k)
      BY <2>1, <2>2 DEF Truthful
    <2>4. PresentAt(start, log, k) <=>
            IF before(k) = {} THEN start[id] # None ELSE log[Max(before(k))].op = "insert"
      BY <2>1 DEF PresentAt
    <2> HIDE DEF k, before, id
    <2>5. ~PresentAt(start, log, k)
      BY <2>2, <2>3
    <2> QED
      BY <2>4, <2>5 DEF k
  <1>8. ASSUME NEW g \in Touching(b, id), NEW h \in Touching(b, id), g < h
        PROVE  FALSE
    <2> DEFINE E == before(Len(a) + h)
               m == Max(E)
    <2>1. Len(a) + g \in E
      BY <1>2, <1>5, <1>6, <1>8
    <2>2. E \subseteq Int /\ Len(log) \in Int /\ \A j \in E : j <= Len(log)
      BY <1>2, <1>6
    <2>3. m \in E /\ Len(a) + g <= m
      <3> HIDE DEF E
      <3> QED BY <2>1, <2>2, MaxExists
    <2>4. log[m].op # "insert"
      BY <1>7, <1>8, <2>1
    <2> HIDE DEF m
    <2>5. m \in 1 .. Len(log) /\ m > Len(a)
      BY <1>2, <1>6, <1>8, <2>3
    <2>6. m - Len(a) \in 1 .. Len(b) /\ Len(a) + (m - Len(a)) = m
      BY <1>2, <2>5
    <2>7. b[m - Len(a)] = log[m]
      BY <2>6 DEF Splits
    <2> QED
      BY <1>3, <2>4, <2>6, <2>7 DEF AppendOnly
  <1>9. i \in Touching(b, id)
    BY <1>3 DEF Touching
  <1>10. \A j \in Touching(b, id) : j <= i
    BY <1>6, <1>8, <1>9
  <1>11. Replay(start, a)[id] = None
    <2> DEFINE E == before(Len(a) + i)
    <2>1. ASSUME NEW j \in E PROVE j <= Len(a)
      <3>1. SUFFICES ASSUME j > Len(a) PROVE FALSE
        BY <1>2, <1>6, <2>1
      <3>2. /\ j \in Int /\ j - Len(a) \in Int /\ Len(a) + (j - Len(a)) = j
            /\ j - Len(a) >= 1 /\ j - Len(a) < i
        BY <1>2, <1>6, <2>1, <3>1
      <3>3. j - Len(a) \in Touching(b, id)
        BY <1>5, <2>1, <3>2
      <3> QED
        BY <1>8, <1>9, <3>2, <3>3
    <2>2. E = Touching(a, id)
      BY <1>2, <1>5, <1>6, <2>1
    <2>3. IF E = {} THEN start[id] = None ELSE log[Max(E)].op # "insert"
      BY <1>7, <1>9
    <2>4. Replay(start, a)[id] = IF Touching(a, id) = {} THEN start[id]
                                 ELSE a[LastTouch(a, id)].vector
      BY <1>4 DEF Replay
    <2>5. CASE Touching(a, id) = {}
      BY <2>2, <2>3, <2>4, <2>5
    <2>6. CASE Touching(a, id) # {}
      <3> DEFINE m == LastTouch(a, id)
      <3>1. m \in 1 .. Len(a) /\ log[m].op # "insert"
        BY <2>2, <2>3, <2>6, LastTouchProperties DEF LastTouch
      <3> HIDE DEF m
      <3>2. m \in DOMAIN log /\ log[m] \in Change
        BY <1>1, <1>2, <1>3, <3>1
      <3>3. log[m].vector = None
        BY <1>1, <3>1, <3>2 DEF Change, DeletesBare
      <3>4. a[m].vector = log[m].vector
        BY <3>1 DEF Splits
      <3> QED
        BY <2>4, <2>6, <3>3, <3>4 DEF m
    <2> QED
      BY <2>5, <2>6
  <1> QED
    BY <1>10, <1>11

(* ROLLBACK TO on a loaded index whose tail only appends removes those     *)
(* rows in place.  It always can, and what is left is the table at the     *)
(* mark, whatever came before (restore_to, undo_insert_prefix).            *)
THEOREM UndoReturnsAlways == LogSpec => []UndoReturns
PROOF
  <1>1. LogTypeOK => UndoReturns
    <2>1. SUFFICES ASSUME LogTypeOK, Truthful, ReplayOK(start, log),
                          NEW n \in 0 .. Len(log),
                          AppendOnly(SubSeq(log, n + 1, Len(log)))
                   PROVE  LET tail == SubSeq(log, n + 1, Len(log))
                          IN  /\ UndoFaults(Replay(start, log), tail) = {}
                              /\ UndoInserts(Replay(start, log), tail)
                                   = Replay(start, SubSeq(log, 1, n))
      BY DEF UndoReturns
    <2> DEFINE a == SubSeq(log, 1, n)
               b == SubSeq(log, n + 1, Len(log))
               rows == Replay(start, log)
    <2>2. start \in Rows /\ log \in Seq(Change)
      BY <2>1 DEF LogTypeOK
    <2>3. Len(log) \in Nat /\ n \in Nat /\ n <= Len(log)
      BY <2>2
    <2>4. a \in Seq(Change) /\ Len(a) = n /\ \A i \in 1 .. n : a[i] = log[i]
      <3>1. \A i \in 1 .. n : log[i] \in Change
        BY <2>2, <2>3
      <3> QED
        BY <2>3, <3>1, SubSeqProperties
    <2>5. /\ b \in Seq(Change) /\ Len(b) = Len(log) - n
          /\ \A i \in 1 .. Len(log) - n : b[i] = log[n + i]
      BY <2>2, CutLog
    <2>6. AppendOnly(b)
      BY <2>1
    <2> HIDE DEF a, b
    <2>7. Splits(log, a, b)
      BY <2>3, <2>4, <2>5 DEF Splits
    <2>8. DOMAIN b = 1 .. Len(b) /\ DOMAIN log = 1 .. Len(log)
      BY <2>2, <2>5
    <2>9. rows = Replay(Replay(start, a), b)
      BY <2>2, <2>4, <2>5, <2>7, SplitReplay
    <2>10. \A id \in Rowid :
             rows[id] = IF Touching(b, id) = {} THEN Replay(start, a)[id]
                        ELSE b[LastTouch(b, id)].vector
      BY <2>9 DEF Replay
    <2>11. ASSUME NEW i \in 1 .. Len(b)
           PROVE  b[i].op = "insert" /\ ~b[i].replaces /\ b[i].vector # None
      <3>1. b[i].op = "insert" /\ ~b[i].replaces
        BY <2>6, <2>8 DEF AppendOnly
      <3>2. n + i \in DOMAIN log /\ log[n + i] = b[i]
        BY <2>3, <2>5, <2>8
      <3> QED
        BY <2>1, <3>1, <3>2 DEF ReplayOK
    <2> HIDE DEF rows
    <2>12. ASSUME NEW i \in DOMAIN b
           PROVE  Undoable(rows, b, i)
      <3>1. i \in Touching(b, b[i].id) /\ b[i].id \in Rowid
        <4>1. b[i] \in Change
          BY <2>5, <2>8, <2>12
        <4> QED
          BY <4>1 DEF Touching, Change
      <3>2. LastTouch(b, b[i].id) \in 1 .. Len(b)
        BY <2>5, <3>1, LastTouchProperties
      <3>3. rows[b[i].id] # None
        BY <2>10, <2>11, <3>1, <3>2
      <3>4. \A j \in Touching(b, b[i].id) : j <= i
        BY <2>1, <2>4, <2>5, <2>6, <2>7, <2>8, AppendsAreNew
      <3> QED
        BY <2>8, <2>11, <3>3, <3>4 DEF Undoable
    <2>13. UndoFaults(rows, b) = {}
      BY <2>12 DEF UndoFaults
    <2>14. ASSUME NEW id \in Rowid
           PROVE  UndoInserts(rows, b)[id] = Replay(start, a)[id]
      <3>1. UndoInserts(rows, b)[id] =
              IF Touching(b, id) # {} THEN None ELSE rows[id]
        BY <2>13 DEF UndoInserts, Touching
      <3>2. CASE Touching(b, id) # {}
        <4>1. PICK i \in Touching(b, id) : TRUE
          BY <3>2
        <4>2. i \in 1 .. Len(b) /\ b[i].id = id
          BY <2>8 DEF Touching
        <4>3. Replay(start, a)[b[i].id] = None
          BY <2>1, <2>4, <2>5, <2>6, <2>7, <4>2, AppendsAreNew
        <4> QED
          BY <3>1, <3>2, <4>2, <4>3
      <3>3. CASE Touching(b, id) = {}
        BY <2>10, <3>1, <3>3
      <3> QED
        BY <3>2, <3>3
    <2>15. UndoInserts(rows, b) \in Rows /\ Replay(start, a) \in Rows
      BY <2>2, <2>4, ReplayType, UndoInsertsType DEF rows
    <2>16. UndoInserts(rows, b) = Replay(start, a)
      BY <2>14, <2>15 DEF Rows
    <2> QED
      BY <2>13, <2>16 DEF a, b, rows
  <1> QED
    BY <1>1, LogTypeCorrect, PTL
-----------------------------------------------------------------------------
(* The loops.  FoldLeft is a recursive function on the sets of positions   *)
(* of the log: what it is on 1 .. k is what the loop has after k turns.    *)

(* Counting up to n. *)
LEMMA CountingUp ==
  ASSUME NEW n \in Nat, NEW S, 0 \in S,
         \A k \in 0 .. n : k < n /\ k \in S => k + 1 \in S
  PROVE  n \in S
PROOF
  <1> DEFINE M == S \cap (0 .. n)
  <1>1. 0 \in M /\ M \subseteq 0 .. n /\ M # {} /\ 0 \in Int /\ n \in Int
    OBVIOUS
  <1>2. Max(M) \in M /\ Max(M) \in 0 .. n /\ \A y \in M : y <= Max(M)
    <2> HIDE DEF M
    <2> QED
      BY <1>1, MaxInRange
  <1>3. ASSUME Max(M) < n PROVE FALSE
    <2>1. Max(M) + 1 \in M
      BY <1>2, <1>3
    <2> QED
      BY <1>2, <2>1
  <1> QED
    BY <1>2, <1>3

(* g is the function a loop with the body F goes through. *)
Iterates(g, base, F, cs) ==
  g = [s \in SUBSET DOMAIN cs |->
         IF s = {} THEN base ELSE F[<<g[s \ {Max(s)}], cs[Max(s)]>>]]

(* The last of some positions is one of them. *)
LEMMA LastIn ==
  ASSUME NEW cs \in Seq(Change), NEW s \in SUBSET DOMAIN cs, s # {}
  PROVE  Max(s) \in DOMAIN cs /\ cs[Max(s)] \in Change /\ s \ {Max(s)} \in SUBSET DOMAIN cs
PROOF
  <1>1. s \subseteq 1 .. Len(cs) /\ 1 \in Int /\ Len(cs) \in Int
    OBVIOUS
  <1>2. Max(s) \in 1 .. Len(cs)
    BY <1>1, MaxInRange
  <1> QED
    BY <1>2

LEMMA LastOf ==
  ASSUME NEW n \in Nat, NEW k \in 1 .. n
  PROVE  /\ Max(1 .. k) = k /\ (1 .. k) \ {k} = 1 .. k - 1
         /\ 1 .. k \in SUBSET (1 .. n) /\ 1 .. k - 1 \in SUBSET (1 .. n) /\ 1 .. k # {}
PROOF
  <1> DEFINE S == 1 .. k
  <1>1. S \subseteq 1 .. n /\ k \in S /\ n \in Int /\ \A y \in S : y <= k
    OBVIOUS
  <1>2. S \ {k} = 1 .. k - 1 /\ 1 .. k - 1 \subseteq 1 .. n
    OBVIOUS
  <1>3. Max(S) = k
    <2> HIDE DEF S
    <2> QED
      BY <1>1, MaxIs
  <1> QED
    BY <1>1, <1>2, <1>3

(* One turn after another. *)
LEMMA IteratesAlong ==
  ASSUME NEW cs \in Seq(Change), NEW g, NEW base, NEW F, Iterates(g, base, F, cs)
  PROVE  /\ g[1 .. 0] = base
         /\ \A k \in 1 .. Len(cs) : g[1 .. k] = F[<<g[1 .. k - 1], cs[k]>>]
PROOF
  <1>1. DOMAIN cs = 1 .. Len(cs) /\ Len(cs) \in Nat
    OBVIOUS
  <1>2. \A s \in SUBSET (1 .. Len(cs)) :
          g[s] = IF s = {} THEN base ELSE F[<<g[s \ {Max(s)}], cs[Max(s)]>>]
    BY <1>1, Zenon DEF Iterates
  <1>3. g[1 .. 0] = base
    <2>1. 1 .. 0 = {}
      OBVIOUS
    <2> QED
      BY <1>2, <2>1
  <1>4. ASSUME NEW k \in 1 .. Len(cs) PROVE g[1 .. k] = F[<<g[1 .. k - 1], cs[k]>>]
    <2>1. /\ Max(1 .. k) = k /\ (1 .. k) \ {k} = 1 .. k - 1
          /\ 1 .. k \in SUBSET (1 .. Len(cs)) /\ 1 .. k # {}
      BY <1>1, LastOf
    <2> QED
      BY <1>2, <2>1, Zenon
  <1> QED
    BY <1>3, <1>4

(* What a turn does to a value in A on account of a change.              *)
Bodies(A) == [A \X Change -> A]

(* There is such a function for every body and every log. *)
LEMMA IteratesExists ==
  ASSUME NEW A, NEW F \in Bodies(A), NEW base \in A, NEW cs \in Seq(Change)
  PROVE  \E g \in [SUBSET DOMAIN cs -> A] : Iterates(g, base, F, cs)
PROOF
  <1> DEFINE Turn(g, s) == IF s = {} THEN base ELSE F[<<g[s \ {Max(s)}], cs[Max(s)]>>]
             Upto(m) == \E g \in [SUBSET (1 .. m) -> A] :
                          \A s \in SUBSET (1 .. m) : g[s] = Turn(g, s)
             S == {m \in 0 .. Len(cs) : Upto(m)}
  <1>1. DOMAIN cs = 1 .. Len(cs) /\ Len(cs) \in Nat /\ \A i \in 1 .. Len(cs) : cs[i] \in Change
    OBVIOUS
  <1> F \in [A \X Change -> A]
    BY DEF Bodies
  <1>2. Upto(0)
    <2> DEFINE g == [s \in SUBSET (1 .. 0) |-> base]
    <2>1. g \in [SUBSET (1 .. 0) -> A] /\ \A s \in SUBSET (1 .. 0) : s = {}
      OBVIOUS
    <2>2. \A s \in SUBSET (1 .. 0) : g[s] = Turn(g, s)
      BY <2>1
    <2> QED
      BY <2>1, <2>2
  <1>3. ASSUME NEW m \in 0 .. Len(cs), m < Len(cs), Upto(m) PROVE Upto(m + 1)
    <2>1. PICK g \in [SUBSET (1 .. m) -> A] : \A s \in SUBSET (1 .. m) : g[s] = Turn(g, s)
      BY <1>3
    <2> DEFINE h == [s \in SUBSET (1 .. m + 1) |->
                       IF m + 1 \in s THEN F[<<g[s \ {m + 1}], cs[m + 1]>>] ELSE g[s]]
    <2>2. \A s \in SUBSET (1 .. m + 1) :
            s \ {m + 1} \in SUBSET (1 .. m) /\ (m + 1 \notin s => s \in SUBSET (1 .. m))
      OBVIOUS
    <2>3. cs[m + 1] \in Change
      BY <1>1, <1>3
    <2>4. h \in [SUBSET (1 .. m + 1) -> A]
      BY <2>2, <2>3
    <2>5. ASSUME NEW s \in SUBSET (1 .. m + 1) PROVE h[s] = Turn(h, s)
      <3>1. CASE m + 1 \in s
        <4>1. Max(s) = m + 1
          <5> DEFINE n == m + 1
          <5>1. n \in Int /\ s \subseteq 1 .. n /\ n \in s /\ \A y \in s : y <= n
            BY <3>1
          <5> HIDE DEF n
          <5>2. Max(s) = n
            BY <5>1, MaxIs
          <5> QED
            BY <5>2 DEF n
        <4>2. h[s] = F[<<g[s \ {m + 1}], cs[m + 1]>>]
          BY <3>1
        <4>3. h[s \ {m + 1}] = g[s \ {m + 1}]
          BY <2>2
        <4> QED
          BY <3>1, <4>1, <4>2, <4>3
      <3>2. CASE m + 1 \notin s
        <4>1. h[s] = g[s] /\ g[s] = Turn(g, s) /\ s \in SUBSET (1 .. m)
          BY <2>1, <2>2, <3>2
        <4>2. h[s \ {Max(s)}] = g[s \ {Max(s)}]
          BY <2>2, <3>2
        <4> QED
          BY <4>1, <4>2
      <3> QED
        BY <3>1, <3>2
    <2> HIDE DEF h
    <2> QED
      BY <2>4, <2>5
  <1>4. Upto(Len(cs))
    <2> HIDE DEF Upto
    <2>1. 0 \in S /\ \A k \in 0 .. Len(cs) : k < Len(cs) /\ k \in S => k + 1 \in S
      BY <1>1, <1>2, <1>3
    <2>2. Len(cs) \in S
      <3> HIDE DEF S
      <3> QED
        BY <1>1, <2>1, CountingUp
    <2> QED
      BY <2>2
  <1>5. PICK g \in [SUBSET (1 .. Len(cs)) -> A] :
          \A s \in SUBSET (1 .. Len(cs)) : g[s] = Turn(g, s)
    BY <1>4
  <1>6. Iterates(g, base, F, cs)
    BY <1>1, <1>5 DEF Iterates
  <1> QED
    BY <1>1, <1>5, <1>6

(* The loop with the body F on A over cs, started with base: what it has   *)
(* after each turn, and what it ends with.                                 *)
Turns(v, base, F, cs, end) ==
  /\ v[0] = base
  /\ \A k \in 1 .. Len(cs) : v[k] = F[<<v[k - 1], cs[k]>>]
  /\ end = v[Len(cs)]
Folded(A, F, base, cs) ==
  LET g == CHOOSE g \in [SUBSET DOMAIN cs -> A] : Iterates(g, base, F, cs)
  IN  g[DOMAIN cs]

LEMMA IteratesTurns ==
  ASSUME NEW cs \in Seq(Change), NEW g, NEW base, NEW F, Iterates(g, base, F, cs)
  PROVE  Turns([k \in 0 .. Len(cs) |-> g[1 .. k]], base, F, cs, g[DOMAIN cs])
PROOF
  <1> DEFINE v == [k \in 0 .. Len(cs) |-> g[1 .. k]]
  <1>1. g[1 .. 0] = base /\ \A k \in 1 .. Len(cs) : g[1 .. k] = F[<<g[1 .. k - 1], cs[k]>>]
    BY IteratesAlong
  <1>2. Len(cs) \in Nat /\ DOMAIN cs = 1 .. Len(cs)
    OBVIOUS
  <1>3. /\ 0 \in 0 .. Len(cs) /\ Len(cs) \in 0 .. Len(cs)
        /\ \A k \in 1 .. Len(cs) : k \in 0 .. Len(cs) /\ k - 1 \in 0 .. Len(cs)
    BY <1>2
  <1>4. \A k \in 0 .. Len(cs) : v[k] = g[1 .. k]
    OBVIOUS
  <1> HIDE DEF v
  <1>5. v[0] = base
    BY <1>1, <1>3, <1>4, Zenon
  <1>6. ASSUME NEW k \in 1 .. Len(cs) PROVE v[k] = F[<<v[k - 1], cs[k]>>]
    BY <1>1, <1>3, <1>4, Zenon
  <1>7. g[DOMAIN cs] = v[Len(cs)]
    BY <1>2, <1>3, <1>4, Zenon
  <1>8. Turns(v, base, F, cs, g[DOMAIN cs])
    BY <1>5, <1>6, <1>7, Zenon DEF Turns
  <1> QED
    BY <1>8 DEF v

LEMMA FoldedIs ==
  ASSUME NEW A, NEW F \in Bodies(A), NEW base \in A, NEW cs \in Seq(Change)
  PROVE  Folded(A, F, base, cs) \in A /\ \E v : Turns(v, base, F, cs, Folded(A, F, base, cs))
PROOF
  <1> DEFINE g == CHOOSE g \in [SUBSET DOMAIN cs -> A] : Iterates(g, base, F, cs)
  <1>1. g \in [SUBSET DOMAIN cs -> A] /\ Iterates(g, base, F, cs)
    BY IteratesExists
  <1>2. Folded(A, F, base, cs) = g[DOMAIN cs]
    BY Zenon DEF Folded
  <1> HIDE DEF g
  <1>3. g[DOMAIN cs] \in A
    BY <1>1
  <1>4. Turns([k \in 0 .. Len(cs) |-> g[1 .. k]], base, F, cs, g[DOMAIN cs])
    BY <1>1, IteratesTurns
  <1> QED
    BY <1>2, <1>3, <1>4, Zenon

(* A log that begins, or ends, as another: two loops over them that have   *)
(* the same before the common part have the same after it.                 *)
Agree(m, ds, cs) == m + Len(cs) \in 0 .. Len(ds) /\ \A k \in 1 .. Len(cs) : ds[m + k] = cs[k]
After(w, m, cs) == w[m + Len(cs)]

LEMMA SameTurns ==
  ASSUME NEW cs \in Seq(Change), NEW ds \in Seq(Change), NEW m \in Nat, Agree(m, ds, cs),
         NEW v, NEW w, NEW base, NEW other, NEW F, NEW a, NEW b,
         Turns(v, base, F, cs, a), Turns(w, other, F, ds, b), w[m] = base
  PROVE  After(w, m, cs) = a
PROOF
  <1> DEFINE n == Len(cs)
             S == {k \in 0 .. n : w[m + k] = v[k]}
  <1>1. n \in Nat /\ Len(ds) \in Nat /\ m + n <= Len(ds) /\ \A k \in 1 .. n : ds[m + k] = cs[k]
    BY DEF Agree
  <1>2. v[0] = base /\ v[n] = a /\ \A k \in 1 .. n : v[k] = F[<<v[k - 1], cs[k]>>]
    BY DEF Turns
  <1>3. \A k \in 1 .. Len(ds) : w[k] = F[<<w[k - 1], ds[k]>>]
    BY DEF Turns
  <1>4. 0 \in S
    <2>1. m + 0 = m /\ 0 \in 0 .. n
      BY <1>1
    <2> QED
      BY <1>2, <2>1
  <1>5. ASSUME NEW k \in 0 .. n, k < n, k \in S PROVE k + 1 \in S
    <2> DEFINE j == k + 1
               i == m + k + 1
    <2>1. /\ j \in 1 .. n /\ j - 1 = k /\ j \in 0 .. n
          /\ i \in 1 .. Len(ds) /\ i - 1 = m + k /\ m + j = i
      BY <1>1, <1>5
    <2>2. w[m + k] = v[k]
      BY <1>5
    <2> HIDE DEF i, j
    <2>3. v[j] = F[<<v[k], cs[j]>>] /\ w[i] = F[<<w[m + k], ds[i]>>]
      BY <1>2, <1>3, <2>1
    <2>4. ds[i] = cs[j]
      BY <1>1, <2>1
    <2>5. w[m + j] = v[j]
      BY <2>1, <2>2, <2>3, <2>4, Zenon
    <2> QED
      BY <2>1, <2>5 DEF j
  <1>6. n \in S
    <2> HIDE DEF S
    <2> QED
      BY <1>1, <1>4, <1>5, CountingUp
  <1> QED
    BY <1>2, <1>6 DEF After

LEMMA SameStart ==
  ASSUME NEW cs \in Seq(Change), NEW ds \in Seq(Change), Agree(0, ds, cs),
         NEW v, NEW w, NEW base, NEW F, NEW a, NEW b,
         Turns(v, base, F, cs, a), Turns(w, base, F, ds, b)
  PROVE  After(w, 0, cs) = a
PROOF
  <1>1. w[0] = base
    BY DEF Turns
  <1> QED
    BY <1>1, SameTurns

(* No turn; one turn more at the end; one turn more at the beginning; and  *)
(* turns that change nothing.                                              *)
LEMMA FoldedEmpty ==
  ASSUME NEW A, NEW F \in Bodies(A), NEW base \in A, NEW cs \in Seq(Change), Len(cs) = 0
  PROVE  Folded(A, F, base, cs) = base
PROOF
  <1>1. PICK v : Turns(v, base, F, cs, Folded(A, F, base, cs))
    BY FoldedIs
  <1> QED
    BY <1>1 DEF Turns

OneMore(ds, cs, x) ==
  /\ Len(cs) \in Nat /\ Len(ds) = Len(cs) + 1
  /\ DOMAIN cs = 1 .. Len(cs) /\ DOMAIN ds = 1 .. Len(ds)
  /\ ds[Len(ds)] = x /\ \A k \in 1 .. Len(cs) : ds[k] = cs[k]

LEMMA FoldedAppend ==
  ASSUME NEW A, NEW F \in Bodies(A), NEW base \in A,
         NEW cs \in Seq(Change), NEW x \in Change, NEW ds \in Seq(Change), OneMore(ds, cs, x)
  PROVE  Folded(A, F, base, ds) = F[<<Folded(A, F, base, cs), x>>]
PROOF
  <1>1. /\ Len(ds) = Len(cs) + 1 /\ Len(cs) \in Nat /\ ds[Len(ds)] = x
        /\ \A k \in 1 .. Len(cs) : ds[k] = cs[k]
    BY DEF OneMore
  <1>2. PICK v : Turns(v, base, F, cs, Folded(A, F, base, cs))
    BY FoldedIs
  <1>3. PICK w : Turns(w, base, F, ds, Folded(A, F, base, ds))
    BY FoldedIs
  <1>4. w[Len(cs)] = Folded(A, F, base, cs)
    <2>1. Agree(0, ds, cs)
      BY <1>1 DEF Agree
    <2>2. After(w, 0, cs) = Folded(A, F, base, cs)
      BY <1>2, <1>3, <2>1, SameStart
    <2> QED
      BY <1>1, <2>2 DEF After
  <1>5. /\ \A k \in 1 .. Len(ds) : w[k] = F[<<w[k - 1], ds[k]>>]
        /\ Folded(A, F, base, ds) = w[Len(ds)]
    BY <1>3 DEF Turns
  <1>6. Len(ds) \in 1 .. Len(ds) /\ Len(ds) - 1 = Len(cs) /\ ds[Len(ds)] = x
    BY <1>1
  <1> QED
    BY <1>4, <1>5, <1>6, Zenon

OneBefore(ds, x, cs) ==
  /\ Len(cs) \in Nat /\ Len(ds) = 1 + Len(cs)
  /\ ds[1] = x /\ \A k \in 1 .. Len(cs) : ds[1 + k] = cs[k]

LEMMA FoldedPrepend ==
  ASSUME NEW A, NEW F \in Bodies(A), NEW base \in A,
         NEW cs \in Seq(Change), NEW x \in Change, NEW ds \in Seq(Change), OneBefore(ds, x, cs)
  PROVE  Folded(A, F, base, ds) = Folded(A, F, F[<<base, x>>], cs)
PROOF
  <1>1. /\ Len(ds) = 1 + Len(cs) /\ Len(cs) \in Nat /\ ds[1] = x
        /\ \A k \in 1 .. Len(cs) : ds[1 + k] = cs[k]
    BY DEF OneBefore
  <1>2. SUFFICES ASSUME NEW next \in A, next = F[<<base, x>>]
                 PROVE  Folded(A, F, base, ds) = Folded(A, F, next, cs)
    BY DEF Bodies
  <1>3. PICK v : Turns(v, next, F, cs, Folded(A, F, next, cs))
    BY FoldedIs
  <1>4. PICK w : Turns(w, base, F, ds, Folded(A, F, base, ds))
    BY FoldedIs
  <1>5. /\ w[0] = base /\ \A k \in 1 .. Len(ds) : w[k] = F[<<w[k - 1], ds[k]>>]
        /\ Folded(A, F, base, ds) = w[Len(ds)]
    BY <1>4 DEF Turns
  <1>6. w[1] = next
    <2>1. 1 \in 1 .. Len(ds) /\ 1 - 1 = 0
      BY <1>1
    <2>2. w[1] = F[<<w[0], ds[1]>>]
      BY <1>5, <2>1
    <2> QED
      BY <1>1, <1>2, <1>5, <2>2
  <1>7. w[1 + Len(cs)] = Folded(A, F, next, cs)
    <2>1. SUFFICES ASSUME NEW m \in Nat, m = 1 PROVE w[m + Len(cs)] = Folded(A, F, next, cs)
      OBVIOUS
    <2>2. Agree(m, ds, cs)
      BY <1>1, <2>1 DEF Agree
    <2>3. After(w, m, cs) = Folded(A, F, next, cs)
      BY <1>3, <1>4, <1>6, <2>1, <2>2, SameTurns
    <2> QED
      BY <2>3 DEF After
  <1> QED
    BY <1>1, <1>5, <1>7, Zenon

LEMMA FoldedStays ==
  ASSUME NEW A, NEW F \in Bodies(A), NEW base \in A, NEW cs \in Seq(Change),
         \A x \in Change : F[<<base, x>>] = base
  PROVE  Folded(A, F, base, cs) = base
PROOF
  <1>1. PICK v : Turns(v, base, F, cs, Folded(A, F, base, cs))
    BY FoldedIs
  <1>2. /\ v[0] = base /\ \A k \in 1 .. Len(cs) : v[k] = F[<<v[k - 1], cs[k]>>]
        /\ Folded(A, F, base, cs) = v[Len(cs)]
    BY <1>1 DEF Turns
  <1>3. Len(cs) \in Nat /\ \A k \in 1 .. Len(cs) : cs[k] \in Change
    OBVIOUS
  <1> DEFINE S == {k \in 0 .. Len(cs) : v[k] = base}
  <1>4. 0 \in S
    BY <1>2, <1>3
  <1>5. ASSUME NEW k \in 0 .. Len(cs), k < Len(cs), k \in S PROVE k + 1 \in S
    <2>1. SUFFICES ASSUME NEW j \in Nat, j = k + 1 PROVE j \in S
      BY <1>3, <1>5
    <2>2. j \in 1 .. Len(cs) /\ j - 1 = k /\ j \in 0 .. Len(cs)
      BY <1>3, <1>5, <2>1
    <2>3. v[j] = F[<<v[k], cs[j]>>]
      BY <1>2, <2>2
    <2>4. v[j] = base
      BY <1>3, <1>5, <2>2, <2>3
    <2> QED
      BY <2>2, <2>4
  <1>6. Len(cs) \in S
    <2> HIDE DEF S
    <2> QED
      BY <1>3, <1>4, <1>5, CountingUp
  <1> QED
    BY <1>2, <1>6
-----------------------------------------------------------------------------
(* The three loops of TurboVecLog as such folds. *)

Runs == [ok : BOOLEAN, rows : Rows]
NetStep(sum, change) ==
  sum + (IF change.op = "delete" THEN -1 ELSE IF change.replaces THEN 0 ELSE 1)
TurnOf(loop, run, change) ==
  IF loop = "replay" THEN ReplayStep(run, change)
  ELSE IF loop = "undo" THEN UndoStep(run, change) ELSE NetStep(run, change)
BodyOf(loop, A) == [p \in A \X Change |-> TurnOf(loop, p[1], p[2])]
Through(loop, base, cs, g) ==
  [s \in SUBSET DOMAIN cs |->
     IF s = {} THEN base ELSE TurnOf(loop, g[s \ {Max(s)}], cs[Max(s)])]

LEMMA TurnTypes ==
  /\ BodyOf("replay", Runs) \in Bodies(Runs)
  /\ BodyOf("undo", Runs) \in Bodies(Runs)
  /\ BodyOf("net", Int) \in Bodies(Int)
PROOF
  <1>1. ASSUME NEW run \in Runs, NEW change \in Change
        PROVE  ReplayStep(run, change) \in Runs /\ UndoStep(run, change) \in Runs
    BY DEF Runs, Rows, Change, ReplayStep, UndoStep
  <1>2. ASSUME NEW sum \in Int, NEW change \in Change PROVE NetStep(sum, change) \in Int
    BY DEF NetStep
  <1> QED
    BY <1>1, <1>2 DEF BodyOf, Bodies, TurnOf

(* Two functions a loop goes through end the same. *)
LEMMA SameEnd ==
  ASSUME NEW cs \in Seq(Change), NEW g, NEW h, NEW base, NEW F,
         Iterates(g, base, F, cs), Iterates(h, base, F, cs)
  PROVE  g[DOMAIN cs] = h[DOMAIN cs]
PROOF
  <1>1. PICK v : Turns(v, base, F, cs, g[DOMAIN cs])
    BY IteratesTurns, Zenon
  <1>2. PICK w : Turns(w, base, F, cs, h[DOMAIN cs])
    BY IteratesTurns, Zenon
  <1>3. Agree(0, cs, cs)
    BY DEF Agree
  <1>4. After(w, 0, cs) = g[DOMAIN cs]
    BY <1>1, <1>2, <1>3, SameStart
  <1>5. After(w, 0, cs) = h[DOMAIN cs]
    BY <1>2 DEF After, Turns
  <1> QED
    BY <1>4, <1>5, Zenon

(* There is a function the loop goes through, and any such function ends   *)
(* with the fold, even where nothing is known of its other values.         *)
LEMMA LoopFolds ==
  ASSUME NEW loop, NEW A, BodyOf(loop, A) \in Bodies(A), NEW base \in A, NEW cs \in Seq(Change)
  PROVE  /\ \E g : g = Through(loop, base, cs, g)
         /\ \A h : h = Through(loop, base, cs, h) =>
                     h[DOMAIN cs] = Folded(A, BodyOf(loop, A), base, cs)
PROOF
  <1> DEFINE F == BodyOf(loop, A)
             Body(g) == [s \in SUBSET DOMAIN cs |->
                           IF s = {} THEN base
                           ELSE TurnOf(loop, g[s \ {Max(s)}], cs[Max(s)])]
             g == CHOOSE g \in [SUBSET DOMAIN cs -> A] : Iterates(g, base, F, cs)
  <1>1. g \in [SUBSET DOMAIN cs -> A] /\ Iterates(g, base, F, cs)
    <2> HIDE DEF F
    <2>1. F \in Bodies(A)
      BY DEF F
    <2> QED
      BY <2>1, IteratesExists
  <1>2. Folded(A, F, base, cs) = g[DOMAIN cs]
    BY Zenon DEF Folded
  <1> HIDE DEF g
  <1>3. g = Body(g)
    <2>1. ASSUME NEW s \in SUBSET DOMAIN cs, s # {}
          PROVE  F[<<g[s \ {Max(s)}], cs[Max(s)]>>] = TurnOf(loop, g[s \ {Max(s)}], cs[Max(s)])
      <3>1. cs[Max(s)] \in Change /\ s \ {Max(s)} \in SUBSET DOMAIN cs
        BY <2>1, LastIn
      <3>2. g[s \ {Max(s)}] \in A
        BY <1>1, <3>1
      <3> QED
        BY <3>1, <3>2 DEF BodyOf
    <2> HIDE DEF F
    <2>2. g = [s \in SUBSET DOMAIN cs |->
                 IF s = {} THEN base ELSE F[<<g[s \ {Max(s)}], cs[Max(s)]>>]]
      BY <1>1 DEF Iterates
    <2>3. \A s \in SUBSET DOMAIN cs : g[s] = Body(g)[s]
      BY <2>1, <2>2
    <2> QED
      BY <2>2, <2>3
  <1>4. ASSUME NEW h, h = Body(h) PROVE h[DOMAIN cs] = g[DOMAIN cs]
    <2> DEFINE V == {g[s] : s \in SUBSET DOMAIN cs} \cup {h[s] : s \in SUBSET DOMAIN cs}
               G == [p \in V \X Change |-> TurnOf(loop, p[1], p[2])]
    <2>1. ASSUME NEW s \in SUBSET DOMAIN cs, s # {}
          PROVE  /\ G[<<g[s \ {Max(s)}], cs[Max(s)]>>] = TurnOf(loop, g[s \ {Max(s)}], cs[Max(s)])
                 /\ G[<<h[s \ {Max(s)}], cs[Max(s)]>>] = TurnOf(loop, h[s \ {Max(s)}], cs[Max(s)])
      <3>1. cs[Max(s)] \in Change /\ s \ {Max(s)} \in SUBSET DOMAIN cs
        BY <2>1, LastIn
      <3> QED
        BY <3>1
    <2> HIDE DEF G
    <2>2. Body(g) = [s \in SUBSET DOMAIN cs |->
            IF s = {} THEN base ELSE G[<<g[s \ {Max(s)}], cs[Max(s)]>>]]
      BY <2>1
    <2>3. Body(h) = [s \in SUBSET DOMAIN cs |->
            IF s = {} THEN base ELSE G[<<h[s \ {Max(s)}], cs[Max(s)]>>]]
      BY <2>1
    <2>4. Iterates(g, base, G, cs) /\ Iterates(h, base, G, cs)
      BY <1>3, <1>4, <2>2, <2>3 DEF Iterates
    <2> QED
      BY <2>4, SameEnd
  <1> HIDE DEF F
  <1>5. \A h : h = Body(h) => h[DOMAIN cs] = Folded(A, F, base, cs)
    BY <1>2, <1>4, Zenon
  <1> QED
    BY <1>3, <1>5, Zenon DEF F, Through

LEMMA ReplayLoopIs ==
  ASSUME NEW rows \in Rows, NEW cs \in Seq(Change)
  PROVE  ReplayLoop(rows, cs) = Folded(Runs, BodyOf("replay", Runs), Running(rows), cs)
PROOF
  <1> DEFINE Body(g) == [s \in SUBSET DOMAIN cs |->
                           IF s = {} THEN Running(rows)
                           ELSE ReplayStep(g[s \ {Max(s)}], cs[Max(s)])]
             Turn(g) == Through("replay", Running(rows), cs, g)
             iter == CHOOSE g : g = Body(g)
  <1>1. Running(rows) \in Runs
    BY DEF Running, Runs
  <1>2. /\ \E g : g = Turn(g)
        /\ \A h : h = Turn(h) => h[DOMAIN cs] = Folded(Runs, BodyOf("replay", Runs), Running(rows), cs)
    BY <1>1, TurnTypes, LoopFolds
  <1>3. \A g : Body(g) = Turn(g)
    BY Zenon DEF TurnOf, Through
  <1>4. ReplayLoop(rows, cs) = iter[DOMAIN cs]
    BY Zenon DEF ReplayLoop, FoldLeft, MapThenFoldSet
  <1> HIDE DEF Body, Turn
  <1>5. iter = Body(iter)
    BY <1>2, <1>3, Zenon
  <1> HIDE DEF iter
  <1> QED
    BY <1>2, <1>3, <1>4, <1>5, Zenon

(* Undoing starts from the end, and from any run. *)
LEMMA UndoLoopIs ==
  ASSUME NEW rows \in Rows, NEW cs \in Seq(Change)
  PROVE  UndoLoop(rows, cs) = Folded(Runs, BodyOf("undo", Runs), Running(rows), Reverse(cs))
PROOF
  <1>1. SUFFICES ASSUME NEW ds \in Seq(Change), ds = Reverse(cs)
                 PROVE  UndoLoop(rows, cs) = Folded(Runs, BodyOf("undo", Runs), Running(rows), ds)
    BY DEF Reverse
  <1> DEFINE Body(g) == [s \in SUBSET DOMAIN ds |->
                           IF s = {} THEN Running(rows)
                           ELSE UndoStep(g[s \ {Max(s)}], ds[Max(s)])]
             Turn(g) == Through("undo", Running(rows), ds, g)
             iter == CHOOSE g : g = Body(g)
  <1>2. Running(rows) \in Runs
    BY DEF Running, Runs
  <1>3. /\ \E g : g = Turn(g)
        /\ \A h : h = Turn(h) => h[DOMAIN ds] = Folded(Runs, BodyOf("undo", Runs), Running(rows), ds)
    BY <1>2, TurnTypes, LoopFolds
  <1>4. \A g : Body(g) = Turn(g)
    <2>1. "undo" # "replay"
      OBVIOUS
    <2> QED
      BY <2>1, Zenon DEF TurnOf, Through
  <1>5. UndoLoop(rows, cs) = iter[DOMAIN ds]
    BY <1>1, Zenon DEF UndoLoop, FoldLeft, MapThenFoldSet
  <1> HIDE DEF Body, Turn
  <1>6. iter = Body(iter)
    BY <1>3, <1>4, Zenon
  <1> HIDE DEF iter
  <1> QED
    BY <1>3, <1>4, <1>5, <1>6, Zenon

LEMMA NetRowsLoopIs ==
  ASSUME NEW cs \in Seq(Change)
  PROVE  NetRowsLoop(cs) = Folded(Int, BodyOf("net", Int), 0, cs)
PROOF
  <1> DEFINE Body(g) == [s \in SUBSET DOMAIN cs |->
                           IF s = {} THEN 0
                           ELSE g[s \ {Max(s)}] + (IF cs[Max(s)].op = "delete" THEN -1
                                  ELSE IF cs[Max(s)].replaces THEN 0 ELSE 1)]
             Turn(g) == Through("net", 0, cs, g)
             iter == CHOOSE g : g = Body(g)
  <1>1. /\ \E g : g = Turn(g)
        /\ \A h : h = Turn(h) => h[DOMAIN cs] = Folded(Int, BodyOf("net", Int), 0, cs)
    <2>1. 0 \in Int
      OBVIOUS
    <2> QED
      BY <2>1, TurnTypes, LoopFolds
  <1>2. \A g : Body(g) = Turn(g)
    <2>1. "net" # "replay" /\ "net" # "undo"
      OBVIOUS
    <2> QED
      BY <2>1, Zenon DEF TurnOf, NetStep, Through
  <1>3. NetRowsLoop(cs) = iter[DOMAIN cs]
    BY Zenon DEF NetRowsLoop, FoldLeft, MapThenFoldSet
  <1> HIDE DEF Body, Turn
  <1>4. iter = Body(iter)
    BY <1>1, <1>2, Zenon
  <1> HIDE DEF iter
  <1> QED
    BY <1>1, <1>2, <1>3, <1>4, Zenon
-----------------------------------------------------------------------------
(* One more change at the end of the log, in the closed forms and in the   *)
(* loops.                                                                  *)

LEMMA AppendIsOneMore ==
  ASSUME NEW cs \in Seq(Change), NEW x \in Change
  PROVE  Append(cs, x) \in Seq(Change) /\ OneMore(Append(cs, x), cs, x)
PROOF
  <1>1. SUFFICES ASSUME NEW ds, ds = Append(cs, x) PROVE ds \in Seq(Change) /\ OneMore(ds, cs, x)
    OBVIOUS
  <1>2. ds \in Seq(Change) /\ Len(ds) = Len(cs) + 1 /\ ds[Len(cs) + 1] = x
    BY <1>1
  <1>3. \A k \in 1 .. Len(cs) : ds[k] = cs[k]
    BY <1>1
  <1>4. DOMAIN cs = 1 .. Len(cs) /\ DOMAIN ds = 1 .. Len(ds) /\ Len(cs) \in Nat
    BY <1>2
  <1> QED
    BY <1>2, <1>3, <1>4 DEF OneMore

MoreTouching(ds, cs, x) ==
  \A id : /\ Touching(cs, id) \subseteq 1 .. Len(cs)
          /\ Touching(ds, id) = IF id = x.id THEN Touching(cs, id) \cup {Len(ds)}
                                             ELSE Touching(cs, id)
LEMMA TouchingMore ==
  ASSUME NEW cs, NEW x, NEW ds, OneMore(ds, cs, x)
  PROVE  MoreTouching(ds, cs, x)
PROOF
  <1>1. /\ DOMAIN cs = 1 .. Len(cs) /\ DOMAIN ds = 1 .. Len(cs) \cup {Len(ds)}
        /\ ds[Len(ds)] = x /\ \A k \in 1 .. Len(cs) : ds[k] = cs[k]
    BY DEF OneMore
  <1>2. ASSUME NEW id
        PROVE  /\ Touching(cs, id) \subseteq 1 .. Len(cs)
               /\ Touching(ds, id) = IF id = x.id THEN Touching(cs, id) \cup {Len(ds)}
                                     ELSE Touching(cs, id)
    BY <1>1, Zenon DEF Touching
  <1> QED
    BY <1>2 DEF MoreTouching

LEMMA LastTouchMore ==
  ASSUME NEW cs \in Seq(Change), NEW x \in Change, NEW ds \in Seq(Change), OneMore(ds, cs, x)
  PROVE  /\ Touching(ds, x.id) # {} /\ ds[LastTouch(ds, x.id)] = x
         /\ \A id : id # x.id =>
              /\ Touching(ds, id) = Touching(cs, id)
              /\ Touching(cs, id) # {} => ds[LastTouch(ds, id)] = cs[LastTouch(cs, id)]
PROOF
  <1> USE DEF OneMore, MoreTouching
  <1>0. MoreTouching(ds, cs, x)
    BY TouchingMore
  <1>1. /\ Len(ds) \in Touching(ds, x.id)
        /\ \A j \in Touching(ds, x.id) : j <= Len(ds)
    BY <1>0
  <1>2. LastTouch(ds, x.id) = Len(ds)
    BY <1>1, LastTouchIs
  <1>3. ASSUME NEW id, id # x.id
        PROVE  /\ Touching(ds, id) = Touching(cs, id)
               /\ Touching(cs, id) # {} => ds[LastTouch(ds, id)] = cs[LastTouch(cs, id)]
    <2>1. Touching(ds, id) = Touching(cs, id)
      BY <1>0, <1>3
    <2>2. LastTouch(ds, id) = LastTouch(cs, id)
      BY <2>1 DEF LastTouch
    <2>3. Touching(cs, id) # {} => LastTouch(cs, id) \in 1 .. Len(cs)
      BY LastTouchProperties
    <2> QED
      BY <2>1, <2>2, <2>3
  <1> QED
    BY <1>1, <1>2, <1>3

LEMMA ReplayMore ==
  ASSUME NEW rows \in Rows, NEW cs \in Seq(Change), NEW x \in Change,
         NEW ds \in Seq(Change), OneMore(ds, cs, x)
  PROVE  /\ Replay(rows, ds) = [Replay(rows, cs) EXCEPT ![x.id] = x.vector]
         /\ KeysAfter(rows, ds) = IF x.op = "insert" THEN KeysAfter(rows, cs) \cup {x.id}
                                                     ELSE KeysAfter(rows, cs) \ {x.id}
PROOF
  <1>1. x.id \in Rowid
    BY DEF Change
  <1>2. \A id \in Rowid :
          Replay(rows, ds)[id] = IF id = x.id THEN x.vector ELSE Replay(rows, cs)[id]
    BY LastTouchMore DEF Replay
  <1>3. Replay(rows, ds) \in Rows /\ Replay(rows, cs) \in Rows
    BY ReplayType
  <1>4. Replay(rows, ds) = [Replay(rows, cs) EXCEPT ![x.id] = x.vector]
    BY <1>2, <1>3 DEF Rows
  <1>5. ASSUME NEW id \in Rowid
        PROVE  id \in KeysAfter(rows, ds) <=>
                 IF id = x.id THEN x.op = "insert" ELSE id \in KeysAfter(rows, cs)
    BY LastTouchMore DEF KeysAfter
  <1>6. KeysAfter(rows, ds) \subseteq Rowid /\ KeysAfter(rows, cs) \subseteq Rowid
    BY DEF KeysAfter
  <1> QED
    BY <1>1, <1>4, <1>5, <1>6

LEMMA PresentMore ==
  ASSUME NEW rows \in Rows, NEW cs \in Seq(Change), NEW x \in Change,
         NEW ds \in Seq(Change), OneMore(ds, cs, x)
  PROVE  /\ PresentAt(rows, ds, Len(ds)) <=> x.id \in KeysAfter(rows, cs)
         /\ \A i \in DOMAIN cs : PresentAt(rows, ds, i) <=> PresentAt(rows, cs, i)
PROOF
  <1> USE DEF OneMore, MoreTouching
  <1>0. MoreTouching(ds, cs, x)
    BY TouchingMore
  <1>1. x.id \in Rowid
    BY DEF Change
  <1> DEFINE T == {j \in Touching(ds, x.id) : j < Len(ds)}
  <1>2. T = Touching(cs, x.id) /\ ds[Len(ds)] = x
    BY <1>0
  <1>3. PresentAt(rows, ds, Len(ds)) <=>
          IF T = {} THEN rows[x.id] # None ELSE ds[Max(T)].op = "insert"
    BY <1>2 DEF PresentAt
  <1> HIDE DEF T
  <1>4. T # {} => ds[Max(T)] = cs[LastTouch(cs, x.id)]
    <2>1. T # {} => LastTouch(cs, x.id) \in 1 .. Len(cs)
      BY <1>2, LastTouchProperties
    <2> QED
      BY <1>2, <2>1 DEF LastTouch
  <1>5. PresentAt(rows, ds, Len(ds)) <=> x.id \in KeysAfter(rows, cs)
    BY <1>1, <1>2, <1>3, <1>4 DEF KeysAfter
  <1>6. ASSUME NEW i \in DOMAIN cs
        PROVE  PresentAt(rows, ds, i) <=> PresentAt(rows, cs, i)
    <2> DEFINE E == {j \in Touching(cs, cs[i].id) : j < i}
    <2>1. ds[i] = cs[i] /\ {j \in Touching(ds, ds[i].id) : j < i} = E
      <3>1. i \in Nat /\ i < Len(ds) /\ ds[i] = cs[i] /\ Len(ds) \in Nat
        OBVIOUS
      <3>2. \A j : j \in Touching(ds, cs[i].id) /\ j < i <=> j \in Touching(cs, cs[i].id) /\ j < i
        BY <1>0, <3>1
      <3> QED
        BY <3>1, <3>2
    <2>2. E \subseteq 1 .. Len(cs) /\ 1 \in Int /\ Len(cs) \in Int
      BY <1>0
    <2>3. /\ PresentAt(rows, cs, i) <=>
               IF E = {} THEN rows[cs[i].id] # None ELSE cs[Max(E)].op = "insert"
          /\ PresentAt(rows, ds, i) <=>
               IF E = {} THEN rows[cs[i].id] # None ELSE ds[Max(E)].op = "insert"
      BY <2>1 DEF PresentAt
    <2> HIDE DEF E
    <2>4. E # {} => Max(E) \in 1 .. Len(cs)
      BY <2>2, MaxInRange
    <2>5. E # {} => ds[Max(E)] = cs[Max(E)]
      BY <2>4
    <2> QED
      BY <2>3, <2>5
  <1> QED
    BY <1>5, <1>6

LEMMA ReplayOKMore ==
  ASSUME NEW rows \in Rows, NEW cs \in Seq(Change), NEW x \in Change,
         NEW ds \in Seq(Change), OneMore(ds, cs, x)
  PROVE  ReplayOK(rows, ds) <=>
           /\ ReplayOK(rows, cs)
           /\ IF x.op = "insert" THEN x.vector # None ELSE x.id \in KeysAfter(rows, cs)
PROOF
  <1> DEFINE Fine(es, i) == IF es[i].op = "insert" THEN es[i].vector # None
                                                   ELSE PresentAt(rows, es, i)
  <1>1. Fine(ds, Len(ds)) <=>
          IF x.op = "insert" THEN x.vector # None ELSE x.id \in KeysAfter(rows, cs)
    BY PresentMore DEF OneMore
  <1>2. \A i \in DOMAIN cs : Fine(ds, i) <=> Fine(cs, i)
    BY PresentMore DEF OneMore
  <1>3. /\ ReplayOK(rows, ds) <=> \A i \in DOMAIN ds : Fine(ds, i)
        /\ ReplayOK(rows, cs) <=> \A i \in DOMAIN cs : Fine(cs, i)
    BY DEF ReplayOK
  <1>4. DOMAIN ds = DOMAIN cs \cup {Len(ds)}
    BY DEF OneMore
  <1> HIDE DEF Fine
  <1> QED
    BY <1>1, <1>2, <1>3, <1>4

LEMMA ReplayLoopMore ==
  ASSUME NEW rows \in Rows, NEW cs \in Seq(Change), NEW x \in Change,
         NEW ds \in Seq(Change), OneMore(ds, cs, x)
  PROVE  /\ ReplayLoop(rows, cs) \in Runs
         /\ ReplayLoop(rows, ds) = ReplayStep(ReplayLoop(rows, cs), x)
PROOF
  <1> DEFINE F == BodyOf("replay", Runs)
  <1>1. Running(rows) \in Runs
    BY DEF Running, Runs
  <1>2. /\ ReplayLoop(rows, cs) = Folded(Runs, F, Running(rows), cs)
        /\ ReplayLoop(rows, ds) = Folded(Runs, F, Running(rows), ds)
    BY ReplayLoopIs
  <1>3. F \in Bodies(Runs)
    BY TurnTypes
  <1>4. \A run \in Runs : F[<<run, x>>] = ReplayStep(run, x)
    BY DEF BodyOf, TurnOf
  <1> HIDE DEF F
  <1>5. Folded(Runs, F, Running(rows), cs) \in Runs
    BY <1>1, <1>3, FoldedIs
  <1>6. Folded(Runs, F, Running(rows), ds) = F[<<Folded(Runs, F, Running(rows), cs), x>>]
    BY <1>1, <1>3, FoldedAppend
  <1> QED
    BY <1>2, <1>4, <1>5, <1>6, Zenon

LEMMA NetRowsLoopMore ==
  ASSUME NEW cs \in Seq(Change), NEW x \in Change, NEW ds \in Seq(Change), OneMore(ds, cs, x)
  PROVE  NetRowsLoop(cs) \in Int /\ NetRowsLoop(ds) = NetStep(NetRowsLoop(cs), x)
PROOF
  <1> DEFINE F == BodyOf("net", Int)
  <1>1. /\ NetRowsLoop(cs) = Folded(Int, F, 0, cs)
        /\ NetRowsLoop(ds) = Folded(Int, F, 0, ds)
    BY NetRowsLoopIs
  <1>2. F \in Bodies(Int) /\ 0 \in Int
    BY TurnTypes
  <1>3. \A sum \in Int : F[<<sum, x>>] = NetStep(sum, x)
    BY DEF BodyOf, TurnOf
  <1> HIDE DEF F
  <1>4. Folded(Int, F, 0, cs) \in Int
    BY <1>2, FoldedIs
  <1>5. Folded(Int, F, 0, ds) = F[<<Folded(Int, F, 0, cs), x>>]
    BY <1>2, FoldedAppend
  <1> QED
    BY <1>1, <1>3, <1>4, <1>5, Zenon

LEMMA ReverseMore ==
  ASSUME NEW cs \in Seq(Change), NEW x \in Change, NEW ds \in Seq(Change), OneMore(ds, cs, x)
  PROVE  /\ Reverse(ds) \in Seq(Change) /\ Reverse(cs) \in Seq(Change)
         /\ OneBefore(Reverse(ds), x, Reverse(cs))
PROOF
  <1> DEFINE a == Reverse(cs)
             b == Reverse(ds)
  <1>1. Len(ds) = Len(cs) + 1 /\ Len(cs) \in Nat /\ ds[Len(ds)] = x
        /\ \A i \in 1 .. Len(cs) : ds[i] = cs[i]
    BY DEF OneMore
  <1>2. /\ a \in Seq(Change) /\ Len(a) = Len(cs)
        /\ \A i \in 1 .. Len(cs) : a[i] = cs[(Len(cs) - i) + 1]
    BY DEF Reverse
  <1>3. /\ b \in Seq(Change) /\ Len(b) = Len(ds)
        /\ \A i \in 1 .. Len(ds) : b[i] = ds[(Len(ds) - i) + 1]
    BY DEF Reverse
  <1> HIDE DEF a, b
  <1>4. b[1] = x
    <2>1. (Len(ds) - 1) + 1 = Len(ds) /\ 1 \in 1 .. Len(ds)
      BY <1>1
    <2> QED
      BY <1>1, <1>3, <2>1
  <1>5. ASSUME NEW k \in 1 .. Len(cs) PROVE b[1 + k] = a[k]
    <2>1. SUFFICES ASSUME NEW n \in Nat, n = Len(cs) PROVE b[1 + k] = a[k]
      BY <1>1
    <2>2. k \in 1 .. n
      BY <2>1
    <2>3. /\ 1 + k \in 1 .. n + 1 /\ (n - k) + 1 \in 1 .. n
          /\ ((n + 1) - (1 + k)) + 1 = (n - k) + 1
      BY <2>1, <2>2
    <2>4. b[1 + k] = ds[(n - k) + 1]
      BY <1>1, <1>3, <2>1, <2>3
    <2> QED
      BY <1>1, <1>2, <2>1, <2>3, <2>4
  <1>6. OneBefore(b, x, a)
    BY <1>1, <1>2, <1>3, <1>4, <1>5 DEF OneBefore
  <1> QED
    BY <1>2, <1>3, <1>6 DEF a, b

(* The last change is the first to be undone. *)
LEMMA UndoLoopMore ==
  ASSUME NEW rows \in Rows, NEW cs \in Seq(Change), NEW x \in Change,
         NEW ds \in Seq(Change), OneMore(ds, cs, x)
  PROVE  LET refused == x.op = "delete" \/ x.replaces \/ rows[x.id] = None
         IN  UndoLoop(rows, ds) =
               IF refused THEN [ok |-> FALSE, rows |-> rows]
               ELSE UndoLoop([rows EXCEPT ![x.id] = None], cs)
PROOF
  <1> DEFINE F == BodyOf("undo", Runs)
             refused == x.op = "delete" \/ x.replaces \/ rows[x.id] = None
             less == [rows EXCEPT ![x.id] = None]
             a == Reverse(cs)
             b == Reverse(ds)
  <1>1. a \in Seq(Change) /\ b \in Seq(Change)
    BY ReverseMore
  <1>2. less \in Rows /\ Running(rows) \in Runs
    BY DEF Rows, Runs, Running, Change
  <1> HIDE DEF a, b
  <1>3. OneBefore(b, x, a)
    BY ReverseMore DEF a, b
  <1>4. /\ UndoLoop(rows, ds) = Folded(Runs, F, Running(rows), b)
        /\ UndoLoop(less, cs) = Folded(Runs, F, Running(less), a)
    BY <1>2, UndoLoopIs DEF a, b
  <1>5. F \in Bodies(Runs)
    BY TurnTypes
  <1>6. \A run \in Runs, y \in Change : F[<<run, y>>] = UndoStep(run, y)
    BY DEF BodyOf, TurnOf
  <1> HIDE DEF F
  <1>7. Folded(Runs, F, Running(rows), b) = Folded(Runs, F, F[<<Running(rows), x>>], a)
    BY <1>1, <1>2, <1>3, <1>5, FoldedPrepend
  <1>8. CASE refused
    <2> DEFINE stopped == [ok |-> FALSE, rows |-> rows]
    <2>1. UndoStep(Running(rows), x) = stopped
      BY <1>8 DEF UndoStep, Running
    <2>2. stopped \in Runs /\ \A y \in Change : UndoStep(stopped, y) = stopped
      BY DEF Runs, UndoStep
    <2> HIDE DEF stopped, refused
    <2>3. \A y \in Change : F[<<stopped, y>>] = stopped
      BY <1>6, <2>2
    <2>4. Folded(Runs, F, stopped, a) = stopped
      BY <1>1, <1>5, <2>2, <2>3, FoldedStays
    <2>5. F[<<Running(rows), x>>] = stopped
      BY <1>2, <1>6, <2>1
    <2>6. UndoLoop(rows, ds) = stopped
      BY <1>4, <1>7, <2>4, <2>5, Zenon
    <2> QED
      BY <1>8, <2>6 DEF stopped, refused
  <1>9. CASE ~refused
    <2>1. UndoStep(Running(rows), x) = Running(less)
      BY <1>9 DEF UndoStep, Running
    <2> HIDE DEF refused, less
    <2>2. F[<<Running(rows), x>>] = Running(less)
      BY <1>2, <1>6, <2>1
    <2>3. UndoLoop(rows, ds) = UndoLoop(less, cs)
      BY <1>4, <1>7, <2>2, Zenon
    <2> QED
      BY <1>9, <2>3 DEF refused, less
  <1> QED
    BY <1>8, <1>9
-----------------------------------------------------------------------------
(* The last change is refused, or undone before the others. *)
LEMMA UndoMore ==
  ASSUME NEW rows \in Rows, NEW cs \in Seq(Change), NEW x \in Change,
         NEW ds \in Seq(Change), OneMore(ds, cs, x)
  PROVE  LET refused == x.op = "delete" \/ x.replaces \/ rows[x.id] = None
             less == [rows EXCEPT ![x.id] = None]
         IN  /\ refused => UndoFaults(rows, ds) # {} /\ UndoInserts(rows, ds) = rows
             /\ ~refused => /\ UndoFaults(rows, ds) = UndoFaults(less, cs)
                            /\ UndoInserts(rows, ds) = UndoInserts(less, cs)
PROOF
  <1> DEFINE refused == x.op = "delete" \/ x.replaces \/ rows[x.id] = None
             less == [rows EXCEPT ![x.id] = None]
             n == Len(ds)
             faults == UndoFaults(rows, ds)
  <1>1. /\ MoreTouching(ds, cs, x) /\ Len(cs) \in Nat /\ n = Len(cs) + 1
        /\ DOMAIN cs = 1 .. Len(cs) /\ DOMAIN ds = 1 .. n
        /\ ds[n] = x /\ \A k \in 1 .. Len(cs) : ds[k] = cs[k]
    BY TouchingMore DEF OneMore
  <1>2. x.id \in Rowid /\ x.op \in {"insert", "delete"} /\ \A k \in 1 .. Len(cs) : cs[k].id \in Rowid
    <2>1. \A k \in 1 .. Len(cs) : cs[k] \in Change
      OBVIOUS
    <2> QED
      BY <2>1 DEF Change
  <1>3. less \in Rows /\ rows \in Rows /\ less[x.id] = None
        /\ \A id \in Rowid : id # x.id => less[id] = rows[id]
    BY <1>2 DEF Rows
  <1> HIDE DEF less, n
  <1>4. \A j \in Touching(ds, x.id) : j <= n
    BY <1>1 DEF MoreTouching
  <1>5. Undoable(rows, ds, n) <=> ~refused
    BY <1>1, <1>2, <1>4 DEF Undoable
  <1>6. CASE refused
    <2>1. n \in faults /\ faults \subseteq 1 .. n
      BY <1>1, <1>5, <1>6 DEF UndoFaults
    <2>2. Max(faults) = n
      <3> HIDE DEF faults
      <3> QED
        BY <1>1, <2>1, MaxIs
    <2>3. {i \in DOMAIN ds : faults = {} \/ i > Max(faults)} = {}
      BY <1>1, <2>1, <2>2
    <2>4. UndoInserts(rows, ds) =
            [id \in Rowid |-> IF Touching(ds, id) \cap {} # {} THEN None ELSE rows[id]]
      BY <2>3, Zenon DEF UndoInserts
    <2>5. UndoInserts(rows, ds) = rows
      BY <1>3, <2>4 DEF Rows
    <2> QED
      BY <1>6, <2>1, <2>5
  <1>7. CASE ~refused
    <2>1. ASSUME NEW i \in 1 .. Len(cs)
          PROVE  Undoable(rows, ds, i) <=> Undoable(less, cs, i)
      <3>1. ds[i] = cs[i] /\ i < n /\ n \in Int
        BY <1>1
      <3>2. CASE cs[i].id = x.id
        <4>1. n \in Touching(ds, cs[i].id) /\ ~(n <= i)
          BY <1>1, <3>1, <3>2 DEF MoreTouching
        <4>2. less[cs[i].id] = None
          BY <1>3, <3>2
        <4> QED
          BY <3>1, <4>1, <4>2 DEF Undoable
      <3>3. CASE cs[i].id # x.id
        <4>1. Touching(ds, cs[i].id) = Touching(cs, cs[i].id)
          BY <1>1, <3>3 DEF MoreTouching
        <4>2. less[cs[i].id] = rows[cs[i].id]
          BY <1>2, <1>3, <3>3
        <4> QED
          BY <3>1, <4>1, <4>2 DEF Undoable
      <3> QED
        BY <3>2, <3>3
    <2>2. Undoable(rows, ds, n)
      BY <1>5, <1>7
    <2>3. faults = UndoFaults(less, cs)
      <3>1. 1 .. n = 1 .. Len(cs) \cup {n}
        BY <1>1
      <3> QED
        BY <1>1, <2>1, <2>2, <3>1 DEF UndoFaults
    <2> DEFINE undone == {i \in DOMAIN cs : faults = {} \/ i > Max(faults)}
               more == {i \in DOMAIN ds : faults = {} \/ i > Max(faults)}
    <2>4. more = undone \cup {n}
      <3>1. faults # {} => Max(faults) \in 1 .. Len(cs)
        <4>1. faults \subseteq 1 .. Len(cs) /\ 1 \in Int /\ Len(cs) \in Int
          BY <1>1, <2>3 DEF UndoFaults
        <4> HIDE DEF faults
        <4> QED
          BY <4>1, MaxInRange
      <3> HIDE DEF faults
      <3> QED
        BY <1>1, <3>1
    <2>5. undone \subseteq 1 .. Len(cs)
      BY <1>1
    <2>6. /\ UndoInserts(rows, ds) =
               [id \in Rowid |-> IF Touching(ds, id) \cap more # {} THEN None ELSE rows[id]]
          /\ UndoInserts(less, cs) =
               [id \in Rowid |-> IF Touching(cs, id) \cap undone # {} THEN None ELSE less[id]]
      BY <2>3, Zenon DEF UndoInserts
    <2> HIDE DEF undone, more, faults
    <2>7. ASSUME NEW id \in Rowid
          PROVE  UndoInserts(rows, ds)[id] = UndoInserts(less, cs)[id]
      <3>1. CASE id = x.id
        <4>1. n \in Touching(ds, id) \cap more
          BY <1>1, <2>4, <3>1 DEF MoreTouching
        <4> QED
          BY <1>3, <2>6, <3>1, <4>1
      <3>2. CASE id # x.id
        <4>1. Touching(ds, id) = Touching(cs, id) /\ n \notin Touching(cs, id)
          BY <1>1, <3>2 DEF MoreTouching
        <4>2. Touching(ds, id) \cap more = Touching(cs, id) \cap undone
          BY <2>4, <4>1
        <4>3. less[id] = rows[id]
          BY <1>3, <3>2
        <4> QED
          BY <2>6, <4>2, <4>3
      <3> QED
        BY <3>1, <3>2
    <2>8. UndoInserts(rows, ds) = UndoInserts(less, cs)
      BY <2>6, <2>7
    <2> QED
      BY <1>7, <2>3, <2>8 DEF less, faults
  <1> QED
    BY <1>6, <1>7 DEF less

(* A log that is another with one more change is that log with the change  *)
(* appended, and counts as it does.                                        *)
LEMMA NetMore ==
  ASSUME NEW cs \in Seq(Change), NEW x \in Change, NEW ds \in Seq(Change), OneMore(ds, cs, x)
  PROVE  NetRows(ds) = IF x.op = "delete" THEN NetRows(cs) - 1
                       ELSE IF x.replaces THEN NetRows(cs) ELSE NetRows(cs) + 1
PROOF
  <1>1. ds = Append(cs, x)
    <2>1. Append(cs, x) \in Seq(Change) /\ Len(Append(cs, x)) = Len(cs) + 1 /\ Len(cs) \in Nat
      OBVIOUS
    <2>2. Len(ds) = Len(Append(cs, x))
      BY <2>1 DEF OneMore
    <2>3. \A i \in 1 .. Len(ds) : ds[i] = Append(cs, x)[i]
      BY DEF OneMore
    <2> QED
      BY <2>1, <2>2, <2>3
  <1> QED
    BY <1>1, NetOfOneMore, Zenon

(* A step of the log appends one change, and a delete has no vector.       *)
LEMMA LogStep ==
  ASSUME LogTypeOK, LogNext
  PROVE  /\ start' = start /\ log' \in Seq(Change)
         /\ \E x \in Change : OneMore(log', log, x) /\ (x.op = "delete" => x.vector = None)
PROOF
  <1>1. start' = start /\ log \in Seq(Change)
    BY DEF LogNext, LogTypeOK
  <1>2. CASE AppendInsert
    <2>1. PICK id \in Rowid, vector \in Vector \cup {None}, replaces \in BOOLEAN :
            log' = Append(log, InsertOf(id, vector, replaces))
      BY <1>2 DEF AppendInsert
    <2>2. InsertOf(id, vector, replaces) \in Change /\ InsertOf(id, vector, replaces).op # "delete"
      BY DEF InsertOf, Change
    <2>3. log' \in Seq(Change) /\ OneMore(log', log, InsertOf(id, vector, replaces))
      BY <1>1, <2>1, <2>2, AppendIsOneMore, Zenon
    <2> QED
      BY <1>1, <2>2, <2>3
  <1>3. CASE AppendDelete
    <2>1. PICK id \in Rowid : log' = Append(log, DeleteOf(id))
      BY <1>3 DEF AppendDelete
    <2>2. DeleteOf(id) \in Change /\ DeleteOf(id).vector = None
      BY DEF DeleteOf, Change
    <2>3. log' \in Seq(Change) /\ OneMore(log', log, DeleteOf(id))
      BY <1>1, <2>1, <2>2, AppendIsOneMore, Zenon
    <2> QED
      BY <1>1, <2>2, <2>3
  <1> QED
    BY <1>2, <1>3 DEF LogNext

(* Before anything is logged. *)
LEMMA NothingLogged ==
  ASSUME NEW rows \in Rows
  PROVE  /\ ReplayLoop(rows, <<>>) = Running(rows) /\ UndoLoop(rows, <<>>) = Running(rows)
         /\ NetRowsLoop(<<>>) = 0 /\ NetRows(<<>>) = 0
         /\ ReplayOK(rows, <<>>) /\ Replay(rows, <<>>) = rows /\ KeysAfter(rows, <<>>) = Keys(rows)
         /\ UndoFaults(rows, <<>>) = {} /\ UndoInserts(rows, <<>>) = rows
PROOF
  <1>1. SUFFICES ASSUME NEW cs \in Seq(Change), cs = <<>>
                 PROVE  /\ ReplayLoop(rows, cs) = Running(rows) /\ UndoLoop(rows, cs) = Running(rows)
                        /\ NetRowsLoop(cs) = 0 /\ NetRows(cs) = 0
                        /\ ReplayOK(rows, cs) /\ Replay(rows, cs) = rows
                        /\ KeysAfter(rows, cs) = Keys(rows)
                        /\ UndoFaults(rows, cs) = {} /\ UndoInserts(rows, cs) = rows
    <2>1. <<>> \in Seq(Change)
      OBVIOUS
    <2> QED
      BY <2>1, Zenon
  <1>2. Len(cs) = 0 /\ DOMAIN cs = {}
    BY <1>1
  <1>3. Reverse(cs) \in Seq(Change) /\ Len(Reverse(cs)) = 0
    BY <1>2 DEF Reverse
  <1>4. Running(rows) \in Runs /\ 0 \in Int
    BY DEF Running, Runs
  <1>5. ReplayLoop(rows, cs) = Running(rows)
    BY <1>2, <1>4, ReplayLoopIs, TurnTypes, FoldedEmpty
  <1>6. UndoLoop(rows, cs) = Running(rows)
    BY <1>3, <1>4, UndoLoopIs, TurnTypes, FoldedEmpty
  <1>7. NetRowsLoop(cs) = 0
    BY <1>2, <1>4, NetRowsLoopIs, TurnTypes, FoldedEmpty
  <1>8. NetRows(cs) = 0
    <2>1. Inserts(cs) = {}
      BY <1>2 DEF Inserts
    <2>2. {i \in Inserts(cs) : ~cs[i].replaces} = {} /\ DOMAIN cs \ Inserts(cs) = {}
      BY <1>2, <2>1
    <2>3. NetRows(cs) = Cardinality({}) - Cardinality({})
      BY <2>2, Zenon DEF NetRows
    <2> QED
      BY <2>3, FS_EmptySet
  <1>9. \A id : Touching(cs, id) = {}
    BY <1>2 DEF Touching
  <1>10. ReplayOK(rows, cs) /\ UndoFaults(rows, cs) = {}
    BY <1>2 DEF ReplayOK, UndoFaults
  <1>11. Replay(rows, cs) = rows /\ KeysAfter(rows, cs) = Keys(rows) /\ UndoInserts(rows, cs) = rows
    BY <1>9 DEF Replay, KeysAfter, Keys, UndoInserts, Rows
  <1> QED
    BY <1>5, <1>6, <1>7, <1>8, <1>10, <1>11
-----------------------------------------------------------------------------
(* However long the log, apply_to_index does what Replay says: it accepts  *)
(* the same logs and leaves the same rows.  By induction on the log: each  *)
(* turn of the loop changes the run as one more change does the closed     *)
(* form.                                                                   *)
THEOREM ReplayIsTheLoopAlways == LogSpec => []ReplayIsTheLoop
PROOF
  <1>1. LogInit => ReplayIsTheLoop
    <2>1. SUFFICES ASSUME start \in Rows, log = <<>> PROVE ReplayIsTheLoop
      BY DEF LogInit
    <2>2. /\ ReplayLoop(start, log) = Running(start) /\ ReplayOK(start, log)
          /\ Replay(start, log) = start /\ KeysAfter(start, log) = Keys(start)
      BY <2>1, NothingLogged, Zenon
    <2>3. ReplayOK(start, log) \in BOOLEAN /\ Running(start).ok = TRUE /\ Running(start).rows = start
      BY DEF ReplayOK, Running
    <2> QED
      BY <2>2, <2>3 DEF ReplayIsTheLoop
  <1>2. ASSUME LogTypeOK, ReplayIsTheLoop, [LogNext]_logVars PROVE ReplayIsTheLoop'
    <2>1. CASE UNCHANGED logVars
      BY <1>2, <2>1 DEF logVars, ReplayIsTheLoop
    <2>2. CASE LogNext
      <3>1. /\ start' = start /\ log' \in Seq(Change) /\ start \in Rows /\ log \in Seq(Change)
            /\ \E x \in Change : OneMore(log', log, x) /\ (x.op = "delete" => x.vector = None)
        BY <1>2, <2>2, LogStep DEF LogTypeOK
      <3> DEFINE run == ReplayLoop(start, log)
                 more == ReplayLoop(start, log')
      <3>2. SUFFICES /\ ReplayOK(start, log') = more.ok
                     /\ more.ok => /\ Replay(start, log') = more.rows
                                   /\ KeysAfter(start, log') = Keys(more.rows)
        BY <3>1, Zenon DEF ReplayIsTheLoop
      <3>3. PICK x \in Change : OneMore(log', log, x) /\ (x.op = "delete" => x.vector = None)
        BY <3>1
      <3>4. run \in Runs /\ more = ReplayStep(run, x)
        BY <3>1, <3>3, ReplayLoopMore
      <3>5. /\ ReplayOK(start, log) = run.ok
            /\ run.ok => Replay(start, log) = run.rows /\ KeysAfter(start, log) = Keys(run.rows)
        BY <1>2 DEF ReplayIsTheLoop
      <3>6. ReplayOK(start, log') <=>
              /\ ReplayOK(start, log)
              /\ IF x.op = "insert" THEN x.vector # None ELSE x.id \in KeysAfter(start, log)
        BY <3>1, <3>3, ReplayOKMore
      <3>7. /\ Replay(start, log') = [Replay(start, log) EXCEPT ![x.id] = x.vector]
            /\ KeysAfter(start, log') = IF x.op = "insert" THEN KeysAfter(start, log) \cup {x.id}
                                                           ELSE KeysAfter(start, log) \ {x.id}
        BY <3>1, <3>3, ReplayMore
      <3>8. x.id \in Rowid /\ x.op \in {"insert", "delete"} /\ run.ok \in BOOLEAN
            /\ run.rows \in Rows
        BY <3>4 DEF Change, Runs
      <3>14. ReplayOK(start, log) \in BOOLEAN /\ ReplayOK(start, log') \in BOOLEAN
        BY DEF ReplayOK
      <3> HIDE DEF run, more
      <3>9. CASE ~run.ok
        <4>1. more = run
          BY <3>4, <3>9 DEF ReplayStep
        <4>2. ~ReplayOK(start, log')
          BY <3>5, <3>6, <3>8, <3>9, <3>14
        <4> QED
          BY <3>8, <3>9, <3>14, <4>1, <4>2
      <3>10. CASE run.ok /\ x.op = "insert" /\ x.vector = None
        <4>1. more.ok = FALSE
          BY <3>4, <3>10 DEF ReplayStep, Runs
        <4>2. ~ReplayOK(start, log')
          BY <3>6, <3>10
        <4> QED
          BY <3>14, <4>1, <4>2
      <3>11. CASE run.ok /\ x.op = "insert" /\ x.vector # None
        <4>1. more = [run EXCEPT !.rows[x.id] = x.vector]
          BY <3>4, <3>11 DEF ReplayStep
        <4>2. more.ok /\ more.rows = [run.rows EXCEPT ![x.id] = x.vector]
          BY <3>4, <3>11, <4>1 DEF Runs
        <4>3. Keys(more.rows) = Keys(run.rows) \cup {x.id}
          BY <3>8, <3>11, <4>2 DEF Keys, Rows
        <4> QED
          BY <3>5, <3>6, <3>7, <3>11, <4>2, <4>3
      <3>12. CASE run.ok /\ x.op = "delete" /\ run.rows[x.id] = None
        <4>1. ~more.ok
          BY <3>4, <3>12 DEF ReplayStep, Runs
        <4>2. x.id \notin KeysAfter(start, log)
          BY <3>5, <3>12 DEF Keys
        <4>3. more.ok \in BOOLEAN
          BY <3>4, <3>12 DEF ReplayStep, Runs
        <4>4. ~ReplayOK(start, log')
          BY <3>6, <3>12, <4>2
        <4> QED
          BY <3>14, <4>1, <4>3, <4>4
      <3>13. CASE run.ok /\ x.op = "delete" /\ run.rows[x.id] # None
        <4>1. more = [run EXCEPT !.rows[x.id] = None]
          BY <3>4, <3>13 DEF ReplayStep
        <4>2. more.ok /\ more.rows = [run.rows EXCEPT ![x.id] = None]
          BY <3>4, <3>13, <4>1 DEF Runs
        <4>3. Keys(more.rows) = Keys(run.rows) \ {x.id}
          BY <3>8, <4>2 DEF Keys, Rows
        <4>4. x.id \in KeysAfter(start, log) /\ x.vector = None
          BY <3>3, <3>5, <3>8, <3>13 DEF Keys
        <4> QED
          BY <3>5, <3>6, <3>7, <3>13, <4>2, <4>3, <4>4
      <3> QED
        BY <3>8, <3>9, <3>10, <3>11, <3>12, <3>13
    <2> QED
      BY <1>2, <2>1, <2>2
  <1> QED
    BY <1>1, <1>2, LogTypeCorrect, PTL DEF LogSpec

(* undo_insert_prefix does what UndoInserts says, also when it stops       *)
(* half-way.  The loop starts from the last change, so the induction is    *)
(* over the logs for all rows at once: undoing the last change leaves a    *)
(* shorter log to be undone from other rows.                               *)
UndoneByTheLoop(cs) ==
  \A rows \in Rows :
    LET run == UndoLoop(rows, cs)
    IN  (UndoFaults(rows, cs) = {}) = run.ok /\ UndoInserts(rows, cs) = run.rows

THEOREM UndoIsTheLoopAlways == LogSpec => []UndoIsTheLoop
PROOF
  <1>1. LogInit => UndoneByTheLoop(log)
    <2>1. SUFFICES ASSUME log = <<>>, NEW rows \in Rows
                   PROVE  /\ (UndoFaults(rows, log) = {}) = UndoLoop(rows, log).ok
                          /\ UndoInserts(rows, log) = UndoLoop(rows, log).rows
      BY Zenon DEF LogInit, UndoneByTheLoop
    <2>2. /\ UndoLoop(rows, log) = Running(rows)
          /\ UndoFaults(rows, log) = {} /\ UndoInserts(rows, log) = rows
      BY <2>1, NothingLogged, Zenon
    <2>3. Running(rows).ok = TRUE /\ Running(rows).rows = rows
      BY DEF Running
    <2>4. (UndoFaults(rows, log) = {}) = TRUE
      BY <2>2
    <2> QED
      BY <2>2, <2>3, <2>4, Zenon
  <1>2. ASSUME LogTypeOK, UndoneByTheLoop(log), [LogNext]_logVars PROVE UndoneByTheLoop(log)'
    <2>1. CASE UNCHANGED logVars
      BY <1>2, <2>1 DEF logVars
    <2>2. CASE LogNext
      <3>1. /\ log' \in Seq(Change) /\ log \in Seq(Change)
            /\ \E x \in Change : OneMore(log', log, x)
        BY <1>2, <2>2, LogStep DEF LogTypeOK
      <3>2. PICK x \in Change : OneMore(log', log, x)
        BY <3>1
      <3>3. ASSUME NEW rows \in Rows
            PROVE  /\ (UndoFaults(rows, log') = {}) = UndoLoop(rows, log').ok
                   /\ UndoInserts(rows, log') = UndoLoop(rows, log').rows
        <4> DEFINE refused == x.op = "delete" \/ x.replaces \/ rows[x.id] = None
                   less == [rows EXCEPT ![x.id] = None]
        <4>1. UndoLoop(rows, log') = IF refused THEN [ok |-> FALSE, rows |-> rows]
                                     ELSE UndoLoop(less, log)
          BY <3>1, <3>2, UndoLoopMore
        <4>2. /\ refused => UndoFaults(rows, log') # {} /\ UndoInserts(rows, log') = rows
              /\ ~refused => /\ UndoFaults(rows, log') = UndoFaults(less, log)
                             /\ UndoInserts(rows, log') = UndoInserts(less, log)
          BY <3>1, <3>2, UndoMore
        <4>3. less \in Rows
          BY DEF Rows, Change
        <4> HIDE DEF refused, less
        <4>4. CASE refused
          <5>1. UndoLoop(rows, log') = [ok |-> FALSE, rows |-> rows]
            BY <4>1, <4>4
          <5>2. UndoLoop(rows, log').ok = FALSE /\ UndoLoop(rows, log').rows = rows
            BY <5>1
          <5>3. (UndoFaults(rows, log') = {}) = FALSE
            BY <4>2, <4>4
          <5> QED
            BY <4>2, <4>4, <5>2, <5>3, Zenon
        <4>5. CASE ~refused
          <5>1. /\ (UndoFaults(less, log) = {}) = UndoLoop(less, log).ok
                /\ UndoInserts(less, log) = UndoLoop(less, log).rows
            BY <1>2, <4>3 DEF UndoneByTheLoop
          <5> QED
            BY <4>1, <4>2, <4>5, <5>1
        <4> QED
          BY <4>4, <4>5
      <3>4. UndoneByTheLoop(log')
        BY <3>3, Zenon DEF UndoneByTheLoop
      <3> QED
        BY <3>4
    <2> QED
      BY <1>2, <2>1, <2>2
  <1>3. LogTypeOK /\ UndoneByTheLoop(log) => UndoIsTheLoop
    BY DEF LogTypeOK, UndoneByTheLoop, UndoIsTheLoop
  <1> QED
    BY <1>1, <1>2, <1>3, LogTypeCorrect, PTL DEF LogSpec

(* net_rows is the change in the number of rows, for every log that tells  *)
(* the truth about replacements: sync() can check its index against it.    *)
THEOREM NetRowsCountsAlways == LogSpec => []NetRowsCounts
PROOF
  <1>1. LogInit => NetRowsCounts
    <2>1. SUFFICES ASSUME start \in Rows, log = <<>> PROVE NetRowsCounts
      BY DEF LogInit
    <2>2. NetRowsLoop(log) = 0 /\ NetRows(log) = 0 /\ KeysAfter(start, log) = Keys(start)
      BY <2>1, NothingLogged, Zenon
    <2>3. Cardinality(Keys(start)) \in Nat
      BY <2>1, CountOfKeys
    <2> QED
      BY <2>2, <2>3 DEF NetRowsCounts
  <1>2. ASSUME LogTypeOK, NetRowsCounts, [LogNext]_logVars PROVE NetRowsCounts'
    <2>1. CASE UNCHANGED logVars
      BY <1>2, <2>1 DEF logVars, NetRowsCounts, Truthful, PresentAt
    <2>2. CASE LogNext
      <3>1. /\ start' = start /\ log' \in Seq(Change) /\ start \in Rows /\ log \in Seq(Change)
            /\ \E x \in Change : OneMore(log', log, x)
        BY <1>2, <2>2, LogStep DEF LogTypeOK
      <3>2. PICK x \in Change : OneMore(log', log, x)
        BY <3>1
      <3>3. x.op \in {"insert", "delete"} /\ x.replaces \in BOOLEAN
        BY DEF Change
      <3>4. /\ NetRows(log') = IF x.op = "delete" THEN NetRows(log) - 1
                               ELSE IF x.replaces THEN NetRows(log) ELSE NetRows(log) + 1
            /\ NetRows(log) \in Int
        BY <3>1, <3>2, NetMore, NetRowsType
      <3>5. NetRows(log') = NetRowsLoop(log')
        <4>1. NetRows(log) = NetRowsLoop(log)
          BY <1>2 DEF NetRowsCounts
        <4>2. NetRowsLoop(log') = NetStep(NetRowsLoop(log), x)
          BY <3>1, <3>2, NetRowsLoopMore
        <4> QED
          BY <3>4, <4>1, <4>2 DEF NetStep
      <3>6. ASSUME Truthful'
            PROVE  Cardinality(KeysAfter(start, log')) =
                     Cardinality(Keys(start)) + NetRows(log')
        <4> DEFINE K == KeysAfter(start, log)
        <4>1. \A i \in DOMAIN log' :
                IF log'[i].op = "insert" THEN log'[i].replaces = PresentAt(start, log', i)
                                         ELSE PresentAt(start, log', i)
          BY <3>1, <3>6 DEF Truthful
        <4>2. /\ DOMAIN log' = DOMAIN log \cup {Len(log')} /\ log'[Len(log')] = x
              /\ \A i \in DOMAIN log : log'[i] = log[i]
          BY <3>2 DEF OneMore
        <4>3. /\ PresentAt(start, log', Len(log')) <=> x.id \in K
              /\ \A i \in DOMAIN log : PresentAt(start, log', i) <=> PresentAt(start, log, i)
          BY <3>1, <3>2, PresentMore
        <4>12. \A i : PresentAt(start, log', i) \in BOOLEAN /\ PresentAt(start, log, i) \in BOOLEAN
          BY DEF PresentAt
        <4>4. Truthful
          <5>1. \A i \in DOMAIN log : log[i] \in Change
            BY <3>1
          <5>2. ASSUME NEW i \in DOMAIN log
                PROVE  IF log[i].op = "insert" THEN log[i].replaces = PresentAt(start, log, i)
                                               ELSE PresentAt(start, log, i)
            <6>1. i \in DOMAIN log' /\ log'[i] = log[i] /\ log[i].replaces \in BOOLEAN
              BY <4>2, <5>1 DEF Change
            <6>2. /\ PresentAt(start, log', i) <=> PresentAt(start, log, i)
                  /\ PresentAt(start, log', i) \in BOOLEAN /\ PresentAt(start, log, i) \in BOOLEAN
              BY <4>3, <4>12
            <6> QED
              BY <4>1, <6>1, <6>2
          <5> QED
            BY <5>2 DEF Truthful
        <4>5. Cardinality(K) = Cardinality(Keys(start)) + NetRows(log)
          BY <1>2, <4>4 DEF NetRowsCounts
        <4>6. IF x.op = "insert" THEN x.replaces = (x.id \in K) ELSE x.id \in K
          <5>1. Len(log') \in DOMAIN log'
            BY <4>2
          <5>2. IF x.op = "insert" THEN x.replaces = PresentAt(start, log', Len(log'))
                                   ELSE PresentAt(start, log', Len(log'))
            BY <4>1, <4>2, <5>1
          <5>3. PresentAt(start, log', Len(log')) \in BOOLEAN
            BY <4>12
          <5>4. PresentAt(start, log', Len(log')) <=> x.id \in K
            BY <4>3
          <5> HIDE DEF K
          <5> QED
            BY <3>3, <5>2, <5>3, <5>4
        <4>7. KeysAfter(start, log') = IF x.op = "insert" THEN K \cup {x.id} ELSE K \ {x.id}
          BY <3>1, <3>2, ReplayMore
        <4>8. K \subseteq Rowid
          BY DEF KeysAfter
        <4> HIDE DEF K
        <4>9. /\ Cardinality(K \cup {x.id}) = IF x.id \in K THEN Cardinality(K) ELSE Cardinality(K) + 1
              /\ Cardinality(K \ {x.id}) = IF x.id \in K THEN Cardinality(K) - 1 ELSE Cardinality(K)
              /\ Cardinality(K) \in Nat
          BY <4>8, FiniteKeys, FS_AddElement, FS_RemoveElement
        <4>10. Cardinality(KeysAfter(start, log')) =
                 IF x.op = "delete" THEN Cardinality(K) - 1
                 ELSE IF x.replaces THEN Cardinality(K) ELSE Cardinality(K) + 1
          BY <3>3, <4>6, <4>7, <4>9
        <4>11. Cardinality(Keys(start)) \in Nat
          BY <3>1, CountOfKeys
        <4> QED
          BY <3>3, <3>4, <4>5, <4>9, <4>10, <4>11
      <3> QED
        BY <3>1, <3>5, <3>6 DEF NetRowsCounts
    <2> QED
      BY <1>2, <2>1, <2>2
  <1> QED
    BY <1>1, <1>2, LogTypeCorrect, PTL DEF LogSpec
-----------------------------------------------------------------------------
(* The recursive functions over a log, a batch or the rows of an aggregate.*)
(* f is what one of them has after each turn.                              *)
Pass(loop, d, i, v) ==
  IF loop = "applied" THEN Applied(v, d[i])
  ELSE IF loop = "built" THEN BuildStep(v, d[i])
  ELSE IF loop = "cells" THEN v \o EncodedChange(d[i])
  ELSE DecodeStep(v, d.cells, d.dimensions)
Passes(f, n, base, loop, d) ==
  f = [i \in 0 .. n |-> IF i = 0 THEN base ELSE Pass(loop, d, i, f[i - 1])]

LEMMA PassesAlong ==
  ASSUME NEW n \in Nat, NEW base, NEW loop, NEW d, NEW f, Passes(f, n, base, loop, d)
  PROVE  f[0] = base /\ \A i \in 1 .. n : i - 1 \in 0 .. n /\ f[i] = Pass(loop, d, i, f[i - 1])
PROOF
  <1>1. \A i \in 0 .. n : f[i] = IF i = 0 THEN base ELSE Pass(loop, d, i, f[i - 1])
    BY Zenon DEF Passes
  <1> QED
    BY <1>1

LEMMA PassesExist ==
  ASSUME NEW n \in Nat, NEW base, NEW loop, NEW d
  PROVE  \E f : Passes(f, n, base, loop, d)
PROOF
  <1> DEFINE S == {m \in 0 .. n : \E f : Passes(f, m, base, loop, d)}
  <1>1. 0 \in S
    <2>1. Passes([i \in 0 .. 0 |-> base], 0, base, loop, d)
      BY DEF Passes
    <2> QED
      BY <2>1
  <1>2. ASSUME NEW m \in 0 .. n, m < n, m \in S PROVE m + 1 \in S
    <2>1. PICK f : Passes(f, m, base, loop, d)
      BY <1>2
    <2> DEFINE h == [i \in 0 .. m + 1 |-> IF i = m + 1 THEN Pass(loop, d, m + 1, f[m]) ELSE f[i]]
    <2>2. \A i \in 0 .. m : f[i] = IF i = 0 THEN base ELSE Pass(loop, d, i, f[i - 1])
      BY <2>1, Zenon DEF Passes
    <2>3. \A i \in 0 .. m : h[i] = f[i]
      OBVIOUS
    <2>4. ASSUME NEW i \in 0 .. m + 1
          PROVE  h[i] = IF i = 0 THEN base ELSE Pass(loop, d, i, h[i - 1])
      <3>1. CASE i = m + 1
        <4>1. h[i - 1] = f[m] /\ i # 0
          BY <2>3, <3>1
        <4>2. h[i] = Pass(loop, d, i, f[m])
          BY <3>1
        <4> QED
          BY <4>1, <4>2
      <3>2. CASE i \in 1 .. m
        <4>1. h[i] = f[i] /\ h[i - 1] = f[i - 1] /\ f[i] = Pass(loop, d, i, f[i - 1]) /\ i # 0
          BY <2>2, <2>3, <3>2
        <4> QED
          BY <4>1
      <3>3. CASE i = 0
        <4>1. h[i] = base
          BY <2>2, <2>3, <3>3
        <4> QED
          BY <3>3, <4>1
      <3> QED
        BY <3>1, <3>2, <3>3
    <2>5. h = [i \in 0 .. m + 1 |-> h[i]]
      OBVIOUS
    <2> HIDE DEF h
    <2>6. Passes(h, m + 1, base, loop, d)
      BY <2>4, <2>5 DEF Passes
    <2> QED
      BY <1>2, <2>6
  <1>3. n \in S
    <2> HIDE DEF S
    <2> QED
      BY <1>1, <1>2, CountingUp
  <1> QED
    BY <1>3

(* Two of them agree as far as they do the same. *)
LEMMA PassesAgree ==
  ASSUME NEW n \in Nat, NEW m \in Nat, n <= m, NEW base, NEW loop, NEW d, NEW e,
         NEW f, Passes(f, n, base, loop, d), NEW g, Passes(g, m, base, loop, e),
         \A i \in 1 .. n : \A v : Pass(loop, d, i, v) = Pass(loop, e, i, v)
  PROVE  f[n] = g[n]
PROOF
  <1>1. f[0] = base /\ \A i \in 1 .. n : f[i] = Pass(loop, d, i, f[i - 1])
    BY PassesAlong
  <1>2. g[0] = base /\ \A i \in 1 .. m : g[i] = Pass(loop, e, i, g[i - 1])
    BY PassesAlong
  <1> DEFINE S == {k \in 0 .. n : f[k] = g[k]}
  <1>3. 0 \in S
    BY <1>1, <1>2
  <1>4. ASSUME NEW k \in 0 .. n, k < n, k \in S PROVE k + 1 \in S
    <2>1. k + 1 \in 1 .. n /\ k + 1 \in 1 .. m /\ (k + 1) - 1 = k /\ f[k] = g[k] /\ k + 1 \in 0 .. n
      BY <1>4
    <2>2. f[k + 1] = Pass(loop, d, k + 1, f[k]) /\ g[k + 1] = Pass(loop, e, k + 1, f[k])
      BY <1>1, <1>2, <2>1
    <2>3. Pass(loop, d, k + 1, f[k]) = Pass(loop, e, k + 1, f[k])
      BY <2>1
    <2> QED
      BY <2>1, <2>2, <2>3
  <1>5. n \in S
    <2> HIDE DEF S
    <2> QED
      BY <1>3, <1>4, CountingUp
  <1> QED
    BY <1>5

LEMMA AppliedAllIs ==
  ASSUME NEW b, NEW cs, Len(cs) \in Nat
  PROVE  \E f : Passes(f, Len(cs), b, "applied", cs) /\ AppliedAll(b, cs) = f[Len(cs)]
PROOF
  <1> DEFINE Body(g) == [i \in 0 .. Len(cs) |-> IF i = 0 THEN b ELSE Applied(g[i - 1], cs[i])]
             iter == CHOOSE g : g = Body(g)
  <1>1. \A g : Passes(g, Len(cs), b, "applied", cs) <=> g = Body(g)
    BY Zenon DEF Passes, Pass
  <1>2. \E g : g = Body(g)
    BY <1>1, PassesExist
  <1>3. AppliedAll(b, cs) = iter[Len(cs)]
    BY Zenon DEF AppliedAll
  <1> HIDE DEF Body
  <1>4. iter = Body(iter)
    BY <1>2
  <1> QED
    BY <1>1, <1>3, <1>4

LEMMA BuildFromIs ==
  ASSUME NEW rows, Len(rows) \in Nat, rows # <<>>
  PROVE  \E f : Passes(f, Len(rows), NewIndex(rows[1].shape), "built", rows)
                  /\ BuildFrom(rows) = f[Len(rows)]
PROOF
  <1> DEFINE new == NewIndex(rows[1].shape)
             Body(g) == [i \in 0 .. Len(rows) |-> IF i = 0 THEN new ELSE BuildStep(g[i - 1], rows[i])]
             iter == CHOOSE g : g = Body(g)
  <1>0. "built" # "applied"
    OBVIOUS
  <1>1. \A g : Passes(g, Len(rows), new, "built", rows) <=> g = Body(g)
    BY <1>0, Zenon DEF Passes, Pass
  <1>2. \E g : g = Body(g)
    BY <1>1, PassesExist
  <1>3. BuildFrom(rows) = iter[Len(rows)]
    BY Zenon DEF BuildFrom
  <1> HIDE DEF Body
  <1>4. iter = Body(iter)
    BY <1>2
  <1> QED
    BY <1>1, <1>3, <1>4

LEMMA EncodedChangesIs ==
  ASSUME NEW cs, Len(cs) \in Nat
  PROVE  \E f : Passes(f, Len(cs), <<>>, "cells", cs) /\ EncodedChanges(cs) = f[Len(cs)]
PROOF
  <1> DEFINE Body(g) == [i \in 0 .. Len(cs) |->
                           IF i = 0 THEN <<>> ELSE g[i - 1] \o EncodedChange(cs[i])]
             iter == CHOOSE g : g = Body(g)
  <1>0. "cells" # "applied" /\ "cells" # "built"
    OBVIOUS
  <1>1. \A g : Passes(g, Len(cs), <<>>, "cells", cs) <=> g = Body(g)
    BY <1>0, Zenon DEF Passes, Pass
  <1>2. \E g : g = Body(g)
    BY <1>1, PassesExist
  <1>3. EncodedChanges(cs) = iter[Len(cs)]
    BY Zenon DEF EncodedChanges
  <1> HIDE DEF Body
  <1>4. iter = Body(iter)
    BY <1>2
  <1> QED
    BY <1>1, <1>3, <1>4

RunBegins == [ok |-> TRUE, at |-> HeaderLen, changes |-> <<>>]
Decoding(cells, dimensions) == [cells |-> cells, dimensions |-> dimensions]
LEMMA DecodeLoopIs ==
  ASSUME NEW cells, cells[3] \in Nat, NEW crc, NEW dimensions
  PROVE  \E f : /\ Passes(f, cells[3], RunBegins, "decoded", Decoding(cells, dimensions))
                /\ DecodeLoop(Blob(cells, crc), dimensions) = f[cells[3]]
PROOF
  <1> DEFINE Body(g) == [i \in 0 .. cells[3] |->
                           IF i = 0 THEN [ok |-> TRUE, at |-> HeaderLen, changes |-> <<>>]
                           ELSE DecodeStep(g[i - 1], cells, dimensions)]
             iter == CHOOSE g : g = Body(g)
             d == Decoding(cells, dimensions)
  <1>0. /\ "decoded" # "applied" /\ "decoded" # "built" /\ "decoded" # "cells"
        /\ d.cells = cells /\ d.dimensions = dimensions /\ Blob(cells, crc).cells = cells
    BY DEF Decoding, Blob
  <1> HIDE DEF d
  <1>1. \A g : Passes(g, cells[3], RunBegins, "decoded", d) <=> g = Body(g)
    BY <1>0, Zenon DEF Passes, Pass, RunBegins
  <1>2. \E g : g = Body(g)
    BY <1>1, PassesExist
  <1>3. DecodeLoop(Blob(cells, crc), dimensions) = iter[cells[3]]
    BY <1>0, Zenon DEF DecodeLoop
  <1> HIDE DEF Body
  <1>4. iter = Body(iter)
    BY <1>2
  <1> QED
    BY <1>1, <1>3, <1>4 DEF d
-----------------------------------------------------------------------------
(* The BLOB functions. *)
Indexes == [format : Formats, shape : Shapes, rows : Rows]
Readables == {"v7", "v8"}

LEMMA ImageIs ==
  ASSUME NEW format \in Formats, NEW shape \in Shapes, NEW rows \in Rows
  PROVE  /\ Image(format, shape, rows) \in Indexes /\ Image("v8", shape, rows) \in Indexes
         /\ Image(format, shape, rows) # None /\ Image("v8", shape, rows) # None
         /\ Image(format, shape, rows).format = format
         /\ Image(format, shape, rows).shape = shape
         /\ Image(format, shape, rows).rows = rows
         /\ Image("v8", shape, rows).format = "v8"
         /\ Image("v8", shape, rows).shape = shape
         /\ Image("v8", shape, rows).rows = rows
PROOF
  <1>1. "v8" \in Formats /\ None \notin Indexes
    BY BlobAssumption DEF Indexes
  <1>2. Image(format, shape, rows) \in Indexes /\ Image("v8", shape, rows) \in Indexes
    BY <1>1 DEF Indexes, Image
  <1>3. Image(format, shape, rows) # None /\ Image("v8", shape, rows) # None
    BY <1>1, <1>2
  <1>4. /\ Image(format, shape, rows).format = format
        /\ Image(format, shape, rows).shape = shape
        /\ Image(format, shape, rows).rows = rows
        /\ Image("v8", shape, rows).format = "v8"
        /\ Image("v8", shape, rows).shape = shape
        /\ Image("v8", shape, rows).rows = rows
    BY DEF Image
  <1> QED
    BY <1>2, <1>3, <1>4

(* A row put into an image, and taken out of it. *)
LEMMA RowsExcept ==
  ASSUME NEW shape \in Shapes, NEW rows \in Rows, NEW id \in Rowid, NEW vector \in Vector \cup {None}
  PROVE  /\ [rows EXCEPT ![id] = vector] \in Rows /\ [rows EXCEPT ![id] = vector][id] = vector
         /\ [Image("v8", shape, rows) EXCEPT !.rows[id] = vector]
              = Image("v8", shape, [rows EXCEPT ![id] = vector])
         /\ [[rows EXCEPT ![id] = None] EXCEPT ![id] = vector] = [rows EXCEPT ![id] = vector]
PROOF
  <1>1. [rows EXCEPT ![id] = vector] \in Rows /\ [rows EXCEPT ![id] = vector][id] = vector
    BY DEF Rows
  <1>2. [Image("v8", shape, rows) EXCEPT !.rows[id] = vector]
          = Image("v8", shape, [rows EXCEPT ![id] = vector])
    BY DEF Image
  <1>3. [[rows EXCEPT ![id] = None] EXCEPT ![id] = vector] = [rows EXCEPT ![id] = vector]
    BY DEF Rows
  <1> QED
    BY <1>1, <1>2, <1>3

Fine(blob, x) ==
  /\ blob.format \in Readables
  /\ IF x.op = "delete" THEN blob.rows[x.id] # None
     ELSE /\ x.replaces <=> blob.rows[x.id] # None
          /\ x.vector # None /\ Len(x.vector) = blob.shape.dimensions

(* One function, or two, as one change of the table. *)
LEMMA AppliedIs ==
  ASSUME NEW format \in Formats, NEW shape \in Shapes, NEW rows \in Rows,
         NEW x \in Change, x.op = "delete" => x.vector = None
  PROVE  Applied(Image(format, shape, rows), x)
           = IF Fine(Image(format, shape, rows), x)
             THEN Image("v8", shape, [rows EXCEPT ![x.id] = x.vector]) ELSE None
PROOF
  <1> DEFINE blob == Image(format, shape, rows)
             index == Image("v8", shape, rows)
             less == [rows EXCEPT ![x.id] = None]
             more == [rows EXCEPT ![x.id] = x.vector]
             cleared == IF x.op = "delete" \/ x.replaces THEN RemoveVector(blob, x.id) ELSE blob
  <1>1. /\ x.id \in Rowid /\ x.vector \in Vector \cup {None} /\ x.replaces \in BOOLEAN
        /\ x.op \in {"insert", "delete"} /\ None \in Vector \cup {None} /\ "insert" # "delete"
    BY DEF Change
  <1>2. /\ blob # None /\ index # None
        /\ blob.format = format /\ blob.shape = shape /\ blob.rows = rows
        /\ index.format = "v8" /\ index.shape = shape /\ index.rows = rows
    BY ImageIs
  <1>3. /\ less \in Rows /\ less[x.id] = None /\ more \in Rows
        /\ [index EXCEPT !.rows[x.id] = None] = Image("v8", shape, less)
        /\ [index EXCEPT !.rows[x.id] = x.vector] = Image("v8", shape, more)
        /\ [Image("v8", shape, less) EXCEPT !.rows[x.id] = x.vector] = Image("v8", shape, more)
    <2> DEFINE With(r, v) == [r EXCEPT ![x.id] = v]
               Now(r, v) == [Image("v8", shape, r) EXCEPT !.rows[x.id] = v]
    <2>1. \A r \in Rows, v \in Vector \cup {None} :
            /\ With(r, v) \in Rows /\ With(r, v)[x.id] = v
            /\ Now(r, v) = Image("v8", shape, With(r, v))
            /\ With(With(r, None), v) = With(r, v)
      BY <1>1, RowsExcept
    <2>2. less = With(rows, None) /\ more = With(rows, x.vector)
      OBVIOUS
    <2>3. /\ [index EXCEPT !.rows[x.id] = None] = Now(rows, None)
          /\ [index EXCEPT !.rows[x.id] = x.vector] = Now(rows, x.vector)
          /\ [Image("v8", shape, less) EXCEPT !.rows[x.id] = x.vector] = Now(less, x.vector)
      OBVIOUS
    <2> HIDE DEF less, more, With, Now
    <2>4. less \in Rows /\ less[x.id] = None /\ more \in Rows
      BY <1>1, <2>1, <2>2
    <2>5. /\ Now(rows, None) = Image("v8", shape, less)
          /\ Now(rows, x.vector) = Image("v8", shape, more)
      BY <1>1, <2>1, <2>2
    <2>6. Now(less, x.vector) = Image("v8", shape, more)
      BY <1>1, <2>1, <2>2, <2>4
    <2> QED
      BY <2>3, <2>4, <2>5, <2>6
  <1>4. Image("v8", shape, less) # None /\ Image("v8", shape, less).format = "v8"
        /\ Image("v8", shape, less).shape = shape /\ Image("v8", shape, less).rows = less
        /\ Image("v8", shape, more) # None
    BY <1>3, ImageIs
  <1>5. LoadIndex(blob) = IF format \in Readables THEN index ELSE None
    BY <1>2 DEF LoadIndex, Readables
  <1>6. LoadIndex(Image("v8", shape, less)) = Image("v8", shape, less)
    BY <1>4 DEF LoadIndex
  <1> DEFINE smaller == Image("v8", shape, less)
             greater == Image("v8", shape, more)
  <1>7. Applied(blob, x) = IF cleared = None \/ x.op = "delete" THEN cleared
                           ELSE AddVector(cleared, x.id, x.vector)
    BY <1>2 DEF Applied
  <1>8. Fine(blob, x) <=>
          /\ format \in Readables
          /\ IF x.op = "delete" THEN rows[x.id] # None
             ELSE /\ x.replaces <=> rows[x.id] # None
                  /\ x.vector # None /\ Len(x.vector) = shape.dimensions
    BY <1>2 DEF Fine
  <1> HIDE DEF blob, index, less, more, smaller, greater
  <1>9. RemoveVector(blob, x.id) =
          IF format \in Readables /\ rows[x.id] # None THEN smaller ELSE None
    BY <1>2, <1>3, <1>5 DEF RemoveVector, smaller
  <1>10. CASE x.op = "delete"
    <2>1. more = less
      BY <1>10 DEF more, less
    <2>2. Applied(blob, x) = RemoveVector(blob, x.id)
      BY <1>7, <1>10
    <2> QED
      BY <1>8, <1>9, <1>10, <2>1, <2>2 DEF blob, more, smaller
  <1>11. CASE x.op = "insert" /\ x.replaces
    <2>1. cleared = RemoveVector(blob, x.id) /\ x.op # "delete"
      BY <1>1, <1>11
    <2>2. CASE format \in Readables /\ rows[x.id] # None
      <3>1. Applied(blob, x) = AddVector(smaller, x.id, x.vector)
        <4>1. cleared = smaller /\ smaller # None
          BY <1>4, <1>9, <2>1, <2>2 DEF smaller
        <4> HIDE DEF cleared
        <4> QED
          BY <1>7, <2>1, <4>1
      <3>2. AddVector(smaller, x.id, x.vector) =
              IF x.vector # None /\ Len(x.vector) = shape.dimensions THEN greater ELSE None
        BY <1>3, <1>4, <1>6 DEF AddVector, AddWithId, smaller, greater
      <3> QED
        BY <1>8, <1>11, <2>1, <2>2, <3>1, <3>2 DEF blob, more, greater
    <2>3. CASE ~(format \in Readables /\ rows[x.id] # None)
      <3>1. Applied(blob, x) = None
        BY <1>7, <1>9, <2>1, <2>3
      <3> QED
        BY <1>8, <1>11, <2>1, <2>3, <3>1 DEF blob
    <2> QED
      BY <2>2, <2>3
  <1>12. CASE x.op = "insert" /\ ~x.replaces
    <2>1. Applied(blob, x) = AddVector(blob, x.id, x.vector)
      BY <1>1, <1>2, <1>7, <1>12
    <2>2. AddVector(blob, x.id, x.vector) =
            IF /\ format \in Readables /\ x.vector # None
               /\ Len(x.vector) = shape.dimensions /\ rows[x.id] = None
            THEN greater ELSE None
      BY <1>2, <1>3, <1>5 DEF AddVector, AddWithId, greater
    <2> QED
      BY <1>1, <1>8, <1>12, <2>1, <2>2 DEF blob, more, greater
  <1> QED
    BY <1>1, <1>10, <1>11, <1>12

LEMMA AppliedAllEmpty ==
  ASSUME NEW b, NEW cs, Len(cs) = 0
  PROVE  AppliedAll(b, cs) = b
PROOF
  <1>1. PICK f : Passes(f, 0, b, "applied", cs) /\ AppliedAll(b, cs) = f[0]
    BY AppliedAllIs
  <1> QED
    BY <1>1, PassesAlong

LEMMA AppliedAllMore ==
  ASSUME NEW b, NEW cs, NEW x, NEW ds, OneMore(ds, cs, x), Len(cs) \in Nat
  PROVE  AppliedAll(b, ds) = Applied(AppliedAll(b, cs), x)
PROOF
  <1> DEFINE n == Len(cs)
  <1>1. n \in Nat /\ Len(ds) = n + 1 /\ ds[n + 1] = x /\ \A i \in 1 .. n : ds[i] = cs[i]
    BY DEF OneMore
  <1> HIDE DEF n
  <1>2. PICK f : Passes(f, n, b, "applied", cs) /\ AppliedAll(b, cs) = f[n]
    BY <1>1, AppliedAllIs DEF n
  <1>3. PICK g : Passes(g, n + 1, b, "applied", ds) /\ AppliedAll(b, ds) = g[n + 1]
    <2>1. n + 1 \in Nat
      BY <1>1
    <2> QED
      BY <1>1, <2>1, AppliedAllIs
  <1>4. \A i \in 1 .. n : \A v : Pass("applied", cs, i, v) = Pass("applied", ds, i, v)
    BY <1>1 DEF Pass
  <1>5. f[n] = g[n]
    <2>1. n + 1 \in Nat /\ n <= n + 1
      BY <1>1
    <2> QED
      BY <1>1, <1>2, <1>3, <1>4, <2>1, PassesAgree
  <1>6. g[n + 1] = Pass("applied", ds, n + 1, g[n])
    <2>1. n + 1 \in Nat /\ n + 1 \in 1 .. n + 1 /\ (n + 1) - 1 = n
      BY <1>1
    <2>2. \A i \in 1 .. n + 1 : g[i] = Pass("applied", ds, i, g[i - 1])
      BY <1>3, <2>1, PassesAlong
    <2> QED
      BY <2>1, <2>2
  <1> QED
    BY <1>1, <1>2, <1>3, <1>5, <1>6 DEF Pass
-----------------------------------------------------------------------------
(* What the BLOB functions accept, and what they make of it.               *)
TruthfulOn(rows, cs) ==
  \A i \in DOMAIN cs :
    IF cs[i].op = "insert" THEN cs[i].replaces = PresentAt(rows, cs, i)
                           ELSE PresentAt(rows, cs, i)
Fits(cs, shape) ==
  \A i \in Inserts(cs) : cs[i].vector # None /\ Len(cs[i].vector) = shape.dimensions
Accepted(format, shape, rows, cs) ==
  (Len(cs) = 0 \/ format \in Readables) /\ Fits(cs, shape) /\ TruthfulOn(rows, cs)
Mirrors(format, shape, rows, cs) ==
  /\ AppliedAll(Image(format, shape, rows), cs)
       = IF Accepted(format, shape, rows, cs)
         THEN Image(IF Len(cs) = 0 THEN format ELSE "v8", shape, Replay(rows, cs)) ELSE None
  /\ Fits(cs, shape) => Keys(Replay(rows, cs)) = KeysAfter(rows, cs)

LEMMA MirrorsNothing ==
  ASSUME NEW format, NEW shape, NEW rows \in Rows, NEW cs \in Seq(Change), cs = <<>>
  PROVE  Mirrors(format, shape, rows, cs)
PROOF
  <1>2. Len(cs) = 0 /\ DOMAIN cs = {}
    OBVIOUS
  <1>3. Replay(rows, cs) = rows /\ KeysAfter(rows, cs) = Keys(rows)
    BY NothingLogged, Zenon
  <1>4. AppliedAll(Image(format, shape, rows), cs) = Image(format, shape, rows)
    BY <1>2, AppliedAllEmpty
  <1>5. Accepted(format, shape, rows, cs)
    BY <1>2 DEF Accepted, Fits, Inserts, TruthfulOn
  <1> QED
    BY <1>2, <1>3, <1>4, <1>5 DEF Mirrors

LEMMA TruthfulMore ==
  ASSUME NEW rows \in Rows, NEW cs \in Seq(Change), NEW x \in Change,
         NEW ds \in Seq(Change), OneMore(ds, cs, x)
  PROVE  TruthfulOn(rows, ds) <=>
           /\ TruthfulOn(rows, cs)
           /\ IF x.op = "insert" THEN x.replaces <=> x.id \in KeysAfter(rows, cs)
                                 ELSE x.id \in KeysAfter(rows, cs)
PROOF
  <1> DEFINE True(es, i) == IF es[i].op = "insert" THEN es[i].replaces <=> PresentAt(rows, es, i)
                                                   ELSE PresentAt(rows, es, i)
  <1>1. /\ DOMAIN ds = DOMAIN cs \cup {Len(ds)} /\ ds[Len(ds)] = x
        /\ \A i \in DOMAIN cs : ds[i] = cs[i]
    BY DEF OneMore
  <1>2. /\ PresentAt(rows, ds, Len(ds)) <=> x.id \in KeysAfter(rows, cs)
        /\ \A i \in DOMAIN cs : PresentAt(rows, ds, i) <=> PresentAt(rows, cs, i)
    BY PresentMore
  <1>3. /\ \A i \in DOMAIN cs : cs[i].replaces \in BOOLEAN
        /\ \A i \in DOMAIN ds : ds[i].replaces \in BOOLEAN
    <2>1. /\ \A i \in DOMAIN cs : cs[i] \in Change
          /\ \A i \in DOMAIN ds : ds[i] \in Change
      OBVIOUS
    <2> QED
      BY <2>1 DEF Change
  <1>4. \A es, i : PresentAt(rows, es, i) \in BOOLEAN
    BY DEF PresentAt
  <1>5. TruthfulOn(rows, cs) <=> \A i \in DOMAIN cs : True(cs, i)
    <2>1. \A i \in DOMAIN cs : (cs[i].replaces = PresentAt(rows, cs, i))
                                 <=> (cs[i].replaces <=> PresentAt(rows, cs, i))
      BY <1>3, <1>4
    <2> QED
      BY <2>1 DEF TruthfulOn
  <1>6. TruthfulOn(rows, ds) <=> \A i \in DOMAIN ds : True(ds, i)
    <2>1. \A i \in DOMAIN ds : (ds[i].replaces = PresentAt(rows, ds, i))
                                 <=> (ds[i].replaces <=> PresentAt(rows, ds, i))
      BY <1>3, <1>4
    <2> QED
      BY <2>1 DEF TruthfulOn
  <1>7. \A i \in DOMAIN cs : True(ds, i) <=> True(cs, i)
    BY <1>1, <1>2
  <1>8. True(ds, Len(ds)) <=> IF x.op = "insert" THEN x.replaces <=> x.id \in KeysAfter(rows, cs)
                                                 ELSE x.id \in KeysAfter(rows, cs)
    BY <1>1, <1>2
  <1> HIDE DEF True
  <1> QED
    BY <1>1, <1>5, <1>6, <1>7, <1>8

LEMMA FitsMore ==
  ASSUME NEW shape, NEW cs \in Seq(Change), NEW x \in Change, NEW ds \in Seq(Change),
         OneMore(ds, cs, x)
  PROVE  Fits(ds, shape) <=>
           /\ Fits(cs, shape)
           /\ x.op = "insert" => x.vector # None /\ Len(x.vector) = shape.dimensions
PROOF
  <1>1. /\ DOMAIN ds = DOMAIN cs \cup {Len(ds)} /\ ds[Len(ds)] = x
        /\ \A i \in DOMAIN cs : ds[i] = cs[i]
    BY DEF OneMore
  <1> DEFINE Fit(y) == y.op = "insert" => y.vector # None /\ Len(y.vector) = shape.dimensions
  <1>2. Fits(cs, shape) <=> \A i \in DOMAIN cs : Fit(cs[i])
    BY DEF Fits, Inserts
  <1>3. Fits(ds, shape) <=> \A i \in DOMAIN ds : Fit(ds[i])
    BY DEF Fits, Inserts
  <1> HIDE DEF Fit
  <1>4. Fits(ds, shape) <=> Fits(cs, shape) /\ Fit(x)
    BY <1>1, <1>2, <1>3
  <1> QED
    BY <1>4 DEF Fit

(* One more change. *)
LEMMA MirrorsMore ==
  ASSUME NEW format \in Formats, NEW shape \in Shapes, NEW rows \in Rows,
         NEW cs \in Seq(Change), NEW x \in Change, x.op = "delete" => x.vector = None,
         NEW ds \in Seq(Change), OneMore(ds, cs, x), Mirrors(format, shape, rows, cs)
  PROVE  Mirrors(format, shape, rows, ds)
PROOF
  <1> DEFINE blob == Image(format, shape, rows)
             now == Replay(rows, cs)
             next == Replay(rows, ds)
             K == KeysAfter(rows, cs)
             ext == IF Len(cs) = 0 THEN format ELSE "v8"
  <1>1. Len(cs) \in Nat /\ Len(ds) \in Nat /\ Len(ds) # 0
    <2>1. Len(cs) \in Nat /\ Len(ds) \in Nat
      OBVIOUS
    <2> QED
      BY <2>1 DEF OneMore
  <1>2. /\ x.id \in Rowid /\ x.op \in {"insert", "delete"} /\ x.replaces \in BOOLEAN
        /\ x.vector \in Vector \cup {None} /\ "insert" # "delete"
    BY DEF Change
  <1>3. now \in Rows /\ next \in Rows
    BY ReplayType
  <1>4. /\ next = [now EXCEPT ![x.id] = x.vector]
        /\ KeysAfter(rows, ds) = IF x.op = "insert" THEN K \cup {x.id} ELSE K \ {x.id}
    BY ReplayMore
  <1>5. AppliedAll(blob, ds) = Applied(AppliedAll(blob, cs), x)
    BY <1>1, AppliedAllMore
  <1>6. /\ Fits(ds, shape) <=>
             /\ Fits(cs, shape)
             /\ x.op = "insert" => x.vector # None /\ Len(x.vector) = shape.dimensions
        /\ TruthfulOn(rows, ds) <=>
             /\ TruthfulOn(rows, cs)
             /\ IF x.op = "insert" THEN x.replaces <=> x.id \in K ELSE x.id \in K
    BY FitsMore, TruthfulMore
  <1>7. Fits(cs, shape) => \A id \in Rowid : now[id] # None <=> id \in K
    BY DEF Mirrors, Keys
  <1>8. ext \in Formats /\ (ext \in Readables <=> Len(cs) # 0 \/ format \in Readables)
    BY BlobAssumption DEF Readables
  <1>9. AppliedAll(blob, cs) = IF Accepted(format, shape, rows, cs)
                               THEN Image(ext, shape, now) ELSE None
    BY DEF Mirrors
  <1> HIDE DEF blob, now, next, K, ext
  <1>10. ASSUME Fits(ds, shape) PROVE Keys(next) = KeysAfter(rows, ds)
    <2>1. \A id \in Rowid : next[id] = IF id = x.id THEN x.vector ELSE now[id]
      BY <1>2, <1>3, <1>4 DEF Rows
    <2>2. \A id \in Rowid : next[id] # None <=> id \in KeysAfter(rows, ds)
      BY <1>2, <1>4, <1>6, <1>7, <1>10, <2>1
    <2>3. KeysAfter(rows, ds) \subseteq Rowid
      BY DEF KeysAfter
    <2> QED
      BY <2>2, <2>3 DEF Keys
  <1>11. CASE Accepted(format, shape, rows, cs)
    <2>1. AppliedAll(blob, cs) = Image(ext, shape, now)
      BY <1>9, <1>11
    <2>2. AppliedAll(blob, ds) = IF Fine(Image(ext, shape, now), x)
                                 THEN Image("v8", shape, next) ELSE None
      <3>1. Applied(Image(ext, shape, now), x)
              = IF Fine(Image(ext, shape, now), x)
                THEN Image("v8", shape, [now EXCEPT ![x.id] = x.vector]) ELSE None
        BY <1>3, <1>8, AppliedIs
      <3> QED
        BY <1>4, <1>5, <2>1, <3>1, Zenon
    <2>3. Fine(Image(ext, shape, now), x) <=> Accepted(format, shape, rows, ds)
      <3>1. /\ Image(ext, shape, now).format = ext /\ Image(ext, shape, now).shape = shape
            /\ Image(ext, shape, now).rows = now
        BY <1>3, <1>8, ImageIs
      <3>2. Fine(Image(ext, shape, now), x) <=>
              /\ ext \in Readables
              /\ IF x.op = "delete" THEN now[x.id] # None
                 ELSE /\ x.replaces <=> now[x.id] # None
                      /\ x.vector # None /\ Len(x.vector) = shape.dimensions
        BY <3>1 DEF Fine
      <3>3. /\ Fits(cs, shape) /\ TruthfulOn(rows, cs)
            /\ Len(cs) = 0 \/ format \in Readables
        BY <1>11 DEF Accepted
      <3>4. now[x.id] # None <=> x.id \in K
        BY <1>2, <1>7, <3>3
      <3>5. Accepted(format, shape, rows, ds) <=>
              /\ format \in Readables
              /\ x.op = "insert" => x.vector # None /\ Len(x.vector) = shape.dimensions
              /\ IF x.op = "insert" THEN x.replaces <=> x.id \in K ELSE x.id \in K
        BY <1>1, <1>6, <3>3 DEF Accepted
      <3>6. ext \in Readables <=> format \in Readables
        BY <1>8, <3>3
      <3> QED
        BY <1>2, <3>2, <3>4, <3>5, <3>6
    <2> QED
      BY <1>1, <1>10, <2>2, <2>3 DEF Mirrors, blob, next
  <1>12. CASE ~Accepted(format, shape, rows, cs)
    <2>1. AppliedAll(blob, ds) = None
      BY <1>5, <1>9, <1>12 DEF Applied
    <2>2. ~Accepted(format, shape, rows, ds)
      BY <1>1, <1>6, <1>12 DEF Accepted
    <2> QED
      BY <1>10, <2>1, <2>2 DEF Mirrors, blob, next
  <1> QED
    BY <1>11, <1>12
-----------------------------------------------------------------------------
(* turbovec_build. *)

(* The rows of the aggregate, while there are no others than v8 images.    *)
Built(shape, v) == v = None \/ \E r \in Rows : v = Image("v8", shape, r)

LEMMA BuildStepIs ==
  ASSUME NEW shape \in Shapes, NEW v, Built(shape, v), NEW x \in Change,
         x.op = "insert", ~x.replaces, x.vector # None,
         NEW row, row.id = x.id, row.vector = x.vector
  PROVE  /\ row.shape # shape => BuildStep(v, row) = None
         /\ row.shape = shape => BuildStep(v, row) = Applied(v, x)
         /\ Built(shape, Applied(v, x))
PROOF
  <1>1. x.id \in Rowid /\ x.vector \in Vector /\ x.op # "delete"
    BY DEF Change
  <1>2. CASE v = None
    <2>1. BuildStep(v, row) = None /\ Applied(v, x) = None
      BY <1>2 DEF BuildStep, Applied
    <2> QED
      BY <2>1 DEF Built
  <1>3. CASE v # None
    <2>1. PICK r \in Rows : v = Image("v8", shape, r)
      BY <1>3 DEF Built
    <2>2. "v8" \in Formats
      BY BlobAssumption
    <2>3. v.format = "v8" /\ v.shape = shape /\ v.rows = r
      BY <2>1, <2>2, ImageIs
    <2>4. Applied(v, x) = IF Fine(v, x) THEN Image("v8", shape, [r EXCEPT ![x.id] = x.vector]) ELSE None
      <3>1. Applied(Image("v8", shape, r), x)
              = IF Fine(Image("v8", shape, r), x)
                THEN Image("v8", shape, [r EXCEPT ![x.id] = x.vector]) ELSE None
        BY <1>1, <2>2, AppliedIs
      <3> QED
        BY <2>1, <3>1, Zenon
    <2>5. Fine(v, x) <=> r[x.id] = None /\ Len(x.vector) = shape.dimensions
      BY <1>1, <2>3 DEF Fine, Readables
    <2>6. [v EXCEPT !.rows[x.id] = x.vector] = Image("v8", shape, [r EXCEPT ![x.id] = x.vector])
      <3>1. [Image("v8", shape, r) EXCEPT !.rows[x.id] = x.vector]
              = Image("v8", shape, [r EXCEPT ![x.id] = x.vector])
        BY DEF Image
      <3> QED
        BY <2>1, <3>1
    <2>7. BuildStep(v, row) =
            IF row.shape # shape \/ Len(x.vector) # row.shape.dimensions \/ r[x.id] # None
            THEN None ELSE Image("v8", shape, [r EXCEPT ![x.id] = x.vector])
      BY <1>3, <2>3, <2>6 DEF BuildStep, AddWithId
    <2>8. [r EXCEPT ![x.id] = x.vector] \in Rows
      BY <1>1 DEF Rows
    <2>9. Built(shape, Applied(v, x))
      BY <2>4, <2>8 DEF Built
    <2> QED
      BY <2>4, <2>5, <2>7, <2>9
  <1> QED
    BY <1>2, <1>3

(* Some rows of the aggregate: those of the changes, in shapes there are.  *)
BuildRowsOf(rows, cs) ==
  /\ Len(rows) = Len(cs) /\ DOMAIN rows = 1 .. Len(cs)
  /\ \A i \in 1 .. Len(cs) : rows[i].id = cs[i].id /\ rows[i].vector = cs[i].vector

LEMMA BuildMirrors ==
  ASSUME NEW cs \in Seq(Change), AppendOnly(cs), Encodable(cs), Len(cs) > 0,
         NEW rows, BuildRowsOf(rows, cs), rows[1].shape \in Shapes
  PROVE  LET same == \A i \in DOMAIN rows : rows[i].shape = rows[1].shape
         IN  BuildFrom(rows) = IF same THEN AppliedAll(NewIndex(rows[1].shape), cs) ELSE None
PROOF
  <1> DEFINE n == Len(cs)
             s == rows[1].shape
             new == NewIndex(s)
             Same(k) == \A i \in 1 .. k : rows[i].shape = s
  <1>1. /\ n \in Nat /\ n > 0 /\ Len(rows) = n /\ DOMAIN rows = 1 .. n
        /\ \A i \in 1 .. n : rows[i].id = cs[i].id /\ rows[i].vector = cs[i].vector
    BY DEF BuildRowsOf
  <1>2. rows # <<>>
    BY <1>1
  <1>3. \A i \in 1 .. n : /\ cs[i] \in Change /\ cs[i].op = "insert" /\ ~cs[i].replaces
                          /\ cs[i].vector # None
    BY DEF AppendOnly, Encodable, Inserts
  <1>4. PICK f : Passes(f, n, new, "built", rows) /\ BuildFrom(rows) = f[n]
    BY <1>1, <1>2, BuildFromIs
  <1>5. PICK g : Passes(g, n, new, "applied", cs) /\ AppliedAll(new, cs) = g[n]
    BY <1>1, AppliedAllIs
  <1> HIDE DEF n, new, s
  <1>6. f[0] = new /\ \A i \in 1 .. n : f[i] = BuildStep(f[i - 1], rows[i])
    <2>1. f[0] = new /\ \A i \in 1 .. n : f[i] = Pass("built", rows, i, f[i - 1])
      BY <1>1, <1>4, PassesAlong
    <2>2. \A i, v : Pass("built", rows, i, v) = BuildStep(v, rows[i])
      BY DEF Pass
    <2> QED
      BY <2>1, <2>2
  <1>7. g[0] = new /\ \A i \in 1 .. n : g[i] = Applied(g[i - 1], cs[i])
    <2>1. g[0] = new /\ \A i \in 1 .. n : g[i] = Pass("applied", cs, i, g[i - 1])
      BY <1>1, <1>5, PassesAlong
    <2>2. \A i, v : Pass("applied", cs, i, v) = Applied(v, cs[i])
      BY DEF Pass
    <2> QED
      BY <2>1, <2>2
  <1>8. s \in Shapes /\ Built(s, new)
    <2>1. EmptyRows \in Rows
      BY DEF EmptyRows, Rows
    <2> QED
      BY <2>1 DEF s, new, Built, NewIndex
  <1> DEFINE S == {k \in 0 .. n : /\ Built(s, g[k])
                                  /\ Same(k) => f[k] = g[k]
                                  /\ ~Same(k) => f[k] = None}
  <1>9. 0 \in S
    BY <1>1, <1>6, <1>7, <1>8
  <1>10. ASSUME NEW k \in 0 .. n, k < n, k \in S PROVE k + 1 \in S
    <2>1. /\ k + 1 \in 1 .. n /\ (k + 1) - 1 = k /\ k + 1 \in 0 .. n
          /\ 1 .. k + 1 = (1 .. k) \cup {k + 1}
      BY <1>1, <1>10
    <2>2. Built(s, g[k]) /\ (Same(k) => f[k] = g[k]) /\ (~Same(k) => f[k] = None)
      BY <1>10
    <2>3. f[k + 1] = BuildStep(f[k], rows[k + 1]) /\ g[k + 1] = Applied(g[k], cs[k + 1])
      BY <1>6, <1>7, <2>1
    <2>4. /\ rows[k + 1].shape # s => BuildStep(g[k], rows[k + 1]) = None
          /\ rows[k + 1].shape = s => BuildStep(g[k], rows[k + 1]) = Applied(g[k], cs[k + 1])
          /\ Built(s, Applied(g[k], cs[k + 1]))
      BY <1>1, <1>3, <1>8, <2>1, <2>2, BuildStepIs
    <2>5. Same(k + 1) <=> Same(k) /\ rows[k + 1].shape = s
      BY <2>1
    <2>6. f[k] = None => BuildStep(f[k], rows[k + 1]) = None
      BY DEF BuildStep
    <2> HIDE DEF Same
    <2>7. /\ Built(s, g[k + 1]) /\ (Same(k + 1) => f[k + 1] = g[k + 1])
          /\ ~Same(k + 1) => f[k + 1] = None
      BY <2>2, <2>3, <2>4, <2>5, <2>6
    <2> QED
      BY <2>1, <2>7
  <1>11. n \in S
    <2> HIDE DEF S
    <2> QED
      BY <1>1, <1>9, <1>10, CountingUp
  <1>12. BuildFrom(rows) = IF Same(n) THEN AppliedAll(new, cs) ELSE None
    <2>1. (Same(n) => f[n] = g[n]) /\ (~Same(n) => f[n] = None)
      BY <1>11
    <2> HIDE DEF Same
    <2> QED
      BY <1>4, <1>5, <2>1
  <1> QED
    BY <1>1, <1>12 DEF n, new, s

LEMMA BuildRowsAre ==
  ASSUME NEW cs \in Seq(Change), Encodable(cs), AppendOnly(cs), Len(cs) > 0,
         NEW last \in Shapes
  PROVE  BuildRowsOf(BuildRows(cs, last), cs) /\ BuildRows(cs, last)[1].shape \in Shapes
PROOF
  <1> DEFINE ShapeOf(i) == IF i = Len(cs) THEN last
                           ELSE CHOOSE s \in Shapes : s.dimensions = Len(cs[i].vector)
             rows == BuildRows(cs, last)
  <1>1. Len(cs) \in Nat /\ 1 \in 1 .. Len(cs) /\ DOMAIN cs = 1 .. Len(cs)
    OBVIOUS
  <1>2. rows = [i \in 1 .. Len(cs) |-> [shape |-> ShapeOf(i), id |-> cs[i].id, vector |-> cs[i].vector]]
    BY <1>1, Zenon DEF BuildRows
  <1> HIDE DEF ShapeOf, rows
  <1>3. DOMAIN rows = 1 .. Len(cs)
    BY <1>2
  <1>4. Len(rows) = Len(cs)
    BY <1>1, <1>2
  <1>5. \A i \in 1 .. Len(cs) : /\ rows[i].id = cs[i].id /\ rows[i].vector = cs[i].vector
                                /\ rows[i].shape = ShapeOf(i)
    BY <1>2
  <1>6. ShapeOf(1) \in Shapes
    <2>1. CASE Len(cs) = 1
      BY <2>1 DEF ShapeOf
    <2>2. CASE Len(cs) # 1
      <3>1. cs[1] \in Change /\ cs[1].vector # None
        BY <1>1 DEF AppendOnly, Encodable, Inserts
      <3>2. cs[1].vector \in Vector
        BY <3>1 DEF Change
      <3>3. \E s \in Shapes : s.dimensions = Len(cs[1].vector)
        BY <3>2, BlobAssumption
      <3> QED
        BY <2>2, <3>3 DEF ShapeOf
    <2> QED
      BY <2>1, <2>2
  <1> QED
    BY <1>1, <1>3, <1>4, <1>5, <1>6 DEF BuildRowsOf, rows

(* A log and its reading in every format and shape. *)
MirrorsAll ==
  /\ LogTypeOK
  /\ \A format \in Formats, shape \in Shapes : Mirrors(format, shape, start, log)

LEMMA MirrorsAlways == LogSpec => []MirrorsAll
PROOF
  <1>1. LogInit => MirrorsAll
    <2>1. SUFFICES ASSUME start \in Rows, log = <<>> PROVE MirrorsAll
      BY DEF LogInit
    <2>2. log \in Seq(Change) /\ DeletesBare(log)
      BY <2>1 DEF DeletesBare
    <2>3. \A format \in Formats, shape \in Shapes : Mirrors(format, shape, start, log)
      BY <2>1, <2>2, MirrorsNothing
    <2> QED
      BY <2>1, <2>2, <2>3 DEF MirrorsAll, LogTypeOK
  <1>2. ASSUME LogTypeOK', MirrorsAll, [LogNext]_logVars PROVE MirrorsAll'
    <2>1. CASE UNCHANGED logVars
      <3>1. start' = start /\ log' = log
        BY <2>1 DEF logVars
      <3>2. \A format \in Formats, shape \in Shapes : Mirrors(format, shape, start', log')
        BY <1>2, <3>1 DEF MirrorsAll
      <3> QED
        BY <1>2, <3>2 DEF MirrorsAll
    <2>2. CASE LogNext
      <3>1. start' = start /\ log' \in Seq(Change) /\ start \in Rows /\ log \in Seq(Change)
        BY <1>2, <2>2, LogStep DEF MirrorsAll, LogTypeOK
      <3>2. PICK x \in Change : OneMore(log', log, x) /\ (x.op = "delete" => x.vector = None)
        BY <1>2, <2>2, LogStep DEF MirrorsAll
      <3>3. ASSUME NEW format \in Formats, NEW shape \in Shapes
            PROVE  Mirrors(format, shape, start, log')
        <4>1. Mirrors(format, shape, start, log)
          BY <1>2 DEF MirrorsAll
        <4> QED
          BY <3>1, <3>2, <4>1, MirrorsMore
      <3>4. \A format \in Formats, shape \in Shapes : Mirrors(format, shape, start', log')
        BY <3>1, <3>3
      <3> QED
        BY <1>2, <3>4 DEF MirrorsAll
    <2> QED
      BY <1>2, <2>1, <2>2
  <1> QED
    BY <1>1, <1>2, LogTypeCorrect, PTL DEF LogSpec

(* The functions that keep an index in a BLOB are what the table is        *)
(* measured against: over a log of any length, from any rows and in any    *)
(* format and shape, they accept exactly what a truthful log of the table  *)
(* holds and leave the rows replay leaves, and turbovec_build is           *)
(* turbovec_add over its rows (lib.rs).                                    *)
THEOREM BlobMirrorsAlways == LogSpec => []BlobMirrorsTable
PROOF
  <1>1. ASSUME MirrorsAll PROVE BlobMirrorsTable
    <2>1. start \in Rows /\ log \in Seq(Change) /\ Len(log) \in Nat
      BY <1>1 DEF MirrorsAll, LogTypeOK
    <2>2. log # <<>> => Len(log) > 0
      BY <2>1
    <2>3. ASSUME log # <<>>, NEW format \in Formats, NEW shape \in Shapes
          PROVE  LET blob == AppliedAll(Image(format, shape, start), log)
                     readable == format \in {"v7", "v8"}
                     fits == \A i \in Inserts(log) :
                               log[i].vector # None /\ Len(log[i].vector) = shape.dimensions
                 IN  /\ (blob # None) = (readable /\ fits /\ Truthful)
                     /\ blob # None => blob = Image("v8", shape, Replay(start, log))
      <3> DEFINE blob == AppliedAll(Image(format, shape, start), log)
                 readable == format \in {"v7", "v8"}
      <3>1. Mirrors(format, shape, start, log) /\ Len(log) # 0
        BY <1>1, <2>1, <2>2, <2>3 DEF MirrorsAll
      <3>2. Accepted(format, shape, start, log) <=> readable /\ Fits(log, shape) /\ Truthful
        BY <3>1, Zenon DEF Accepted, Readables, TruthfulOn, Truthful
      <3>3. blob = IF Accepted(format, shape, start, log)
                   THEN Image("v8", shape, Replay(start, log)) ELSE None
        BY <3>1 DEF Mirrors
      <3>4. Image("v8", shape, Replay(start, log)) # None
        BY <2>1, ReplayType, ImageIs
      <3> HIDE DEF blob, readable
      <3>5. /\ blob # None <=> readable /\ Fits(log, shape) /\ Truthful
            /\ blob # None => blob = Image("v8", shape, Replay(start, log))
        BY <3>2, <3>3, <3>4
      <3>6. (blob # None) = (readable /\ Fits(log, shape) /\ Truthful)
        BY <3>5
      <3> QED
        BY <3>5, <3>6 DEF blob, readable, Fits
    <2>4. ASSUME AppendOnly(log), Encodable(log), log # <<>>, NEW shape \in Shapes
          PROVE  LET rows == BuildRows(log, shape)
                     same == \A i \in DOMAIN rows : rows[i].shape = rows[1].shape
                 IN  BuildFrom(rows) = IF same THEN AppliedAll(NewIndex(rows[1].shape), log)
                                               ELSE None
      <3> DEFINE rows == BuildRows(log, shape)
      <3>1. Len(log) > 0
        BY <2>2, <2>4
      <3>2. BuildRowsOf(rows, log) /\ rows[1].shape \in Shapes
        BY <2>1, <2>4, <3>1, BuildRowsAre
      <3> HIDE DEF rows
      <3>3. BuildFrom(rows) =
              IF \A i \in DOMAIN rows : rows[i].shape = rows[1].shape
              THEN AppliedAll(NewIndex(rows[1].shape), log) ELSE None
        BY <2>1, <2>4, <3>1, <3>2, BuildMirrors
      <3> QED
        BY <3>3 DEF rows
    <2> QED
      BY <2>3, <2>4 DEF BlobMirrorsTable
  <1> QED
    BY <1>1, MirrorsAlways, PTL
-----------------------------------------------------------------------------
(* A change as the fields of a batch.  What decode_delta returns is one    *)
(* too, whether or not its id is one in play.                              *)
Wired(x) ==
  /\ x.op \in {"insert", "delete"} /\ x.id \in Nat
  /\ x.op = "insert" => x.vector \in Seq(Nat) /\ Len(x.vector) = Dimensions
Starts(s, t) == Len(s) <= Len(t) /\ \A j \in 1 .. Len(s) : t[j] = s[j]

LEMMA ChangesAreWired ==
  ASSUME NEW x \in Change, x.op = "insert" => x.vector # None
  PROVE  Wired(x)
PROOF
  <1>1. x.op \in {"insert", "delete"} /\ x.id \in Rowid /\ x.vector \in Vector \cup {None}
    BY DEF Change
  <1>2. x.op = "insert" => x.vector \in Vector
    BY <1>1
  <1> QED
    BY <1>1, <1>2, CodecAssumption DEF Wired

LEMMA JoinedIs ==
  ASSUME NEW s \in Seq(Nat), NEW t \in Seq(Nat)
  PROVE  /\ s \o t \in Seq(Nat) /\ Len(s \o t) = Len(s) + Len(t)
         /\ \A i \in 1 .. Len(s) : (s \o t)[i] = s[i]
         /\ \A i \in 1 .. Len(t) : (s \o t)[Len(s) + i] = t[i]
OBVIOUS

LEMMA SameList ==
  ASSUME NEW s \in Seq(Nat), NEW t \in Seq(Nat), Len(s) = Len(t),
         \A i \in 1 .. Len(s) : s[i] = t[i]
  PROVE  s = t
OBVIOUS

LEMMA EncodedChangeIs ==
  ASSUME NEW x, Wired(x)
  PROVE  LET e == EncodedChange(x)
         IN  /\ e \in Seq(Nat) /\ Len(e) = IF x.op = "insert" THEN 2 + Dimensions ELSE 2
             /\ Len(e) \in Nat /\ Len(e) >= 2
             /\ e[1] = (IF x.op = "insert" THEN 1 ELSE 2) /\ e[2] = x.id
             /\ x.op = "insert" => \A j \in 1 .. Dimensions : e[2 + j] = x.vector[j]
PROOF
  <1> DEFINE e == EncodedChange(x)
  <1>1. Dimensions \in Nat
    BY CodecAssumption
  <1>2. CASE x.op = "insert"
    <2>1. \A y \in Nat : <<1, y>> \in Seq(Nat) /\ Len(<<1, y>>) = 2 /\ <<1, y>>[1] = 1 /\ <<1, y>>[2] = y
      OBVIOUS
    <2>2. PICK h : h = <<1, x.id>>
      OBVIOUS
    <2>3. h \in Seq(Nat) /\ Len(h) = 2 /\ h[1] = 1 /\ h[2] = x.id
      BY <2>1, <2>2 DEF Wired
    <2>4. e = h \o x.vector /\ x.vector \in Seq(Nat) /\ Len(x.vector) = Dimensions
      BY <1>2, <2>2 DEF EncodedChange, Wired
    <2> HIDE DEF e
    <2>5. /\ e \in Seq(Nat) /\ Len(e) = Len(h) + Len(x.vector)
          /\ \A i \in 1 .. Len(h) : e[i] = h[i]
          /\ \A i \in 1 .. Len(x.vector) : e[Len(h) + i] = x.vector[i]
      BY <2>3, <2>4, JoinedIs
    <2>6. e[1] = 1 /\ e[2] = x.id /\ \A i \in 1 .. Dimensions : e[2 + i] = x.vector[i]
      BY <2>3, <2>4, <2>5
    <2>7. Len(e) = 2 + Dimensions
      BY <2>3, <2>4, <2>5
    <2> QED
      BY <1>1, <1>2, <2>5, <2>6, <2>7 DEF e
  <1>3. CASE x.op # "insert"
    <2>1. e = <<2, x.id>> /\ x.id \in Nat
      BY <1>3 DEF EncodedChange, Wired
    <2>2. e \in Seq(Nat) /\ Len(e) = 2 /\ e[1] = 2 /\ e[2] = x.id
      BY <2>1
    <2> HIDE DEF e
    <2> QED
      BY <1>3, <2>2 DEF e
  <1> QED
    BY <1>2, <1>3

(* The fields of the changes so far are where those of all begin.          *)
CellsOf(f, n, cs) == Passes(f, n, <<>>, "cells", cs)

LEMMA CellsAlong ==
  ASSUME NEW n \in Nat, NEW cs, \A i \in 1 .. n : Wired(cs[i]), NEW f, CellsOf(f, n, cs)
  PROVE  /\ f[0] = <<>> /\ \A k \in 0 .. n : f[k] \in Seq(Nat) /\ Len(f[k]) >= 2 * k
         /\ \A k \in 1 .. n : f[k] = f[k - 1] \o EncodedChange(cs[k])
         /\ \A k \in 0 .. n : Starts(f[k], f[n])
PROOF
  <1>1. f[0] = <<>> /\ \A k \in 1 .. n : f[k] = f[k - 1] \o EncodedChange(cs[k])
    <2>1. f[0] = <<>> /\ \A i \in 1 .. n : f[i] = Pass("cells", cs, i, f[i - 1])
      BY PassesAlong DEF CellsOf
    <2>2. \A i, v : Pass("cells", cs, i, v) = v \o EncodedChange(cs[i])
      BY DEF Pass
    <2> QED
      BY <2>1, <2>2
  <1> DEFINE S == {m \in 0 .. n : /\ f[m] \in Seq(Nat) /\ Len(f[m]) >= 2 * m
                                  /\ \A k \in 0 .. m : Len(f[k]) \in Nat /\ Starts(f[k], f[m])}
  <1>2. 0 \in S
    <2>1. f[0] \in Seq(Nat) /\ Len(f[0]) = 0
      BY <1>1
    <2>2. Starts(f[0], f[0])
      BY <2>1 DEF Starts
    <2> QED
      BY <2>1, <2>2
  <1>3. ASSUME NEW m \in 0 .. n, m < n, m \in S PROVE m + 1 \in S
    <2> DEFINE e == EncodedChange(cs[m + 1])
    <2>1. m + 1 \in 1 .. n /\ (m + 1) - 1 = m /\ m + 1 \in 0 .. n
      BY <1>3
    <2>2. e \in Seq(Nat) /\ Len(e) \in Nat /\ Len(e) >= 2
      BY <2>1, EncodedChangeIs
    <2>3. f[m + 1] = f[m] \o e /\ f[m] \in Seq(Nat) /\ Len(f[m]) >= 2 * m /\ Len(f[m]) \in Nat
      <3>1. f[m + 1] = f[m] \o e
        BY <1>1, <2>1
      <3>2. f[m] \in Seq(Nat) /\ Len(f[m]) >= 2 * m
        BY <1>3
      <3> QED
        BY <3>1, <3>2
    <2> HIDE DEF e
    <2>4. /\ f[m + 1] \in Seq(Nat) /\ Len(f[m + 1]) = Len(f[m]) + Len(e)
          /\ \A i \in 1 .. Len(f[m]) : f[m + 1][i] = f[m][i]
      BY <2>2, <2>3, JoinedIs
    <2>5. Len(f[m + 1]) >= 2 * (m + 1)
      BY <2>2, <2>3, <2>4
    <2>6. ASSUME NEW k \in 0 .. m + 1 PROVE Len(f[k]) \in Nat /\ Starts(f[k], f[m + 1])
      <3>1. CASE k = m + 1
        <4>1. f[k] = f[m + 1] /\ Len(f[m + 1]) \in Nat
          BY <2>4, <3>1
        <4> QED
          BY <4>1 DEF Starts
      <3>2. CASE k # m + 1
        <4>1. k \in 0 .. m
          BY <3>2
        <4>2. Starts(f[k], f[m])
          BY <1>3, <4>1
        <4>3. Len(f[k]) <= Len(f[m]) /\ \A j \in 1 .. Len(f[k]) : f[m][j] = f[k][j]
          BY <4>2 DEF Starts
        <4>4. Len(f[k]) \in Nat
          BY <1>3, <4>1
        <4> DEFINE a == f[k]
                   b == f[m]
                   c == f[m + 1]
        <4>5. /\ Len(a) \in Nat /\ Len(b) \in Nat /\ Len(a) <= Len(b) /\ Len(e) \in Nat
              /\ \A j \in 1 .. Len(a) : b[j] = a[j]
              /\ Len(c) = Len(b) + Len(e) /\ \A j \in 1 .. Len(b) : c[j] = b[j]
          BY <2>2, <2>3, <2>4, <4>3, <4>4
        <4> HIDE DEF a, b, c
        <4>6. Len(a) <= Len(c) /\ \A j \in 1 .. Len(a) : c[j] = a[j]
          BY <4>5
        <4> QED
          BY <4>4, <4>6 DEF Starts, a, c
      <3> QED
        BY <3>1, <3>2
    <2> QED
      BY <2>1, <2>4, <2>5, <2>6
  <1>4. \A m \in 0 .. n : m \in S
    <2>1. SUFFICES ASSUME NEW m \in 0 .. n PROVE m \in S
      OBVIOUS
    <2>2. m \in Nat /\ \A k \in 0 .. m : k < m /\ k \in S => k + 1 \in S
      BY <1>3
    <2> HIDE DEF S
    <2> QED
      BY <1>2, <2>2, CountingUp
  <1>5. \A m \in 0 .. n : f[m] \in Seq(Nat) /\ Len(f[m]) >= 2 * m
    BY <1>4
  <1>6. n \in 0 .. n
    OBVIOUS
  <1>7. n \in S
    BY <1>4, <1>6
  <1>8. \A k \in 0 .. n : Starts(f[k], f[n])
    BY <1>7
  <1> QED
    BY <1>1, <1>5, <1>8

LEMMA EncodedMore ==
  ASSUME NEW cs, NEW x, NEW ds, Len(cs) \in Nat, Len(ds) = Len(cs) + 1, ds[Len(ds)] = x,
         \A i \in 1 .. Len(cs) : ds[i] = cs[i]
  PROVE  EncodedChanges(ds) = EncodedChanges(cs) \o EncodedChange(x)
PROOF
  <1> DEFINE n == Len(cs)
  <1>1. n \in Nat /\ n + 1 \in Nat /\ n <= n + 1 /\ Len(ds) = n + 1 /\ (n + 1) - 1 = n
    OBVIOUS
  <1>2. PICK f : Passes(f, n, <<>>, "cells", cs) /\ EncodedChanges(cs) = f[n]
    BY EncodedChangesIs
  <1> HIDE DEF n
  <1>3. PICK g : Passes(g, n + 1, <<>>, "cells", ds) /\ EncodedChanges(ds) = g[n + 1]
    BY <1>1, EncodedChangesIs
  <1>4. \A i \in 1 .. n : \A v : Pass("cells", cs, i, v) = Pass("cells", ds, i, v)
    BY DEF Pass, n
  <1>5. f[n] = g[n]
    BY <1>1, <1>2, <1>3, <1>4, PassesAgree
  <1>6. g[n + 1] = g[n] \o EncodedChange(x)
    <2>1. \A i \in 1 .. n + 1 : g[i] = Pass("cells", ds, i, g[i - 1])
      BY <1>1, <1>3, PassesAlong
    <2>2. n + 1 \in 1 .. n + 1
      BY <1>1
    <2>3. g[n + 1] = Pass("cells", ds, n + 1, g[n])
      BY <1>1, <2>1, <2>2
    <2>4. ds[n + 1] = x
      BY <1>1
    <2> QED
      BY <2>3, <2>4 DEF Pass
  <1> QED
    BY <1>2, <1>3, <1>5, <1>6
-----------------------------------------------------------------------------
(* One turn of decode_delta: what it reads, and what it makes of it.       *)
Read == [op : {"insert", "delete"}, id : Nat, vector : Seq(Nat) \cup {None}, replaces : BOOLEAN]
DecodeRuns == [ok : BOOLEAN, at : Nat, changes : Seq(Read)]
InsertAhead(run, cells) ==
  run.ok = TRUE /\ run.at + 2 + Dimensions <= Len(cells) /\ cells[run.at + 1] = 1
DeleteAhead(run, cells) ==
  run.ok = TRUE /\ run.at + 2 <= Len(cells) /\ cells[run.at + 1] = 2
InsertRead(run, cells) ==
  InsertOf(cells[run.at + 2], SubSeq(cells, run.at + 2 + 1, run.at + 2 + Dimensions), TRUE)
ReadOn(run, n, x) == [ok |-> TRUE, at |-> run.at + n, changes |-> Append(run.changes, x)]

LEMMA DecodeStepIs ==
  ASSUME NEW run \in DecodeRuns, NEW cells, Len(cells) \in Nat
  PROVE  LET next == DecodeStep(run, cells, Dimensions)
         IN  /\ InsertAhead(run, cells) => next = ReadOn(run, 2 + Dimensions, InsertRead(run, cells))
             /\ DeleteAhead(run, cells) => next = ReadOn(run, 2, DeleteOf(cells[run.at + 2]))
             /\ ~InsertAhead(run, cells) /\ ~DeleteAhead(run, cells) =>
                  next \in DecodeRuns /\ ~next.ok
PROOF
  <1> DEFINE next == DecodeStep(run, cells, Dimensions)
             at == run.at + OpBytes
             fits == at <= Len(cells)
             op == cells[run.at + 1]
             end == IF fits /\ op = 1 THEN at + Dimensions ELSE at
             refused == ~run.ok \/ ~fits \/ end > Len(cells) \/ op \notin {1, 2}
             change == IF op = 1 THEN InsertOf(cells[run.at + 2], SubSeq(cells, at + 1, end), TRUE)
                                 ELSE DeleteOf(cells[run.at + 2])
             stopped == [run EXCEPT !.ok = FALSE]
             went == [ok |-> TRUE, at |-> end, changes |-> Append(run.changes, change)]
  <1>1. /\ Dimensions \in Nat /\ OpBytes = 2 /\ run.at \in Nat /\ Len(cells) \in Nat
        /\ run.ok \in BOOLEAN
    BY CodecAssumption DEF DecodeRuns
  <1>2. next = IF refused THEN stopped ELSE went
    BY DEF DecodeStep
  <1>3. at = run.at + 2
    BY <1>1
  <1>4. stopped \in DecodeRuns /\ ~stopped.ok
    BY DEF DecodeRuns
  <1> HIDE DEF next, stopped, went
  <1>5. CASE InsertAhead(run, cells)
    <2>1. ~refused /\ end = run.at + 2 + Dimensions /\ op = 1 /\ end = at + Dimensions
      BY <1>1, <1>3, <1>5 DEF InsertAhead
    <2>2. next = went
      BY <1>2, <2>1
    <2>3. change = InsertRead(run, cells)
      BY <1>3, <2>1 DEF InsertRead
    <2>4. end = run.at + (2 + Dimensions)
      BY <1>1, <2>1
    <2>5. next = ReadOn(run, 2 + Dimensions, InsertRead(run, cells))
      BY <2>2, <2>3, <2>4, Zenon DEF went, ReadOn
    <2>6. ~DeleteAhead(run, cells)
      BY <2>1 DEF DeleteAhead
    <2> QED
      BY <1>5, <2>5, <2>6 DEF next
  <1>6. CASE DeleteAhead(run, cells)
    <2>1. ~refused /\ end = run.at + 2 /\ op = 2
      BY <1>1, <1>3, <1>6 DEF DeleteAhead
    <2>2. next = went
      BY <1>2, <2>1
    <2>3. change = DeleteOf(cells[run.at + 2])
      BY <2>1
    <2>5. next = ReadOn(run, 2, DeleteOf(cells[run.at + 2]))
      BY <2>1, <2>2, <2>3, Zenon DEF went, ReadOn
    <2>6. ~InsertAhead(run, cells)
      BY <2>1 DEF InsertAhead
    <2> QED
      BY <1>6, <2>5, <2>6 DEF next
  <1>7. CASE ~InsertAhead(run, cells) /\ ~DeleteAhead(run, cells)
    <2>1. refused
      BY <1>1, <1>3, <1>7 DEF InsertAhead, DeleteAhead
    <2>2. next = stopped
      BY <1>2, <2>1
    <2> QED
      BY <1>4, <1>7, <2>2 DEF next
  <1> QED
    BY <1>5, <1>6, <1>7

(* Whatever it reads, a turn that refuses nothing adds one change, and has *)
(* passed over just the fields of that change.                             *)
Written(cells, at, e) ==
  /\ Len(e) \in Nat /\ at + Len(e) <= Len(cells)
  /\ \A j \in 1 .. Len(e) : cells[at + j] = e[j]

LEMMA PieceIs ==
  ASSUME NEW s \in Seq(Nat), NEW a \in Nat, NEW n \in Nat, a + n <= Len(s)
  PROVE  /\ SubSeq(s, a + 1, a + n) \in Seq(Nat) /\ Len(SubSeq(s, a + 1, a + n)) = n
         /\ \A j \in 1 .. n : SubSeq(s, a + 1, a + n)[j] = s[a + j]
PROOF
  <1> DEFINE t == SubSeq(s, a + 1, a + n)
  <1>1. t = [j \in 1 .. n |-> s[a + j]]
    <2>1. t = [j \in 1 .. (a + n) - (a + 1) + 1 |-> s[(a + 1) + j - 1]]
      OBVIOUS
    <2>2. (a + n) - (a + 1) + 1 = n /\ \A j \in 1 .. n : (a + 1) + j - 1 = a + j
      OBVIOUS
    <2> HIDE DEF t
    <2> QED
      BY <2>1, <2>2
  <1>2. \A j \in 1 .. n : s[a + j] \in Nat
    OBVIOUS
  <1> HIDE DEF t
  <1>3. t \in Seq(Nat) /\ Len(t) = n /\ \A j \in 1 .. n : t[j] = s[a + j]
    BY <1>1, <1>2
  <1> QED
    BY <1>3 DEF t

LEMMA DecodedTurn ==
  ASSUME NEW run \in DecodeRuns, NEW cells \in Seq(Nat), DecodeStep(run, cells, Dimensions).ok
  PROVE  /\ run.ok
         /\ \E x \in Read :
              /\ Wired(x) /\ Written(cells, run.at, EncodedChange(x))
              /\ DecodeStep(run, cells, Dimensions) = ReadOn(run, Len(EncodedChange(x)), x)
PROOF
  <1> DEFINE next == DecodeStep(run, cells, Dimensions)
             D == Dimensions
             a == run.at
  <1>1. Len(cells) \in Nat /\ D \in Nat /\ a \in Nat
    BY CodecAssumption DEF DecodeRuns
  <1>2. InsertAhead(run, cells) \/ DeleteAhead(run, cells)
    BY <1>1, DecodeStepIs
  <1>3. run.ok
    BY <1>2 DEF InsertAhead, DeleteAhead
  <1>4. CASE InsertAhead(run, cells)
    <2> DEFINE x == InsertRead(run, cells)
               v == SubSeq(cells, a + 2 + 1, a + 2 + D)
               e == EncodedChange(x)
    <2>1. a + 2 + D <= Len(cells) /\ cells[a + 1] = 1
      BY <1>4 DEF InsertAhead
    <2>2. x = [op |-> "insert", id |-> cells[a + 2], vector |-> v, replaces |-> TRUE]
      BY DEF InsertRead, InsertOf
    <2>3. v \in Seq(Nat) /\ Len(v) = D /\ \A j \in 1 .. D : v[j] = cells[a + 2 + j]
      <3>1. PICK b \in Nat : b = a + 2
        BY <1>1
      <3>2. v = SubSeq(cells, b + 1, b + D) /\ b + D <= Len(cells)
        BY <2>1, <3>1
      <3>3. v \in Seq(Nat) /\ Len(v) = D /\ \A j \in 1 .. D : v[j] = cells[b + j]
        <4> HIDE DEF v
        <4> QED
          BY <1>1, <3>2, PieceIs
      <3> QED
        BY <3>1, <3>3, Zenon
    <2>4. cells[a + 2] \in Nat
      <3>1. \A p, q, r \in Nat : p + 2 + q <= r => p + 2 \in 1 .. r
        OBVIOUS
      <3>2. a + 2 \in 1 .. Len(cells)
        BY <1>1, <2>1, <3>1
      <3> QED
        BY <3>2
    <2> HIDE DEF v, x
    <2>5. x.op = "insert" /\ x.id = cells[a + 2] /\ x.vector = v /\ x \in Read
      BY <2>2, <2>3, <2>4 DEF Read
    <2>6. Wired(x)
      BY <2>3, <2>4, <2>5 DEF Wired
    <2>7. /\ e \in Seq(Nat) /\ Len(e) = 2 + D
          /\ e[1] = 1 /\ e[2] = x.id /\ \A j \in 1 .. D : e[2 + j] = x.vector[j]
      BY <2>5, <2>6, EncodedChangeIs
    <2> HIDE DEF e
    <2>8. ASSUME NEW j \in 1 .. Len(e) PROVE cells[a + j] = e[j]
      <3>1. CASE j = 1
        BY <2>1, <2>7, <3>1
      <3>2. CASE j = 2
        BY <2>5, <2>7, <3>2
      <3>3. CASE j > 2
        <4>0. j \in Nat /\ j <= 2 + D
          BY <1>1, <2>7
        <4>1. j - 2 \in 1 .. D /\ 2 + (j - 2) = j /\ a + 2 + (j - 2) = a + j
          BY <1>1, <3>3, <4>0
        <4>2. e[2 + (j - 2)] = x.vector[j - 2] /\ v[j - 2] = cells[a + 2 + (j - 2)]
          BY <2>3, <2>7, <4>1
        <4> QED
          BY <2>5, <4>1, <4>2
      <3> QED
        BY <1>1, <2>7, <3>1, <3>2, <3>3
    <2>9. Written(cells, a, e)
      <3>1. Len(e) \in Nat /\ a + Len(e) <= Len(cells)
        BY <1>1, <2>1, <2>7
      <3> QED
        BY <2>8, <3>1 DEF Written
    <2>10. next = ReadOn(run, Len(e), x)
      BY <1>1, <1>4, <2>7, DecodeStepIs DEF x
    <2> QED
      BY <1>3, <2>5, <2>6, <2>9, <2>10 DEF e
  <1>5. CASE DeleteAhead(run, cells)
    <2> DEFINE x == DeleteOf(cells[a + 2])
               e == EncodedChange(x)
    <2>1. a + 2 <= Len(cells) /\ cells[a + 1] = 2
      BY <1>5 DEF DeleteAhead
    <2>2. cells[a + 2] \in Nat
      <3>1. \A p, r \in Nat : p + 2 <= r => p + 2 \in 1 .. r
        OBVIOUS
      <3>2. a + 2 \in 1 .. Len(cells)
        BY <1>1, <2>1, <3>1
      <3> QED
        BY <3>2
    <2>3. x.op = "delete" /\ x.id = cells[a + 2] /\ x \in Read
      BY <2>2 DEF DeleteOf, Read
    <2> HIDE DEF x
    <2>4. Wired(x)
      BY <2>2, <2>3 DEF Wired
    <2>5. e \in Seq(Nat) /\ Len(e) = 2 /\ e[1] = 2 /\ e[2] = x.id
      BY <2>3, <2>4, EncodedChangeIs
    <2> HIDE DEF e
    <2>6. ASSUME NEW j \in 1 .. Len(e) PROVE cells[a + j] = e[j]
      <3>1. j = 1 \/ j = 2
        BY <2>5
      <3> QED
        BY <2>1, <2>3, <2>5, <3>1
    <2>7. Written(cells, a, e)
      BY <1>1, <2>1, <2>5, <2>6 DEF Written
    <2>8. next = ReadOn(run, Len(e), x)
      BY <1>1, <1>5, <2>5, DecodeStepIs DEF x
    <2> QED
      BY <1>3, <2>3, <2>4, <2>7, <2>8 DEF e
  <1> QED
    BY <1>2, <1>4, <1>5
-----------------------------------------------------------------------------
(* What a batch read so far was written for, when nothing was refused.     *)
FieldsOf(cs, at, cells) ==
  LET e == EncodedChanges(cs)
  IN  e \in Seq(Nat) /\ at = 3 + Len(e) /\ Written(cells, 3, e)
Faithful(run, k, cells) ==
  /\ run \in DecodeRuns
  /\ run.ok => Len(run.changes) = k /\ FieldsOf(run.changes, run.at, cells)

LEMMA EncodedNothing ==
  ASSUME NEW cs, Len(cs) = 0
  PROVE  EncodedChanges(cs) = <<>>
PROOF
  <1>1. PICK f : Passes(f, 0, <<>>, "cells", cs) /\ EncodedChanges(cs) = f[0]
    BY EncodedChangesIs
  <1>2. f[0] = <<>>
    BY <1>1, PassesAlong
  <1> QED
    BY <1>1, <1>2

LEMMA AppendedIs ==
  ASSUME NEW cs \in Seq(Read), NEW x \in Read
  PROVE  /\ Append(cs, x) \in Seq(Read) /\ Len(Append(cs, x)) = Len(cs) + 1 /\ Len(cs) \in Nat
         /\ Append(cs, x)[Len(cs) + 1] = x /\ \A i \in 1 .. Len(cs) : Append(cs, x)[i] = cs[i]
PROOF
  <1> HIDE DEF Read
  <1> QED
    OBVIOUS

LEMMA FaithfulMore ==
  ASSUME NEW cells \in Seq(Nat), NEW k \in Nat, NEW run, Faithful(run, k, cells)
  PROVE  Faithful(DecodeStep(run, cells, Dimensions), k + 1, cells)
PROOF
  <1> DEFINE next == DecodeStep(run, cells, Dimensions)
  <1>1. run \in DecodeRuns
    BY DEF Faithful
  <1>2. CASE ~next.ok
    <2>1. ~InsertAhead(run, cells) /\ ~DeleteAhead(run, cells)
      <3>1. Len(cells) \in Nat
        OBVIOUS
      <3>2. \A n, x : ReadOn(run, n, x).ok = TRUE
        BY DEF ReadOn
      <3> QED
        BY <1>1, <1>2, <3>1, <3>2, DecodeStepIs
    <2>2. Len(cells) \in Nat
      OBVIOUS
    <2>3. next \in DecodeRuns
      BY <1>1, <2>1, <2>2, DecodeStepIs
    <2> QED
      BY <1>2, <2>3 DEF Faithful
  <1>3. CASE next.ok
    <2>1. run.ok
      BY <1>1, <1>3, DecodedTurn
    <2>2. PICK x \in Read : /\ Wired(x) /\ Written(cells, run.at, EncodedChange(x))
                            /\ next = ReadOn(run, Len(EncodedChange(x)), x)
      BY <1>1, <1>3, DecodedTurn
    <2> DEFINE cs == run.changes
               ds == Append(cs, x)
               d == EncodedChanges(cs)
               e == EncodedChange(x)
               f == EncodedChanges(ds)
    <2>3. /\ Len(cs) = k /\ d \in Seq(Nat) /\ run.at = 3 + Len(d) /\ Written(cells, 3, d)
          /\ cs \in Seq(Read)
      BY <1>1, <2>1 DEF Faithful, FieldsOf, DecodeRuns
    <2>4. e \in Seq(Nat) /\ Len(e) \in Nat
      BY <2>2, EncodedChangeIs
    <2> HIDE DEF cs, ds
    <2>5. /\ ds \in Seq(Read) /\ Len(ds) = Len(cs) + 1 /\ Len(cs) \in Nat
          /\ ds[Len(cs) + 1] = x /\ \A i \in 1 .. Len(cs) : ds[i] = cs[i]
      BY <2>3, AppendedIs DEF ds
    <2>6. f = d \o e
      BY <2>5, EncodedMore
    <2>7. next = [ok |-> TRUE, at |-> run.at + Len(e), changes |-> ds]
      BY <2>2 DEF ReadOn, cs, ds
    <2> HIDE DEF next
    <2>8. next.ok /\ next.at = run.at + Len(e) /\ next.changes = ds
      BY <2>7
    <2> HIDE DEF d, e, f
    <2>9. /\ f \in Seq(Nat) /\ Len(f) = Len(d) + Len(e) /\ Len(d) \in Nat
          /\ \A j \in 1 .. Len(d) : f[j] = d[j]
          /\ \A j \in 1 .. Len(e) : f[Len(d) + j] = e[j]
      BY <2>3, <2>4, <2>6, JoinedIs
    <2>10. next.at = 3 + Len(f) /\ next.at \in Nat
      BY <2>3, <2>4, <2>8, <2>9
    <2>11. ASSUME NEW j \in 1 .. Len(f) PROVE cells[3 + j] = f[j]
      <3>1. CASE j \in 1 .. Len(d)
        BY <2>3, <2>9, <3>1 DEF Written
      <3>2. CASE j > Len(d)
        <4>1. j - Len(d) \in 1 .. Len(e) /\ Len(d) + (j - Len(d)) = j
              /\ (3 + Len(d)) + (j - Len(d)) = 3 + j
          BY <2>4, <2>9, <3>2
        <4>2. cells[run.at + (j - Len(d))] = e[j - Len(d)]
          BY <2>2, <4>1 DEF Written, e
        <4>3. f[Len(d) + (j - Len(d))] = e[j - Len(d)]
          BY <2>9, <4>1
        <4>4. cells[(3 + Len(d)) + (j - Len(d))] = e[j - Len(d)]
          BY <2>3, <4>2
        <4> HIDE DEF Written
        <4> QED
          BY <4>1, <4>3, <4>4
      <3> QED
        BY <2>9, <3>1, <3>2
    <2>12. 3 + Len(f) <= Len(cells) /\ Len(f) \in Nat
      <3>1. run.at + Len(e) <= Len(cells)
        BY <2>2 DEF Written, e
      <3>2. 3 + Len(f) = run.at + Len(e) /\ Len(f) \in Nat
        BY <2>3, <2>4, <2>9
      <3> QED
        BY <3>1, <3>2
    <2>13. FieldsOf(ds, next.at, cells)
      BY <2>9, <2>10, <2>11, <2>12 DEF FieldsOf, Written, f
    <2>14. next \in DecodeRuns
      BY <2>5, <2>7, <2>8, <2>10 DEF DecodeRuns
    <2> QED
      BY <2>3, <2>5, <2>8, <2>13, <2>14 DEF Faithful, next
  <1> QED
    BY <1>2, <1>3

LEMMA RunBeginsFaithful ==
  ASSUME NEW cells \in Seq(Nat), Len(cells) >= 3
  PROVE  RunBegins \in DecodeRuns /\ Faithful(RunBegins, 0, cells)
PROOF
  <1>1. RunBegins.ok = TRUE /\ RunBegins.at = 3 /\ RunBegins.changes = <<>>
    BY DEF RunBegins, HeaderLen
  <1>2. <<>> \in Seq(Read) /\ <<>> \in Seq(Nat) /\ Len(<<>>) = 0
    <2>1. \A T : <<>> \in Seq(T)
      OBVIOUS
    <2>2. Len(<<>>) = 0
      OBVIOUS
    <2> QED
      BY <2>1, <2>2
  <1>3. RunBegins \in DecodeRuns
    BY <1>2 DEF RunBegins, DecodeRuns, HeaderLen
  <1>4. \A cs : Len(cs) = 0 => EncodedChanges(cs) = <<>>
    BY EncodedNothing
  <1>5. EncodedChanges(RunBegins.changes) = <<>>
    BY <1>1, <1>2, <1>4
  <1>6. FieldsOf(RunBegins.changes, RunBegins.at, cells)
    <2>1. \A e : e = <<>> => Len(e) = 0 /\ e \in Seq(Nat)
      OBVIOUS
    <2>2. PICK e : e = EncodedChanges(RunBegins.changes)
      OBVIOUS
    <2>3. e \in Seq(Nat) /\ Len(e) = 0
      BY <1>5, <2>1, <2>2
    <2>4. e \in Seq(Nat) /\ RunBegins.at = 3 + Len(e) /\ Written(cells, 3, e)
      BY <1>1, <2>3 DEF Written
    <2> QED
      BY <2>2, <2>4 DEF FieldsOf
  <1> QED
    BY <1>1, <1>2, <1>3, <1>6 DEF Faithful

LEMMA HeaderIs ==
  ASSUME NEW n \in Nat, NEW s \in Seq(Nat)
  PROVE  LET cells == <<Magic, Dimensions, n>> \o s
         IN  /\ cells \in Seq(Nat) /\ Len(cells) = 3 + Len(s) /\ Len(s) \in Nat
             /\ cells[1] = Magic /\ cells[2] = Dimensions /\ cells[3] = n
             /\ \A j \in 1 .. Len(s) : cells[3 + j] = s[j]
PROOF
  <1> DEFINE h == <<Magic, Dimensions, n>>
             cells == h \o s
  <1>1. /\ h \in Seq(Nat) /\ Len(h) = 3 /\ h[1] = Magic /\ h[2] = Dimensions /\ h[3] = n
    BY CodecAssumption DEF Magic
  <1>2. Len(s) \in Nat
    OBVIOUS
  <1> HIDE DEF h
  <1>3. /\ cells \in Seq(Nat) /\ Len(cells) = Len(h) + Len(s)
        /\ \A i \in 1 .. Len(h) : cells[i] = h[i]
        /\ \A i \in 1 .. Len(s) : cells[Len(h) + i] = s[i]
    BY <1>1, JoinedIs
  <1> HIDE DEF cells
  <1>4. /\ cells \in Seq(Nat) /\ Len(cells) = 3 + Len(s)
        /\ \A i \in 1 .. 3 : cells[i] = h[i]
        /\ \A i \in 1 .. Len(s) : cells[3 + i] = s[i]
    BY <1>1, <1>3
  <1> QED
    BY <1>1, <1>2, <1>4 DEF cells, h

(* Whatever the blob: if decode_delta takes it, it is the encoding of what *)
(* it returns.                                                             *)
LEMMA OnlyEncodings ==
  ASSUME NEW cells \in Seq(Nat), NEW crc, DecodeDelta(Blob(cells, crc), Dimensions) # None
  PROVE  EncodedCells(DecodeDelta(Blob(cells, crc), Dimensions), Dimensions) = cells
PROOF
  <1> DEFINE blob == Blob(cells, crc)
             run == DecodeLoop(blob, Dimensions)
             n == cells[3]
  <1>1. blob.cells = cells
    BY DEF Blob
  <1>2. HeaderOK(blob, Dimensions) /\ ReadWhole(run, cells) /\ DecodeDelta(blob, Dimensions) = run.changes
    <2>1. DecodeDelta(blob, Dimensions) = IF ~HeaderOK(blob, Dimensions) THEN None
             ELSE IF ReadWhole(run, blob.cells) THEN run.changes ELSE None
      BY DEF DecodeDelta
    <2> HIDE DEF run, blob
    <2> QED
      BY <1>1, <2>1 DEF blob
  <1>3. Len(cells) >= 3 /\ cells[1] = Magic /\ cells[2] = Dimensions /\ Len(cells) \in Nat
    BY <1>1, <1>2 DEF HeaderOK, HeaderLen
  <1>4. n \in Nat
    BY <1>3
  <1>5. PICK f : /\ Passes(f, n, RunBegins, "decoded", Decoding(cells, Dimensions))
                 /\ run = f[n]
    BY <1>4, DecodeLoopIs
  <1>6. f[0] = RunBegins /\ \A i \in 1 .. n : f[i] = DecodeStep(f[i - 1], cells, Dimensions)
    <2>1. f[0] = RunBegins
          /\ \A i \in 1 .. n : f[i] = Pass("decoded", Decoding(cells, Dimensions), i, f[i - 1])
      BY <1>4, <1>5, PassesAlong
    <2>2. \A i, v : Pass("decoded", Decoding(cells, Dimensions), i, v) = DecodeStep(v, cells, Dimensions)
      BY DEF Pass, Decoding
    <2> QED
      BY <2>1, <2>2
  <1> DEFINE S == {m \in 0 .. n : Faithful(f[m], m, cells)}
  <1> HIDE DEF run, n
  <1>7. 0 \in S
    BY <1>3, <1>4, <1>6, RunBeginsFaithful
  <1>8. ASSUME NEW m \in 0 .. n, m < n, m \in S PROVE m + 1 \in S
    <2>1. m + 1 \in 1 .. n /\ (m + 1) - 1 = m /\ m + 1 \in 0 .. n /\ m \in Nat
      BY <1>4, <1>8
    <2>2. f[m + 1] = DecodeStep(f[m], cells, Dimensions)
      BY <1>6, <2>1
    <2>3. Faithful(f[m + 1], m + 1, cells)
      BY <1>8, <2>1, <2>2, FaithfulMore
    <2> QED
      BY <2>1, <2>3
  <1>9. Faithful(run, n, cells)
    <2>1. n \in S
      <3> HIDE DEF S
      <3> QED
        BY <1>4, <1>7, <1>8, CountingUp
    <2> QED
      BY <1>5, <2>1
  <1> DEFINE cs == run.changes
             e == EncodedChanges(cs)
  <1>10. /\ Len(cs) = n /\ e \in Seq(Nat) /\ Len(cells) = 3 + Len(e)
         /\ \A j \in 1 .. Len(e) : cells[3 + j] = e[j]
    BY <1>2, <1>9 DEF Faithful, FieldsOf, Written, ReadWhole
  <1> DEFINE all == <<Magic, Dimensions, n>> \o e
  <1>11. EncodedCells(cs, Dimensions) = all
    BY <1>10 DEF EncodedCells
  <1> HIDE DEF cs, e
  <1>12. /\ all \in Seq(Nat) /\ Len(all) = 3 + Len(e) /\ Len(e) \in Nat
         /\ all[1] = Magic /\ all[2] = Dimensions /\ all[3] = n
         /\ \A j \in 1 .. Len(e) : all[3 + j] = e[j]
    BY <1>4, <1>10, HeaderIs
  <1> HIDE DEF all
  <1>13. ASSUME NEW j \in 1 .. Len(all) PROVE all[j] = cells[j]
    <2>1. CASE j \in 1 .. 3
      <3>1. j = 1 \/ j = 2 \/ j = 3
        BY <2>1
      <3> QED
        BY <1>3, <1>12, <3>1 DEF n
    <2>2. CASE j > 3
      <3>1. j - 3 \in 1 .. Len(e) /\ 3 + (j - 3) = j
        BY <1>12, <2>2
      <3> QED
        BY <1>10, <1>12, <3>1
    <2> QED
      BY <1>12, <2>1, <2>2
  <1>14. Len(all) = Len(cells)
    BY <1>10, <1>12
  <1>15. all = cells
    BY <1>12, <1>13, <1>14, SameList
  <1> QED
    BY <1>2, <1>11, <1>15 DEF cs
-----------------------------------------------------------------------------
(* A batch that was written is read back, change by change.                *)
ReadAs(x) == [x EXCEPT !.replaces = (x.op = "insert")]

LEMMA ReadAsIs ==
  ASSUME NEW x \in Change
  PROVE  /\ x.op = "insert" => ReadAs(x) = InsertOf(x.id, x.vector, TRUE)
         /\ x.op = "delete" /\ x.vector = None => ReadAs(x) = DeleteOf(x.id)
         /\ ReadAs(x) \in Change
PROOF
  <1> DEFINE y == ReadAs(x)
  <1>1. /\ y \in Change /\ y.op = x.op /\ y.id = x.id /\ y.vector = x.vector
        /\ y.replaces = (x.op = "insert")
    BY DEF Change, ReadAs
  <1> HIDE DEF y
  <1>2. y = [op |-> y.op, id |-> y.id, vector |-> y.vector, replaces |-> y.replaces]
    BY <1>1 DEF Change
  <1>3. ASSUME x.op = "insert" PROVE y = InsertOf(x.id, x.vector, TRUE)
    <2>1. y.replaces = TRUE /\ y.op = "insert"
      BY <1>1, <1>3
    <2>2. InsertOf(x.id, x.vector, TRUE)
            = [op |-> "insert", id |-> x.id, vector |-> x.vector, replaces |-> TRUE]
      BY DEF InsertOf
    <2> QED
      BY <1>1, <1>2, <2>1, <2>2, Zenon
  <1>4. ASSUME x.op = "delete", x.vector = None PROVE y = DeleteOf(x.id)
    <2>1. y.replaces = FALSE /\ y.op = "delete"
      BY <1>1, <1>4
    <2>2. DeleteOf(x.id) = [op |-> "delete", id |-> x.id, vector |-> None, replaces |-> FALSE]
      BY DEF DeleteOf
    <2> QED
      BY <1>1, <1>2, <1>4, <2>1, <2>2, Zenon
  <1> QED
    BY <1>1, <1>3, <1>4 DEF y

LEMMA ChangesAreRead == Change \subseteq Read
PROOF
  <1> SUFFICES ASSUME NEW x \in Change PROVE x \in Read
    OBVIOUS
  <1>1. /\ x = [op |-> x.op, id |-> x.id, vector |-> x.vector, replaces |-> x.replaces]
        /\ x.op \in {"insert", "delete"} /\ x.id \in Rowid /\ x.vector \in Vector \cup {None}
        /\ x.replaces \in BOOLEAN
    BY DEF Change
  <1>2. x.id \in Nat /\ x.vector \in Seq(Nat) \cup {None}
    BY <1>1, CodecAssumption
  <1> QED
    BY <1>1, <1>2 DEF Read

LEMMA ReadsWhatIsWritten ==
  ASSUME NEW cells \in Seq(Nat), NEW run \in DecodeRuns, run.ok, NEW x \in Change, Wired(x),
         x.op = "delete" => x.vector = None, Written(cells, run.at, EncodedChange(x))
  PROVE  DecodeStep(run, cells, Dimensions) = ReadOn(run, Len(EncodedChange(x)), ReadAs(x))
PROOF
  <1> DEFINE e == EncodedChange(x)
             a == run.at
             D == Dimensions
  <1>1. Len(cells) \in Nat /\ D \in Nat /\ a \in Nat /\ run.ok = TRUE
    BY CodecAssumption DEF DecodeRuns
  <1>2. /\ e \in Seq(Nat) /\ Len(e) = IF x.op = "insert" THEN 2 + D ELSE 2
        /\ e[1] = (IF x.op = "insert" THEN 1 ELSE 2) /\ e[2] = x.id
        /\ x.op = "insert" => \A j \in 1 .. D : e[2 + j] = x.vector[j]
    BY EncodedChangeIs
  <1> HIDE DEF e
  <1>3. Len(e) \in Nat /\ a + Len(e) <= Len(cells) /\ \A j \in 1 .. Len(e) : cells[a + j] = e[j]
    BY DEF Written, e
  <1>4. cells[a + 1] = e[1] /\ cells[a + 2] = e[2]
    <2>1. 1 \in 1 .. Len(e) /\ 2 \in 1 .. Len(e)
      BY <1>1, <1>2, <1>3
    <2> QED
      BY <1>3, <2>1
  <1>5. x.op \in {"insert", "delete"}
    BY DEF Wired
  <1>6. CASE x.op = "insert"
    <2> DEFINE v == SubSeq(cells, a + 2 + 1, a + 2 + D)
    <2>1. Len(e) = 2 + D /\ cells[a + 1] = 1 /\ cells[a + 2] = x.id
      BY <1>2, <1>4, <1>6
    <2>2. InsertAhead(run, cells)
      BY <1>1, <1>3, <2>1 DEF InsertAhead
    <2>3. v \in Seq(Nat) /\ Len(v) = D /\ \A j \in 1 .. D : v[j] = cells[a + 2 + j]
      <3>1. a + 2 \in Nat /\ a + 2 + D <= Len(cells)
        <4>1. a + (2 + D) <= Len(cells)
          BY <1>3, <2>1, Zenon
        <4>2. \A p, q, r \in Nat : p + (2 + q) <= r => p + 2 \in Nat /\ p + 2 + q <= r
          OBVIOUS
        <4> QED
          BY <1>1, <4>1, <4>2
      <3>2. PICK b \in Nat : b = a + 2
        BY <3>1
      <3>3. v = SubSeq(cells, b + 1, b + D) /\ b + D <= Len(cells)
        BY <3>1, <3>2
      <3>4. v \in Seq(Nat) /\ Len(v) = D /\ \A j \in 1 .. D : v[j] = cells[b + j]
        <4> HIDE DEF v
        <4> QED
          BY <1>1, <3>3, PieceIs
      <3> QED
        BY <3>2, <3>4, Zenon
    <2>4. x.vector \in Seq(Nat) /\ Len(x.vector) = D
      BY <1>6 DEF Wired
    <2> HIDE DEF v
    <2>5. ASSUME NEW j \in 1 .. D PROVE v[j] = x.vector[j]
      <3>1. 2 + j \in 1 .. Len(e) /\ a + (2 + j) = a + 2 + j
        <4>1. j \in Nat /\ 1 <= j /\ j <= D /\ D \in Nat /\ Len(e) = 2 + D /\ a \in Nat
          BY <1>1, <2>1
        <4>2. 2 + j \in Nat /\ 1 <= 2 + j /\ 2 + j <= 2 + D
          BY <4>1
        <4>3. 2 + j \in 1 .. Len(e)
          BY <4>1, <4>2
        <4>4. a + (2 + j) = a + 2 + j
          <5>1. \A p, q \in Nat : p + (2 + q) = p + 2 + q
            OBVIOUS
          <5> QED
            BY <4>1, <5>1
        <4> QED
          BY <4>3, <4>4
      <3>2. cells[a + (2 + j)] = e[2 + j]
        BY <1>3, <3>1
      <3> QED
        BY <1>2, <1>6, <2>3, <3>1, <3>2
    <2>6. v = x.vector
      BY <2>3, <2>4, <2>5, SameList
    <2>7. InsertRead(run, cells) = ReadAs(x)
      BY <1>6, <2>1, <2>6, ReadAsIs DEF InsertRead, v
    <2> QED
      BY <1>1, <2>1, <2>2, <2>7, DecodeStepIs DEF e
  <1>7. CASE x.op = "delete"
    <2>1. Len(e) = 2 /\ cells[a + 1] = 2 /\ cells[a + 2] = x.id
      BY <1>2, <1>4, <1>7
    <2>2. DeleteAhead(run, cells)
      BY <1>1, <1>3, <2>1 DEF DeleteAhead
    <2>3. DeleteOf(cells[a + 2]) = ReadAs(x)
      BY <1>7, <2>1, ReadAsIs
    <2> QED
      BY <1>1, <2>1, <2>2, <2>3, DecodeStepIs DEF e
  <1> QED
    BY <1>5, <1>6, <1>7
-----------------------------------------------------------------------------
(* The batches a connection writes (those of a log it can encode). *)
Writable(cs) == cs \in Seq(Change) /\ DeletesBare(cs) /\ Encodable(cs)

LEMMA WritableIs ==
  ASSUME NEW cs, Writable(cs)
  PROVE  /\ Len(cs) \in Nat /\ DOMAIN cs = 1 .. Len(cs)
         /\ \A i \in 1 .. Len(cs) : /\ cs[i] \in Change /\ Wired(cs[i])
                                    /\ cs[i].op = "delete" => cs[i].vector = None
PROOF
  <1>1. /\ Len(cs) \in Nat /\ DOMAIN cs = 1 .. Len(cs)
        /\ \A i \in 1 .. Len(cs) : cs[i] \in Change
    <2>1. cs \in Seq(Change)
      BY DEF Writable
    <2> QED
      BY <2>1
  <1>2. ASSUME NEW i \in 1 .. Len(cs)
        PROVE  Wired(cs[i]) /\ (cs[i].op = "delete" => cs[i].vector = None)
    <2>1. cs[i].op = "insert" => cs[i].vector # None
      BY <1>1 DEF Writable, Encodable, Inserts
    <2>2. cs[i].op = "delete" => cs[i].vector = None
      BY <1>1 DEF Writable, DeletesBare
    <2> QED
      BY <1>1, <2>1, <2>2, ChangesAreWired
  <1> QED
    BY <1>1, <1>2

(* sync() budgets the length a batch then has. *)
InsertsTo(cs, k) == {i \in 1 .. k : cs[i].op = "insert"}

LEMMA InsertsToMore ==
  ASSUME NEW cs, NEW k \in Nat
  PROVE  /\ IsFiniteSet(InsertsTo(cs, k)) /\ Cardinality(InsertsTo(cs, k)) \in Nat
         /\ Cardinality(InsertsTo(cs, 0)) = 0
         /\ Cardinality(InsertsTo(cs, k + 1))
              = Cardinality(InsertsTo(cs, k)) + (IF cs[k + 1].op = "insert" THEN 1 ELSE 0)
PROOF
  <1>1. IsFiniteSet(InsertsTo(cs, k))
    <2>1. IsFiniteSet(1 .. k)
      BY FS_Interval
    <2>2. InsertsTo(cs, k) \subseteq 1 .. k
      BY DEF InsertsTo
    <2> QED
      BY <2>1, <2>2, FS_Subset
  <1>2. Cardinality(InsertsTo(cs, k)) \in Nat
    BY <1>1, FS_CardinalityType
  <1>3. Cardinality(InsertsTo(cs, 0)) = 0
    <2>1. InsertsTo(cs, 0) = {}
      BY DEF InsertsTo
    <2> QED
      BY <2>1, FS_EmptySet
  <1>4. CASE cs[k + 1].op = "insert"
    <2>1. InsertsTo(cs, k + 1) = InsertsTo(cs, k) \cup {k + 1} /\ k + 1 \notin InsertsTo(cs, k)
      BY <1>4 DEF InsertsTo
    <2>2. Cardinality(InsertsTo(cs, k + 1)) = Cardinality(InsertsTo(cs, k)) + 1
      BY <1>1, <2>1, FS_AddElement
    <2> QED
      BY <1>1, <1>2, <1>3, <1>4, <2>2
  <1>5. CASE cs[k + 1].op # "insert"
    <2>1. InsertsTo(cs, k + 1) = InsertsTo(cs, k)
      BY <1>5 DEF InsertsTo
    <2> QED
      BY <1>1, <1>2, <1>3, <1>5, <2>1
  <1> QED
    BY <1>4, <1>5

LEMMA FieldsMore ==
  ASSUME NEW d \in Nat, NEW c \in Nat, NEW k \in Nat
  PROVE  /\ 2 * k + d * c + (2 + d) = 2 * (k + 1) + d * (c + 1)
         /\ 2 * k + d * c + 2 = 2 * (k + 1) + d * (c + 0)
         /\ d * 0 = 0 /\ d * c \in Nat
OBVIOUS

LEMMA EncodedLen ==
  ASSUME NEW cs, Writable(cs)
  PROVE  /\ EncodedChanges(cs) \in Seq(Nat)
         /\ Len(EncodedChanges(cs)) = 2 * Len(cs) + Dimensions * Cardinality(Inserts(cs))
PROOF
  <1> DEFINE n == Len(cs)
             C(k) == Cardinality(InsertsTo(cs, k))
             D == Dimensions
  <1>1. n \in Nat /\ DOMAIN cs = 1 .. n /\ \A i \in 1 .. n : cs[i] \in Change /\ Wired(cs[i])
    BY WritableIs
  <1>2. D \in Nat /\ \A k \in Nat : C(k) \in Nat
    BY CodecAssumption, InsertsToMore
  <1>3. C(0) = 0 /\ \A k \in Nat : C(k + 1) = C(k) + (IF cs[k + 1].op = "insert" THEN 1 ELSE 0)
    BY InsertsToMore
  <1>4. C(n) = Cardinality(Inserts(cs))
    <2>1. InsertsTo(cs, n) = Inserts(cs)
      BY <1>1 DEF InsertsTo, Inserts
    <2> QED
      BY <2>1
  <1>5. PICK f : Passes(f, n, <<>>, "cells", cs) /\ EncodedChanges(cs) = f[n]
    BY <1>1, EncodedChangesIs
  <1> HIDE DEF n, C
  <1>6. /\ f[0] = <<>> /\ \A k \in 0 .. n : f[k] \in Seq(Nat)
        /\ \A k \in 1 .. n : f[k] = f[k - 1] \o EncodedChange(cs[k])
    BY <1>1, <1>5, CellsAlong DEF CellsOf
  <1> DEFINE S == {m \in 0 .. n : Len(f[m]) = 2 * m + D * C(m)}
  <1>7. 0 \in S
    <2>1. D * 0 = 0
      BY <1>2
    <2>2. D * C(0) = 0
      BY <1>3, <2>1
    <2>3. Len(f[0]) = 0
      BY <1>6
    <2> QED
      BY <1>1, <2>2, <2>3
  <1>8. ASSUME NEW m \in 0 .. n, m < n, m \in S PROVE m + 1 \in S
    <2> DEFINE x == cs[m + 1]
               e == EncodedChange(x)
    <2>1. m + 1 \in 1 .. n /\ m + 1 \in 0 .. n /\ (m + 1) - 1 = m /\ m \in Nat
      BY <1>1, <1>8
    <2>2. f[m + 1] = f[m] \o e /\ f[m] \in Seq(Nat) /\ Len(f[m]) = 2 * m + D * C(m)
      BY <1>6, <1>8, <2>1
    <2>3. e \in Seq(Nat) /\ Len(e) = IF x.op = "insert" THEN 2 + D ELSE 2
      BY <1>1, <2>1, EncodedChangeIs
    <2>4. C(m + 1) = C(m) + (IF x.op = "insert" THEN 1 ELSE 0) /\ C(m) \in Nat
      BY <1>2, <1>3, <2>1
    <2> HIDE DEF e
    <2>5. Len(f[m + 1]) = Len(f[m]) + Len(e)
      <3>1. \A s, t \in Seq(Nat) : Len(s \o t) = Len(s) + Len(t)
        BY JoinedIs
      <3>2. f[m] \in Seq(Nat) /\ e \in Seq(Nat) /\ f[m + 1] = f[m] \o e
        BY <2>2, <2>3
      <3> QED
        BY <3>1, <3>2, Zenon
    <2>6. CASE x.op = "insert"
      <3>1. Len(f[m + 1]) = 2 * m + D * C(m) + (2 + D) /\ C(m + 1) = C(m) + 1
        BY <2>2, <2>3, <2>4, <2>5, <2>6
      <3>2. 2 * m + D * C(m) + (2 + D) = 2 * (m + 1) + D * (C(m) + 1)
        BY <1>2, <2>1, <2>4, FieldsMore
      <3>3. Len(f[m + 1]) = 2 * (m + 1) + D * C(m + 1)
        BY <3>1, <3>2, Zenon
      <3> QED
        BY <2>1, <3>3
    <2>7. CASE x.op # "insert"
      <3>1. Len(f[m + 1]) = 2 * m + D * C(m) + 2 /\ C(m + 1) = C(m) + 0
        BY <2>2, <2>3, <2>4, <2>5, <2>7
      <3>2. 2 * m + D * C(m) + 2 = 2 * (m + 1) + D * (C(m) + 0)
        BY <1>2, <2>1, <2>4, FieldsMore
      <3>3. Len(f[m + 1]) = 2 * (m + 1) + D * C(m + 1)
        BY <3>1, <3>2, Zenon
      <3> QED
        BY <2>1, <3>3
    <2> QED
      BY <2>6, <2>7
  <1>9. n \in S
    <2> HIDE DEF S
    <2> QED
      BY <1>1, <1>7, <1>8, CountingUp
  <1>10. f[n] \in Seq(Nat)
    <2>1. n \in 0 .. n
      BY <1>1
    <2> QED
      BY <1>6, <2>1
  <1> QED
    BY <1>4, <1>5, <1>9, <1>10 DEF n

LEMMA BudgetedLen ==
  ASSUME NEW cs, Writable(cs)
  PROVE  BlobLen(EncodeDelta(cs, Dimensions)) = DeltaLen(cs)
PROOF
  <1> DEFINE e == EncodedChanges(cs)
             cells == EncodedCells(cs, Dimensions)
             c == Cardinality(Inserts(cs))
             n == Len(cs)
  <1>1. n \in Nat /\ e \in Seq(Nat) /\ Len(e) = 2 * n + Dimensions * c
    BY EncodedLen, WritableIs
  <1>2. cells = <<Magic, Dimensions, n>> \o e
    BY DEF EncodedCells
  <1> HIDE DEF e, cells, n
  <1>3. Len(cells) = 3 + Len(e) /\ Len(e) \in Nat
    BY <1>1, <1>2, HeaderIs
  <1>4. BlobLen(EncodeDelta(cs, Dimensions)) = Len(cells) + 1
    BY DEF BlobLen, EncodeDelta, Blob, ChecksumLen, cells
  <1>5. DeltaLen(cs) = 4 + 2 * n + Dimensions * c
    BY CodecAssumption DEF DeltaLen, n
  <1> DEFINE dc == Dimensions * c
  <1>6. Len(e) = 2 * n + dc /\ DeltaLen(cs) = 4 + 2 * n + dc
    BY <1>1, <1>5
  <1>7. dc \in Nat
    <2>1. Inserts(cs) = InsertsTo(cs, n) /\ c \in Nat
      <3>1. Inserts(cs) = InsertsTo(cs, n)
        BY WritableIs DEF Inserts, InsertsTo, n
      <3> QED
        BY <1>1, <3>1, InsertsToMore
    <2> QED
      BY <2>1, CodecAssumption, FieldsMore
  <1> HIDE DEF dc, c
  <1> QED
    BY <1>1, <1>3, <1>4, <1>6, <1>7

(* decode_delta of what encode_delta wrote. *)
LEMMA WrittenWhere ==
  ASSUME NEW n \in Nat, NEW cs, \A i \in 1 .. n : Wired(cs[i]), NEW f, CellsOf(f, n, cs),
         NEW cells \in Seq(Nat), Len(cells) = 3 + Len(f[n]),
         \A j \in 1 .. Len(f[n]) : cells[3 + j] = f[n][j],
         NEW m \in 0 .. n, m < n
  PROVE  LET e == EncodedChange(cs[m + 1])
         IN  /\ Written(cells, 3 + Len(f[m]), e) /\ e \in Seq(Nat)
             /\ Len(f[m + 1]) = Len(f[m]) + Len(e) /\ Len(f[m]) \in Nat
PROOF
  <1> DEFINE e == EncodedChange(cs[m + 1])
             a == f[m]
             b == f[m + 1]
             c == f[n]
  <1>1. m + 1 \in 1 .. n /\ m + 1 \in 0 .. n /\ (m + 1) - 1 = m /\ n \in 0 .. n
    OBVIOUS
  <1>2. /\ \A k \in 0 .. n : f[k] \in Seq(Nat)
        /\ \A k \in 1 .. n : f[k] = f[k - 1] \o EncodedChange(cs[k])
        /\ \A k \in 0 .. n : Starts(f[k], f[n])
    <2>1. /\ f[0] = <<>> /\ \A k \in 0 .. n : f[k] \in Seq(Nat) /\ Len(f[k]) >= 2 * k
          /\ \A k \in 1 .. n : f[k] = f[k - 1] \o EncodedChange(cs[k])
          /\ \A k \in 0 .. n : Starts(f[k], f[n])
      BY CellsAlong, Zenon
    <2> QED
      BY <2>1
  <1>3. a \in Seq(Nat) /\ b \in Seq(Nat) /\ c \in Seq(Nat) /\ b = a \o e /\ Starts(b, c)
    BY <1>1, <1>2
  <1>4. e \in Seq(Nat) /\ Len(e) \in Nat
    BY <1>1, EncodedChangeIs
  <1>5. Len(cells) = 3 + Len(c) /\ \A j \in 1 .. Len(c) : cells[3 + j] = c[j]
    OBVIOUS
  <1> HIDE DEF e, a, b, c
  <1>6. /\ Len(b) = Len(a) + Len(e) /\ Len(a) \in Nat /\ Len(c) \in Nat
        /\ \A j \in 1 .. Len(e) : b[Len(a) + j] = e[j]
    BY <1>3, <1>4, JoinedIs
  <1>7. Len(b) <= Len(c) /\ \A j \in 1 .. Len(b) : c[j] = b[j]
    BY <1>3 DEF Starts
  <1>8. (3 + Len(a)) + Len(e) <= Len(cells)
    BY <1>4, <1>5, <1>6, <1>7
  <1>9. ASSUME NEW j \in 1 .. Len(e) PROVE cells[(3 + Len(a)) + j] = e[j]
    <2>1. /\ Len(a) + j \in 1 .. Len(b) /\ Len(a) + j \in 1 .. Len(c)
          /\ (3 + Len(a)) + j = 3 + (Len(a) + j)
      <3>1. j \in Nat /\ 1 <= j /\ j <= Len(e)
        BY <1>4
      <3>2. \A p, q, r, s \in Nat : 1 <= q /\ q <= r /\ p + r <= s =>
              p + q \in 1 .. p + r /\ p + q \in 1 .. s /\ (3 + p) + q = 3 + (p + q)
        OBVIOUS
      <3>3. Len(a) + Len(e) <= Len(c) /\ Len(a) \in Nat /\ Len(c) \in Nat /\ Len(b) = Len(a) + Len(e)
        BY <1>6, <1>7
      <3> QED
        BY <1>4, <3>1, <3>2, <3>3
    <2>2. cells[3 + (Len(a) + j)] = c[Len(a) + j] /\ c[Len(a) + j] = b[Len(a) + j]
      BY <1>5, <1>7, <2>1
    <2> QED
      BY <1>6, <2>1, <2>2
  <1>10. Written(cells, 3 + Len(a), e)
    BY <1>4, <1>8, <1>9 DEF Written
  <1> QED
    BY <1>4, <1>6, <1>10 DEF a, b, e

LEMMA ReadBack ==
  ASSUME NEW cs, Writable(cs)
  PROVE  DecodeDelta(EncodeDelta(cs, Dimensions), Dimensions) = Decoded(cs)
PROOF
  <1> DEFINE n == Len(cs)
             e == EncodedChanges(cs)
             cells == EncodedCells(cs, Dimensions)
  <1>1. /\ n \in Nat /\ DOMAIN cs = 1 .. n
        /\ \A i \in 1 .. n : /\ cs[i] \in Change /\ Wired(cs[i])
                             /\ cs[i].op = "delete" => cs[i].vector = None
    BY WritableIs
  <1>2. cs \in Seq(Change)
    BY DEF Writable
  <1>3. PICK f : CellsOf(f, n, cs) /\ e = f[n]
    BY <1>1, EncodedChangesIs DEF CellsOf
  <1>4. cells = <<Magic, Dimensions, n>> \o e
    BY DEF EncodedCells
  <1> HIDE DEF n, e, cells
  <1>5. /\ f[0] = <<>> /\ \A k \in 0 .. n : f[k] \in Seq(Nat) /\ Len(f[k]) >= 2 * k
    BY <1>1, <1>3, CellsAlong
  <1>6. e \in Seq(Nat) /\ Len(e) \in Nat /\ Len(e) >= 2 * n
    <2>1. n \in 0 .. n
      BY <1>1
    <2>2. e \in Seq(Nat) /\ Len(e) >= 2 * n
      BY <1>3, <1>5, <2>1
    <2> QED
      BY <2>2
  <1>7. /\ cells \in Seq(Nat) /\ Len(cells) = 3 + Len(e)
        /\ cells[1] = Magic /\ cells[2] = Dimensions /\ cells[3] = n
        /\ \A j \in 1 .. Len(e) : cells[3 + j] = e[j]
    BY <1>1, <1>4, <1>6, HeaderIs
  <1>8. HeaderOK(Blob(cells, cells), Dimensions)
    <2>1. n <= (Len(cells) - 3) \div 2
      <3>1. \A p, q \in Nat : q >= 2 * p => p <= ((3 + q) - 3) \div 2
        OBVIOUS
      <3> QED
        BY <1>1, <1>6, <1>7, <3>1
    <2>2. Len(cells) >= 3
      BY <1>6, <1>7
    <2>3. OpBytes = 2
      BY CodecAssumption
    <2> QED
      BY <1>7, <2>1, <2>2, <2>3 DEF HeaderOK, Blob, HeaderLen
  <1>9. PICK g : /\ Passes(g, n, RunBegins, "decoded", Decoding(cells, Dimensions))
                 /\ DecodeLoop(Blob(cells, cells), Dimensions) = g[n]
    <2>1. cells[3] \in Nat
      BY <1>1, <1>7
    <2>2. PICK g : /\ Passes(g, cells[3], RunBegins, "decoded", Decoding(cells, Dimensions))
                   /\ DecodeLoop(Blob(cells, cells), Dimensions) = g[cells[3]]
      BY <2>1, DecodeLoopIs
    <2> QED
      BY <1>7, <2>2
  <1>10. g[0] = RunBegins /\ \A i \in 1 .. n : g[i] = DecodeStep(g[i - 1], cells, Dimensions)
    <2>1. g[0] = RunBegins
          /\ \A i \in 1 .. n : g[i] = Pass("decoded", Decoding(cells, Dimensions), i, g[i - 1])
      BY <1>1, <1>9, PassesAlong
    <2>2. \A i, v : Pass("decoded", Decoding(cells, Dimensions), i, v) = DecodeStep(v, cells, Dimensions)
      BY DEF Pass, Decoding
    <2> QED
      BY <2>1, <2>2
  <1> DEFINE So(k, run) == /\ run \in DecodeRuns /\ run.ok /\ run.at = 3 + Len(f[k])
                           /\ Len(run.changes) = k
                           /\ \A i \in 1 .. k : run.changes[i] = ReadAs(cs[i])
             S == {m \in 0 .. n : So(m, g[m])}
  <1>11. 0 \in S
    <2>1. RunBegins \in DecodeRuns /\ RunBegins.ok /\ RunBegins.at = 3 /\ RunBegins.changes = <<>>
      <3>1. Len(cells) >= 3
        BY <1>6, <1>7
      <3> QED
        BY <1>7, <3>1, RunBeginsFaithful DEF RunBegins, HeaderLen
    <2>2. Len(f[0]) = 0 /\ Len(<<>>) = 0
      BY <1>5
    <2> QED
      BY <1>1, <1>10, <2>1, <2>2
  <1>12. ASSUME NEW m \in 0 .. n, m < n, m \in S PROVE m + 1 \in S
    <2> DEFINE x == cs[m + 1]
               d == EncodedChange(x)
               run == g[m]
               next == g[m + 1]
    <2>1. m + 1 \in 1 .. n /\ m + 1 \in 0 .. n /\ (m + 1) - 1 = m /\ m \in Nat
      BY <1>1, <1>12
    <2>2. /\ run \in DecodeRuns /\ run.ok /\ run.at = 3 + Len(f[m]) /\ Len(run.changes) = m
          /\ \A i \in 1 .. m : run.changes[i] = ReadAs(cs[i])
      BY <1>12
    <2>3. /\ Written(cells, 3 + Len(f[m]), d) /\ d \in Seq(Nat)
          /\ Len(f[m + 1]) = Len(f[m]) + Len(d) /\ Len(f[m]) \in Nat
      <3>1. Len(cells) = 3 + Len(f[n]) /\ \A j \in 1 .. Len(f[n]) : cells[3 + j] = f[n][j]
        BY <1>3, <1>7
      <3> QED
        BY <1>1, <1>3, <1>7, <1>12, <3>1, WrittenWhere
    <2>4. x \in Change /\ Wired(x) /\ (x.op = "delete" => x.vector = None)
      BY <1>1, <2>1
    <2>5. next = DecodeStep(run, cells, Dimensions)
      BY <1>10, <2>1
    <2>6. Written(cells, run.at, d)
      BY <2>2, <2>3
    <2>7. DecodeStep(run, cells, Dimensions) = ReadOn(run, Len(d), ReadAs(x))
      BY <1>7, <2>2, <2>4, <2>6, ReadsWhatIsWritten
    <2> DEFINE y == ReadAs(x)
               old == run.changes
               new == Append(old, y)
    <2>8. y \in Read /\ old \in Seq(Read)
      BY <2>2, <2>4, ReadAsIs, ChangesAreRead DEF DecodeRuns
    <2>9. next = [ok |-> TRUE, at |-> run.at + Len(d), changes |-> new]
      BY <2>5, <2>7 DEF ReadOn
    <2> HIDE DEF y, d, next
    <2>10. /\ new \in Seq(Read) /\ Len(new) = Len(old) + 1 /\ Len(old) \in Nat
           /\ new[Len(old) + 1] = y /\ \A i \in 1 .. Len(old) : new[i] = old[i]
      BY <2>8, AppendedIs
    <2> HIDE DEF new, old, run
    <2>11. next.ok = TRUE /\ next.at = run.at + Len(d) /\ next.changes = new
      BY <2>9
    <2>12. next.at = 3 + Len(f[m + 1]) /\ next.at \in Nat
      <3>1. Len(d) \in Nat
        BY <2>3
      <3> QED
        BY <2>2, <2>3, <2>11, <3>1
    <2>13. next \in DecodeRuns
      BY <2>9, <2>10, <2>11, <2>12 DEF DecodeRuns
    <2>14. ASSUME NEW i \in 1 .. m + 1 PROVE new[i] = ReadAs(cs[i])
      <3>1. CASE i = m + 1
        BY <2>2, <2>10, <3>1 DEF y, old
      <3>2. CASE i \in 1 .. m
        BY <2>2, <2>10, <3>2 DEF old
      <3> QED
        BY <2>1, <3>1, <3>2
    <2>15. Len(new) = m + 1
      BY <2>2, <2>10 DEF old
    <2>16. So(m + 1, next)
      BY <2>11, <2>12, <2>13, <2>14, <2>15
    <2> QED
      BY <2>1, <2>16 DEF next
  <1>13. So(n, g[n])
    <2>1. n \in S
      <3> HIDE DEF S
      <3> QED
        BY <1>1, <1>11, <1>12, CountingUp
    <2> QED
      BY <2>1
  <1> DEFINE run == g[n]
             all == run.changes
  <1>14. ReadWhole(run, cells)
    BY <1>3, <1>7, <1>13 DEF ReadWhole
  <1>15. all = Decoded(cs)
    <2>1. /\ all \in Seq(Read) /\ Len(all) = n /\ \A i \in 1 .. n : all[i] = ReadAs(cs[i])
      BY <1>13 DEF DecodeRuns
    <2> HIDE DEF all
    <2>2. all = [i \in 1 .. n |-> all[i]]
      BY <2>1
    <2>3. Decoded(cs) = [i \in 1 .. n |-> ReadAs(cs[i])]
      BY <1>1 DEF Decoded, ReadAs
    <2> HIDE DEF ReadAs
    <2> QED
      BY <2>1, <2>2, <2>3
  <1>16. EncodeDelta(cs, Dimensions) = Blob(cells, cells) /\ Blob(cells, cells).cells = cells
    BY DEF EncodeDelta, Blob, cells
  <1>17. DecodeDelta(Blob(cells, cells), Dimensions) = all
    BY <1>8, <1>9, <1>14, <1>16 DEF DecodeDelta
  <1> QED
    BY <1>15, <1>16, <1>17

(* A list of fields with one lost, added or changed is one still. *)
LEMMA DamagedType ==
  ASSUME NEW cells \in Seq(Nat)
  PROVE  Damaged(cells) \subseteq Seq(Nat)
PROOF
  <1> SUFFICES ASSUME NEW d \in Damaged(cells) PROVE d \in Seq(Nat)
    OBVIOUS
  <1> DEFINE n == Len(cells)
  <1>1. n \in Nat /\ DOMAIN cells = 1 .. n /\ \A i \in 1 .. n : cells[i] \in Nat
    OBVIOUS
  <1>2. Cell \subseteq Nat
    BY CodecAssumption
  <1>3. \A m \in Nat : \A s : s \in [1 .. m -> Nat] => s \in Seq(Nat)
    OBVIOUS
  <1> HIDE DEF n
  <1>4. ASSUME NEW i \in 1 .. n PROVE RemoveAt(cells, i) \in Seq(Nat)
    BY <1>1, <1>4 DEF RemoveAt, n
  <1>5. ASSUME NEW i \in 1 .. n + 1, NEW x \in Nat PROVE InsertAt(cells, i, x) \in Seq(Nat)
    BY <1>1, <1>5 DEF InsertAt, n
  <1>6. ASSUME NEW i \in 1 .. n, NEW x \in Nat PROVE ReplaceAt(cells, i, x) \in Seq(Nat)
    BY <1>1, <1>6 DEF ReplaceAt, n
  <1> QED
    BY <1>1, <1>2, <1>4, <1>5, <1>6 DEF Damaged, n
-----------------------------------------------------------------------------
LEMMA RoundTrip ==
  ASSUME LogTypeOK
  PROVE  CodecRoundTrip
PROOF
  <1> SUFFICES ASSUME Encodable(log)
               PROVE  LET blob == EncodeDelta(log, Dimensions)
                      IN  /\ BlobLen(blob) = DeltaLen(log)
                          /\ DecodeDelta(blob, Dimensions) = Decoded(log)
                          /\ DecodeDelta(blob, Dimensions + 1) = None
                          /\ \A cells \in Damaged(blob.cells) \ {blob.cells} :
                               LET changes == DecodeDelta(Blob(cells, cells), Dimensions)
                               IN  /\ DecodeDelta(Blob(cells, blob.crc), Dimensions) = None
                                   /\ changes # None => EncodedCells(changes, Dimensions) = cells
    BY DEF CodecRoundTrip
  <1> DEFINE blob == EncodeDelta(log, Dimensions)
             all == EncodedCells(log, Dimensions)
  <1>1. Writable(log)
    BY DEF Writable, LogTypeOK
  <1>2. BlobLen(blob) = DeltaLen(log)
    BY <1>1, BudgetedLen
  <1>3. DecodeDelta(blob, Dimensions) = Decoded(log)
    BY <1>1, ReadBack
  <1>4. blob = Blob(all, all) /\ blob.cells = all /\ blob.crc = all
    BY DEF EncodeDelta, Blob
  <1>5. all \in Seq(Nat) /\ all[2] = Dimensions
    <2>1. EncodedChanges(log) \in Seq(Nat) /\ Len(log) \in Nat
      BY <1>1, EncodedLen, WritableIs
    <2>2. all = <<Magic, Dimensions, Len(log)>> \o EncodedChanges(log)
      BY DEF EncodedCells
    <2> HIDE DEF all
    <2> QED
      BY <2>1, <2>2, HeaderIs
  <1> HIDE DEF all
  <1>6. DecodeDelta(blob, Dimensions + 1) = None
    <2>1. all[2] # Dimensions + 1
      BY <1>5, CodecAssumption
    <2>2. ~HeaderOK(blob, Dimensions + 1)
      BY <1>4, <2>1 DEF HeaderOK
    <2> QED
      BY <2>2 DEF DecodeDelta
  <1> HIDE DEF blob
  <1>7. ASSUME NEW cells \in Damaged(blob.cells) \ {blob.cells}
        PROVE  /\ DecodeDelta(Blob(cells, blob.crc), Dimensions) = None
               /\ DecodeDelta(Blob(cells, cells), Dimensions) # None =>
                    EncodedCells(DecodeDelta(Blob(cells, cells), Dimensions), Dimensions) = cells
    <2>1. cells # all /\ cells \in Seq(Nat)
      BY <1>4, <1>5, <1>7, DamagedType
    <2>2. DecodeDelta(Blob(cells, blob.crc), Dimensions) = None
      <3>1. Blob(cells, all).cells = cells /\ Blob(cells, all).crc = all
        BY DEF Blob
      <3>2. ~HeaderOK(Blob(cells, all), Dimensions)
        BY <2>1, <3>1 DEF HeaderOK
      <3>3. DecodeDelta(Blob(cells, all), Dimensions) = None
        BY <3>2 DEF DecodeDelta
      <3> QED
        BY <1>4, <3>3
    <2> QED
      BY <2>1, <2>2, OnlyEncodings
  <1> QED
    BY <1>2, <1>3, <1>6, <1>7 DEF blob

(* For logs of every length, vectors of every value and a table of any     *)
(* dimensions: a batch is read back as it was written, in the length that  *)
(* was budgeted for it, and nothing is read that is not an encoding        *)
(* (encode_delta, decode_delta).                                           *)
THEOREM CodecRoundTripAlways == LogSpec => []CodecRoundTrip
PROOF
  <1>1. LogTypeOK => CodecRoundTrip
    BY RoundTrip
  <1> QED
    BY <1>1, LogTypeCorrect, PTL
=============================================================================
