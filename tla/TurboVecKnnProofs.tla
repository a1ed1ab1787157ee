------------------------- MODULE TurboVecKnnProofs -------------------------
(***************************************************************************)
(* No plan leaves a MATCH or the k beside it to the host, and a statement  *)
(* gets the rows it asks for, whatever the index holds and whatever the    *)
(* numbers are.                                                            *)
(***************************************************************************)
EXTENDS TurboVecKnn, FiniteSetTheorems, WellFoundedInduction, TLAPS

(* A plan is what xBestIndex answered to one of the offers the host could  *)
(* make for the statement.                                                 *)
AnswerTo(a, usable) ==
  IF a.table = "turbovec0" THEN BestIndex(a, usable) ELSE BlobBestIndex(a, usable)
PlansAreAnswers ==
  /\ ask # None => ask \in Asks
  /\ plan.kind # "none" => ask # None
  /\ Planned => \E usable \in Offers(ask) : plan = AnswerTo(ask, usable)

(* The terms that are arguments. *)
Members(s) == {s[i] : i \in DOMAIN s}

LEMMA Joined ==
  ASSUME NEW s \in Seq(Term), NEW t \in Seq(Term)
  PROVE  s \o t \in Seq(Term) /\ Members(s \o t) = Members(s) \cup Members(t)
<1>1. s \o t \in Seq(Term) /\ Len(s \o t) = Len(s) + Len(t)
  OBVIOUS
<1>2. \A i \in 1 .. Len(s) : (s \o t)[i] = s[i]
  OBVIOUS
<1>3. \A i \in 1 .. Len(t) : (s \o t)[Len(s) + i] = t[i]
  OBVIOUS
<1>4. Members(s \o t) \subseteq Members(s) \cup Members(t)
  <2> SUFFICES ASSUME NEW i \in 1 .. Len(s) + Len(t)
               PROVE  (s \o t)[i] \in Members(s) \cup Members(t)
    BY <1>1 DEF Members
  <2>1. CASE i <= Len(s)
    BY <2>1, <1>2 DEF Members
  <2>2. CASE i > Len(s)
    <3>1. i - Len(s) \in 1 .. Len(t) /\ i = Len(s) + (i - Len(s))
      BY <2>2
    <3> QED  BY <3>1, <1>3 DEF Members
  <2> QED  BY <2>1, <2>2
<1>5. Members(s) \subseteq Members(s \o t)
  BY <1>1, <1>2 DEF Members
<1>6. Members(t) \subseteq Members(s \o t)
  <2> SUFFICES ASSUME NEW i \in 1 .. Len(t)
               PROVE  t[i] \in Members(s \o t)
    BY DEF Members
  <2>1. Len(s) + i \in DOMAIN (s \o t)
    BY <1>1
  <2> QED  BY <2>1, <1>3 DEF Members
<1> QED  BY <1>1, <1>4, <1>5, <1>6

LEMMA OneTerm ==
  ASSUME NEW used, NEW t \in Term
  PROVE  IfUsed(used, t) \in Seq(Term) /\ Members(IfUsed(used, t)) = {t} \cap used
<1>1. CASE t \in used
  <2>1. IfUsed(used, t) = <<t>>
    BY <1>1 DEF IfUsed
  <2>2. Members(<<t>>) = {t}
    BY DEF Members
  <2> QED  BY <1>1, <2>1, <2>2
<1>2. CASE t \notin used
  <2>1. IfUsed(used, t) = <<>>
    BY <1>2 DEF IfUsed
  <2>2. Members(<<>>) = {}
    BY DEF Members
  <2> QED  BY <1>2, <2>1, <2>2
<1> QED  BY <1>1, <1>2

(* Numbering keeps every term that can be an argument. *)
LEMMA NumberedKeeps ==
  ASSUME NEW used
  PROVE  Members(Numbered(used))
           = {"match", "k", "limit", "offset", "rowid"} \cap used
<1> DEFINE O(t) == IfUsed(used, t)
<1>1. \A t \in Term : O(t) \in Seq(Term) /\ Members(O(t)) = {t} \cap used
  BY OneTerm
<1>2. {"match", "k", "limit", "offset", "rowid"} \subseteq Term
  BY DEF Term
<1> DEFINE two == O("match") \o O("k")
           three == two \o O("limit")
           four == three \o O("offset")
<1> HIDE DEF O
<1>3. two \in Seq(Term) /\ Members(two) = {"match", "k"} \cap used
  BY <1>1, <1>2, Joined
<1> HIDE DEF two
<1>4. three \in Seq(Term) /\ Members(three) = {"match", "k", "limit"} \cap used
  BY <1>1, <1>2, <1>3, Joined
<1> HIDE DEF three
<1>5. four \in Seq(Term) /\ Members(four) = {"match", "k", "limit", "offset"} \cap used
  BY <1>1, <1>2, <1>4, Joined
<1> HIDE DEF four
<1>6. Members(four \o O("rowid")) = {"match", "k", "limit", "offset", "rowid"} \cap used
  BY <1>1, <1>2, <1>5, Joined
<1>7. Numbered(used) = four \o O("rowid")
  BY DEF Numbered, four, three, two, O
<1> QED  BY <1>6, <1>7
-----------------------------------------------------------------------------
(* What one answer takes, for one offer. *)

LEMMA OfferKeepsK ==
  ASSUME NEW a \in Asks, NEW usable \in Offers(a)
  PROVE  /\ usable \subseteq a.terms
         /\ "k" \in a.terms /\ "limit" \in usable => "k" \in usable
BY DEF Asks, Ask, Offers

LEMMA SearchTakesItsTerms ==
  ASSUME NEW a \in Asks, NEW usable \in Offers(a), a.table = "turbovec0",
         "match" \in a.terms,
         BestIndex(a, usable).kind \in {"knn", "rowid", "scan", "blob"}
  PROVE  a.terms \cap {"match", "index", "k"} \subseteq Members(BestIndex(a, usable).args)
<1>1. "match" \in usable /\ ~Refused(a, usable)
  BY DEF BestIndex, Without
<1>2. BestIndex(a, usable).args = Numbered(usable \ {"other"})
  <2>1. BestIndex(a, usable) = KnnPlan(a, usable)
    BY <1>1 DEF BestIndex
  <2> QED  BY <2>1 DEF KnnPlan
<1>3. "k" \in a.terms => "k" \in usable
  BY <1>1, OfferKeepsK DEF Refused
<1>4. "index" \notin a.terms
  BY DEF Asks
<1> QED  BY <1>1, <1>2, <1>3, <1>4, NumberedKeeps

LEMMA BlobTakesItsTerms ==
  ASSUME NEW a \in Asks, NEW usable \in Offers(a),
         BlobBestIndex(a, usable).kind \in {"knn", "rowid", "scan", "blob"}
  PROVE  {"match", "index", "k"} \subseteq Members(BlobBestIndex(a, usable).args)
<1>1. BlobBestIndex(a, usable).args = <<"index", "match", "k">>
  BY DEF BlobBestIndex, Without
<1>2. {"match", "index", "k"} \subseteq Members(<<"index", "match", "k">>)
  BY DEF Members
<1> QED  BY <1>1, <1>2
-----------------------------------------------------------------------------
LEMMA AnswersInitially == KnnInit => PlansAreAnswers
BY DEF KnnInit, PlansAreAnswers, Planned, Without

LEMMA AnswersStep == PlansAreAnswers /\ [KnnNext]_knnVars => PlansAreAnswers'
<1> SUFFICES ASSUME PlansAreAnswers, [KnnNext]_knnVars
             PROVE  PlansAreAnswers'
  OBVIOUS
<1>1. CASE Prepare
  BY <1>1 DEF Prepare, PlansAreAnswers, Planned
<1>2. CASE Offer
  <2>1. PICK usable \in Offers(ask) : plan' = AnswerTo(ask, usable)
    BY <1>2 DEF Offer, AnswerTo
  <2> QED  BY <1>2, <2>1 DEF Offer, PlansAreAnswers, Planned
<1>3. CASE Filter
  <2>1. ask' = ask /\ Planned /\ (plan' = plan \/ plan' = Without("refused"))
    BY <1>3 DEF Filter
  <2>2. plan.kind # "none"
    BY <2>1 DEF Planned
  <2> QED  BY <2>1, <2>2 DEF PlansAreAnswers, Planned, Without
<1>4. CASE Step
  BY <1>4 DEF Step, PlansAreAnswers, Planned
<1>5. CASE Finish
  BY <1>5 DEF Finish, PlansAreAnswers, Planned, Without
<1>6. CASE UNCHANGED knnVars
  BY <1>6 DEF knnVars, PlansAreAnswers, Planned
<1> QED  BY <1>1, <1>2, <1>3, <1>4, <1>5, <1>6 DEF KnnNext

LEMMA AnswersShow == PlansAreAnswers => NothingLeftToTheHost
<1> SUFFICES ASSUME PlansAreAnswers, Planned, "match" \in ask.terms
             PROVE  ask.terms \cap {"match", "index", "k"} \subseteq Taken
  BY DEF NothingLeftToTheHost
<1>1. ask \in Asks
  BY DEF PlansAreAnswers, Planned
<1>2. PICK usable \in Offers(ask) : plan = AnswerTo(ask, usable)
  BY DEF PlansAreAnswers
<1>3. Taken = Members(plan.args)
  BY DEF Taken, Members
<1>4. plan.kind \in {"knn", "rowid", "scan", "blob"}
  BY DEF Planned
<1>5. CASE ask.table = "turbovec0"
  BY <1>1, <1>2, <1>3, <1>4, <1>5, SearchTakesItsTerms DEF AnswerTo
<1>6. CASE ask.table # "turbovec0"
  BY <1>1, <1>2, <1>3, <1>4, <1>6, BlobTakesItsTerms DEF AnswerTo
<1> QED  BY <1>5, <1>6

(* A MATCH and its k always become arguments, in every join order SQLite   *)
(* may try and for both tables (best_index).                               *)
THEOREM NothingIsLeft == KnnSpec => []NothingLeftToTheHost
<1>1. KnnSpec => []PlansAreAnswers
  BY AnswersInitially, AnswersStep, PTL DEF KnnSpec
<1> QED  BY <1>1, AnswersShow, PTL
-----------------------------------------------------------------------------
(* Lists of ids, and those of a list that are in a set.                    *)

(* Counting up to n. *)
LEMMA CountingUp ==
  ASSUME NEW n \in Nat, NEW S, 0 \in S,
         \A k \in 0 .. n : k < n /\ k \in S => k + 1 \in S
  PROVE  n \in S
<1> DEFINE T == (0 .. n) \ S
<1>1. SUFFICES ASSUME n \notin S PROVE FALSE
  OBVIOUS
<1>2. T # {} /\ T \subseteq Nat
  BY <1>1
<1>3. PICK x \in T : \A y \in T : ~ (<<y, x>> \in OpToRel(<, Nat))
  <2> HIDE DEF T
  <2> QED  BY <1>2, NatLessThanWellFounded, WFMin
<1>4. x \in 1 .. n
  OBVIOUS
<1>5. x - 1 \notin T
  <2>1. \A y \in T : y \in Nat /\ x \in Nat => ~(y < x)
    BY <1>3 DEF OpToRel
  <2>2. x - 1 \in Nat /\ x \in Nat /\ x - 1 < x
    BY <1>4
  <2> QED  BY <2>1, <2>2
<1>6. x - 1 \in 0 .. n /\ x - 1 < n /\ x - 1 \in S /\ (x - 1) + 1 = x
  BY <1>4, <1>5
<1>7. x \in S
  BY <1>6
<1> QED  BY <1>7

(* f is what Those has of s after each element. *)
Sift(t, x, ids) == IF x \in ids THEN Append(t, x) ELSE t
Sifts(f, n, s, ids) ==
  f = [i \in 0 .. n |-> IF i = 0 THEN <<>> ELSE Sift(f[i - 1], s[i], ids)]

LEMMA SiftsAlong ==
  ASSUME NEW n \in Nat, NEW s, NEW ids, NEW f, Sifts(f, n, s, ids)
  PROVE  f[0] = <<>> /\ \A i \in 1 .. n : i - 1 \in 0 .. n /\ f[i] = Sift(f[i - 1], s[i], ids)
<1>1. \A i \in 0 .. n : f[i] = IF i = 0 THEN <<>> ELSE Sift(f[i - 1], s[i], ids)
  BY Zenon DEF Sifts
<1> QED  BY <1>1

LEMMA SiftsExists ==
  ASSUME NEW n \in Nat, NEW s, NEW ids
  PROVE  \E f : Sifts(f, n, s, ids)
<1> DEFINE S == {m \in 0 .. n : \E f : Sifts(f, m, s, ids)}
<1>1. 0 \in S
  <2>1. Sifts([i \in 0 .. 0 |-> <<>>], 0, s, ids)
    BY DEF Sifts
  <2> QED  BY <2>1
<1>2. ASSUME NEW m \in 0 .. n, m < n, m \in S PROVE m + 1 \in S
  <2>1. PICK f : Sifts(f, m, s, ids)
    BY <1>2
  <2> DEFINE h == [i \in 0 .. m + 1 |-> IF i = m + 1 THEN Sift(f[m], s[m + 1], ids) ELSE f[i]]
  <2>2. \A i \in 0 .. m : f[i] = IF i = 0 THEN <<>> ELSE Sift(f[i - 1], s[i], ids)
    BY <2>1, Zenon DEF Sifts
  <2>3. \A i \in 0 .. m : h[i] = f[i]
    OBVIOUS
  <2>4. ASSUME NEW i \in 0 .. m + 1
        PROVE  h[i] = IF i = 0 THEN <<>> ELSE Sift(h[i - 1], s[i], ids)
    <3>1. CASE i = m + 1
      <4>1. h[i - 1] = f[m] /\ i # 0
        BY <2>3, <3>1
      <4>2. h[i] = Sift(f[m], s[i], ids)
        BY <3>1
      <4> QED  BY <4>1, <4>2
    <3>2. CASE i \in 1 .. m
      <4>1. h[i] = f[i] /\ h[i - 1] = f[i - 1] /\ f[i] = Sift(f[i - 1], s[i], ids) /\ i # 0
        BY <2>2, <2>3, <3>2
      <4> QED  BY <4>1
    <3>3. CASE i = 0
      <4>1. h[i] = <<>>
        BY <2>2, <2>3, <3>3
      <4> QED  BY <3>3, <4>1
    <3> QED  BY <3>1, <3>2, <3>3
  <2>5. h = [i \in 0 .. m + 1 |-> h[i]]
    OBVIOUS
  <2> HIDE DEF h
  <2>6. Sifts(h, m + 1, s, ids)
    BY <2>4, <2>5 DEF Sifts
  <2> QED  BY <1>2, <2>6
<1>3. n \in S
  <2> HIDE DEF S
  <2> QED  BY <1>1, <1>2, CountingUp
<1> QED  BY <1>3

LEMMA ThoseIs ==
  ASSUME NEW s, Len(s) \in Nat, NEW ids
  PROVE  \E f : Sifts(f, Len(s), s, ids) /\ Those(s, ids) = f[Len(s)]
<1> DEFINE f == CHOOSE g : Sifts(g, Len(s), s, ids)
<1>1. Sifts(f, Len(s), s, ids)
  BY SiftsExists
<1>2. Those(s, ids) = f[Len(s)]
  BY DEF Those, Sifts, Sift
<1> QED  BY <1>1, <1>2

(* What is left, and how much of it. *)
LEMMA ThoseType ==
  ASSUME NEW s \in Seq(Nat), NEW ids
  PROVE  /\ Those(s, ids) \in Seq(Nat) /\ Len(Those(s, ids)) <= Len(s)
         /\ Len(s) \in Nat /\ Len(Those(s, ids)) \in Nat
<1> DEFINE n == Len(s)
<1>1. n \in Nat /\ \A i \in 1 .. n : s[i] \in Nat
  OBVIOUS
<1>2. PICK f : Sifts(f, n, s, ids) /\ Those(s, ids) = f[n]
  BY <1>1, ThoseIs
<1>3. f[0] = <<>> /\ \A i \in 1 .. n : f[i] = Sift(f[i - 1], s[i], ids)
  BY <1>1, <1>2, SiftsAlong
<1> DEFINE S == {m \in 0 .. n : f[m] \in Seq(Nat) /\ Len(f[m]) <= m}
<1> HIDE DEF n
<1>4. 0 \in S
  <2>1. <<>> \in Seq(Nat) /\ Len(<<>>) <= 0
    OBVIOUS
  <2>2. f[0] \in Seq(Nat) /\ Len(f[0]) <= 0
    BY <1>3, <2>1, Zenon
  <2> QED  BY <1>1, <2>2
<1>5. ASSUME NEW m \in 0 .. n, m < n, m \in S PROVE m + 1 \in S
  <2>1. m + 1 \in 1 .. n /\ (m + 1) - 1 = m
    BY <1>1, <1>5
  <2>2. f[m + 1] = Sift(f[m], s[m + 1], ids) /\ s[m + 1] \in Nat
    BY <1>1, <1>3, <2>1
  <2>3. SUFFICES ASSUME NEW t, t = f[m], NEW x \in Nat, x = s[m + 1]
                 PROVE  Sift(t, x, ids) \in Seq(Nat) /\ Len(Sift(t, x, ids)) <= m + 1
    BY <2>1, <2>2
  <2>4. t \in Seq(Nat) /\ Len(t) <= m
    BY <1>5, <2>3
  <2> QED  BY <2>4 DEF Sift
<1>6. n \in S
  <2> HIDE DEF S
  <2> QED  BY <1>1, <1>4, <1>5, CountingUp
<1>7. Len(f[n]) \in Nat
  BY <1>6
<1> QED  BY <1>1, <1>2, <1>6, <1>7 DEF n

(* Only the membership of what is in the list matters. *)
LEMMA ThoseAgree ==
  ASSUME NEW s, Len(s) \in Nat, NEW A, NEW B,
         \A i \in 1 .. Len(s) : s[i] \in A <=> s[i] \in B
  PROVE  Those(s, A) = Those(s, B)
<1> DEFINE n == Len(s)
<1>1. PICK f : Sifts(f, n, s, A) /\ Those(s, A) = f[n]
  BY ThoseIs
<1>2. PICK g : Sifts(g, n, s, B) /\ Those(s, B) = g[n]
  BY ThoseIs
<1>3. f[0] = <<>> /\ \A i \in 1 .. n : f[i] = Sift(f[i - 1], s[i], A)
  BY <1>1, SiftsAlong
<1>4. g[0] = <<>> /\ \A i \in 1 .. n : g[i] = Sift(g[i - 1], s[i], B)
  BY <1>2, SiftsAlong
<1>5. \A i \in 1 .. n : \A t : Sift(t, s[i], A) = Sift(t, s[i], B)
  BY DEF Sift
<1> DEFINE S == {m \in 0 .. n : f[m] = g[m]}
<1>6. 0 \in S
  BY <1>3, <1>4
<1>7. ASSUME NEW m \in 0 .. n, m < n, m \in S PROVE m + 1 \in S
  <2>1. m + 1 \in 1 .. n /\ (m + 1) - 1 = m /\ f[m] = g[m] /\ m + 1 \in 0 .. n
    BY <1>7
  <2>2. f[m + 1] = Sift(f[m], s[m + 1], A) /\ g[m + 1] = Sift(f[m], s[m + 1], B)
    BY <1>3, <1>4, <2>1
  <2> QED  BY <1>5, <2>1, <2>2
<1>8. n \in S
  <2> HIDE DEF S
  <2> QED  BY <1>6, <1>7, CountingUp
<1> QED  BY <1>1, <1>2, <1>8

(* Nothing is left out when all are among the ids. *)
LEMMA ThoseAll ==
  ASSUME NEW s \in Seq(Nat), NEW ids, \A i \in 1 .. Len(s) : s[i] \in ids
  PROVE  Those(s, ids) = s
<1> DEFINE n == Len(s)
<1>1. n \in Nat
  OBVIOUS
<1>2. PICK f : Sifts(f, n, s, ids) /\ Those(s, ids) = f[n]
  BY <1>1, ThoseIs
<1>3. f[0] = <<>> /\ \A i \in 1 .. n : f[i] = Sift(f[i - 1], s[i], ids)
  BY <1>1, <1>2, SiftsAlong
<1> DEFINE S == {m \in 0 .. n : f[m] = SubSeq(s, 1, m)}
<1>4. 0 \in S
  <2>1. SubSeq(s, 1, 0) = <<>>
    OBVIOUS
  <2>2. f[0] = SubSeq(s, 1, 0)
    BY <1>3, <2>1, Zenon
  <2> QED  BY <1>1, <2>2
<1>5. ASSUME NEW m \in 0 .. n, m < n, m \in S PROVE m + 1 \in S
  <2>1. m + 1 \in 1 .. n /\ (m + 1) - 1 = m /\ f[m] = SubSeq(s, 1, m) /\ m + 1 \in 0 .. n
    BY <1>5
  <2>2. f[m + 1] = Sift(f[m], s[m + 1], ids)
    BY <1>3, <2>1
  <2>3. Sift(f[m], s[m + 1], ids) = Append(SubSeq(s, 1, m), s[m + 1])
    BY <2>1 DEF Sift
  <2>4. Append(SubSeq(s, 1, m), s[m + 1]) = SubSeq(s, 1, m + 1)
    BY <2>1
  <2> QED  BY <2>1, <2>2, <2>3, <2>4
<1>6. n \in S
  <2> HIDE DEF S
  <2> QED  BY <1>1, <1>4, <1>5, CountingUp
<1>7. SubSeq(s, 1, n) = s
  OBVIOUS
<1> QED  BY <1>2, <1>6, <1>7

LEMMA ThoseNone ==
  ASSUME NEW s, Len(s) \in Nat
  PROVE  Those(s, {}) = <<>>
<1> DEFINE n == Len(s)
<1>1. PICK f : Sifts(f, n, s, {}) /\ Those(s, {}) = f[n]
  BY ThoseIs
<1>2. f[0] = <<>> /\ \A i \in 1 .. n : f[i] = f[i - 1]
  BY <1>1, SiftsAlong DEF Sift
<1> DEFINE S == {m \in 0 .. n : f[m] = <<>>}
<1>3. 0 \in S
  BY <1>2
<1>4. ASSUME NEW m \in 0 .. n, m < n, m \in S PROVE m + 1 \in S
  <2>1. m + 1 \in 1 .. n /\ (m + 1) - 1 = m /\ f[m] = <<>> /\ m + 1 \in 0 .. n
    BY <1>4
  <2>2. f[m + 1] = f[m]
    BY <1>2, <2>1
  <2> QED  BY <2>1, <2>2
<1>5. n \in S
  <2> HIDE DEF S
  <2> QED  BY <1>3, <1>4, CountingUp
<1> QED  BY <1>1, <1>5

(* One more element of the list. *)
Longer(u, t, x) ==
  /\ Len(t) \in Nat /\ Len(u) = Len(t) + 1
  /\ u[Len(t) + 1] = x /\ \A i \in 1 .. Len(t) : u[i] = t[i]

LEMMA ThoseOneMore ==
  ASSUME NEW t, NEW u, NEW x, NEW ids, Longer(u, t, x)
  PROVE  Those(u, ids) = Sift(Those(t, ids), x, ids)
<1> DEFINE n == Len(t)
<1> USE DEF Longer
<1>1. PICK f : Sifts(f, n, t, ids) /\ Those(t, ids) = f[n]
  BY ThoseIs
<1>2. PICK g : Sifts(g, n + 1, u, ids) /\ Those(u, ids) = g[n + 1]
  BY ThoseIs
<1>3. f[0] = <<>> /\ \A i \in 1 .. n : f[i] = Sift(f[i - 1], t[i], ids)
  BY <1>1, SiftsAlong
<1>4. g[0] = <<>> /\ \A i \in 1 .. n + 1 : g[i] = Sift(g[i - 1], u[i], ids)
  BY <1>2, SiftsAlong
<1> DEFINE S == {m \in 0 .. n : f[m] = g[m]}
<1>5. 0 \in S
  BY <1>3, <1>4
<1>6. ASSUME NEW m \in 0 .. n, m < n, m \in S PROVE m + 1 \in S
  <2>1. m + 1 \in 1 .. n /\ (m + 1) - 1 = m /\ f[m] = g[m] /\ m + 1 \in 0 .. n
        /\ m + 1 \in 1 .. n + 1
    BY <1>6
  <2>2. f[m + 1] = Sift(f[m], t[m + 1], ids) /\ g[m + 1] = Sift(f[m], u[m + 1], ids)
    BY <1>3, <1>4, <2>1
  <2> QED  BY <2>1, <2>2
<1>7. n \in S
  <2> HIDE DEF S
  <2> QED  BY <1>5, <1>6, CountingUp
<1>8. n + 1 \in 1 .. n + 1 /\ (n + 1) - 1 = n
  OBVIOUS
<1>9. g[n + 1] = Sift(g[n], x, ids)
  BY <1>4, <1>8
<1> QED  BY <1>1, <1>2, <1>7, <1>9

(* One filter after another. *)
LEMMA ThoseOfThose ==
  ASSUME NEW s \in Seq(Nat), NEW A, NEW B
  PROVE  Those(Those(s, A), B) = Those(s, A \cap B)
<1> DEFINE n == Len(s)
<1>1. n \in Nat /\ \A i \in 1 .. n : s[i] \in Nat
  OBVIOUS
<1>2. PICK f : Sifts(f, n, s, A) /\ Those(s, A) = f[n]
  BY <1>1, ThoseIs
<1>3. PICK g : Sifts(g, n, s, A \cap B) /\ Those(s, A \cap B) = g[n]
  BY <1>1, ThoseIs
<1>4. f[0] = <<>> /\ \A i \in 1 .. n : f[i] = Sift(f[i - 1], s[i], A)
  BY <1>1, <1>2, SiftsAlong
<1>5. g[0] = <<>> /\ \A i \in 1 .. n : g[i] = Sift(g[i - 1], s[i], A \cap B)
  BY <1>1, <1>3, SiftsAlong
<1> DEFINE S == {m \in 0 .. n : f[m] \in Seq(Nat) /\ Those(f[m], B) = g[m]}
<1> HIDE DEF n
<1>6. 0 \in S
  <2>1. \E h : Sifts(h, Len(<<>>), <<>>, B) /\ Those(<<>>, B) = h[Len(<<>>)]
    <3>1. Len(<<>>) \in Nat
      OBVIOUS
    <3> QED  BY <3>1, ThoseIs
  <2>2. Len(<<>>) = 0
    OBVIOUS
  <2>3. PICK h : Sifts(h, 0, <<>>, B) /\ Those(<<>>, B) = h[0]
    BY <2>1, <2>2
  <2>4. h[0] = <<>>
    BY <2>3, SiftsAlong
  <2>5. Those(<<>>, B) = <<>>
    BY <2>3, <2>4
  <2>6. <<>> \in Seq(Nat)
    OBVIOUS
  <2>7. f[0] \in Seq(Nat) /\ Those(f[0], B) = g[0]
    BY <1>4, <1>5, <2>5, <2>6, Zenon
  <2>8. 0 \in 0 .. n
    BY <1>1
  <2> QED  BY <2>7, <2>8
<1>7. ASSUME NEW m \in 0 .. n, m < n, m \in S PROVE m + 1 \in S
  <2>1. m + 1 \in 1 .. n /\ (m + 1) - 1 = m /\ m + 1 \in 0 .. n
    BY <1>1, <1>7
  <2>2. f[m + 1] = Sift(f[m], s[m + 1], A) /\ g[m + 1] = Sift(g[m], s[m + 1], A \cap B)
    BY <1>4, <1>5, <2>1
  <2>3. f[m] \in Seq(Nat) /\ Those(f[m], B) = g[m] /\ s[m + 1] \in Nat
    BY <1>1, <1>7, <2>1
  <2> SUFFICES ASSUME NEW t \in Seq(Nat), NEW x \in Nat
               PROVE  /\ Sift(t, x, A) \in Seq(Nat)
                      /\ Those(Sift(t, x, A), B) = Sift(Those(t, B), x, A \cap B)
    BY <2>1, <2>2, <2>3
  <2>4. CASE x \in A
    <3>1. Sift(t, x, A) = Append(t, x)
      BY <2>4 DEF Sift
    <3>2. PICK u : u = Append(t, x)
      OBVIOUS
    <3>3. Longer(u, t, x) /\ u \in Seq(Nat)
      BY <3>2 DEF Longer
    <3>4. Those(u, B) = Sift(Those(t, B), x, B)
      <4>1. Longer(u, t, x)
        BY <3>3
      <4>2. \A uu, tt, xx, ids : Longer(uu, tt, xx) => Those(uu, ids) = Sift(Those(tt, ids), xx, ids)
        BY ThoseOneMore
      <4> QED  BY <4>1, <4>2
    <3>5. Sift(Those(t, B), x, B) = Sift(Those(t, B), x, A \cap B)
      BY <2>4 DEF Sift
    <3> QED  BY <3>1, <3>2, <3>3, <3>4, <3>5, Zenon
  <2>5. CASE x \notin A
    BY <2>5 DEF Sift
  <2> QED  BY <2>4, <2>5
<1>8. n \in S
  <2> HIDE DEF S
  <2> QED  BY <1>1, <1>6, <1>7, CountingUp
<1> QED  BY <1>2, <1>3, <1>8
-----------------------------------------------------------------------------
(* The first of a list, and the rest of it.                                *)

LEMMA SameList ==
  ASSUME NEW s \in Seq(Nat), NEW t \in Seq(Nat), Len(s) = Len(t),
         \A i \in 1 .. Len(s) : s[i] = t[i]
  PROVE  s = t
OBVIOUS

LEMMA FirstOfIs ==
  ASSUME NEW s \in Seq(Nat), NEW n \in Nat
  PROVE  /\ FirstOf(s, n) \in Seq(Nat)
         /\ Len(FirstOf(s, n)) = Lesser(n, Len(s))
         /\ \A i \in 1 .. Lesser(n, Len(s)) : FirstOf(s, n)[i] = s[i]
         /\ Len(s) <= n => FirstOf(s, n) = s
<1> DEFINE m == Lesser(n, Len(s))
<1>1. m \in 0 .. Len(s) /\ Len(s) \in Nat
  BY DEF Lesser
<1>2. FirstOf(s, n) = SubSeq(s, 1, m)
  BY DEF FirstOf
<1>3. Len(s) <= n => m = Len(s)
  BY DEF Lesser
<1> HIDE DEF m
<1>4. /\ SubSeq(s, 1, m) \in Seq(Nat) /\ Len(SubSeq(s, 1, m)) = m
      /\ \A i \in 1 .. m : SubSeq(s, 1, m)[i] = s[i]
  BY <1>1
<1>5. SubSeq(s, 1, Len(s)) = s
  OBVIOUS
<1> QED  BY <1>2, <1>3, <1>4, <1>5 DEF m

LEMMA SkippedIs ==
  ASSUME NEW s \in Seq(Nat), NEW n \in Nat
  PROVE  /\ Skipped(s, n) \in Seq(Nat)
         /\ Len(Skipped(s, n)) = IF n <= Len(s) THEN Len(s) - n ELSE 0
         /\ \A i \in 1 .. Len(s) - n : Skipped(s, n)[i] = s[n + i]
         /\ Skipped(s, 0) = s
<1>1. Len(s) \in Nat
  OBVIOUS
<1>2. Skipped(s, 0) = s
  BY DEF Skipped
<1>3. CASE n <= Len(s)
  <2> DEFINE m == n + 1
  <2>1. m = n + 1 /\ m \in 1 .. Len(s) + 1 /\ Skipped(s, n) = SubSeq(s, m, Len(s))
    BY <1>1, <1>3 DEF Skipped
  <2> HIDE DEF m
  <2>2. /\ SubSeq(s, m, Len(s)) \in Seq(Nat)
        /\ Len(SubSeq(s, m, Len(s))) = Len(s) - m + 1
        /\ \A i \in 1 .. Len(s) - m + 1 : SubSeq(s, m, Len(s))[i] = s[m + i - 1]
    <3>1. CASE m <= Len(s)
      BY <1>1, <2>1, <3>1
    <3>2. CASE m = Len(s) + 1
      <4>1. SubSeq(s, m, Len(s)) = <<>> /\ Len(s) - m + 1 = 0
        BY <1>1, <3>2
      <4>2. <<>> \in Seq(Nat) /\ Len(<<>>) = 0
        OBVIOUS
      <4> QED  BY <4>1, <4>2
    <3> QED  BY <1>1, <2>1, <3>1, <3>2
  <2>3. Len(s) - m + 1 = Len(s) - n /\ \A i \in 1 .. Len(s) - n : m + i - 1 = n + i
    BY <1>1, <2>1
  <2> HIDE DEF Skipped
  <2> QED  BY <1>2, <1>3, <2>1, <2>2, <2>3
<1>4. CASE n > Len(s)
  BY <1>1, <1>2, <1>4 DEF Skipped
<1> QED  BY <1>1, <1>3, <1>4

(* LIMIT and OFFSET look no further than their sum.                        *)
LEMMA Window ==
  ASSUME NEW s \in Seq(Nat), NEW m \in Nat, NEW n \in Nat, NEW offset \in Nat, NEW limit \in Nat,
         Lesser(Lesser(m, Len(s)), offset + limit) = Lesser(Lesser(n, Len(s)), offset + limit)
  PROVE  FirstOf(Skipped(FirstOf(s, m), offset), limit)
           = FirstOf(Skipped(FirstOf(s, n), offset), limit)
<1> DEFINE W(k) == FirstOf(Skipped(FirstOf(s, k), offset), limit)
           L(k) == Lesser(limit, IF offset <= Lesser(k, Len(s))
                                 THEN Lesser(k, Len(s)) - offset ELSE 0)
<1>1. Len(s) \in Nat
  OBVIOUS
<1>2. ASSUME NEW k \in Nat
      PROVE  /\ W(k) \in Seq(Nat) /\ Len(W(k)) = L(k)
             /\ \A i \in 1 .. L(k) : W(k)[i] = s[offset + i]
  <2> DEFINE f == FirstOf(s, k)
             r == Skipped(f, offset)
  <2>1. f \in Seq(Nat) /\ Len(f) = Lesser(k, Len(s)) /\ \A i \in 1 .. Lesser(k, Len(s)) : f[i] = s[i]
    BY FirstOfIs
  <2> HIDE DEF f
  <2>2. /\ r \in Seq(Nat) /\ Len(r) = IF offset <= Len(f) THEN Len(f) - offset ELSE 0
        /\ \A i \in 1 .. Len(f) - offset : r[i] = f[offset + i]
    BY <2>1, SkippedIs
  <2> HIDE DEF r
  <2>3. /\ FirstOf(r, limit) \in Seq(Nat) /\ Len(FirstOf(r, limit)) = Lesser(limit, Len(r))
        /\ \A i \in 1 .. Lesser(limit, Len(r)) : FirstOf(r, limit)[i] = r[i]
    BY <2>2, FirstOfIs
  <2>4. L(k) = Lesser(limit, Len(r)) /\ Lesser(k, Len(s)) \in Nat
    BY <1>1, <2>1, <2>2 DEF Lesser
  <2>5. ASSUME NEW i \in 1 .. Lesser(limit, Len(r))
        PROVE  i \in 1 .. Len(f) - offset /\ offset + i \in 1 .. Lesser(k, Len(s))
    <3>1. Len(r) \in Nat /\ Lesser(limit, Len(r)) <= Len(r) /\ Lesser(limit, Len(r)) \in Nat
      BY <2>2 DEF Lesser
    <3>2. PICK q \in Nat : q = Lesser(k, Len(s)) /\ Len(f) = q
      BY <2>1, <2>4
    <3>3. Len(r) = IF offset <= q THEN q - offset ELSE 0
      BY <2>2, <3>2
    <3>4. i \in Nat /\ 1 <= i /\ i <= Len(r)
      BY <3>1
    <3>5. i \in 1 .. q - offset /\ offset + i \in 1 .. q
      BY <3>2, <3>3, <3>4
    <3> QED  BY <3>2, <3>5
  <2>6. \A i \in 1 .. L(k) : FirstOf(r, limit)[i] = s[offset + i]
    BY <2>1, <2>2, <2>3, <2>4, <2>5
  <2>7. W(k) = FirstOf(r, limit)
    BY DEF r, f
  <2> QED  BY <2>3, <2>4, <2>6, <2>7
<1>3. L(m) = L(n)
  BY <1>1 DEF Lesser
<1> HIDE DEF W, L
<1>4. W(m) = W(n)
  BY <1>2, <1>3, SameList
<1> QED  BY <1>4 DEF W
-----------------------------------------------------------------------------
(* Where each argument is.                                                 *)

LEMMA OneMoreTerm ==
  ASSUME NEW s \in Seq(Term), NEW used, NEW t \in Term
  PROVE  /\ s \o IfUsed(used, t) \in Seq(Term)
         /\ Len(s \o IfUsed(used, t)) = Len(s) + (IF t \in used THEN 1 ELSE 0)
         /\ \A i \in 1 .. Len(s) : (s \o IfUsed(used, t))[i] = s[i]
         /\ t \in used => (s \o IfUsed(used, t))[Len(s) + 1] = t
<1>1. CASE t \in used
  <2>1. IfUsed(used, t) = <<t>>
    BY <1>1 DEF IfUsed
  <2> QED  BY <1>1, <2>1
<1>2. CASE t \notin used
  <2>1. IfUsed(used, t) = <<>>
    BY <1>2 DEF IfUsed
  <2>2. s \o <<>> = s
    OBVIOUS
  <2> QED  BY <1>2, <2>1, <2>2
<1> QED  BY <1>1, <1>2

LEMMA PlaceIs ==
  ASSUME NEW flags
  PROVE  LET One(t) == IF t \in flags THEN 1 ELSE 0
         IN  /\ Place(flags, "k") = 2
             /\ Place(flags, "limit") = 2 + One("k")
             /\ Place(flags, "offset") = 2 + One("k") + One("limit")
             /\ Place(flags, "rowid") = 2 + One("k") + One("limit") + One("offset")
<1> DEFINE One(t) == IF t \in flags THEN 1 ELSE 0
<1>1. ASSUME NEW S, IsFiniteSet(S), NEW t, t \notin S
      PROVE  /\ IsFiniteSet((S \cup {t}) \cap flags)
             /\ Cardinality((S \cup {t}) \cap flags) = Cardinality(S \cap flags) + One(t)
             /\ Cardinality(S \cap flags) \in Nat
  <2>1. IsFiniteSet(S \cap flags) /\ t \notin S \cap flags
    BY <1>1, FS_Subset
  <2>2. (S \cup {t}) \cap flags = IF t \in flags THEN (S \cap flags) \cup {t} ELSE S \cap flags
    OBVIOUS
  <2> QED  BY <2>1, <2>2, FS_AddElement, FS_CardinalityType
<1>2. IsFiniteSet({}) /\ {} \cap flags = {} /\ Cardinality({}) = 0
  BY FS_EmptySet
<1>3. IsFiniteSet({"k"}) /\ IsFiniteSet({"k", "limit"}) /\ IsFiniteSet({"k", "limit", "offset"})
  <2>1. IsFiniteSet({} \cup {"k"}) /\ {} \cup {"k"} = {"k"}
    BY <1>2, FS_AddElement
  <2>2. IsFiniteSet({"k"} \cup {"limit"}) /\ {"k"} \cup {"limit"} = {"k", "limit"}
    BY <2>1, FS_AddElement
  <2>3. IsFiniteSet({"k", "limit"} \cup {"offset"})
        /\ {"k", "limit"} \cup {"offset"} = {"k", "limit", "offset"}
    BY <2>2, FS_AddElement
  <2> QED  BY <2>1, <2>2, <2>3
<1>4. Cardinality({"k"} \cap flags) = One("k")
  <2>1. {} \cup {"k"} = {"k"}
    OBVIOUS
  <2>2. Cardinality(({} \cup {"k"}) \cap flags) = Cardinality({} \cap flags) + One("k")
    BY <1>1, <1>2
  <2> QED  BY <1>2, <2>1, <2>2
<1>5. Cardinality({"k", "limit"} \cap flags) = One("k") + One("limit")
  <2>1. {"k"} \cup {"limit"} = {"k", "limit"} /\ "limit" \notin {"k"}
    OBVIOUS
  <2>2. Cardinality(({"k"} \cup {"limit"}) \cap flags) = Cardinality({"k"} \cap flags) + One("limit")
    BY <1>1, <1>3, <2>1
  <2> QED  BY <1>4, <2>1, <2>2
<1>6. Cardinality({"k", "limit", "offset"} \cap flags) = One("k") + One("limit") + One("offset")
  <2>1. {"k", "limit"} \cup {"offset"} = {"k", "limit", "offset"} /\ "offset" \notin {"k", "limit"}
    OBVIOUS
  <2>2. Cardinality(({"k", "limit"} \cup {"offset"}) \cap flags)
          = Cardinality({"k", "limit"} \cap flags) + One("offset")
    BY <1>1, <1>3, <2>1
  <2> QED  BY <1>5, <2>1, <2>2
<1> HIDE DEF One
<1>7. /\ Place(flags, "k") = 2 + Cardinality({})
      /\ Place(flags, "limit") = 2 + Cardinality({"k"} \cap flags)
      /\ Place(flags, "offset") = 2 + Cardinality({"k", "limit"} \cap flags)
      /\ Place(flags, "rowid") = 2 + Cardinality({"k", "limit", "offset"} \cap flags)
  BY <1>2 DEF Place
<1>8. /\ Place(flags, "k") = 2
      /\ Place(flags, "limit") = 2 + One("k")
      /\ Place(flags, "offset") = 2 + One("k") + One("limit")
      /\ Place(flags, "rowid") = 2 + One("k") + One("limit") + One("offset")
  <2>1. One("k") \in Int /\ One("limit") \in Int /\ One("offset") \in Int
    BY DEF One
  <2> QED  BY <1>2, <1>4, <1>5, <1>6, <1>7, <2>1
<1> QED  BY <1>8 DEF One

(* Reading each argument where its predecessors leave it finds it.         *)
LEMMA PlacesMatch ==
  ASSUME NEW used, "match" \in used, NEW flags,
         \A t \in {"k", "limit", "offset", "rowid"} : t \in flags <=> t \in used
  PROVE  /\ 1 \in DOMAIN Numbered(used) /\ Numbered(used)[1] = "match"
         /\ \A t \in {"k", "limit", "offset", "rowid"} \cap used :
              /\ Place(flags, t) \in DOMAIN Numbered(used)
              /\ Numbered(used)[Place(flags, t)] = t
<1> DEFINE O(t) == IfUsed(used, t)
           One(t) == IF t \in used THEN 1 ELSE 0
           one == O("match")
           two == one \o O("k")
           three == two \o O("limit")
           four == three \o O("offset")
           five == four \o O("rowid")
<1>1. {"match", "k", "limit", "offset", "rowid"} \subseteq Term
  BY DEF Term
<1>2. one \in Seq(Term) /\ Len(one) = 1 /\ one[1] = "match"
  BY <1>1 DEF IfUsed
<1> HIDE DEF one
<1>3. /\ two \in Seq(Term) /\ Len(two) = 1 + One("k") /\ \A i \in 1 .. Len(one) : two[i] = one[i]
      /\ "k" \in used => two[2] = "k"
  <2>1. "k" \in Term
    BY <1>1
  <2>2. /\ two \in Seq(Term) /\ Len(two) = Len(one) + One("k")
        /\ \A i \in 1 .. Len(one) : two[i] = one[i]
        /\ "k" \in used => two[Len(one) + 1] = "k"
    BY <1>2, <2>1, OneMoreTerm
  <2> HIDE DEF two, One
  <2> QED  BY <1>2, <2>2
<1> HIDE DEF two
<1>4. /\ three \in Seq(Term) /\ Len(three) = Len(two) + One("limit")
      /\ \A i \in 1 .. Len(two) : three[i] = two[i]
      /\ "limit" \in used => three[Len(two) + 1] = "limit"
  BY <1>1, <1>3, OneMoreTerm
<1> HIDE DEF three
<1>5. /\ four \in Seq(Term) /\ Len(four) = Len(three) + One("offset")
      /\ \A i \in 1 .. Len(three) : four[i] = three[i]
      /\ "offset" \in used => four[Len(three) + 1] = "offset"
  BY <1>1, <1>4, OneMoreTerm
<1> HIDE DEF four
<1>6. /\ five \in Seq(Term) /\ Len(five) = Len(four) + One("rowid")
      /\ \A i \in 1 .. Len(four) : five[i] = four[i]
      /\ "rowid" \in used => five[Len(four) + 1] = "rowid"
  BY <1>1, <1>5, OneMoreTerm
<1> HIDE DEF five
<1>7. Numbered(used) = five
  BY DEF Numbered, five, four, three, two, one
<1>8. /\ Place(flags, "k") = 2
      /\ Place(flags, "limit") = 2 + One("k")
      /\ Place(flags, "offset") = 2 + One("k") + One("limit")
      /\ Place(flags, "rowid") = 2 + One("k") + One("limit") + One("offset")
  BY PlaceIs
<1>9. /\ One("k") \in 0 .. 1 /\ One("limit") \in 0 .. 1 /\ One("offset") \in 0 .. 1
      /\ One("rowid") \in 0 .. 1
      /\ \A t \in {"k", "limit", "offset", "rowid"} : t \in used => One(t) = 1
  OBVIOUS
<1> HIDE DEF One
<1>10. /\ Len(two) = 1 + One("k") /\ Len(three) = 1 + One("k") + One("limit")
       /\ Len(four) = 1 + One("k") + One("limit") + One("offset")
       /\ Len(five) = 1 + One("k") + One("limit") + One("offset") + One("rowid")
       /\ DOMAIN five = 1 .. Len(five)
  BY <1>3, <1>4, <1>5, <1>6, <1>9
<1>11. \A i \in 1 .. Len(three) : five[i] = three[i]
  BY <1>5, <1>6, <1>9, <1>10
<1>12. \A i \in 1 .. Len(two) : five[i] = two[i]
  BY <1>4, <1>9, <1>10, <1>11
<1>13. five[1] = "match" /\ 1 \in DOMAIN five
  BY <1>2, <1>3, <1>9, <1>10, <1>12
<1>14. "k" \in used => Place(flags, "k") \in DOMAIN five /\ five[Place(flags, "k")] = "k"
  BY <1>3, <1>8, <1>9, <1>10, <1>12
<1>15. "limit" \in used => Place(flags, "limit") \in DOMAIN five /\ five[Place(flags, "limit")] = "limit"
  BY <1>4, <1>8, <1>9, <1>10, <1>11
<1>16. "offset" \in used => Place(flags, "offset") \in DOMAIN five /\ five[Place(flags, "offset")] = "offset"
  BY <1>5, <1>6, <1>8, <1>9, <1>10
<1>17. "rowid" \in used => Place(flags, "rowid") \in DOMAIN five /\ five[Place(flags, "rowid")] = "rowid"
  BY <1>6, <1>8, <1>9, <1>10
<1> QED  BY <1>7, <1>13, <1>14, <1>15, <1>16, <1>17
-----------------------------------------------------------------------------
(* What a call finds is what the statement asks for. *)

RowsOf(p, v) ==
  LET args == Arguments(p, v)
  IN  IF ReturnsEarly(p, args, v.index) THEN <<>> ELSE Found(p, args, v.index)
HostTerms(a, p) ==
  a.terms \ (Members(p.args) \cup {"limit", "offset", "match", "index"})

LEMMA ValueTypes ==
  ASSUME NEW a \in Asks, NEW p, NEW v \in Values(a, p)
  PROVE  /\ v.index \in Seq(Nat) /\ Len(v.index) \in Nat /\ Len(v.index) <= MaxUsize
         /\ v.k \in Int /\ v.limit \in Int /\ v.offset \in Int /\ MaxUsize \in Nat
         /\ "in" \notin p.flags /\ "rowid" \in a.terms => \E id : v.rowid = {id}
<1>1. v.index \in Rankings
  BY DEF Values
<1>2. v.index \in Seq(Nat) /\ Len(v.index) <= MaxUsize /\ MaxUsize \in Nat
  BY <1>1, KnnAssumption
<1>3. Len(v.index) \in Nat
  BY <1>2
<1>4. v.k \in Int /\ v.limit \in Int /\ v.offset \in Int
  <2>1. /\ v.k \in IF "k" \in a.terms THEN Numbers ELSE {0}
        /\ v.limit \in IF "limit" \in a.terms THEN Numbers ELSE {0}
        /\ v.offset \in IF "offset" \in a.terms THEN Numbers ELSE {0}
    BY DEF Values
  <2>2. Numbers \subseteq Int /\ {0} \subseteq Int
    BY KnnAssumption
  <2> QED  BY <2>1, <2>2
<1>5. ASSUME "in" \notin p.flags, "rowid" \in a.terms PROVE \E id : v.rowid = {id}
  BY <1>5 DEF Values
<1> QED  BY <1>2, <1>3, <1>4, <1>5

LEMMA PassesAll ==
  ASSUME NEW s \in Seq(Nat), NEW v
  PROVE  Those(s, Passing(v, {})) = s
<1>1. Passing(v, {}) = Nat
  BY DEF Passing
<1>2. \A i \in 1 .. Len(s) : s[i] \in Passing(v, {})
  BY <1>1
<1> QED  BY <1>2, ThoseAll

(* A scan: the host filters everything. *)
LEMMA ScanAnswers ==
  ASSUME NEW a \in Asks, "match" \notin a.terms, NEW v \in Values(a, Without("scan"))
  PROVE  /\ RowsOf(Without("scan"), v) \in Seq(Nat)
         /\ ByHost(a, v, HostTerms(a, Without("scan")), FALSE, RowsOf(Without("scan"), v)) = Answer(a, v)
<1> DEFINE p == Without("scan")
           L == HostTerms(a, p)
           R == a.terms \cap {"other", "k"}
           F == a.terms \cap {"rowid"}
<1>1. p.kind = "scan" /\ p.args = <<>> /\ Members(p.args) = {}
  BY DEF Without, Members
<1>2. RowsOf(p, v) = v.index /\ v.index \in Seq(Nat)
  BY <1>1, ValueTypes DEF RowsOf, ReturnsEarly, Found
<1>3. Passing(v, F) \cap Passing(v, R) = Passing(v, L)
  <2>1. L = a.terms \ {"limit", "offset", "match", "index"}
    BY <1>1 DEF HostTerms
  <2> QED  BY <2>1 DEF Passing
<1>4. Those(Those(v.index, Passing(v, F)), Passing(v, R)) = Those(v.index, Passing(v, L))
  <2>1. \A A, B : Those(Those(v.index, A), B) = Those(v.index, A \cap B)
    BY <1>2, ThoseOfThose
  <2>2. Those(Those(v.index, Passing(v, F)), Passing(v, R))
          = Those(v.index, Passing(v, F) \cap Passing(v, R))
    <3> HIDE DEF F, R
    <3> QED  BY <2>1
  <2> HIDE DEF F, R, L
  <2> QED  BY <1>3, <2>2
<1>5. Answer(a, v) = ByHost(a, v, R, FALSE, Those(v.index, Passing(v, F)))
  <2>1. a.terms \cap {"other", "k"} = R
    OBVIOUS
  <2> QED  BY <2>1 DEF Answer
<1> HIDE DEF L, R, F, p
<1>6. ByHost(a, v, L, FALSE, v.index) = ByHost(a, v, R, FALSE, Those(v.index, Passing(v, F)))
  BY <1>4, Zenon DEF ByHost
<1>7. ByHost(a, v, L, FALSE, RowsOf(p, v)) = Answer(a, v)
  BY <1>2, <1>5, <1>6, Zenon
<1> QED  BY <1>2, <1>7 DEF L, p

(* A rowid: its row, if there is one. *)
LEMMA RowidAnswers ==
  ASSUME NEW a \in Asks, "match" \notin a.terms, "rowid" \in a.terms, NEW v \in Values(a, RowidPlan)
  PROVE  /\ RowsOf(RowidPlan, v) \in Seq(Nat)
         /\ ByHost(a, v, HostTerms(a, RowidPlan), FALSE, RowsOf(RowidPlan, v)) = Answer(a, v)
<1> DEFINE p == RowidPlan
           L == HostTerms(a, p)
           F == a.terms \cap {"rowid"}
<1>1. p.kind = "rowid" /\ p.args = <<"rowid">> /\ p.flags = {} /\ Members(p.args) = {"rowid"}
  <2>1. ASSUME NEW s, p = [Without("rowid") EXCEPT !.args = s]
        PROVE  p.kind = "rowid" /\ p.args = s /\ p.flags = {}
    <3>1. PICK w : w = Without("rowid")
      OBVIOUS
    <3>2. w = [kind |-> "rowid", args |-> <<>>, ordered |-> FALSE, flags |-> {}]
      BY <3>1 DEF Without
    <3>3. DOMAIN w = {"kind", "args", "ordered", "flags"} /\ w.kind = "rowid" /\ w.flags = {}
      BY <3>2
    <3>4. p = [w EXCEPT !.args = s]
      BY <2>1, <3>1
    <3> HIDE DEF p
    <3> QED  BY <3>3, <3>4
  <2>2. p.kind = "rowid" /\ p.args = <<"rowid">> /\ p.flags = {}
    BY <2>1 DEF RowidPlan
  <2>3. Members(<<"rowid">>) = {"rowid"}
    BY DEF Members
  <2> HIDE DEF p
  <2> QED  BY <2>2, <2>3
<1>2. v.index \in Seq(Nat) /\ Len(v.index) \in Nat
  BY ValueTypes
<1>3. PICK id : v.rowid = {id}
  BY <1>1, ValueTypes
<1>4. Arguments(p, v)[1] = id
  <2>1. 1 \in DOMAIN p.args /\ p.args[1] = "rowid" /\ "in" \notin p.flags
    BY <1>1
  <2>2. Arguments(p, v)[1] = CHOOSE x \in v.rowid : TRUE
    BY <2>1 DEF Arguments
  <2>3. (CHOOSE x \in v.rowid : TRUE) \in v.rowid
    BY <1>3
  <2> QED  BY <1>3, <2>2, <2>3
<1>5. RowsOf(p, v) = Those(v.index, {id})
  BY <1>1, <1>4 DEF RowsOf, ReturnsEarly, Found
<1>6. Those(v.index, {id}) = Those(v.index, Passing(v, F))
  <2>1. \A i \in 1 .. Len(v.index) : v.index[i] \in {id} <=> v.index[i] \in Passing(v, F)
    BY <1>2, <1>3 DEF Passing
  <2> QED  BY <1>2, <2>1, ThoseAgree
<1>7. L = a.terms \cap {"other", "k"}
  BY <1>1 DEF HostTerms, Asks, Ask, Term
<1>8. Answer(a, v) = ByHost(a, v, L, FALSE, Those(v.index, Passing(v, F)))
  BY <1>7 DEF Answer
<1>9. Those(v.index, {id}) \in Seq(Nat)
  BY <1>2, ThoseType
<1> HIDE DEF L, p, F
<1>10. RowsOf(p, v) \in Seq(Nat) /\ ByHost(a, v, L, FALSE, RowsOf(p, v)) = Answer(a, v)
  BY <1>5, <1>6, <1>8, <1>9, Zenon
<1> QED  BY <1>10 DEF L, p

(* turbovec_knn: the k nearest. *)
LEMMA BlobAnswers ==
  ASSUME NEW a \in Asks, a.table = "turbovec_knn", {"index", "match", "k"} \subseteq a.terms,
         NEW p, p = [kind |-> "blob", args |-> <<"index", "match", "k">>, ordered |-> a.byScore,
                     flags |-> {}],
         NEW v \in Values(a, p), ~Fails(p, Arguments(p, v))
  PROVE  /\ RowsOf(p, v) \in Seq(Nat)
         /\ ByHost(a, v, HostTerms(a, p), p.ordered, RowsOf(p, v)) = Answer(a, v)
<1>1. /\ p.kind = "blob" /\ p.flags = {} /\ p.ordered = a.byScore
      /\ DOMAIN p.args = 1 .. 3 /\ p.args[1] = "index" /\ p.args[2] = "match" /\ p.args[3] = "k"
      /\ Members(p.args) = {"index", "match", "k"}
  BY DEF Members
<1>2. a.terms = {"index", "match", "k"}
  BY DEF Asks
<1>3. /\ Arguments(p, v)[1] = v.index /\ Arguments(p, v)[3] = v.k
  BY <1>1 DEF Arguments
<1>4. v.index \in Seq(Nat) /\ v.k \in Int
  BY ValueTypes
<1>5. v.k \in Nat
  BY <1>1, <1>3, <1>4 DEF Fails
<1>6. RowsOf(p, v) = FirstOf(v.index, v.k)
  BY <1>1, <1>3 DEF RowsOf, ReturnsEarly, Found
<1>7. FirstOf(v.index, v.k) \in Seq(Nat)
  BY <1>4, <1>5, FirstOfIs
<1>8. HostTerms(a, p) = {} /\ a.terms \cap {"rowid"} = {} /\ a.terms \cap {"other"} = {}
  BY <1>1, <1>2 DEF HostTerms
<1>9. Those(v.index, Passing(v, {})) = v.index
  BY <1>4, PassesAll
<1>10. Answer(a, v) = ByHost(a, v, {}, a.byScore, FirstOf(v.index, v.k))
  <2>1. "match" \in a.terms /\ "k" \in a.terms /\ a.byScore \in BOOLEAN
    BY <1>2 DEF Asks, Ask
  <2> QED  BY <1>8, <1>9, <2>1 DEF Answer
<1> QED  BY <1>1, <1>6, <1>7, <1>8, <1>10
-----------------------------------------------------------------------------
(* MATCH: every combination of k, LIMIT, OFFSET and the rowid filter.      *)
KnnCase(a, usable, p, used, v) ==
  /\ a.table = "turbovec0" /\ "match" \in usable /\ ~Refused(a, usable)
  /\ used = usable \ {"other"} /\ p = KnnPlan(a, usable)
  /\ ~Fails(p, Arguments(p, v))
  /\ "rowid" \in a.terms => "rowid" \in usable

KnnArgs(a, p, used, v) ==
  /\ p.kind = "knn" /\ p.ordered = a.byScore
  /\ Members(p.args) = used /\ used \subseteq {"match", "k", "limit", "offset", "rowid"}
  /\ \A t \in {"k", "limit", "offset", "rowid"} : t \in p.flags <=> t \in used
  /\ \A t \in {"k", "limit", "offset"} \cap used : Arguments(p, v)[Place(p.flags, t)] = v[t]
  /\ "rowid" \in used =>
       Arguments(p, v)[Place(p.flags, "rowid")]
         = IF "in" \in p.flags THEN v.rowid ELSE CHOOSE id \in v.rowid : TRUE

LEMMA KnnArguments ==
  ASSUME NEW a \in Asks, NEW usable \in Offers(a), NEW p, NEW used, NEW v \in Values(a, p),
         KnnCase(a, usable, p, used, v)
  PROVE  KnnArgs(a, p, used, v)
<1> USE DEF KnnCase
<1>1. /\ p.kind = "knn" /\ p.ordered = a.byScore /\ p.args = Numbered(used)
      /\ p.flags = (used \ {"match"}) \cup (IF a.in /\ "rowid" \in used THEN {"in"} ELSE {})
  BY DEF KnnPlan
<1>2. used \subseteq {"match", "k", "limit", "offset", "rowid"} /\ "match" \in used
  BY OfferKeepsK DEF Asks, Ask, Term
<1>3. Members(p.args) = used
  <2>1. Members(Numbered(used)) = {"match", "k", "limit", "offset", "rowid"} \cap used
    BY NumberedKeeps
  <2> HIDE DEF KnnCase
  <2> QED  BY <1>1, <1>2, <2>1
<1>4. \A t \in {"k", "limit", "offset", "rowid"} : t \in p.flags <=> t \in used
  BY <1>1
<1>5. \A t \in {"k", "limit", "offset", "rowid"} \cap used :
        Place(p.flags, t) \in DOMAIN p.args /\ p.args[Place(p.flags, t)] = t
  BY <1>1, <1>2, <1>4, PlacesMatch
<1>6. ASSUME NEW t \in {"k", "limit", "offset"} \cap used
      PROVE  Arguments(p, v)[Place(p.flags, t)] = v[t]
  <2>1. Place(p.flags, t) \in DOMAIN p.args /\ p.args[Place(p.flags, t)] = t /\ t # "rowid"
    BY <1>5
  <2> HIDE DEF KnnCase
  <2> QED  BY <2>1 DEF Arguments
<1>7. ASSUME "rowid" \in used
      PROVE  Arguments(p, v)[Place(p.flags, "rowid")]
               = IF "in" \in p.flags THEN v.rowid ELSE CHOOSE id \in v.rowid : TRUE
  <2>1. Place(p.flags, "rowid") \in DOMAIN p.args /\ p.args[Place(p.flags, "rowid")] = "rowid"
    BY <1>5, <1>7
  <2> HIDE DEF KnnCase
  <2>2. CASE "in" \in p.flags
    <3>1. v["rowid"] = v.rowid
      OBVIOUS
    <3> QED  BY <2>1, <2>2, <3>1 DEF Arguments
  <2>3. CASE "in" \notin p.flags
    BY <2>1, <2>3 DEF Arguments
  <2> QED  BY <2>2, <2>3
<1> HIDE DEF KnnCase
<1> QED  BY <1>1, <1>2, <1>3, <1>4, <1>6, <1>7 DEF KnnArgs

(* The allowlist is the rowid filter. *)
LEMMA AllowedPass ==
  ASSUME NEW a \in Asks, NEW usable \in Offers(a), NEW p, NEW used, NEW v \in Values(a, p),
         KnnCase(a, usable, p, used, v)
  PROVE  LET allowed == Allowed(p.flags, Arguments(p, v), v.index)
             eligible == Those(v.index, Passing(v, a.terms \cap {"rowid"}))
         IN  /\ Those(v.index, allowed) = eligible
             /\ allowed = {} => eligible = <<>>
<1> DEFINE allowed == Allowed(p.flags, Arguments(p, v), v.index)
           pass == Passing(v, a.terms \cap {"rowid"})
<1>0. KnnArgs(a, p, used, v)
  BY KnnArguments
<1>1. /\ v.index \in Seq(Nat) /\ Len(v.index) \in Nat /\ DOMAIN v.index = 1 .. Len(v.index)
      /\ \A i \in 1 .. Len(v.index) : v.index[i] \in Nat
  BY ValueTypes
<1>2. \A i \in 1 .. Len(v.index) : v.index[i] \in allowed <=> v.index[i] \in pass
  <2>1. CASE "rowid" \in used
    <3>1. "rowid" \in a.terms /\ "rowid" \in p.flags
      BY <1>0, <2>1, OfferKeepsK DEF KnnCase, KnnArgs
    <3>2. allowed = {id \in v.rowid : Holds(v.index, id)}
      <4> DEFINE arg == Arguments(p, v)[Place(p.flags, "rowid")]
      <4>1. arg = IF "in" \in p.flags THEN v.rowid ELSE CHOOSE id \in v.rowid : TRUE
        BY <1>0, <2>1 DEF KnnArgs
      <4>2. (IF "in" \in p.flags THEN arg ELSE {arg}) = v.rowid
        <5>1. CASE "in" \in p.flags
          BY <4>1, <5>1
        <5>2. CASE "in" \notin p.flags
          <6>1. PICK id : v.rowid = {id}
            BY <3>1, <5>2, ValueTypes
          <6>2. (CHOOSE x \in v.rowid : TRUE) \in v.rowid
            BY <6>1
          <6> QED  BY <4>1, <5>2, <6>1, <6>2
        <5> QED  BY <5>1, <5>2
      <4> HIDE DEF arg
      <4>3. allowed = {id \in (IF "in" \in p.flags THEN arg ELSE {arg}) : Holds(v.index, id)}
        BY <3>1 DEF Allowed, arg
      <4> QED  BY <4>2, <4>3
    <3>3. \A i \in 1 .. Len(v.index) : Holds(v.index, v.index[i])
      BY <1>1 DEF Holds
    <3>4. pass = {id \in Nat : id \in v.rowid}
      BY <3>1 DEF Passing
    <3> HIDE DEF allowed, pass
    <3> QED  BY <1>1, <3>2, <3>3, <3>4
  <2>2. CASE "rowid" \notin used
    <3>1. "rowid" \notin a.terms /\ "rowid" \notin p.flags
      BY <1>0, <2>2 DEF KnnCase, KnnArgs
    <3>2. allowed = {v.index[i] : i \in DOMAIN v.index}
      BY <3>1 DEF Allowed
    <3>3. pass = Nat
      BY <3>1 DEF Passing
    <3> HIDE DEF allowed, pass
    <3> QED  BY <1>1, <3>2, <3>3
  <2> QED  BY <2>1, <2>2
<1>3. Those(v.index, allowed) = Those(v.index, pass)
  <2> HIDE DEF allowed, pass
  <2> QED  BY <1>1, <1>2, ThoseAgree
<1>4. allowed = {} => Those(v.index, {}) = <<>>
  BY <1>1, ThoseNone
<1> QED  BY <1>3, <1>4

(* How many candidates: k, and what LIMIT and OFFSET look at.              *)
LEMMA CandidatesAre ==
  ASSUME NEW a \in Asks, NEW usable \in Offers(a), NEW p, NEW used, NEW v \in Values(a, p),
         KnnCase(a, usable, p, used, v)
  PROVE  LET len == Len(v.index)
             offset == IF "offset" \in used /\ v.offset >= 0 THEN v.offset ELSE 0
             limited == IF "limit" \in used /\ v.limit >= 0
                        THEN Lesser(v.limit + offset, MaxUsize) ELSE len
         IN  /\ Candidates(p.flags, Arguments(p, v), len)
                  = Lesser(IF "k" \in used THEN Lesser(v.k, limited) ELSE limited, len)
             /\ "k" \in used => v.k >= 0
<1> DEFINE args == Arguments(p, v)
<1>0. KnnArgs(a, p, used, v)
  BY KnnArguments
<1>1. /\ \A t \in {"k", "limit", "offset"} : t \in p.flags <=> t \in used
      /\ "k" \in used => args[Place(p.flags, "k")] = v.k
      /\ "limit" \in used => args[Place(p.flags, "limit")] = v.limit
      /\ "offset" \in used => args[Place(p.flags, "offset")] = v.offset
  <2>1. /\ \A t \in {"k", "limit", "offset", "rowid"} : t \in p.flags <=> t \in used
        /\ \A t \in {"k", "limit", "offset"} \cap used :
             Arguments(p, v)[Place(p.flags, t)] = v[t]
    BY <1>0 DEF KnnArgs
  <2> QED  BY <2>1
<1>2. "k" \in used => v.k >= 0
  <2>1. "k" \in used => ~(v.k < 0)
    BY <1>0, <1>1 DEF Fails, KnnCase, KnnArgs
  <2> QED  BY <2>1, ValueTypes
<1> HIDE DEF args
<1>3. Candidates(p.flags, args, Len(v.index))
        = LET offset == IF "offset" \in used /\ v.offset >= 0 THEN v.offset ELSE 0
              limited == IF "limit" \in used /\ v.limit >= 0
                         THEN Lesser(v.limit + offset, MaxUsize) ELSE Len(v.index)
          IN  Lesser(IF "k" \in used THEN Lesser(v.k, limited) ELSE limited, Len(v.index))
  BY <1>1 DEF Candidates, Saturating
<1> QED  BY <1>2, <1>3 DEF args

(* Without a row to look for there is no search, and a search of all finds *)
(* the nearest of those that pass the filter.                              *)
LEMMA KnnFinds ==
  ASSUME NEW a \in Asks, NEW usable \in Offers(a), NEW p, NEW used, NEW v \in Values(a, p),
         KnnCase(a, usable, p, used, v)
  PROVE  LET n == Candidates(p.flags, Arguments(p, v), Len(v.index))
         IN  n \in Nat /\ RowsOf(p, v) = FirstOf(Those(v.index, Passing(v, a.terms \cap {"rowid"})), n)
<1> DEFINE n == Candidates(p.flags, Arguments(p, v), Len(v.index))
           allowed == Allowed(p.flags, Arguments(p, v), v.index)
           E == Those(v.index, Passing(v, a.terms \cap {"rowid"}))
<1>1. p.kind = "knn"
  <2>1. KnnArgs(a, p, used, v)
    BY KnnArguments
  <2> QED  BY <2>1 DEF KnnArgs
<1>2. Those(v.index, allowed) = E /\ (allowed = {} => E = <<>>)
  BY AllowedPass
<1>3. n \in Nat
  <2> DEFINE len == Len(v.index)
             offset == IF "offset" \in used /\ v.offset >= 0 THEN v.offset ELSE 0
             limited == IF "limit" \in used /\ v.limit >= 0
                        THEN Lesser(v.limit + offset, MaxUsize) ELSE len
             wanted == IF "k" \in used THEN Lesser(v.k, limited) ELSE limited
  <2>1. n = Lesser(wanted, len) /\ ("k" \in used => v.k >= 0)
    BY CandidatesAre
  <2>2. v.k \in Int /\ v.limit \in Int /\ v.offset \in Int /\ len \in Nat /\ MaxUsize \in Nat
    BY ValueTypes
  <2>3. offset \in Nat
    BY <2>2
  <2> HIDE DEF n, len, offset
  <2>4. limited \in Nat
    BY <2>2, <2>3 DEF Lesser
  <2> HIDE DEF limited
  <2>5. wanted \in Nat
    BY <2>1, <2>2, <2>4 DEF Lesser
  <2> HIDE DEF wanted
  <2> QED  BY <2>1, <2>2, <2>5 DEF Lesser
<1> HIDE DEF n, allowed, E
<1>4. CASE allowed = {}
  <2>1. RowsOf(p, v) = <<>>
    BY <1>1, <1>4 DEF RowsOf, ReturnsEarly, allowed
  <2>2. E \in Seq(Nat)
    BY ValueTypes, ThoseType DEF E
  <2>3. Len(E) <= n
    <3>1. E = <<>>
      BY <1>2, <1>4
    <3>2. Len(E) = 0
      BY <3>1
    <3> QED  BY <1>3, <3>2
  <2>4. FirstOf(E, n) = E
    BY <1>3, <2>2, <2>3, FirstOfIs
  <2>5. RowsOf(p, v) = FirstOf(E, n)
    BY <1>2, <1>4, <2>1, <2>4, Zenon
  <2> QED  BY <1>3, <2>5 DEF n, E
<1>5. CASE allowed # {}
  <2>1. RowsOf(p, v) = Found(p, Arguments(p, v), v.index)
    BY <1>5 DEF RowsOf, ReturnsEarly, allowed
  <2>2. Found(p, Arguments(p, v), v.index) = FirstOf(Those(v.index, allowed), n)
    BY <1>1 DEF Found, Search, n, allowed
  <2> QED  BY <1>2, <1>3, <2>1, <2>2 DEF n, E
<1> QED  BY <1>4, <1>5

(* When the host has no filter left, what it does with the rows is         *)
(* determined by the window LIMIT and OFFSET leave.                        *)
SameWindow(a, v, len, m, n) ==
  LET offset == IF "offset" \in a.terms /\ v.offset > 0 THEN v.offset ELSE 0
  IN  IF "limit" \in a.terms /\ v.limit >= 0
      THEN Lesser(Lesser(m, len), offset + v.limit) = Lesser(Lesser(n, len), offset + v.limit)
      ELSE Lesser(m, len) = Lesser(n, len)

LEMMA HostWindow ==
  ASSUME NEW a, NEW v, v.limit \in Int, v.offset \in Int,
         NEW s \in Seq(Nat), NEW m \in Nat, NEW n \in Nat, SameWindow(a, v, Len(s), m, n)
  PROVE  ByHost(a, v, {}, TRUE, FirstOf(s, m)) = ByHost(a, v, {}, TRUE, FirstOf(s, n))
<1> DEFINE offset == IF "offset" \in a.terms /\ v.offset > 0 THEN v.offset ELSE 0
<1>1. offset \in Nat
  OBVIOUS
<1>2. ASSUME NEW t \in Seq(Nat)
      PROVE  ByHost(a, v, {}, TRUE, t) = IF "limit" \in a.terms /\ v.limit >= 0
                                         THEN FirstOf(Skipped(t, offset), v.limit)
                                         ELSE Skipped(t, offset)
  <2>1. Those(t, Passing(v, {})) = t /\ Skipped(t, 0) = t
    BY PassesAll, SkippedIs
  <2> QED  BY <2>1 DEF ByHost
<1>3. FirstOf(s, m) \in Seq(Nat) /\ FirstOf(s, n) \in Seq(Nat)
  BY FirstOfIs
<1>4. CASE "limit" \in a.terms /\ v.limit >= 0
  <2>1. v.limit \in Nat
    BY <1>4
  <2>2. Lesser(Lesser(m, Len(s)), offset + v.limit) = Lesser(Lesser(n, Len(s)), offset + v.limit)
    BY <1>4 DEF SameWindow
  <2> HIDE DEF offset
  <2>3. FirstOf(Skipped(FirstOf(s, m), offset), v.limit)
          = FirstOf(Skipped(FirstOf(s, n), offset), v.limit)
    BY <1>1, <2>1, <2>2, Window
  <2> QED  BY <1>2, <1>3, <1>4, <2>3
<1>5. CASE ~("limit" \in a.terms /\ v.limit >= 0)
  <2>1. Lesser(m, Len(s)) = Lesser(n, Len(s))
    BY <1>5 DEF SameWindow
  <2>2. FirstOf(s, m) = FirstOf(s, n)
    BY <2>1 DEF FirstOf
  <2> QED  BY <2>2
<1> QED  BY <1>4, <1>5

LEMMA KnnAnswers ==
  ASSUME NEW a \in Asks, NEW usable \in Offers(a), NEW p, NEW used, NEW v \in Values(a, p),
         KnnCase(a, usable, p, used, v)
  PROVE  /\ RowsOf(p, v) \in Seq(Nat)
         /\ ByHost(a, v, HostTerms(a, p), p.ordered, RowsOf(p, v)) = Answer(a, v)
<1> DEFINE len == Len(v.index)
           n == Candidates(p.flags, Arguments(p, v), len)
           E == Those(v.index, Passing(v, a.terms \cap {"rowid"}))
           offset == IF "offset" \in used /\ v.offset >= 0 THEN v.offset ELSE 0
           limited == IF "limit" \in used /\ v.limit >= 0
                      THEN Lesser(v.limit + offset, MaxUsize) ELSE len
           nearest == IF "k" \in a.terms THEN FirstOf(E, v.k) ELSE E
<1>1. /\ v.k \in Int /\ v.limit \in Int /\ v.offset \in Int
      /\ v.index \in Seq(Nat) /\ len \in Nat /\ len <= MaxUsize /\ MaxUsize \in Nat
  BY ValueTypes
<1>2. E \in Seq(Nat) /\ Len(E) \in Nat /\ Len(E) <= len
  BY <1>1, ThoseType
<1>3. n \in Nat /\ RowsOf(p, v) = FirstOf(E, n)
  BY KnnFinds
<1>4. n = Lesser(IF "k" \in used THEN Lesser(v.k, limited) ELSE limited, len)
      /\ ("k" \in used => v.k >= 0)
  BY CandidatesAre
<1>5. RowsOf(p, v) \in Seq(Nat)
  BY <1>2, <1>3, FirstOfIs
<1>6. /\ "match" \in usable /\ ~Refused(a, usable) /\ used = usable \ {"other"}
      /\ "rowid" \in a.terms => "rowid" \in usable
  BY DEF KnnCase
<1>7. usable \subseteq a.terms /\ ("k" \in a.terms <=> "k" \in used)
  BY <1>6, OfferKeepsK DEF Refused
<1>8. p.ordered = a.byScore /\ Members(p.args) = used
  <2>1. KnnArgs(a, p, used, v)
    BY KnnArguments
  <2> QED  BY <2>1 DEF KnnArgs
<1>9. HostTerms(a, p) = a.terms \cap {"other"}
  <2>1. a.terms \subseteq Term
    BY DEF Asks, Ask
  <2> QED  BY <1>6, <1>7, <1>8, <2>1 DEF HostTerms, Term
<1>10. Answer(a, v) = ByHost(a, v, a.terms \cap {"other"}, a.byScore, nearest)
  <2>1. "match" \in a.terms /\ a.byScore \in BOOLEAN
    BY <1>6, <1>7 DEF Asks, Ask
  <2> QED  BY <2>1 DEF Answer
<1> HIDE DEF len, n, E
<1>11. SUFFICES ByHost(a, v, a.terms \cap {"other"}, a.byScore, FirstOf(E, n))
                  = ByHost(a, v, a.terms \cap {"other"}, a.byScore, nearest)
  <2> HIDE DEF nearest
  <2> QED  BY <1>3, <1>5, <1>8, <1>9, <1>10
<1>12. CASE "limit" \notin usable
  <2>1. "k" \in used /\ "limit" \notin used
    BY <1>6, <1>12 DEF Refused
  <2>2. n = Lesser(Lesser(v.k, len), len) /\ v.k \in Nat
    BY <1>1, <1>4, <2>1
  <2>3. Lesser(n, Len(E)) = Lesser(v.k, Len(E))
    BY <1>1, <1>2, <2>2 DEF Lesser
  <2>4. FirstOf(E, n) = FirstOf(E, v.k)
    BY <2>3 DEF FirstOf
  <2>5. nearest = FirstOf(E, v.k)
    BY <1>7, <2>1
  <2> HIDE DEF nearest
  <2> QED  BY <2>4, <2>5
<1>13. CASE "limit" \in usable
  <2>1. /\ a.terms \cap {"other"} = {} /\ "limit" \in used /\ "limit" \in a.terms
        /\ "offset" \in used <=> "offset" \in a.terms
        /\ a.byScore = TRUE
    BY <1>6, <1>7, <1>13 DEF Refused, Offers, Asks, Ask
  <2> DEFINE m == IF "k" \in a.terms THEN v.k ELSE Len(E)
             skip == IF "offset" \in a.terms /\ v.offset > 0 THEN v.offset ELSE 0
  <2>2. m \in Nat /\ nearest = FirstOf(E, m)
    <3>1. FirstOf(E, Len(E)) = E
      BY <1>2, FirstOfIs
    <3>2. "k" \in a.terms => v.k \in Nat
      BY <1>1, <1>4, <1>7
    <3> QED  BY <1>2, <3>1, <3>2
  <2>3. skip = offset /\ offset \in Nat
    BY <1>1, <2>1
  <2>4. IF v.limit >= 0
        THEN Lesser(Lesser(n, Len(E)), skip + v.limit) = Lesser(Lesser(m, Len(E)), skip + v.limit)
        ELSE Lesser(n, Len(E)) = Lesser(m, Len(E))
    <3>1. CASE v.limit >= 0
      <4>1. limited = Lesser(v.limit + offset, MaxUsize)
        BY <2>1, <3>1
      <4>2. PICK l, o, x : l = v.limit /\ o = offset /\ x = Len(E) /\ l \in Nat /\ o \in Nat /\ x \in Nat
        BY <1>1, <1>2, <2>3, <3>1
      <4>3. limited = Lesser(l + o, MaxUsize)
        BY <4>1, <4>2
      <4> HIDE DEF limited, offset
      <4>4. Lesser(Lesser(n, x), o + l) = Lesser(Lesser(m, x), o + l)
        <5>1. CASE "k" \in used
          <6>1. m = v.k /\ n = Lesser(Lesser(m, limited), len) /\ m \in Nat
            BY <1>4, <1>7, <2>2, <5>1
          <6> HIDE DEF m
          <6> QED  BY <1>1, <1>2, <4>2, <4>3, <6>1 DEF Lesser
        <5>2. CASE "k" \notin used
          <6>1. m = x /\ n = Lesser(limited, len)
            BY <1>4, <1>7, <4>2, <5>2
          <6> HIDE DEF m
          <6> QED  BY <1>1, <1>2, <4>2, <4>3, <6>1 DEF Lesser
        <5> QED  BY <5>1, <5>2
      <4> HIDE DEF m, skip
      <4> QED  BY <2>3, <3>1, <4>2, <4>4
    <3>2. CASE ~(v.limit >= 0)
      <4>1. limited = len
        BY <3>2
      <4> HIDE DEF limited, offset, skip
      <4>2. CASE "k" \in used
        <5>1. m = v.k /\ n = Lesser(Lesser(m, len), len) /\ m \in Nat
          BY <1>4, <1>7, <2>2, <4>1, <4>2
        <5> HIDE DEF m
        <5> QED  BY <1>1, <1>2, <3>2, <5>1 DEF Lesser
      <4>3. CASE "k" \notin used
        <5>1. m = Len(E) /\ n = Lesser(len, len)
          BY <1>4, <1>7, <4>1, <4>3
        <5> HIDE DEF m
        <5> QED  BY <1>1, <1>2, <3>2, <5>1 DEF Lesser
      <4> QED  BY <4>2, <4>3
    <3> QED  BY <3>1, <3>2
  <2>6. SameWindow(a, v, Len(E), n, m)
    BY <2>1, <2>4 DEF SameWindow
  <2> HIDE DEF nearest, m, limited, offset
  <2>5. ByHost(a, v, {}, TRUE, FirstOf(E, n)) = ByHost(a, v, {}, TRUE, FirstOf(E, m))
    <3>1. v.limit \in Int /\ v.offset \in Int
      BY <1>1
    <3>2. \A s \in Seq(Nat) : \A x, y \in Nat :
            SameWindow(a, v, Len(s), x, y)
              => ByHost(a, v, {}, TRUE, FirstOf(s, x)) = ByHost(a, v, {}, TRUE, FirstOf(s, y))
      BY <3>1, HostWindow
    <3> HIDE DEF len
    <3>3. E \in Seq(Nat) /\ n \in Nat /\ m \in Nat
      BY <1>2, <1>3, <2>2
    <3> QED  BY <2>6, <3>2, <3>3, Zenon
  <2> QED  BY <2>1, <2>2, <2>5
<1> QED  BY <1>12, <1>13
-----------------------------------------------------------------------------
(* What the statement is promised, whatever the plan. *)

Promised(a, p) == "rowid" \in a.terms => "rowid" \in Members(p.args) \/ "match" \notin a.terms

LEMMA MatchPlan ==
  ASSUME NEW a \in Asks, NEW usable \in Offers(a), "match" \in a.terms, "match" \in usable
  PROVE  /\ Refused(a, usable) => BestIndex(a, usable) = Without("refused")
         /\ ~Refused(a, usable) => BestIndex(a, usable) = KnnPlan(a, usable)
<1>1. ASSUME Refused(a, usable) PROVE BestIndex(a, usable) = Without("refused")
  BY <1>1 DEF BestIndex, Refused
<1>2. ASSUME ~Refused(a, usable) PROVE BestIndex(a, usable) = KnnPlan(a, usable)
  BY <1>2 DEF BestIndex
<1> QED  BY <1>1, <1>2

LEMMA PlansAnswer ==
  ASSUME NEW a \in Asks, NEW usable \in Offers(a), NEW p, p = AnswerTo(a, usable),
         p.kind \in {"knn", "rowid", "scan", "blob"}, Promised(a, p),
         NEW v \in Values(a, p), ~Fails(p, Arguments(p, v))
  PROVE  /\ RowsOf(p, v) \in Seq(Nat)
         /\ ByHost(a, v, HostTerms(a, p), p.ordered, RowsOf(p, v)) = Answer(a, v)
<1>1. usable \subseteq a.terms
  BY OfferKeepsK
<1>2. CASE a.table = "turbovec0" /\ "match" \in usable
  <2>0. p = BestIndex(a, usable)
    BY <1>2 DEF AnswerTo
  <2>1. ~Refused(a, usable)
    <3>1. ASSUME Refused(a, usable) PROVE FALSE
      <4>1. BestIndex(a, usable) = Without("refused")
        BY <1>1, <1>2, <3>1, MatchPlan
      <4>2. Without("refused").kind = "refused"
        BY DEF Without
      <4> QED  BY <2>0, <4>1, <4>2
    <3> QED  BY <3>1
  <2>2. p = KnnPlan(a, usable)
    <3>1. BestIndex(a, usable) = KnnPlan(a, usable)
      BY <1>1, <1>2, <2>1, MatchPlan
    <3> QED  BY <2>0, <3>1
  <2> DEFINE used == usable \ {"other"}
  <2>3. "rowid" \in a.terms => "rowid" \in usable
    <3>1. p.args = Numbered(used)
      BY <2>2 DEF KnnPlan
    <3>2. Members(p.args) \subseteq used
      BY <3>1, NumberedKeeps
    <3> QED  BY <1>1, <1>2, <3>2 DEF Promised
  <2>4. KnnCase(a, usable, p, used, v)
    BY <1>2, <2>1, <2>2, <2>3 DEF KnnCase
  <2> HIDE DEF used
  <2> QED  BY <2>4, KnnAnswers
<1>3. CASE a.table = "turbovec0" /\ "match" \notin usable
  <2>1. "match" \notin a.terms
    BY <1>1, <1>3 DEF AnswerTo, BestIndex, Without
  <2>2. CASE "rowid" \in usable
    <3>1. p = RowidPlan
      BY <1>3, <2>1, <2>2 DEF AnswerTo, BestIndex
    <3>2. p.ordered = FALSE
      BY <3>1 DEF RowidPlan, Without
    <3> QED  BY <1>1, <2>1, <2>2, <3>1, <3>2, RowidAnswers
  <2>3. CASE "rowid" \notin usable
    <3>1. p = Without("scan")
      BY <1>3, <2>1, <2>3 DEF AnswerTo, BestIndex
    <3>2. p.ordered = FALSE
      BY <3>1 DEF Without
    <3> QED  BY <2>1, <3>1, <3>2, ScanAnswers
  <2> QED  BY <2>2, <2>3
<1>4. CASE a.table # "turbovec0"
  <2>1. a.table = "turbovec_knn"
    BY <1>4 DEF Asks, Ask
  <2>2. {"index", "match", "k"} \subseteq usable
    BY <1>4 DEF AnswerTo, BlobBestIndex, Without
  <2>3. p = [kind |-> "blob", args |-> <<"index", "match", "k">>, ordered |-> a.byScore,
             flags |-> {}]
    BY <1>4, <2>2 DEF AnswerTo, BlobBestIndex
  <2>4. {"index", "match", "k"} \subseteq a.terms
    BY <1>1, <2>2
  <2> QED  BY <2>1, <2>3, <2>4, BlobAnswers
<1> QED  BY <1>2, <1>3, <1>4

(* The cursor holds what the last call found, and the statement has had    *)
(* the rows up to its position.                                            *)
RowsInOrder ==
  /\ cursor = [rows |-> cursor.rows, position |-> cursor.position]
  /\ values # None =>
       /\ Planned /\ values \in Values(ask, plan) /\ ~Fails(plan, Arguments(plan, values))
       /\ cursor.rows = RowsOf(plan, values)
       /\ Promised(ask, plan) =>
            /\ cursor.position \in 0 .. Len(cursor.rows)
            /\ given = SubSeq(cursor.rows, 1, cursor.position)
KnnInv == PlansAreAnswers /\ RowsInOrder

LEMMA JoinedIs ==
  ASSUME NEW s \in Seq(Nat), NEW t \in Seq(Nat)
  PROVE  /\ s \o t \in Seq(Nat) /\ Len(s \o t) = Len(s) + Len(t)
         /\ \A i \in 1 .. Len(s) : (s \o t)[i] = s[i]
         /\ \A i \in 1 .. Len(t) : (s \o t)[Len(s) + i] = t[i]
OBVIOUS

LEMMA FirstsGrow ==
  ASSUME NEW s \in Seq(Nat), NEW i \in 0 .. Len(s)
  PROVE  /\ SubSeq(s, 1, 0) = <<>>
         /\ SubSeq(s, 1, i) \o Skipped(s, i) = s
         /\ i < Len(s) => Append(SubSeq(s, 1, i), s[i + 1]) = SubSeq(s, 1, i + 1)
<1>1. SubSeq(s, 1, 0) = <<>> /\ Len(s) \in Nat
  OBVIOUS
<1>2. /\ SubSeq(s, 1, i) \in Seq(Nat) /\ Len(SubSeq(s, 1, i)) = i
      /\ \A j \in 1 .. i : SubSeq(s, 1, i)[j] = s[j]
  OBVIOUS
<1>3. SubSeq(s, 1, i) \o Skipped(s, i) = s
  <2> DEFINE f == SubSeq(s, 1, i)
             r == Skipped(s, i)
  <2>1. /\ r \in Seq(Nat) /\ Len(r) = Len(s) - i
        /\ \A j \in 1 .. Len(s) - i : r[j] = s[i + j]
    BY <1>1, SkippedIs
  <2> HIDE DEF r, f
  <2>2. f \in Seq(Nat) /\ Len(f) = i /\ \A j \in 1 .. i : f[j] = s[j]
    BY <1>2 DEF f
  <2>3. f \o r \in Seq(Nat) /\ Len(f \o r) = Len(s)
    <3>1. f \o r \in Seq(Nat) /\ Len(f \o r) = i + (Len(s) - i)
      BY <2>1, <2>2, JoinedIs
    <3>2. i + (Len(s) - i) = Len(s)
      BY <1>1
    <3> QED  BY <3>1, <3>2
  <2>4. ASSUME NEW j \in 1 .. Len(s) PROVE (f \o r)[j] = s[j]
    <3> DEFINE u == f \o r
    <3>0. /\ \A x \in 1 .. i : u[x] = f[x]
          /\ \A x \in 1 .. Len(s) - i : u[i + x] = r[x]
      <4>1. Len(f) = i /\ Len(r) = Len(s) - i /\ f \in Seq(Nat) /\ r \in Seq(Nat)
        BY <2>1, <2>2
      <4>2. /\ \A x \in 1 .. Len(f) : u[x] = f[x]
            /\ \A x \in 1 .. Len(r) : u[Len(f) + x] = r[x]
        <5>1. \A x, y \in Seq(Nat) :
                /\ \A k \in 1 .. Len(x) : (x \o y)[k] = x[k]
                /\ \A k \in 1 .. Len(y) : (x \o y)[Len(x) + k] = y[k]
          BY JoinedIs
        <5> QED  BY <4>1, <5>1
      <4> HIDE DEF u
      <4> QED  BY <4>1, <4>2
    <3> HIDE DEF u
    <3>1. CASE j <= i
      <4>1. j \in 1 .. i
        BY <3>1
      <4> QED  BY <2>2, <3>0, <4>1
    <3>2. CASE j > i
      <4>1. j - i \in 1 .. Len(s) - i /\ i + (j - i) = j
        BY <1>1, <3>2
      <4>2. u[i + (j - i)] = r[j - i] /\ r[j - i] = s[i + (j - i)]
        BY <2>1, <3>0, <4>1
      <4>3. u[j] = s[j]
        BY <4>1, <4>2
      <4> QED  BY <4>3 DEF u
    <3>3. j <= i \/ j > i
      OBVIOUS
    <3> QED  BY <3>1, <3>2, <3>3 DEF u
  <2>5. f \o r = s
    BY <2>3, <2>4, SameList
  <2> QED  BY <2>5 DEF f, r
<1>4. ASSUME i < Len(s)
      PROVE  Append(SubSeq(s, 1, i), s[i + 1]) = SubSeq(s, 1, i + 1)
  <2> DEFINE f == SubSeq(s, 1, i)
             g == SubSeq(s, 1, i + 1)
  <2>1. /\ g \in Seq(Nat) /\ Len(g) = i + 1 /\ \A j \in 1 .. i + 1 : g[j] = s[j]
    BY <1>1, <1>4
  <2>2. s[i + 1] \in Nat
    BY <1>1, <1>4
  <2> HIDE DEF g, f
  <2>3. f \in Seq(Nat) /\ Len(f) = i /\ \A j \in 1 .. i : f[j] = s[j]
    BY <1>2 DEF f
  <2>4. Append(f, s[i + 1]) \in Seq(Nat) /\ Len(Append(f, s[i + 1])) = i + 1
    BY <2>2, <2>3
  <2>5. ASSUME NEW j \in 1 .. i + 1 PROVE Append(f, s[i + 1])[j] = g[j]
    <3>1. CASE j = i + 1
      <4>1. Append(f, s[i + 1])[j] = s[i + 1]
        BY <2>2, <2>3, <3>1
      <4> QED  BY <2>1, <3>1, <4>1
    <3>2. CASE j # i + 1
      <4>1. j \in 1 .. i
        BY <3>2
      <4>2. Append(f, s[i + 1])[j] = f[j]
        BY <2>2, <2>3, <4>1
      <4> QED  BY <2>1, <2>3, <4>1, <4>2
    <3> QED  BY <3>1, <3>2
  <2>6. Append(f, s[i + 1]) = g
    BY <2>1, <2>4, <2>5, SameList
  <2> QED  BY <2>6 DEF f, g
<1> QED  BY <1>1, <1>3, <1>4

LEMMA KnnInvInitially == KnnInit => KnnInv
BY AnswersInitially DEF KnnInit, KnnInv, RowsInOrder

LEMMA RowsFound ==
  ASSUME KnnInv, values # None, Promised(ask, plan)
  PROVE  /\ cursor.rows \in Seq(Nat)
         /\ ByHost(ask, values, HostTerms(ask, plan), plan.ordered, cursor.rows) = Answer(ask, values)
<1>1. /\ Planned /\ values \in Values(ask, plan) /\ ~Fails(plan, Arguments(plan, values))
      /\ cursor.rows = RowsOf(plan, values)
  BY DEF KnnInv, RowsInOrder
<1>2. ask \in Asks /\ plan.kind \in {"knn", "rowid", "scan", "blob"}
  BY <1>1 DEF KnnInv, PlansAreAnswers, Planned
<1>3. PICK usable \in Offers(ask) : plan = AnswerTo(ask, usable)
  BY <1>1 DEF KnnInv, PlansAreAnswers
<1>4. /\ RowsOf(plan, values) \in Seq(Nat)
      /\ ByHost(ask, values, HostTerms(ask, plan), plan.ordered, RowsOf(plan, values))
           = Answer(ask, values)
  BY <1>1, <1>2, <1>3, PlansAnswer
<1> QED  BY <1>1, <1>4

LEMMA KnnInvStep == KnnInv /\ [KnnNext]_knnVars => KnnInv'
<1> SUFFICES ASSUME KnnInv, [KnnNext]_knnVars
             PROVE  KnnInv'
  OBVIOUS
<1>1. PlansAreAnswers'
  BY AnswersStep DEF KnnInv
<1> SUFFICES RowsInOrder'
  BY <1>1 DEF KnnInv
<1>2. CASE Prepare
  <2>1. values = None
    BY <1>2 DEF Prepare, KnnInv, PlansAreAnswers, RowsInOrder, Planned
  <2> QED  BY <1>2, <2>1 DEF Prepare, KnnInv, RowsInOrder
<1>3. CASE Offer
  <2>1. values = None
    BY <1>3 DEF Offer, KnnInv, RowsInOrder, Planned
  <2> QED  BY <1>3, <2>1 DEF Offer, KnnInv, RowsInOrder
<1>4. CASE Filter
  <2>1. PICK v \in Values(ask, plan) :
          IF Fails(plan, Arguments(plan, v))
          THEN /\ values' = None /\ plan' = Without("refused")
               /\ cursor' = [rows |-> Cleared(cursor.rows), position |-> 0]
          ELSE /\ values' = v /\ plan' = plan
               /\ cursor' = [rows |-> IF ReturnsEarly(plan, Arguments(plan, v), v.index)
                                      THEN Cleared(cursor.rows)
                                      ELSE Found(plan, Arguments(plan, v), v.index),
                             position |-> 0]
    BY <1>4 DEF Filter
  <2>2. Planned /\ ask' = ask /\ given' = <<>>
    BY <1>4 DEF Filter
  <2>3. CASE Fails(plan, Arguments(plan, v))
    <3>1. values' = None /\ cursor' = [rows |-> Cleared(cursor.rows), position |-> 0]
      BY <2>1, <2>3
    <3> QED  BY <3>1 DEF RowsInOrder
  <2>4. CASE ~Fails(plan, Arguments(plan, v))
    <3>1. values' = v /\ plan' = plan /\ cursor' = [rows |-> RowsOf(plan, v), position |-> 0]
      BY <2>1, <2>4 DEF RowsOf, Cleared
    <3>2. cursor'.rows = RowsOf(plan, v) /\ cursor'.position = 0
      BY <3>1
    <3>3. ASSUME Promised(ask, plan)
          PROVE  0 \in 0 .. Len(RowsOf(plan, v)) /\ SubSeq(RowsOf(plan, v), 1, 0) = <<>>
      <4>1. ask \in Asks /\ plan.kind \in {"knn", "rowid", "scan", "blob"}
        BY <2>2 DEF KnnInv, PlansAreAnswers, Planned
      <4>2. PICK usable \in Offers(ask) : plan = AnswerTo(ask, usable)
        BY <2>2 DEF KnnInv, PlansAreAnswers
      <4>3. RowsOf(plan, v) \in Seq(Nat)
        BY <2>4, <3>3, <4>1, <4>2, PlansAnswer
      <4> HIDE DEF RowsOf
      <4> QED  BY <4>3, FirstsGrow
    <3>4. /\ Planned' /\ values' \in Values(ask', plan')
          /\ ~Fails(plan', Arguments(plan', values'))
          /\ cursor'.rows = RowsOf(plan', values')
          /\ Promised(ask', plan') => /\ cursor'.position \in 0 .. Len(cursor'.rows)
                                      /\ given' = SubSeq(cursor'.rows, 1, cursor'.position)
      BY <2>2, <2>4, <3>1, <3>2, <3>3 DEF Planned
    <3>5. cursor' = [rows |-> cursor'.rows, position |-> cursor'.position]
      BY <3>1, <3>2
    <3> QED  BY <3>4, <3>5 DEF RowsInOrder
  <2> QED  BY <2>3, <2>4
<1>5. CASE Step
  <2>1. /\ values # None /\ cursor.position < Len(cursor.rows)
        /\ given' = Append(given, cursor.rows[cursor.position + 1])
        /\ ask' = ask /\ plan' = plan /\ values' = values
        /\ cursor' = [cursor EXCEPT !.position = cursor.position + 1]
    BY <1>5 DEF Step
  <2>2. /\ cursor' = [rows |-> cursor.rows, position |-> cursor.position + 1]
        /\ cursor'.rows = cursor.rows /\ cursor'.position = cursor.position + 1
    <3>1. cursor = [rows |-> cursor.rows, position |-> cursor.position]
      BY DEF KnnInv, RowsInOrder
    <3> QED  BY <2>1, <3>1
  <2>3. ASSUME Promised(ask, plan)
        PROVE  /\ cursor.position + 1 \in 0 .. Len(cursor.rows)
               /\ given' = SubSeq(cursor.rows, 1, cursor.position + 1)
    <3>1. cursor.rows \in Seq(Nat)
      BY <2>1, <2>3, RowsFound
    <3>2. /\ cursor.position \in 0 .. Len(cursor.rows)
          /\ given = SubSeq(cursor.rows, 1, cursor.position)
      BY <2>1, <2>3 DEF KnnInv, RowsInOrder
    <3>3. Append(SubSeq(cursor.rows, 1, cursor.position), cursor.rows[cursor.position + 1])
            = SubSeq(cursor.rows, 1, cursor.position + 1)
      BY <2>1, <3>1, <3>2, FirstsGrow
    <3>4. given' = SubSeq(cursor.rows, 1, cursor.position + 1)
      BY <2>1, <3>2, <3>3
    <3>5. Len(cursor.rows) \in Nat
      BY <3>1
    <3>6. cursor.position + 1 \in 0 .. Len(cursor.rows)
      BY <2>1, <3>2, <3>5
    <3> QED  BY <3>4, <3>6
  <2>4. /\ Planned /\ values \in Values(ask, plan) /\ ~Fails(plan, Arguments(plan, values))
        /\ cursor.rows = RowsOf(plan, values)
    BY <2>1 DEF KnnInv, RowsInOrder
  <2>5. cursor' = [rows |-> cursor'.rows, position |-> cursor'.position]
    BY <2>2
  <2>6. /\ Planned' /\ values' \in Values(ask', plan')
        /\ ~Fails(plan', Arguments(plan', values'))
        /\ cursor'.rows = RowsOf(plan', values')
        /\ Promised(ask', plan') => /\ cursor'.position \in 0 .. Len(cursor'.rows)
                                    /\ given' = SubSeq(cursor'.rows, 1, cursor'.position)
    BY <2>1, <2>2, <2>3, <2>4 DEF Planned
  <2> QED  BY <2>5, <2>6 DEF RowsInOrder
<1>6. CASE Finish
  BY <1>6 DEF Finish, RowsInOrder
<1>7. CASE UNCHANGED knnVars
  <2>1. ask' = ask /\ plan' = plan /\ values' = values /\ cursor' = cursor /\ given' = given
    BY <1>7 DEF knnVars
  <2>2. RowsInOrder
    BY DEF KnnInv
  <2> QED  BY <2>1, <2>2 DEF RowsInOrder, Planned
<1> QED  BY <1>2, <1>3, <1>4, <1>5, <1>6, <1>7 DEF KnnNext

LEMMA KnnInvShows == KnnInv => AnswerIsAskedFor
<1> SUFFICES ASSUME KnnInv, values # None,
                    "rowid" \in ask.terms => "rowid" \in Taken \/ "match" \notin ask.terms
             PROVE  ByHost(ask, values, ask.terms \ (Taken \cup {"limit", "offset", "match", "index"}),
                           plan.ordered, given \o Skipped(cursor.rows, cursor.position))
                      = Answer(ask, values)
  BY DEF AnswerIsAskedFor
<1>1. Taken = Members(plan.args)
  BY DEF Taken, Members
<1>2. Promised(ask, plan)
  BY <1>1 DEF Promised
<1>3. /\ cursor.rows \in Seq(Nat)
      /\ ByHost(ask, values, HostTerms(ask, plan), plan.ordered, cursor.rows) = Answer(ask, values)
  BY <1>2, RowsFound
<1>4. /\ cursor.position \in 0 .. Len(cursor.rows)
      /\ given = SubSeq(cursor.rows, 1, cursor.position)
  BY <1>2 DEF KnnInv, RowsInOrder
<1>5. given \o Skipped(cursor.rows, cursor.position) = cursor.rows
  BY <1>3, <1>4, FirstsGrow
<1>6. HostTerms(ask, plan) = ask.terms \ (Taken \cup {"limit", "offset", "match", "index"})
  BY <1>1 DEF HostTerms
<1> QED  BY <1>3, <1>5, <1>6

(* Whatever the index holds and whatever the terms of the statement, for   *)
(* every k, LIMIT, OFFSET and rowid filter: the rows the cursor hands      *)
(* over, with what the host does to them, are the rows the statement asks  *)
(* for (best_index, filter, next).  This is so in every join order but     *)
(* those in which the rowid filter of a MATCH statement is not usable yet: *)
(* the k nearest are then taken before the filter.                         *)
THEOREM AnswersAlways == KnnSpec => []AnswerIsAskedFor
<1>1. KnnSpec => []KnnInv
  BY KnnInvInitially, KnnInvStep, PTL DEF KnnSpec
<1> QED  BY <1>1, KnnInvShows, PTL
=============================================================================
