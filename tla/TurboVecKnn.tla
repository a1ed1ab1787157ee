---------------------------- MODULE TurboVecKnn ----------------------------
(***************************************************************************)
(* How a SELECT on a turbovec0 table, or on turbovec_knn, becomes a        *)
(* search: the host offers the terms of the statement to xBestIndex, which *)
(* picks some as arguments and numbers them, and calls xFilter with the    *)
(* values, once or for every row of an outer table; it then steps the      *)
(* cursor and applies what the module left to it.                          *)
(*                                                                         *)
(* What the index holds is one ranking per call, of all its ids by         *)
(* descending score for the query; the library searches it.                *)
(***************************************************************************)
EXTENDS Integers, Sequences, FiniteSets

CONSTANTS
  Rankings,    \* what an index may hold
  Numbers,     \* values of k, LIMIT and OFFSET
  Rowids,      \* values of a rowid constraint
  MaxUsize,    \* usize::MAX
  None         \* no statement, no values

ASSUME KnnAssumption ==
  /\ Numbers \subseteq Int /\ Rowids \subseteq Int /\ MaxUsize \in Nat
  /\ Rankings \subseteq Seq(Nat)
  /\ \A ranking \in Rankings : Len(ranking) <= MaxUsize

VARIABLES
  ask,      \* the statement
  plan,     \* what xBestIndex answered
  values,   \* the arguments of the last xFilter
  cursor,   \* the rows xFilter found, and the position in them
  given     \* the ids handed over since then

knnVars == <<ask, plan, values, cursor, given>>

(* The terms of a statement on the table.  "other" is one the module does  *)
(* not know, such as rowid > 2; the query of turbovec_knn is its "match".  *)
Term == {"match", "index", "k", "limit", "offset", "rowid", "other"}
Ask == [table : {"turbovec0", "turbovec_knn"}, terms : SUBSET Term,
        in : BOOLEAN, byScore : BOOLEAN, joined : BOOLEAN]

(* LIMIT and OFFSET belong to the one table of a statement. *)
Asks == {a \in Ask :
  /\ "offset" \in a.terms => "limit" \in a.terms
  /\ a.joined => "limit" \notin a.terms
  /\ a.in => "rowid" \in a.terms
  /\ a.table = "turbovec0" => "index" \notin a.terms
  /\ a.table = "turbovec_knn" => a.terms \subseteq {"match", "index", "k"} /\ ~a.joined}

(* A plan: idxNum is its kind and its flags; args are the terms that       *)
(* become arguments, in their order; ordered says that ORDER BY is         *)
(* consumed.                                                               *)
Plan == [kind : {"knn", "rowid", "scan", "blob", "refused", "declined", "none"},
         flags : SUBSET (Term \cup {"in"}), args : Seq(Term), ordered : BOOLEAN]
Without(kind) == [kind |-> kind, args |-> <<>>, ordered |-> FALSE, flags |-> {}]

KnnInit ==
  /\ ask = None /\ plan = Without("none") /\ values = None
  /\ cursor = [rows |-> <<>>, position |-> 0]
  /\ given = <<>>

Lesser(a, b) == IF a <= b THEN a ELSE b
Holds(s, x) == \E i \in DOMAIN s : s[i] = x
FirstOf(s, n) == SubSeq(s, 1, Lesser(n, Len(s)))

(* Those of a list that are among some ids, in their order.                *)
Those(s, ids) ==
  LET those[i \in 0 .. Len(s)] ==
        IF i = 0 THEN <<>>
        ELSE IF s[i] \in ids THEN Append(those[i - 1], s[i]) ELSE those[i - 1]
  IN  those[Len(s)]
-----------------------------------------------------------------------------
(* xBestIndex of turbovec0. *)

IfUsed(used, t) == IF t \in used THEN <<t>> ELSE <<>>
Numbered(used) ==
  IfUsed(used, "match") \o IfUsed(used, "k") \o IfUsed(used, "limit")
    \o IfUsed(used, "offset") \o IfUsed(used, "rowid")

KnnPlan(a, usable) ==
  LET used == usable \ {"other"}
  IN  [kind |-> "knn", args |-> Numbered(used), ordered |-> a.byScore,
       flags |-> (used \ {"match"}) \cup (IF a.in /\ "rowid" \in used THEN {"in"} ELSE {})]
RowidPlan == [Without("rowid") EXCEPT !.args = <<"rowid">>]

(* Mutant: MATCH without k or LIMIT searches all the rows. *)
Unrestricted(a, usable) == "limit" \in usable /\ ~a.byScore
(* A MATCH needs k or LIMIT, and LIMIT the order of the scores.            *)
Refused(a, usable) ==
  \/ {"k", "limit"} \cap usable = {}
  \/ "limit" \in usable /\ ~a.byScore

BestIndex(a, usable) ==
  CASE "match" \in usable /\ Refused(a, usable) -> Without("refused")
    [] "match" \in usable /\ ~Refused(a, usable) -> KnnPlan(a, usable)
    [] "match" \in a.terms \ usable -> Without("declined")
    [] "match" \notin a.terms /\ "rowid" \in usable -> RowidPlan
    [] OTHER -> Without("scan")

(* xBestIndex of turbovec_knn takes its three arguments or nothing. *)
BlobBestIndex(a, usable) ==
  IF {"index", "match", "k"} \subseteq usable
  THEN [kind |-> "blob", args |-> <<"index", "match", "k">>, ordered |-> a.byScore,
        flags |-> {}]
  ELSE Without("declined")

(* The host prepares a statement. *)
Prepare ==
  /\ ask = None
  /\ ask' \in Asks
  /\ UNCHANGED <<plan, values, cursor, given>>

(* A join order has the terms usable whose tables come first.  LIMIT is    *)
(* offered only when the module can take every other term.                 *)
Offers(a) ==
  IF a.joined THEN SUBSET a.terms
  ELSE IF "other" \in a.terms THEN {a.terms \ {"limit", "offset"}} ELSE {a.terms}

Offer ==
  /\ ask # None /\ plan.kind \in {"none", "declined"}
  /\ \E usable \in Offers(ask) :
       plan' = IF ask.table = "turbovec0" THEN BestIndex(ask, usable)
               ELSE BlobBestIndex(ask, usable)
  /\ UNCHANGED <<ask, values, cursor, given>>
-----------------------------------------------------------------------------
(* xFilter. *)

Values(a, p) ==
  LET Of(t, set) == IF t \in a.terms THEN set ELSE {0}
  IN  [k : Of("k", Numbers), limit : Of("limit", Numbers), offset : Of("offset", Numbers),
       rowid : IF "in" \in p.flags THEN SUBSET Rowids ELSE Of("rowid", {{id} : id \in Rowids}),
       match : {"query", "malformed"}, index : Rankings]

(* The values of an IN come as one argument, or else one call at a time.   *)
Arguments(p, v) ==
  [i \in DOMAIN p.args |->
     IF p.args[i] = "rowid" /\ "in" \notin p.flags THEN CHOOSE id \in v.rowid : TRUE
     ELSE v[p.args[i]]]

(* Every argument is read at the place its predecessors leave it.          *)
Place(flags, t) ==
  LET before == [k |-> {}, limit |-> {"k"}, offset |-> {"k", "limit"},
                 rowid |-> {"k", "limit", "offset"}]
  IN  2 + Cardinality(before[t] \cap flags)

Saturating(a, b) == Lesser(a + b, MaxUsize)

(* How many candidates to ask the library for. *)
Candidates(flags, args, len) ==
  LET Arg(t) == args[Place(flags, t)]
      offset == IF "offset" \in flags /\ Arg("offset") >= 0 THEN Arg("offset") ELSE 0
      limited == IF "limit" \in flags /\ Arg("limit") >= 0
                 THEN Saturating(Arg("limit"), offset) ELSE len
      wanted == IF "k" \in flags THEN Lesser(Arg("k"), limited) ELSE limited
  IN  Lesser(wanted, len)

(* The ids a search may return, of those the index holds.                  *)
Allowed(flags, args, ranking) ==
  LET arg == args[Place(flags, "rowid")]
      ids == IF "in" \in flags THEN arg ELSE {arg}
  IN  IF "rowid" \in flags THEN {id \in ids : Holds(ranking, id)}
      ELSE {ranking[i] : i \in DOMAIN ranking}

(* try_search_with_allowlist *)
Search(ranking, n, ids) == FirstOf(Those(ranking, ids), n)

(* A query of another dimension, and a negative k. *)
Fails(p, args) ==
  \/ p.kind = "knn" /\ args[1] = "malformed"
  \/ p.kind = "knn" /\ "k" \in p.flags /\ args[Place(p.flags, "k")] < 0
  \/ p.kind = "blob" /\ (args[2] = "malformed" \/ args[3] < 0)

(* With no id allowed there is no search, and xFilter returns early. *)
ReturnsEarly(p, args, ranking) ==
  p.kind = "knn" /\ Allowed(p.flags, args, ranking) = {}

(* The rows a call finds that does not. *)
Found(p, args, ranking) ==
  CASE p.kind = "knn" -> Search(ranking, Candidates(p.flags, args, Len(ranking)),
                                Allowed(p.flags, args, ranking))
    [] p.kind = "rowid" -> Those(ranking, {args[1]})
    [] p.kind = "scan" -> ranking
    [] p.kind = "blob" -> FirstOf(args[1], args[3])

Planned == plan.kind \in {"knn", "rowid", "scan", "blob"}

(* The rows of the call before are gone first, whatever becomes of this    *)
(* one.                                                                    *)
(* Mutant: they stay until there are others. *)
Kept(rows) == rows
Cleared(rows) == <<>>

Filter ==
  /\ Planned
  /\ values = None \/ ask.joined
  /\ \E v \in Values(ask, plan) :
       LET args == Arguments(plan, v)
       IN  IF Fails(plan, args)
           THEN /\ values' = None /\ plan' = Without("refused")
                /\ cursor' = [rows |-> Cleared(cursor.rows), position |-> 0]
           ELSE /\ values' = v /\ plan' = plan
                /\ cursor' = [rows |-> IF ReturnsEarly(plan, args, v.index)
                                       THEN Cleared(cursor.rows)
                                       ELSE Found(plan, args, v.index),
                              position |-> 0]
  /\ given' = <<>>
  /\ UNCHANGED ask

(* xEof, xRowid, xNext *)
Step ==
  /\ values # None
  /\ cursor.position < Len(cursor.rows)
  /\ given' = Append(given, cursor.rows[cursor.position + 1])
  /\ cursor' = [cursor EXCEPT !.position = @ + 1]
  /\ UNCHANGED <<ask, plan, values>>

(* The statement is over.  *)
Finish ==
  /\ plan.kind # "none"
  /\ ask' = None /\ plan' = Without("none") /\ values' = None /\ given' = <<>>
  /\ cursor' = [rows |-> <<>>, position |-> 0]

KnnNext == Prepare \/ Offer \/ Filter \/ Step \/ Finish
KnnSpec == KnnInit /\ [][KnnNext]_knnVars
-----------------------------------------------------------------------------
(* What the host does with the rows, and what the statement asks for. *)

(* The ids that pass a filter by some of the terms.                        *)
Passing(v, terms) ==
  {id \in Nat : /\ "rowid" \in terms => id \in v.rowid
                /\ "other" \in terms => id > 2
                /\ "k" \notin terms}      \* the hidden column is NULL

Backwards(s) == [i \in DOMAIN s |-> s[Len(s) + 1 - i]]
Skipped(s, n) == SubSeq(s, n + 1, Len(s))

(* The terms left are filters on the rows; then come ORDER BY, OFFSET and  *)
(* LIMIT, of which a negative one is none.                                 *)
ByHost(a, v, left, ordered, rows) ==
  LET kept == Those(rows, Passing(v, left))
      sorted == IF ordered THEN kept ELSE Backwards(kept)
      past == IF "offset" \in a.terms /\ v.offset > 0 THEN Skipped(sorted, v.offset) ELSE sorted
  IN  IF "limit" \in a.terms /\ v.limit >= 0 THEN FirstOf(past, v.limit) ELSE past

Taken == {plan.args[i] : i \in DOMAIN plan.args}

(* The k nearest of the rows the rowid filter allows, or all of them.      *)
Answer(a, v) ==
  LET searches == "match" \in a.terms
      eligible == Those(v.index, Passing(v, a.terms \cap {"rowid"}))
      nearest == IF searches /\ "k" \in a.terms THEN FirstOf(eligible, v.k) ELSE eligible
      left == a.terms \cap (IF searches THEN {"other"} ELSE {"other", "k"})
  IN  ByHost(a, v, left, searches /\ a.byScore, nearest)

(* A statement gets the rows it asks for, nearest first: k, LIMIT, OFFSET  *)
(* and the rowid filter in any combination, missing, zero, negative or as  *)
(* large as a usize, with nothing left of an earlier row of a join         *)
(* (best_index, filter).  In a join order where the rowid filter is not    *)
(* usable yet the k nearest are taken before it, and nothing is promised.  *)
AnswerIsAskedFor ==
  values # None /\ ("rowid" \in ask.terms => "rowid" \in Taken \/ "match" \notin ask.terms)
    => ByHost(ask, values, ask.terms \ (Taken \cup {"limit", "offset", "match", "index"}),
              plan.ordered, given \o Skipped(cursor.rows, cursor.position))
         = Answer(ask, values)

(* No plan leaves a MATCH or the k beside it to the host: it cannot        *)
(* evaluate the one, and compares the other with NULL and drops every row  *)
(* (best_index).                                                           *)
NothingLeftToTheHost ==
  Planned /\ "match" \in ask.terms
    => ask.terms \cap {"match", "index", "k"} \subseteq Taken
=============================================================================
