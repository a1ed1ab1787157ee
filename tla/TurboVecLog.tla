---------------------------- MODULE TurboVecLog ----------------------------
(***************************************************************************)
(* The closed forms of TurboVecStorage against the loops they stand for.   *)
(* A behaviour starts from some index and appends one change at a time, in *)
(* every way the change log can be written and in the ways only a corrupt  *)
(* delta would be; after each step the loops of the code are run over the  *)
(* log and compared with the closed forms.                                 *)
(***************************************************************************)
EXTENDS TurboVecStorage, SequencesExt

CONSTANT MaxLog    \* bound: length of the log

VARIABLES start, log
logVars == <<start, log>>

LogInit == start \in Rows /\ log = <<>>

AppendInsert ==
  \E id \in Rowid, vector \in Vector \cup {None}, replaces \in BOOLEAN :
    log' = Append(log, InsertOf(id, vector, replaces))
AppendDelete == \E id \in Rowid : log' = Append(log, DeleteOf(id))
LogNext ==
  /\ Len(log) < MaxLog
  /\ AppendInsert \/ AppendDelete
  /\ UNCHANGED start

LogSpec == LogInit /\ [][LogNext]_logVars
-----------------------------------------------------------------------------
(* The loops.  Each folds over the log a record of the index so far and    *)
(* whether no change was refused yet.                                      *)

Running(rows) == [ok |-> TRUE, rows |-> rows]

ReplayStep(run, change) ==
  IF ~run.ok THEN run
  ELSE IF change.op = "insert"
  THEN IF change.vector = None THEN [run EXCEPT !.ok = FALSE]
       ELSE [run EXCEPT !.rows[change.id] = change.vector]
  ELSE IF run.rows[change.id] = None THEN [run EXCEPT !.ok = FALSE]
       ELSE [run EXCEPT !.rows[change.id] = None]
ReplayLoop(rows, cs) == FoldLeft(ReplayStep, Running(rows), cs)

UndoStep(run, change) ==
  IF ~run.ok THEN run
  ELSE IF change.op = "delete" \/ change.replaces \/ run.rows[change.id] = None
  THEN [run EXCEPT !.ok = FALSE]
  ELSE [run EXCEPT !.rows[change.id] = None]
UndoLoop(rows, cs) == FoldLeft(UndoStep, Running(rows), Reverse(cs))

NetRowsLoop(cs) ==
  FoldLeft(LAMBDA sum, change :
             sum + (IF change.op = "delete" THEN -1
                    ELSE IF change.replaces THEN 0 ELSE 1), 0, cs)
-----------------------------------------------------------------------------
(* replay: the closed form accepts the logs the loop accepts, and leaves   *)
(* the rows the loop leaves.                                               *)
ReplayIsTheLoop ==
  LET run == ReplayLoop(start, log)
  IN  /\ ReplayOK(start, log) = run.ok
      /\ run.ok => Replay(start, log) = run.rows /\ KeysAfter(start, log) = Keys(run.rows)

(* undo_insert_prefix: the same rows are removed, and when the loop stops  *)
(* half-way, the same rows are gone.                                       *)
UndoIsTheLoop ==
  LET run == UndoLoop(start, log)
  IN  (UndoFaults(start, log) = {}) = run.ok /\ UndoInserts(start, log) = run.rows

(* A log that tells the truth about replacements: what insert() and        *)
(* delete() of TurboVecTable push, seen from the committed rows.           *)
Truthful ==
  \A i \in DOMAIN log :
    IF log[i].op = "insert" THEN log[i].replaces = PresentAt(start, log, i)
                            ELSE PresentAt(start, log, i)

(* net_rows is the change in the number of rows (sync checks the index     *)
(* against it), whether or not the log kept its vectors.                   *)
NetRowsCounts ==
  /\ NetRows(log) = NetRowsLoop(log)
  /\ Truthful => Cardinality(KeysAfter(start, log))
                   = Cardinality(Keys(start)) + NetRows(log)

(* A log cut anywhere replays in two parts as it does in one: the part     *)
(* already in storage and the part a connection still holds (ensure_loaded,*)
(* catch_up); and the stored form of a batch replays like the batch.       *)
ReplayComposes ==
  ReplayOK(start, log) =>
    \A n \in 0 .. Len(log) :
      LET stored == Decoded(SubSeq(log, 1, n))
          rest == SubSeq(log, n + 1, Len(log))
      IN  /\ ReplayOK(Replay(start, stored), rest)
          /\ Replay(Replay(start, stored), rest) = Replay(start, log)

(* Undoing the appends at the end of a log gives the rows from before them *)
(* (restore_to keeps a loaded index by doing this).                        *)
UndoReturns ==
  Truthful /\ ReplayOK(start, log) =>
    \A n \in 0 .. Len(log) :
      LET tail == SubSeq(log, n + 1, Len(log))
      IN  AppendOnly(tail) =>
            /\ UndoFaults(Replay(start, log), tail) = {}
            /\ UndoInserts(Replay(start, log), tail) = Replay(start, SubSeq(log, 1, n))
=============================================================================
