---------------------------- MODULE TurboVecBlob ----------------------------
(***************************************************************************)
(* The scalar functions of src/lib.rs, which keep an index in a BLOB the   *)
(* caller stores: turbovec_new, turbovec_add, turbovec_remove and the      *)
(* aggregate turbovec_build.  Each takes a BLOB and returns a new one, or  *)
(* None for an error.  The library's image of an index is its format and   *)
(* shape (dimensions and bit width) with its rows, as in TurboVecStorage.  *)
(* The functions are run over the logs of TurboVecLog.                     *)
(***************************************************************************)
EXTENDS TurboVecLog

CONSTANTS
  Formats,     \* headers a BLOB may have
  Shapes       \* dimensions and bit widths in play

ASSUME BlobAssumption ==
  /\ {"v7", "v8"} \subseteq Formats
  /\ \A vector \in Vector : \E shape \in Shapes : shape.dimensions = Len(vector)
  /\ None \notin [format : Formats, shape : Shapes, rows : Rows]

Image(format, shape, rows) == [format |-> format, shape |-> shape, rows |-> rows]

(* load_index: the two formats check_format knows. *)
LoadIndex(blob) ==
  IF blob.format \in {"v7", "v8"} THEN Image("v8", blob.shape, blob.rows) ELSE None

(* new_index *)
NewIndex(shape) == Image("v8", shape, EmptyRows)

(* add_with_ids: an id that is there is refused. *)
AddWithId(index, id, vector) ==
  IF index.rows[id] # None THEN None ELSE [index EXCEPT !.rows[id] = vector]

(* add_vector, remove_vector. *)
AddVector(blob, id, vector) ==
  LET index == LoadIndex(blob)
  IN  IF index = None \/ vector = None THEN None
      ELSE IF Len(vector) # index.shape.dimensions THEN None
      ELSE AddWithId(index, id, vector)
(* Mutant: an id that is not there is no error. *)
RemoveIfThere(blob, id) ==
  LET index == LoadIndex(blob)
  IN  IF index = None THEN None ELSE [index EXCEPT !.rows[id] = None]
RemoveVector(blob, id) ==
  LET index == LoadIndex(blob)
  IN  IF index = None THEN None
      ELSE IF index.rows[id] = None THEN None
      ELSE [index EXCEPT !.rows[id] = None]

(* turbovec_build: the first row starts the aggregate, every row must have *)
(* its shape, and no row at all is an error.                               *)
BuildStep(index, row) ==
  IF index = None THEN None     \* a row before it ended the statement
  ELSE IF row.shape # index.shape \/ Len(row.vector) # row.shape.dimensions THEN None
  ELSE AddWithId(index, row.id, row.vector)
BuildFrom(rows) ==
  LET built[i \in 0 .. Len(rows)] ==
        IF i = 0 THEN NewIndex(rows[1].shape) ELSE BuildStep(built[i - 1], rows[i])
  IN  IF rows = <<>> THEN None ELSE built[Len(rows)]
-----------------------------------------------------------------------------
(* The caller of the BLOB functions does what the log says. *)

(* SQL evaluates no function on what another one refused. *)
Applied(blob, change) ==
  LET cleared == IF change.op = "delete" \/ change.replaces
                 THEN RemoveVector(blob, change.id) ELSE blob
  IN  IF blob = None THEN None
      ELSE IF cleared = None \/ change.op = "delete" THEN cleared
      ELSE AddVector(cleared, change.id, change.vector)
AppliedAll(blob, cs) ==
  LET applied[i \in 0 .. Len(cs)] ==
        IF i = 0 THEN blob ELSE Applied(applied[i - 1], cs[i])
  IN  applied[Len(cs)]

(* The rows a log inserts, as turbovec_build is given them, every one of   *)
(* the shape of the table but the last.                                    *)
BuildRows(cs, last) ==
  [i \in DOMAIN cs |->
     [shape |-> IF i = Len(cs) THEN last ELSE CHOOSE s \in Shapes : s.dimensions = Len(cs[i].vector),
      id |-> cs[i].id, vector |-> cs[i].vector]]

(* The BLOB functions are the reference the table is measured against      *)
(* (lib.rs): over any log they accept what a truthful log of the table     *)
(* holds and nothing else, in either readable format, and leave the rows   *)
(* replay leaves; and turbovec_build over rows is turbovec_add over them   *)
(* one by one, from turbovec_new, refusing the same.                       *)
BlobMirrorsTable ==
  /\ \A format \in Formats, shape \in Shapes :
       LET blob == AppliedAll(Image(format, shape, start), log)
           readable == format \in {"v7", "v8"}
           fits == \A i \in Inserts(log) :
                     log[i].vector # None /\ Len(log[i].vector) = shape.dimensions
       IN  log # <<>> =>
             /\ (blob # None) = (readable /\ fits /\ Truthful)
             /\ blob # None => blob = Image("v8", shape, Replay(start, log))
  /\ AppendOnly(log) /\ Encodable(log) /\ log # <<>> =>
       \A shape \in Shapes :
         LET rows == BuildRows(log, shape)
             same == \A i \in DOMAIN rows : rows[i].shape = rows[1].shape
         IN  BuildFrom(rows) = IF same THEN AppliedAll(NewIndex(rows[1].shape), log)
                                       ELSE None
=============================================================================
