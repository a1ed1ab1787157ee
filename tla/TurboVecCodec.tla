--------------------------- MODULE TurboVecCodec ---------------------------
(***************************************************************************)
(* The stored form of a delta batch: encode_delta and decode_delta, over   *)
(* the logs of TurboVecLog.  A cell stands for one field of the format: the*)
(* magic, the dimensions, the number of operations, and then an operation, *)
(* an id or a coordinate.  Cells are numbers, so a decoder that is out of  *)
(* step reads a coordinate as an operation, as the code would.             *)
(*                                                                         *)
(* crc is the content a checksum was computed of: CRC-32 is taken to tell  *)
(* any two contents apart.                                                 *)
(***************************************************************************)
EXTENDS TurboVecLog

CONSTANTS
  Dimensions,    \* of the table
  Cell           \* values a damaged field may have

ASSUME CodecAssumption ==
  /\ Dimensions \in Nat \ {0}
  /\ Rowid \subseteq Nat /\ Cell \subseteq Nat    \* the bytes of a field, as a number
  /\ \A vector \in Vector : vector \in Seq(Nat) /\ Len(vector) = Dimensions
  /\ DeltaFrame = 4 /\ OpBytes = 2 /\ VectorBytes = Dimensions

Magic == 0             \* DELTA_MAGIC
HeaderLen == 3         \* DELTA_HEADER_LEN
ChecksumLen == 1       \* DELTA_CHECKSUM_LEN

Blob(cells, crc) == [cells |-> cells, crc |-> crc]
BlobLen(blob) == Len(blob.cells) + ChecksumLen

EncodedChange(change) ==
  IF change.op = "insert" THEN <<1, change.id>> \o change.vector
                          ELSE <<2, change.id>>
EncodedChanges(cs) ==
  LET cells[i \in 0 .. Len(cs)] ==
        IF i = 0 THEN <<>> ELSE cells[i - 1] \o EncodedChange(cs[i])
  IN  cells[Len(cs)]
EncodedCells(cs, dimensions) ==
  <<Magic, dimensions, Len(cs)>> \o EncodedChanges(cs)
EncodeDelta(cs, dimensions) ==
  Blob(EncodedCells(cs, dimensions), EncodedCells(cs, dimensions))
-----------------------------------------------------------------------------
(* decode_delta: what it checks before it reads an operation. *)
HeaderOK(blob, dimensions) ==
  /\ Len(blob.cells) >= HeaderLen
  /\ blob.cells[1] = Magic
  /\ blob.cells[2] = dimensions
  /\ blob.cells[3] <= (Len(blob.cells) - HeaderLen) \div OpBytes
  /\ blob.crc = blob.cells

(* One turn of its loop: at is the number of cells read so far. *)
DecodeStep(run, cells, dimensions) ==
  LET at == run.at + OpBytes
      fits == at <= Len(cells)
      end == IF fits /\ cells[run.at + 1] = 1 THEN at + dimensions ELSE at
      id == cells[run.at + 2]
  IN  IF ~run.ok \/ ~fits \/ end > Len(cells) \/ cells[run.at + 1] \notin {1, 2}
      THEN [run EXCEPT !.ok = FALSE]
      ELSE [ok |-> TRUE, at |-> end,
            changes |-> Append(run.changes,
              IF cells[run.at + 1] = 1
              THEN InsertOf(id, SubSeq(cells, at + 1, end), TRUE)
              ELSE DeleteOf(id))]

(* Mutant: what follows the last operation is ignored. *)
ReadEnough(run, cells) == run.ok
(* The loop ended without an error, and at the checksum. *)
ReadWhole(run, cells) == run.ok /\ run.at = Len(cells)

DecodeLoop(blob, dimensions) ==
  LET run[i \in 0 .. blob.cells[3]] ==
        IF i = 0 THEN [ok |-> TRUE, at |-> HeaderLen, changes |-> <<>>]
        ELSE DecodeStep(run[i - 1], blob.cells, dimensions)
  IN  run[blob.cells[3]]
DecodeDelta(blob, dimensions) ==
  IF ~HeaderOK(blob, dimensions) THEN None
  ELSE LET run == DecodeLoop(blob, dimensions)
       IN  IF ReadWhole(run, blob.cells) THEN run.changes ELSE None
-----------------------------------------------------------------------------
(* A blob with one field lost, added or changed. *)
Damaged(cells) ==
  {RemoveAt(cells, i) : i \in DOMAIN cells}
    \cup {InsertAt(cells, i, x) : i \in 1 .. Len(cells) + 1, x \in Cell}
    \cup {ReplaceAt(cells, i, x) : i \in DOMAIN cells, x \in Cell}

(* A batch comes back as the changes that were written, each insert marked *)
(* as a replacement, and has the length sync() budgeted before it encoded  *)
(* it; a table of other dimensions refuses it.  Damage is noticed.  And    *)
(* whoever wrote a blob, if decode_delta takes it, it is the encoding of   *)
(* the changes it returns: nothing is skipped, guessed or left over.       *)
CodecRoundTrip ==
  start = EmptyRows /\ Encodable(log) =>
    LET blob == EncodeDelta(log, Dimensions)
    IN  /\ BlobLen(blob) = DeltaLen(log)
        /\ DecodeDelta(blob, Dimensions) = Decoded(log)
        /\ DecodeDelta(blob, Dimensions + 1) = None
        /\ \A cells \in Damaged(blob.cells) \ {blob.cells} :
             LET changes == DecodeDelta(Blob(cells, cells), Dimensions)
             IN  /\ DecodeDelta(Blob(cells, blob.crc), Dimensions) = None
                 /\ changes # None => EncodedCells(changes, Dimensions) = cells
=============================================================================
