--------------------------- MODULE TurboVecImage ---------------------------
(***************************************************************************)
(* The base image on its way into the chunks and out of them again.        *)
(* Elsewhere the base is one value; here it is a sequence of bytes.  One   *)
(* connection serializes its index through ChunkWriter and commits, or     *)
(* commits a delta beside the base.  Another one loads the index with the  *)
(* statements of read_index, which need not all see the same commit, and   *)
(* keeps the copy it loaded, bringing it forward as refresh does.          *)
(*                                                                         *)
(* The library that serializes and loads is external: it writes and reads  *)
(* in pieces of any size, and knows from an image where the image ends.    *)
(***************************************************************************)
EXTENDS Integers, Sequences

CONSTANTS
  Byte,
  Images,          \* what an index may serialize to
  ChunkSize,       \* CHUNK_SIZE
  LastChunk,       \* bound: no image has a chunk beyond it
  CallSizes,       \* bytes in one write or read of the library
  MaxGeneration,   \* bound: commits
  None             \* no writer, no reader, no copy

ChunkId == 0 .. LastChunk
(* The sequences of bytes; a chunk that is absent is empty: no chunk that  *)
(* is stored is.                                                           *)
Bytes == Seq(Byte)
Generation == 0 .. MaxGeneration

StartsWith(long, short) ==
  Len(short) <= Len(long) /\ \A i \in 1 .. Len(short) : short[i] = long[i]

ASSUME ImageAssumption ==
  /\ ChunkSize \in Nat \ {0}
  /\ LastChunk \in Nat /\ MaxGeneration \in Nat
  /\ CallSizes \subseteq Nat
  /\ Images \subseteq Bytes
  /\ \A image \in Images :
       image # <<>> /\ Len(image) <= (LastChunk + 1) * ChunkSize
  /\ \A long, short \in Images : StartsWith(long, short) => long = short

VARIABLES
  file,     \* the committed _info (or _meta) row and _chunks
  writer,   \* the ChunkWriter of a compaction in progress
  reader,   \* the read_index in progress
  copy      \* the index the reading connection holds

imageVars == <<file, writer, reader, copy>>

(* `image` and `baseAt`, the image of the base and the generation it was   *)
(* written at, are history that no action reads.                           *)
File == [generation : Generation, byteLen : Int, chunks : [ChunkId -> Bytes],
         deltas : SUBSET Generation, image : Images, baseAt : Generation]

(* offered counts the bytes of the write calls so far (byte_len), taken    *)
(* those that reached the buffer; chunks is _chunks in this transaction.   *)
Writer == [image : Images, offered : Nat, taken : Nat, buffer : Bytes,
           chunkId : Nat, chunks : [ChunkId -> Bytes]]

(* seen is what the running statement of the reader sees; held, that an    *)
(* outer statement keeps that snapshot from the first one to the last.     *)
Reader == [next : {"lengths", "open", "load", "deltas"}, held : BOOLEAN,
           seen : File, generation : Generation, expected : Nat,
           expectsDeltas : BOOLEAN, count : Nat,
           chunkId : ChunkId, pos : Nat, out : Bytes]

(* applied[d] is how often the delta of generation d was replayed.         *)
Copy == [generation : Generation, base : Images, applied : [Generation -> Nat]]
Times(deltas) == [d \in Generation |-> IF d \in deltas THEN 1 ELSE 0]

(* Every field has its type; the expected length is a natural however      *)
(* byte_len is encoded (decode_byte_len), and the reader stays within the  *)
(* chunks there are (ChunkReader).                                         *)
TypeOK ==
  /\ file \in File
  /\ writer \in Writer \cup {None}
  /\ reader \in Reader \cup {None}
  /\ copy \in Copy \cup {None}

(* The geometry of an image cut into chunks. *)
Least(a, b) == IF a <= b THEN a ELSE b
Piece(image, id) ==
  SubSeq(image, id * ChunkSize + 1, Least((id + 1) * ChunkSize, Len(image)))
Split(image) == [id \in ChunkId |-> Piece(image, id)]

ImageInit ==
  /\ \E image \in Images :
       file = [generation |-> 0, byteLen |-> Len(image), chunks |-> Split(image),
               deltas |-> {}, image |-> image, baseAt |-> 0]
  /\ writer = None /\ reader = None /\ copy = None
-----------------------------------------------------------------------------
(* ChunkWriter.  A chunk that did not change is not written; one of the    *)
(* same length is patched from its first difference to its last.           *)

(* Mutant: the patch stops before the last difference. *)
PatchedShort(old, piece) ==
  LET differ == {i \in DOMAIN piece : old[i] # piece[i]}
  IN  [i \in DOMAIN piece |->
         IF \E a, b \in differ : a <= i /\ i < b THEN piece[i] ELSE old[i]]
Patched(old, piece) ==
  LET differ == {i \in DOMAIN piece : old[i] # piece[i]}
  IN  [i \in DOMAIN piece |->
         IF \E a, b \in differ : a <= i /\ i <= b THEN piece[i] ELSE old[i]]

WriteChunk(chunks, id, piece) ==
  IF piece = <<>> THEN chunks
  ELSE [chunks EXCEPT ![id] =
          IF Len(@) = Len(piece) THEN Patched(@, piece) ELSE piece]

(* write_index creates the writer; the write lock is its transaction's.    *)
StartWrite ==
  /\ writer = None /\ file.generation < MaxGeneration
  /\ \E image \in Images :
       writer' = [image |-> image, offered |-> 0, taken |-> 0, buffer |-> <<>>,
                  chunkId |-> 0, chunks |-> file.chunks]
  /\ UNCHANGED <<file, reader, copy>>

(* The library calls write(). *)
WriteCall ==
  /\ writer # None /\ writer.taken = writer.offered
  /\ \E n \in CallSizes :
       /\ writer.offered + n <= Len(writer.image)
       /\ writer' = [writer EXCEPT !.offered = @ + n]
  /\ UNCHANGED <<file, reader, copy>>

(* One turn of the loop in write(). *)
Filled(w) ==
  LET take == Least(w.offered - w.taken, ChunkSize - Len(w.buffer))
      buffer == w.buffer \o SubSeq(w.image, w.taken + 1, w.taken + take)
  IN  IF Len(buffer) = ChunkSize
      THEN [w EXCEPT !.taken = @ + take, !.buffer = <<>>, !.chunkId = @ + 1,
                     !.chunks = WriteChunk(@, w.chunkId, buffer)]
      ELSE [w EXCEPT !.taken = @ + take, !.buffer = buffer]

Fill ==
  /\ writer # None /\ writer.taken < writer.offered
  /\ writer' = Filled(writer)
  /\ UNCHANGED <<file, reader, copy>>

(* The library may flush in the middle of a chunk, which is kept and later *)
(* extended in place.                                                      *)
(* Mutant: the flushed chunk is not kept. *)
FlushedAway(w) ==
  [w EXCEPT !.chunks = WriteChunk(@, w.chunkId, w.buffer), !.buffer = <<>>]
Flushed(w) == [w EXCEPT !.chunks = WriteChunk(@, w.chunkId, w.buffer)]

Flush ==
  /\ writer # None /\ writer.taken = writer.offered
  /\ writer' = Flushed(writer)
  /\ UNCHANGED <<file, reader, copy>>

(* The serializer or a statement fails and the transaction is rolled back. *)
WriteFails ==
  /\ writer # None
  /\ writer' = None
  /\ UNCHANGED <<file, reader, copy>>

(* The end of write_index, record_compaction, and COMMIT: the last chunk,  *)
(* then every delta and every chunk past the new end is deleted.           *)
(* Mutant: the chunks past the new end stay. *)
AllChunks(chunks, count) == chunks
UpTo(chunks, count) == [id \in ChunkId |-> IF id < count THEN chunks[id] ELSE <<>>]

Compacted(w) ==
  LET count == IF w.buffer = <<>> THEN w.chunkId ELSE w.chunkId + 1
  IN  [generation |-> file.generation + 1, byteLen |-> w.offered,
       chunks |-> UpTo(Flushed(w).chunks, count), deltas |-> {},
       image |-> w.image, baseAt |-> file.generation + 1]

CommitImage ==
  /\ writer # None /\ writer.taken = Len(writer.image)
  /\ file' = Compacted(writer)
  /\ writer' = None
  /\ UNCHANGED <<reader, copy>>

(* write_delta, record_delta and COMMIT. *)
CommitDelta ==
  /\ writer = None /\ file.generation < MaxGeneration
  /\ file' = [file EXCEPT !.generation = @ + 1,
                          !.byteLen = IF @ >= 0 THEN -@ - 1 ELSE @,
                          !.deltas = @ \cup {file.generation + 1}]
  /\ UNCHANGED <<writer, reader, copy>>
-----------------------------------------------------------------------------
(* read_index: the metadata row, the lengths of the chunks, the base as a  *)
(* stream, the deltas.  In a search or in a write all of it sees one       *)
(* snapshot; in xConnect and in turbovec_info() each statement, and the    *)
(* stream, has its own.                                                    *)

HasDeltas(f) == f.byteLen < 0
(* Mutant: the length is used as it is stored. *)
RawLength(f) == f.byteLen
BaseLength(f) == IF f.byteLen < 0 THEN -f.byteLen - 1 ELSE f.byteLen

Reading(step) == reader # None /\ reader.next = step
Look == IF reader.held THEN reader.seen ELSE file
LoadFails == reader' = None /\ copy' = None

ReadMeta ==
  /\ reader = None /\ copy = None
  /\ \E held \in BOOLEAN :
       reader' = [next |-> "lengths", held |-> held, seen |-> file,
                  generation |-> file.generation, expected |-> BaseLength(file),
                  expectsDeltas |-> HasDeltas(file),
                  count |-> 0, chunkId |-> 0, pos |-> 0, out |-> <<>>]
  /\ UNCHANGED <<file, writer, copy>>

(* validate_chunks: the chunks are 0, 1, 2, ..., all but the last are      *)
(* full, and they add up to the recorded length.                           *)
Geometry(chunks, count, expected) ==
  /\ \A id \in ChunkId : chunks[id] # <<>> <=> id < count
  /\ \A id \in ChunkId : id + 1 < count => Len(chunks[id]) = ChunkSize
  /\ expected = IF count = 0 THEN 0
                ELSE (count - 1) * ChunkSize + Len(chunks[count - 1])

ReadLengths ==
  /\ Reading("lengths")
  /\ \/ \E count \in 1 .. LastChunk + 1 :
          /\ Geometry(Look.chunks, count, reader.expected)
          /\ reader' = [reader EXCEPT !.next = "open", !.seen = Look, !.count = count]
          /\ UNCHANGED copy
     \/ /\ \A count \in 1 .. LastChunk + 1 :
             ~Geometry(Look.chunks, count, reader.expected)
        /\ LoadFails
  /\ UNCHANGED <<file, writer>>

Remaining(r) == r.expected - Len(r.out)
(* check_chunk_len: the chunk is as long as what is left allows. *)
ChunkFits(chunk, remaining) == Len(chunk) = Least(remaining, ChunkSize)

(* ChunkReader::open and check_format, which reads a header and rewinds.   *)
OpenBase ==
  /\ Reading("open")
  /\ IF ChunkFits(Look.chunks[0], Remaining(reader))
     THEN reader' = [reader EXCEPT !.next = "load", !.seen = Look] /\ UNCHANGED copy
     ELSE LoadFails
  /\ UNCHANGED <<file, writer>>

(* read(): an empty destination reads nothing; at the end of a chunk the   *)
(* next one is opened and its length checked.  read_to_end stops at the    *)
(* expected length.                                                        *)
(* Mutant: an empty destination is taken for the end of the chunk. *)
AnyWanted == CallSizes
Wanted == CallSizes \ {0}

Gives(r, n) ==
  Least(Least(n, Remaining(r)), Len(r.seen.chunks[r.chunkId]) - r.pos)
Delivered(r, n) ==
  [r EXCEPT !.pos = @ + Gives(r, n),
            !.out = @ \o SubSeq(r.seen.chunks[r.chunkId], r.pos + 1, r.pos + Gives(r, n))]

LoaderRead ==
  /\ Reading("load") /\ Remaining(reader) > 0
  /\ \E n \in Wanted :
       /\ Gives(reader, n) > 0
       /\ reader' = Delivered(reader, n)
  /\ UNCHANGED <<file, writer, copy>>

(* Mutant: the end of the chunk is met again and again. *)
SameChunk(r) == r
NextOpened(r) == [r EXCEPT !.chunkId = @ + 1, !.pos = 0]

NextChunk ==
  /\ Reading("load") /\ Remaining(reader) > 0
  /\ \E n \in Wanted : Gives(reader, n) = 0
  /\ IF /\ reader.chunkId + 1 < reader.count
        /\ ChunkFits(reader.seen.chunks[reader.chunkId + 1], Remaining(reader))
     THEN reader' = NextOpened(reader) /\ UNCHANGED copy
     ELSE LoadFails
  /\ UNCHANGED <<file, writer>>

LoadEnds ==
  /\ Reading("load") /\ Remaining(reader) = 0
  /\ IF reader.out \in Images
     THEN reader' = [reader EXCEPT !.next = "deltas"] /\ UNCHANGED copy
     ELSE LoadFails
  /\ UNCHANGED <<file, writer>>

(* The deltas run without a gap to the generation of the metadata row, and *)
(* are there exactly when it says so.                                      *)
Unbroken(deltas) == \A d, e \in deltas : d .. e \subseteq deltas
(* Mutant: the last delta may be of any generation. *)
AnyEnd(deltas, generation, expectsDeltas) ==
  Unbroken(deltas) /\ (expectsDeltas <=> deltas # {})
EndsAt(deltas, generation, expectsDeltas) ==
  /\ Unbroken(deltas)
  /\ expectsDeltas <=> deltas # {}
  /\ expectsDeltas => generation \in deltas /\ \A d \in deltas : d <= generation

ReadDeltas ==
  /\ Reading("deltas")
  /\ IF EndsAt(Look.deltas, reader.generation, reader.expectsDeltas)
     THEN /\ copy' = [generation |-> reader.generation, base |-> reader.out,
                      applied |-> Times(Look.deltas)]
          /\ reader' = None
     ELSE LoadFails
  /\ UNCHANGED <<file, writer>>

(* A statement of the read fails.                                          *)
ReadFails ==
  /\ reader # None
  /\ LoadFails
  /\ UNCHANGED <<file, writer>>

(* refresh at a later statement: the copy is kept, brought forward or      *)
(* dropped.                                                                *)
(* Mutant: deltas are replayed on whatever base the copy has. *)
AnyNewer(c, f) == c.generation < f.generation /\ f.deltas # {}
CatchesUp(c, f) ==
  /\ c.generation < f.generation
  /\ \E d \in f.deltas : d <= c.generation
  /\ c.generation + 1 .. f.generation \subseteq f.deltas

CaughtUp(c, f) ==
  [generation |-> f.generation, base |-> c.base,
   applied |-> [d \in Generation |->
     c.applied[d] + Times(c.generation + 1 .. f.generation)[d]]]

Refresh ==
  /\ copy # None /\ copy.generation # file.generation
  /\ copy' = IF CatchesUp(copy, file) THEN CaughtUp(copy, file) ELSE None
  /\ UNCHANGED <<file, writer, reader>>

(* The copy is given up: a rollback dropped it, or the connection closed.  *)
Drop ==
  /\ copy # None
  /\ copy' = None
  /\ UNCHANGED <<file, writer, reader>>

Write == StartWrite \/ WriteCall \/ Fill \/ Flush \/ WriteFails
           \/ CommitImage \/ CommitDelta
Load == ReadLengths \/ OpenBase \/ LoaderRead \/ NextChunk \/ LoadEnds \/ ReadDeltas
ImageNext == Write \/ ReadMeta \/ Load \/ ReadFails \/ Refresh \/ Drop

ImageSpec == ImageInit /\ [][ImageNext]_imageVars
(* read_index is one call that runs to its end. *)
FairImageSpec == ImageSpec /\ WF_imageVars(Load)
-----------------------------------------------------------------------------
(* Properties. *)

(* Whatever was in the chunks before, and however the library cut its      *)
(* writes and flushed, a commit leaves the image that was serialized, cut  *)
(* into chunks, with nothing of a longer one behind it, and a length that  *)
(* says so (write_chunk, write_index).                                     *)
StoredImageWhole ==
  /\ file.chunks = Split(file.image)
  /\ BaseLength(file) = Len(file.image)
  /\ HasDeltas(file) <=> file.deltas # {}

(* The loader is handed the image of one commit from its beginning, no     *)
(* byte skipped or repeated, however it cuts its reads (read).             *)
HandsOutImage == reader # None => StartsWith(reader.seen.image, reader.out)

(* A copy that refresh will trust, because its generation is the stored    *)
(* one, is the stored base with every delta replayed once, even if the     *)
(* parts it was read in saw different commits (read_index, catch_up).      *)
TrustedCopyIsStored ==
  copy # None /\ copy.generation = file.generation
    => copy.base = file.image /\ copy.applied = Times(file.deltas)

(* A load ends, with a copy or with an error (read, read_index).           *)
ReadEnds == reader # None ~> reader = None
=============================================================================
