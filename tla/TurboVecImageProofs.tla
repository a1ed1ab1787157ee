------------------------ MODULE TurboVecImageProofs ------------------------
(***************************************************************************)
(* What is stored is the image that was serialized, what is handed to the  *)
(* loader is a stored image, and a copy refresh trusts is the stored base  *)
(* with its deltas: for every chunk size, every set of images and every    *)
(* way the library cuts its reads and writes.                              *)
(***************************************************************************)
EXTENDS TurboVecImage, SequenceTheorems, TLAPS

(* A version of the file: its chunks are its image, and its deltas run     *)
(* from the compaction that wrote it to its generation.                    *)
Whole(f) ==
  /\ f.chunks = Split(f.image)
  /\ BaseLength(f) = Len(f.image)
  /\ HasDeltas(f) <=> f.deltas # {}
  /\ f.baseAt <= f.generation
  /\ f.deltas = f.baseAt + 1 .. f.generation

(* A snapshot that is not older than the stored base has that base.        *)
Before(s, f) ==
  /\ s.generation <= f.generation
  /\ s.generation >= f.baseAt => s.image = f.image /\ s.baseAt = f.baseAt

(* The chunks before the writer's own are those of its image, and the      *)
(* buffer is the beginning of the next one.                                *)
WriterOK(w) ==
  /\ w \in Writer
  /\ w.taken <= w.offered /\ w.offered <= Len(w.image)
  /\ w.taken = w.chunkId * ChunkSize + Len(w.buffer)
  /\ Len(w.buffer) < ChunkSize
  /\ w.buffer = SubSeq(w.image, w.chunkId * ChunkSize + 1, w.taken)
  /\ \A id \in ChunkId : id < w.chunkId => w.chunks[id] = Piece(w.image, id)

WriterInv == writer # None => WriterOK(writer) /\ file.generation < MaxGeneration

(* Where the loader is in the image of the snapshot it reads.              *)
Streaming(r) ==
  /\ r.next \in {"lengths", "open"} => r.out = <<>> /\ r.chunkId = 0 /\ r.pos = 0
  /\ r.next = "load" =>
       /\ Len(r.out) = r.chunkId * ChunkSize + r.pos
       /\ Len(r.out) <= Len(r.seen.image)
       /\ r.pos <= Len(r.seen.chunks[r.chunkId])
       /\ r.out = SubSeq(r.seen.image, 1, Len(r.out))
  /\ r.next = "deltas" => r.out = r.seen.image

ReaderOK(r) ==
  /\ r \in Reader
  /\ Whole(r.seen)
  /\ r.generation <= r.seen.generation
  /\ r.count <= LastChunk + 1
  /\ Streaming(r)

ReaderInv == reader # None => ReaderOK(reader) /\ Before(reader.seen, file)

(* A copy not older than the stored base was loaded from it.               *)
CopyInv ==
  copy # None =>
    /\ copy.generation <= file.generation
    /\ copy.generation >= file.baseAt =>
         /\ copy.base = file.image
         /\ copy.applied = Times(file.baseAt + 1 .. copy.generation)

ImageInv == TypeOK /\ Whole(file) /\ WriterInv /\ ReaderInv /\ CopyInv
-----------------------------------------------------------------------------
(* Arithmetic of chunk boundaries. *)

LEMMA Boundaries ==
  ASSUME NEW j \in Nat, NEW k \in Nat
  PROVE  /\ j * ChunkSize \in Nat
         /\ (j + 1) * ChunkSize = j * ChunkSize + ChunkSize
         /\ j < k => j * ChunkSize + ChunkSize <= k * ChunkSize
PROOF
  <1>1. ChunkSize \in Nat /\ ChunkSize > 0
    BY ImageAssumption
  <1>2. j * ChunkSize \in Nat /\ k * ChunkSize \in Nat
    BY <1>1
  <1>3. (j + 1) * ChunkSize = j * ChunkSize + ChunkSize
    BY <1>1
  <1>4. ASSUME j < k PROVE j * ChunkSize + ChunkSize <= k * ChunkSize
    <2>1. PICK d \in Nat : k = j + 1 + d
      <3>1. k - (j + 1) \in Nat /\ k = j + 1 + (k - (j + 1))
        BY <1>4
      <3> QED BY <3>1
    <2>2. k * ChunkSize = j * ChunkSize + ChunkSize + d * ChunkSize
      BY <2>1, <1>1
    <2>3. d * ChunkSize \in Nat
      BY <1>1
    <2> QED BY <2>2, <2>3, <1>1, <1>2
  <1> QED BY <1>1, <1>2, <1>3, <1>4

(* The bytes from a to b of a sequence of bytes. *)
LEMMA CutLength ==
  ASSUME NEW s \in Bytes, NEW a \in Nat \ {0}, NEW b \in Nat, a <= b + 1, b <= Len(s)
  PROVE  /\ SubSeq(s, a, b) \in Bytes
         /\ Len(SubSeq(s, a, b)) = b - a + 1
PROOF
  <1>1. Len(s) \in Nat /\ \A i \in 1 .. Len(s) : s[i] \in Byte
    BY LenProperties, ElementOfSeq DEF Bytes
  <1>2. \A i \in a .. b : s[i] \in Byte
    BY <1>1
  <1>3. a \in Int /\ b \in Int
    OBVIOUS
  <1>4. /\ SubSeq(s, a, b) \in Seq(Byte)
        /\ Len(SubSeq(s, a, b)) = IF a <= b THEN b - a + 1 ELSE 0
    BY <1>2, <1>3, SubSeqProperties
  <1> QED BY <1>4 DEF Bytes

(* Cut and go on cutting where the first cut ended. *)
LEMMA Extended ==
  ASSUME NEW s \in Bytes, NEW lo \in Nat,
         NEW a \in lo .. Len(s), NEW b \in a .. Len(s)
  PROVE  /\ SubSeq(s, lo + 1, a) \o SubSeq(s, a + 1, b) = SubSeq(s, lo + 1, b)
         /\ SubSeq(s, lo + 1, b) \in Bytes
         /\ Len(SubSeq(s, lo + 1, b)) = b - lo
PROOF
  <1>1. Len(s) \in Nat
    BY LenProperties DEF Bytes
  <1>2. PICK from \in Nat \ {0} : from = lo + 1
    OBVIOUS
  <1>3. from \in 1 .. Len(s) + 1 /\ a \in from - 1 .. Len(s) /\ b \in a .. Len(s)
    BY <1>1, <1>2
  <1>4. SubSeq(s, from, a) \o SubSeq(s, a + 1, b) = SubSeq(s, from, b)
    BY <1>3, ConcatAdjacentSubSeq DEF Bytes
  <1>5. SubSeq(s, from, b) \in Bytes /\ Len(SubSeq(s, from, b)) = b - from + 1
    BY <1>1, <1>2, <1>3, CutLength
  <1> QED BY <1>1, <1>2, <1>4, <1>5

(* A cut within a cut. *)
LEMMA CutOfCut ==
  ASSUME NEW s \in Bytes, NEW lo \in Nat, NEW size \in Nat, NEW p \in Nat, NEW g \in Nat,
         g > 0, p + g <= size, lo + size <= Len(s)
  PROVE  SubSeq(SubSeq(s, lo + 1, lo + size), p + 1, p + g)
           = SubSeq(s, lo + p + 1, lo + p + g)
PROOF
  <1>1. Len(s) \in Nat
    BY LenProperties DEF Bytes
  <1>2. PICK i \in 1 .. Len(s), j \in 1 .. Len(s) : i = lo + 1 /\ j = lo + size
    BY <1>1
  <1>3. PICK m \in 1 .. j - i + 1, n \in 1 .. j - i + 1 : m = p + 1 /\ n = p + g
    BY <1>1, <1>2
  <1>4. i + m - 1 = lo + p + 1 /\ i + n - 1 = lo + p + g
    BY <1>1, <1>2, <1>3
  <1>5. SubSeq(SubSeq(s, i, j), m, n) = SubSeq(s, i + m - 1, i + n - 1)
    <2>1. SubSeq(s, i, j) \in Seq(Byte) /\ s \in Seq(Byte)
      BY <1>1, <1>2, CutLength DEF Bytes
    <2> QED BY <1>1, <1>2, <1>3, <2>1, SubSeqOfSubSeq
  <1> QED BY <1>2, <1>3, <1>4, <1>5

(* A piece of an image, by where its chunk begins and ends.                *)
LEMMA PieceIs ==
  ASSUME NEW image \in Bytes, NEW id \in Nat
  PROVE  /\ Piece(image, id) \in Bytes
         /\ (id + 1) * ChunkSize <= Len(image) =>
              /\ Piece(image, id) = SubSeq(image, id * ChunkSize + 1, (id + 1) * ChunkSize)
              /\ Len(Piece(image, id)) = ChunkSize
         /\ (id + 1) * ChunkSize > Len(image) =>
              Piece(image, id) = SubSeq(image, id * ChunkSize + 1, Len(image))
         /\ id * ChunkSize >= Len(image) => Piece(image, id) = <<>>
         /\ id * ChunkSize < Len(image) =>
              Len(Piece(image, id)) = Least(ChunkSize, Len(image) - id * ChunkSize)
PROOF
  <1> DEFINE lo == id * ChunkSize
             hi == (id + 1) * ChunkSize
             len == Len(image)
             end == Least(hi, len)
  <1>1. lo \in Nat /\ hi = lo + ChunkSize /\ ChunkSize \in Nat /\ ChunkSize > 0 /\ len \in Nat
    BY Boundaries, ImageAssumption, LenProperties DEF Bytes
  <1>2. end \in Nat /\ end <= len /\ (hi <= len => end = hi) /\ (hi > len => end = len)
    BY <1>1 DEF Least
  <1>3. Piece(image, id) = SubSeq(image, lo + 1, end)
    BY DEF Piece
  <1>4. \A i \in lo + 1 .. end : image[i] \in Byte
    BY <1>1, <1>2, ElementOfSeq DEF Bytes
  <1> HIDE DEF lo, hi, len, end
  <1>5. /\ SubSeq(image, lo + 1, end) \in Seq(Byte)
        /\ Len(SubSeq(image, lo + 1, end)) = IF lo + 1 <= end THEN end - lo ELSE 0
    BY <1>1, <1>2, <1>4, SubSeqProperties
  <1>6. Piece(image, id) \in Bytes
    BY <1>3, <1>5 DEF Bytes
  <1>7. hi <= len => Piece(image, id) = SubSeq(image, lo + 1, hi) /\ Len(Piece(image, id)) = ChunkSize
    BY <1>1, <1>2, <1>3, <1>5
  <1>8. hi > len => Piece(image, id) = SubSeq(image, lo + 1, len)
    BY <1>1, <1>2, <1>3
  <1>9. lo >= len => Piece(image, id) = <<>>
    BY <1>1, <1>2, <1>3, SubSeqEmpty
  <1>10. lo < len => Len(Piece(image, id)) = Least(ChunkSize, len - lo)
    BY <1>1, <1>2, <1>3, <1>5 DEF Least
  <1> QED BY <1>6, <1>7, <1>8, <1>9, <1>10 DEF lo, hi, len

LEMMA SplitType ==
  ASSUME NEW image \in Images
  PROVE  /\ image \in Bytes
         /\ Split(image) \in [ChunkId -> Bytes]
PROOF
  <1>1. image \in Bytes
    BY ImageAssumption
  <1>2. \A id \in ChunkId : Piece(image, id) \in Bytes
    BY <1>1, PieceIs, ImageAssumption DEF ChunkId
  <1> QED BY <1>1, <1>2 DEF Split

(* Patching from the first difference to the last gives the new bytes.     *)
LEMMA PatchIsPiece ==
  ASSUME NEW old \in Bytes, NEW piece \in Bytes, Len(old) = Len(piece)
  PROVE  Patched(old, piece) = piece
PROOF
  <1> DEFINE differ == {i \in DOMAIN piece : old[i] # piece[i]}
             kept(i) == IF \E a, b \in differ : a <= i /\ i <= b THEN piece[i] ELSE old[i]
  <1>1. piece = [i \in DOMAIN piece |-> piece[i]] /\ DOMAIN piece = 1 .. Len(piece)
        /\ Len(piece) \in Nat
    BY LenProperties DEF Bytes
  <1>2. ASSUME NEW i \in DOMAIN piece PROVE kept(i) = piece[i]
    <2>1. CASE old[i] = piece[i]
      BY <2>1
    <2>2. CASE old[i] # piece[i]
      <3>1. i \in differ /\ i <= i
        BY <2>2, <1>1, <1>2
      <3> QED BY <3>1
    <2> QED BY <2>1, <2>2
  <1>3. Patched(old, piece) = [i \in DOMAIN piece |-> kept(i)]
    BY DEF Patched
  <1> HIDE DEF kept
  <1> QED BY <1>1, <1>2, <1>3

LEMMA WriteChunkIs ==
  ASSUME NEW chunks \in [ChunkId -> Bytes], NEW id, NEW piece \in Bytes
  PROVE  WriteChunk(chunks, id, piece) =
           IF piece = <<>> THEN chunks ELSE [chunks EXCEPT ![id] = piece]
PROOF
  <1>1. CASE piece = <<>>
    BY <1>1 DEF WriteChunk
  <1>2. CASE piece # <<>> /\ id \notin ChunkId
    <2>1. [chunks EXCEPT ![id] = piece] = chunks
      BY <1>2
    <2>2. WriteChunk(chunks, id, piece) = chunks
      BY <1>2 DEF WriteChunk
    <2> QED BY <2>1, <2>2, <1>2
  <1>3. CASE piece # <<>> /\ id \in ChunkId
    <2>1. chunks[id] \in Bytes
      BY <1>3
    <2>2. Len(chunks[id]) = Len(piece) => Patched(chunks[id], piece) = piece
      BY <2>1, PatchIsPiece
    <2> QED BY <1>3, <2>2 DEF WriteChunk
  <1> QED BY <1>1, <1>2, <1>3
-----------------------------------------------------------------------------
(* The writer. *)

(* A chunk that is written leaves the others alone. *)
LEMMA WriteChunkType ==
  ASSUME NEW chunks \in [ChunkId -> Bytes], NEW id, NEW piece \in Bytes
  PROVE  /\ WriteChunk(chunks, id, piece) \in [ChunkId -> Bytes]
         /\ \A j \in ChunkId : j # id => WriteChunk(chunks, id, piece)[j] = chunks[j]
         /\ id \in ChunkId /\ piece # <<>> => WriteChunk(chunks, id, piece)[id] = piece
PROOF
  <1>1. WriteChunk(chunks, id, piece) =
          IF piece = <<>> THEN chunks ELSE [chunks EXCEPT ![id] = piece]
    BY WriteChunkIs
  <1> QED BY <1>1

LEMMA Filling ==
  ASSUME NEW w, WriterOK(w), w.taken < w.offered
  PROVE  WriterOK(Filled(w)) /\ Filled(w).offered = w.offered
PROOF
  <1> DEFINE lo == w.chunkId * ChunkSize
             len == Len(w.image)
             take == Least(w.offered - w.taken, ChunkSize - Len(w.buffer))
             more == SubSeq(w.image, w.taken + 1, w.taken + take)
             buffer == w.buffer \o more
             full == [w EXCEPT !.taken = @ + take, !.buffer = <<>>, !.chunkId = @ + 1,
                               !.chunks = WriteChunk(@, w.chunkId, buffer)]
             part == [w EXCEPT !.taken = @ + take, !.buffer = buffer]
  <1>1. /\ w \in Writer /\ w.image \in Images /\ w.image \in Bytes /\ w.offered \in Nat
        /\ w.taken \in Nat /\ w.buffer \in Bytes /\ w.chunkId \in Nat
        /\ w.chunks \in [ChunkId -> Bytes] /\ len \in Nat /\ Len(w.buffer) \in Nat
        /\ ChunkSize \in Nat /\ ChunkSize > 0 /\ lo \in Nat
    <2>1. /\ w \in Writer /\ w.image \in Images /\ w.offered \in Nat
          /\ w.taken \in Nat /\ w.buffer \in Bytes /\ w.chunkId \in Nat
          /\ w.chunks \in [ChunkId -> Bytes]
      BY DEF WriterOK, Writer
    <2>2. w.image \in Bytes /\ ChunkSize \in Nat /\ ChunkSize > 0
      BY <2>1, ImageAssumption
    <2>3. lo \in Nat
      BY <2>1, Boundaries
    <2>4. len \in Nat /\ Len(w.buffer) \in Nat
      BY <2>1, <2>2, LenProperties DEF Bytes
    <2> QED BY <2>1, <2>2, <2>3, <2>4
  <1>2. /\ w.taken < w.offered /\ w.offered <= len /\ w.taken = lo + Len(w.buffer)
        /\ Len(w.buffer) < ChunkSize /\ w.buffer = SubSeq(w.image, lo + 1, w.taken)
    BY DEF WriterOK
  <1> DEFINE had == Len(w.buffer)
  <1> HIDE DEF lo, len
  <1>10. /\ had \in Nat /\ had < ChunkSize /\ w.taken = lo + had
        /\ lo \in Nat /\ len \in Nat /\ w.taken \in Nat /\ w.offered \in Nat
        /\ ChunkSize \in Nat /\ w.offered <= len
    BY <1>1, <1>2
  <1> HIDE DEF had
  <1>3. /\ take \in Nat /\ take > 0 /\ w.taken + take <= w.offered
        /\ had + take <= ChunkSize
    <2>1. /\ w.offered - w.taken \in Nat /\ w.offered - w.taken > 0
          /\ ChunkSize - had \in Nat /\ ChunkSize - had > 0
      BY <1>10, <1>2
    <2>2. /\ take \in {w.offered - w.taken, ChunkSize - had}
          /\ take <= w.offered - w.taken /\ take <= ChunkSize - had
      BY <2>1 DEF Least, had
    <2> QED BY <2>1, <2>2, <1>10
  <1> HIDE DEF take
  <1>4. /\ w.taken \in lo .. len /\ w.taken + take \in w.taken .. len
        /\ lo + 1 \in 1 .. len + 1
    BY <1>10, <1>2, <1>3
  <1>5. /\ SubSeq(w.image, lo + 1, w.taken) \o SubSeq(w.image, w.taken + 1, w.taken + take)
             = SubSeq(w.image, lo + 1, w.taken + take)
        /\ SubSeq(w.image, lo + 1, w.taken + take) \in Bytes
        /\ Len(SubSeq(w.image, lo + 1, w.taken + take)) = w.taken + take - lo
    <2>1. w.image \in Bytes /\ lo \in Nat
      BY <1>1
    <2>2. w.taken \in lo .. Len(w.image) /\ w.taken + take \in w.taken .. Len(w.image)
      BY <1>4 DEF len
    <2>3. PICK b \in w.taken .. Len(w.image) : b = w.taken + take
      BY <2>2
    <2>4. PICK a \in lo .. Len(w.image) : a = w.taken
      BY <2>2
    <2>5. /\ SubSeq(w.image, lo + 1, a) \o SubSeq(w.image, a + 1, b) = SubSeq(w.image, lo + 1, b)
          /\ SubSeq(w.image, lo + 1, b) \in Bytes
          /\ Len(SubSeq(w.image, lo + 1, b)) = b - lo
      BY <2>1, <2>3, <2>4, Extended
    <2> QED BY <2>3, <2>4, <2>5, <1>10, <1>3
  <1>6. w.taken + take - lo = had + take
    BY <1>10, <1>3
  <1>7. buffer = SubSeq(w.image, lo + 1, w.taken + take)
    BY <1>5, <1>2
  <1>11. buffer \in Bytes /\ Len(buffer) = had + take
    BY <1>5, <1>6, <1>7
  <1> HIDE DEF buffer
  <1>8. CASE Len(buffer) = ChunkSize
    <2>1. /\ (w.chunkId + 1) * ChunkSize = lo + ChunkSize
          /\ w.taken + take = lo + ChunkSize /\ lo + ChunkSize <= len
      <3>1. (w.chunkId + 1) * ChunkSize = lo + ChunkSize
        BY <1>1, Boundaries DEF lo
      <3>2. w.taken + take = lo + ChunkSize /\ lo + ChunkSize <= len
        BY <1>10, <1>3, <1>11, <1>8
      <3> QED BY <3>1, <3>2
    <2>2. buffer = Piece(w.image, w.chunkId)
      <3>1. (w.chunkId + 1) * ChunkSize <= Len(w.image)
        BY <2>1 DEF len
      <3>2. Piece(w.image, w.chunkId) = SubSeq(w.image, lo + 1, (w.chunkId + 1) * ChunkSize)
        BY <3>1, <1>1, PieceIs DEF lo
      <3> QED BY <3>2, <2>1, <1>7
    <2>3. buffer # <<>>
      BY <1>8, <1>1, EmptySeq
    <2>4. /\ WriteChunk(w.chunks, w.chunkId, buffer) \in [ChunkId -> Bytes]
          /\ \A j \in ChunkId :
               j # w.chunkId => WriteChunk(w.chunks, w.chunkId, buffer)[j] = w.chunks[j]
          /\ w.chunkId \in ChunkId => WriteChunk(w.chunks, w.chunkId, buffer)[w.chunkId] = buffer
      BY <1>1, <1>11, <2>3, WriteChunkType
    <2>5. /\ full \in Writer /\ full.image = w.image /\ full.offered = w.offered
          /\ full.taken = w.taken + take /\ full.buffer = <<>> /\ full.chunkId = w.chunkId + 1
          /\ full.chunks = WriteChunk(w.chunks, w.chunkId, buffer)
      <3>1. w.taken + take \in Nat /\ w.chunkId + 1 \in Nat /\ <<>> \in Bytes
        BY <1>1, <1>3, EmptySeq DEF Bytes
      <3> QED BY <1>1, <2>4, <3>1 DEF Writer
    <2> HIDE DEF full
    <2>6. ASSUME NEW id \in ChunkId, id < full.chunkId
          PROVE  full.chunks[id] = Piece(full.image, id)
      <3>1. id < w.chunkId \/ id = w.chunkId
        BY <2>5, <2>6, <1>1, ImageAssumption DEF ChunkId
      <3>2. CASE id < w.chunkId
        <4>1. w.chunks[id] = Piece(w.image, id)
          BY <3>2 DEF WriterOK
        <4>2. id # w.chunkId
          BY <3>2, <1>1, ImageAssumption DEF ChunkId
        <4> QED BY <4>1, <4>2, <2>4, <2>5
      <3>3. CASE id = w.chunkId
        BY <3>3, <2>2, <2>4, <2>5
      <3> QED BY <3>1, <3>2, <3>3
    <2>7. Len(full.buffer) = 0 /\ full.taken = full.chunkId * ChunkSize + Len(full.buffer)
      BY <2>1, <2>5, <1>1, EmptySeq
    <2>8. full.buffer = SubSeq(full.image, full.chunkId * ChunkSize + 1, full.taken)
      <3>1. full.taken \in Int /\ full.chunkId * ChunkSize = full.taken
        BY <2>1, <2>5, <1>1
      <3>2. SubSeq(full.image, full.taken + 1, full.taken) = <<>>
        BY <3>1, SubSeqEmpty
      <3> QED BY <3>1, <3>2, <2>5
    <2>9. full.taken <= full.offered /\ full.offered <= Len(full.image)
      BY <2>5, <1>2, <1>3 DEF len
    <2>10. Filled(w) = full
      BY <1>8 DEF Filled, full, buffer, take
    <2> QED BY <2>5, <2>6, <2>7, <2>8, <2>9, <2>10, <1>1 DEF WriterOK
  <1>9. CASE Len(buffer) # ChunkSize
    <2>1. /\ part \in Writer /\ part.image = w.image /\ part.offered = w.offered
          /\ part.taken = w.taken + take /\ part.buffer = buffer /\ part.chunkId = w.chunkId
          /\ part.chunks = w.chunks
      <3>1. w.taken + take \in Nat
        BY <1>1, <1>3
      <3> QED BY <1>1, <1>11, <3>1 DEF Writer
    <2> HIDE DEF part
    <2>2. part.taken = lo + Len(part.buffer) /\ Len(part.buffer) < ChunkSize
      BY <2>1, <1>10, <1>3, <1>11, <1>9
    <2>3. part.taken <= part.offered /\ part.offered <= Len(part.image)
      BY <2>1, <1>2, <1>3 DEF len
    <2>4. \A id \in ChunkId : id < part.chunkId => part.chunks[id] = Piece(part.image, id)
      BY <2>1 DEF WriterOK
    <2>5. Filled(w) = part
      BY <1>9 DEF Filled, part, buffer, take
    <2> QED BY <2>1, <2>2, <2>3, <2>4, <2>5, <1>7 DEF WriterOK, lo
  <1> QED BY <1>8, <1>9

LEMMA Flushing ==
  ASSUME NEW w, WriterOK(w)
  PROVE  WriterOK(Flushed(w)) /\ Flushed(w).offered = w.offered
PROOF
  <1>1. w \in Writer /\ w.chunks \in [ChunkId -> Bytes] /\ w.buffer \in Bytes
        /\ w.chunkId \in Nat
    BY DEF WriterOK, Writer
  <1>2. /\ WriteChunk(w.chunks, w.chunkId, w.buffer) \in [ChunkId -> Bytes]
        /\ \A j \in ChunkId :
             j # w.chunkId => WriteChunk(w.chunks, w.chunkId, w.buffer)[j] = w.chunks[j]
    BY <1>1, WriteChunkType
  <1>3. /\ Flushed(w) \in Writer /\ Flushed(w).image = w.image
        /\ Flushed(w).offered = w.offered /\ Flushed(w).taken = w.taken
        /\ Flushed(w).buffer = w.buffer /\ Flushed(w).chunkId = w.chunkId
        /\ Flushed(w).chunks = WriteChunk(w.chunks, w.chunkId, w.buffer)
    BY <1>1, <1>2 DEF Flushed, Writer
  <1>4. ASSUME NEW id \in ChunkId, id < w.chunkId
        PROVE  Flushed(w).chunks[id] = Piece(w.image, id)
    <2>1. id # w.chunkId
      BY <1>4, <1>1, ImageAssumption DEF ChunkId
    <2>2. w.chunks[id] = Piece(w.image, id)
      BY <1>4 DEF WriterOK
    <2> QED BY <2>1, <2>2, <1>2, <1>3
  <1> QED BY <1>3, <1>4 DEF WriterOK

(* A finished writer commits its image. *)
LEMMA Compacting ==
  ASSUME file \in File, NEW w, WriterOK(w), w.taken = Len(w.image),
         file.generation < MaxGeneration
  PROVE  Compacted(w) \in File /\ Whole(Compacted(w))
PROOF
  <1> DEFINE lo == w.chunkId * ChunkSize
             len == Len(w.image)
             had == Len(w.buffer)
             count == IF w.buffer = <<>> THEN w.chunkId ELSE w.chunkId + 1
             flushed == WriteChunk(w.chunks, w.chunkId, w.buffer)
             chunks == UpTo(flushed, count)
             f == Compacted(w)
  <1>1. /\ w.image \in Images /\ w.image \in Bytes /\ w.offered \in Nat
        /\ w.buffer \in Bytes /\ w.chunkId \in Nat /\ w.chunks \in [ChunkId -> Bytes]
    BY ImageAssumption DEF WriterOK, Writer
  <1>2. /\ len \in Nat /\ had \in Nat /\ ChunkSize \in Nat /\ lo \in Nat
        /\ LastChunk \in Nat /\ len <= (LastChunk + 1) * ChunkSize
    BY <1>1, LenProperties, Boundaries, ImageAssumption DEF Bytes
  <1>3. len = lo + had /\ had < ChunkSize /\ w.offered = len
        /\ w.buffer = SubSeq(w.image, lo + 1, len)
    <2>1. /\ w.taken = len /\ w.taken <= w.offered /\ w.offered <= len
          /\ w.taken = lo + had /\ had < ChunkSize
          /\ w.buffer = SubSeq(w.image, lo + 1, w.taken)
      BY DEF WriterOK
    <2> HIDE DEF lo, len, had
    <2>2. w.offered = len
      BY <2>1, <1>1, <1>2
    <2> QED BY <2>1, <2>2
  <1>4. had = 0 <=> w.buffer = <<>>
    BY <1>1, <1>2, EmptySeq DEF Bytes
  <1>5. /\ flushed \in [ChunkId -> Bytes]
        /\ \A id \in ChunkId : id # w.chunkId => flushed[id] = w.chunks[id]
        /\ w.chunkId \in ChunkId /\ w.buffer # <<>> => flushed[w.chunkId] = w.buffer
    BY <1>1, WriteChunkType
  <1>6. \A id \in ChunkId : id < w.chunkId => w.chunks[id] = Piece(w.image, id)
    BY DEF WriterOK
  <1>7. (w.chunkId + 1) * ChunkSize = lo + ChunkSize
    BY <1>1, Boundaries
  <1> HIDE DEF lo, len, had, flushed
  <1>8. ASSUME NEW id \in ChunkId
        PROVE  chunks[id] = Piece(w.image, id)
    <2>1. id \in Nat /\ chunks[id] = IF id < count THEN flushed[id] ELSE <<>>
      BY <1>2 DEF ChunkId, UpTo
    <2>2. CASE id < w.chunkId
      <3>1. id < count /\ id # w.chunkId
        BY <2>1, <2>2, <1>1
      <3> QED BY <2>1, <3>1, <1>5, <1>6, <2>2
    <2>3. CASE id = w.chunkId /\ w.buffer # <<>>
      <3>1. id < count
        BY <2>1, <2>3, <1>1
      <3>2. chunks[id] = w.buffer
        BY <2>1, <2>3, <3>1, <1>5
      <3>3. (id + 1) * ChunkSize > len
        BY <2>3, <1>2, <1>3, <1>7
      <3>4. Piece(w.image, id) = SubSeq(w.image, id * ChunkSize + 1, len)
        BY <2>1, <3>3, <1>1, PieceIs DEF len
      <3>5. id * ChunkSize = lo
        BY <2>3 DEF lo
      <3> QED BY <3>2, <3>4, <3>5, <1>3
    <2>4. CASE id = w.chunkId /\ w.buffer = <<>>
      <3>1. ~(id < count)
        BY <2>1, <2>4, <1>1
      <3>2. id * ChunkSize = lo /\ lo >= len
        BY <2>4, <1>2, <1>3, <1>4 DEF lo
      <3>3. Piece(w.image, id) = <<>>
        BY <2>1, <3>2, <1>1, PieceIs DEF len
      <3> QED BY <2>1, <3>1, <3>3
    <2>5. CASE id > w.chunkId
      <3>1. ~(id < count)
        BY <2>1, <2>5, <1>1
      <3>2. lo + ChunkSize <= id * ChunkSize /\ id * ChunkSize \in Nat
        BY <2>1, <2>5, <1>1, Boundaries DEF lo
      <3>3. id * ChunkSize >= len
        BY <3>2, <1>2, <1>3
      <3>4. Piece(w.image, id) = <<>>
        BY <2>1, <3>3, <1>1, PieceIs DEF len
      <3> QED BY <2>1, <3>1, <3>4
    <2> QED BY <2>1, <2>2, <2>3, <2>4, <2>5, <1>1
  <1>9. chunks = Split(w.image) /\ chunks \in [ChunkId -> Bytes]
    <2>1. chunks = [id \in ChunkId |-> chunks[id]]
      BY DEF UpTo
    <2> HIDE DEF chunks
    <2>2. chunks = Split(w.image)
      BY <2>1, <1>8 DEF Split
    <2> QED BY <2>2, <1>1, SplitType
  <1>10. f.chunks = chunks
    BY DEF Compacted, Flushed, flushed
  <1>11. /\ f.generation = file.generation + 1 /\ f.byteLen = w.offered /\ f.deltas = {}
         /\ f.image = w.image /\ f.baseAt = file.generation + 1
    BY DEF Compacted
  <1>12. file.generation + 1 \in Generation
    BY ImageAssumption DEF File, Generation
  <1>13. f \in File
    <2>1. f = [generation |-> f.generation, byteLen |-> f.byteLen, chunks |-> f.chunks,
               deltas |-> f.deltas, image |-> f.image, baseAt |-> f.baseAt]
      BY DEF Compacted
    <2> HIDE DEF f
    <2>2. /\ f.generation \in Generation /\ f.byteLen \in Int /\ f.deltas \subseteq Generation
          /\ f.image \in Images /\ f.baseAt \in Generation /\ f.chunks \in [ChunkId -> Bytes]
      BY <1>1, <1>9, <1>10, <1>11, <1>12
    <2> QED BY <2>1, <2>2 DEF File
  <1>14. Whole(f)
    <2>1. BaseLength(f) = Len(f.image) /\ ~HasDeltas(f)
      BY <1>1, <1>2, <1>3, <1>11 DEF BaseLength, HasDeltas, len
    <2>2. f.deltas = f.baseAt + 1 .. f.generation /\ f.baseAt <= f.generation
      BY <1>11, <1>12 DEF Generation
    <2> QED BY <2>1, <2>2, <1>9, <1>10, <1>11 DEF Whole
  <1> QED BY <1>13, <1>14

(* A delta leaves the base and lengthens the chain by one. *)
LEMMA OneDelta ==
  ASSUME file \in File, Whole(file), file.generation < MaxGeneration
  PROVE  LET f == [file EXCEPT !.generation = @ + 1,
                          !.byteLen = IF @ >= 0 THEN -@ - 1 ELSE @,
                          !.deltas = @ \cup {file.generation + 1}]
         IN  f \in File /\ Whole(f) /\ f.image = file.image /\ f.baseAt = file.baseAt
             /\ f.generation = file.generation + 1
PROOF
  <1> DEFINE byteLen == IF file.byteLen >= 0 THEN -file.byteLen - 1 ELSE file.byteLen
             f == [file EXCEPT !.generation = @ + 1,
                          !.byteLen = IF @ >= 0 THEN -@ - 1 ELSE @,
                          !.deltas = @ \cup {file.generation + 1}]
  <1>1. /\ file.generation \in Generation /\ file.byteLen \in Int /\ file.image \in Images
        /\ file.deltas \subseteq Generation /\ file.baseAt \in Generation
        /\ file.chunks \in [ChunkId -> Bytes]
    BY DEF File
  <1>2. file.generation + 1 \in Generation /\ file.generation \in Nat /\ file.baseAt \in Nat
    BY <1>1, ImageAssumption DEF Generation
  <1>3. /\ f.generation = file.generation + 1 /\ f.byteLen = byteLen
        /\ f.chunks = file.chunks /\ f.deltas = file.deltas \cup {file.generation + 1}
        /\ f.image = file.image /\ f.baseAt = file.baseAt
    BY DEF File
  <1>4. f \in File
    <2>1. byteLen \in Int /\ file.deltas \cup {file.generation + 1} \subseteq Generation
      BY <1>1, <1>2
    <2>2. f = [file EXCEPT !.generation = file.generation + 1, !.byteLen = byteLen,
                           !.deltas = file.deltas \cup {file.generation + 1}]
      OBVIOUS
    <2> HIDE DEF byteLen, f
    <2> QED BY <1>1, <1>2, <2>1, <2>2 DEF File
  <1>5. byteLen < 0 /\ -byteLen - 1 = BaseLength(file)
    BY <1>1 DEF BaseLength
  <1>6. f.deltas = f.baseAt + 1 .. f.generation /\ f.baseAt <= f.generation
    <2>1. file.deltas = file.baseAt + 1 .. file.generation /\ file.baseAt <= file.generation
      BY DEF Whole
    <2>2. (file.baseAt + 1 .. file.generation) \cup {file.generation + 1}
            = file.baseAt + 1 .. file.generation + 1
      BY <1>2, <2>1
    <2> QED BY <1>2, <1>3, <2>1, <2>2
  <1> HIDE DEF byteLen
  <1>7. BaseLength(f) = Len(f.image) /\ HasDeltas(f) /\ f.deltas # {}
    BY <1>3, <1>5 DEF BaseLength, HasDeltas, Whole
  <1>8. Whole(f)
    BY <1>3, <1>6, <1>7 DEF Whole
  <1> QED BY <1>3, <1>4, <1>8
-----------------------------------------------------------------------------
(* The reader. *)

(* A piece ends within its image. *)
LEMMA PieceCut ==
  ASSUME NEW image \in Bytes, NEW id \in Nat, Len(Piece(image, id)) > 0
  PROVE  LET end == id * ChunkSize + Len(Piece(image, id))
         IN  /\ end <= Len(image)
             /\ Piece(image, id) = SubSeq(image, id * ChunkSize + 1, end)
             /\ Len(Piece(image, id)) <= ChunkSize
PROOF
  <1> DEFINE lo == id * ChunkSize
             len == Len(image)
             size == Len(Piece(image, id))
  <1>1. lo \in Nat /\ (id + 1) * ChunkSize = lo + ChunkSize /\ ChunkSize \in Nat
        /\ len \in Nat /\ ChunkSize > 0
    BY Boundaries, ImageAssumption, LenProperties DEF Bytes
  <1>2. lo < len
    <2>1. lo >= len => Piece(image, id) = <<>>
      BY PieceIs
    <2>2. lo >= len => size = 0
      BY <2>1, EmptySeq
    <2> QED BY <2>2, <1>1
  <1>3. size = Least(ChunkSize, len - lo)
    BY <1>2, PieceIs
  <1>4. (lo + ChunkSize <= len => Piece(image, id) = SubSeq(image, lo + 1, lo + ChunkSize))
        /\ (lo + ChunkSize > len => Piece(image, id) = SubSeq(image, lo + 1, len))
    BY <1>1, PieceIs
  <1> HIDE DEF lo, len, size
  <1>5. /\ lo + ChunkSize <= len => size = ChunkSize
        /\ lo + ChunkSize > len => size = len - lo
    BY <1>1, <1>2, <1>3 DEF Least
  <1>6. lo + size <= len /\ size <= ChunkSize
    BY <1>1, <1>2, <1>5
  <1>7. Piece(image, id) = SubSeq(image, lo + 1, lo + size)
    <2>1. CASE lo + ChunkSize <= len
      BY <2>1, <1>1, <1>4, <1>5
    <2>2. CASE lo + ChunkSize > len
      <3>1. lo + size = len
        BY <2>2, <1>1, <1>5
      <3> QED BY <2>2, <3>1, <1>4
    <2> QED BY <2>1, <2>2, <1>1
  <1> QED BY <1>6, <1>7 DEF lo, len, size

(* What a chunk of a snapshot is. *)
LEMMA SeenChunk ==
  ASSUME NEW f \in File, Whole(f), NEW id \in ChunkId
  PROVE  /\ f.image \in Bytes /\ id \in Nat
         /\ f.chunks[id] = Piece(f.image, id)
         /\ f.chunks[id] \in Bytes /\ Len(f.chunks[id]) \in Nat
PROOF
  <1>1. f.image \in Images /\ f.image \in Bytes
    BY ImageAssumption DEF File
  <1>2. id \in Nat /\ f.chunks[id] = Piece(f.image, id)
    BY ImageAssumption DEF Whole, Split, ChunkId
  <1>3. Piece(f.image, id) \in Bytes
    BY <1>1, <1>2, PieceIs
  <1> QED BY <1>1, <1>2, <1>3, LenProperties DEF Bytes

(* The loader is handed the next bytes of the image.                       *)
LEMMA Delivering ==
  ASSUME NEW r, ReaderOK(r), r.next = "load", NEW n \in Nat, Gives(r, n) > 0
  PROVE  ReaderOK(Delivered(r, n))
PROOF
  <1> DEFINE image == r.seen.image
             chunk == r.seen.chunks[r.chunkId]
             lo == r.chunkId * ChunkSize
             size == Len(chunk)
             done == Len(r.out)
             give == Gives(r, n)
             more == SubSeq(chunk, r.pos + 1, r.pos + give)
             d == Delivered(r, n)
  <1>1. /\ r \in Reader /\ r.seen \in File /\ r.chunkId \in ChunkId /\ r.pos \in Nat
        /\ r.out \in Bytes /\ r.expected \in Nat /\ r.count \in Nat
        /\ Whole(r.seen)
    BY DEF ReaderOK, Reader
  <1>2. /\ image \in Bytes /\ r.chunkId \in Nat /\ chunk = Piece(image, r.chunkId)
        /\ chunk \in Bytes /\ size \in Nat
    BY <1>1, SeenChunk
  <1>3. /\ lo \in Nat /\ done \in Nat /\ Len(image) \in Nat /\ ChunkSize \in Nat
    BY <1>1, <1>2, Boundaries, LenProperties, ImageAssumption DEF Bytes
  <1>4. /\ done = lo + r.pos /\ done <= Len(image) /\ r.pos <= size
        /\ r.out = SubSeq(image, 1, done)
    BY DEF ReaderOK, Streaming
  <1> HIDE DEF lo, size, done
  <1>5. give \in Nat /\ give > 0 /\ r.pos + give <= size
    <2>1. r.expected - done \in Int /\ size - r.pos \in Int
      BY <1>1, <1>2, <1>3
    <2>2. give = Least(Least(n, r.expected - done), size - r.pos)
      BY DEF Gives, Remaining, done, size
    <2>3. give \in Int /\ give <= size - r.pos
      BY <2>1, <2>2 DEF Least
    <2> QED BY <2>3, <1>1, <1>2
  <1> HIDE DEF give
  <1>6. /\ lo + size <= Len(image) /\ chunk = SubSeq(image, lo + 1, lo + size)
    <2>1. size > 0
      BY <1>1, <1>2, <1>5
    <2> QED BY <1>2, <2>1, PieceCut DEF lo, size
  <1> HIDE DEF chunk, image
  <1>11. /\ r.pos \in Nat /\ lo \in Nat /\ size \in Nat /\ done \in Nat /\ give \in Nat
         /\ Len(image) \in Nat /\ give > 0 /\ r.pos + give <= size
         /\ done = lo + r.pos /\ lo + size <= Len(image) /\ done + give <= Len(image)
    <2>1. /\ r.pos \in Nat /\ lo \in Nat /\ size \in Nat /\ done \in Nat /\ give \in Nat
          /\ Len(image) \in Nat /\ give > 0 /\ r.pos + give <= size
          /\ done = lo + r.pos /\ lo + size <= Len(image)
      BY <1>1, <1>2, <1>3, <1>4, <1>5, <1>6
    <2> QED BY <2>1
  <1>7. more = SubSeq(image, done + 1, done + give)
    <2>1. PICK p \in Nat, g \in Nat, z \in Nat, l \in Nat :
            p = r.pos /\ g = give /\ z = size /\ l = lo
      BY <1>11
    <2>2. g > 0 /\ p + g <= z /\ l + z <= Len(image)
      BY <1>11, <2>1
    <2>3. SubSeq(SubSeq(image, l + 1, l + z), p + 1, p + g) = SubSeq(image, l + p + 1, l + p + g)
      <3>1. \A s \in Bytes : l + z <= Len(s) =>
              SubSeq(SubSeq(s, l + 1, l + z), p + 1, p + g) = SubSeq(s, l + p + 1, l + p + g)
        BY <2>2, CutOfCut
      <3> QED BY <3>1, <2>2, <1>2
    <2>4. l + p = done /\ l + z = lo + size
      BY <1>11, <2>1
    <2>5. more = SubSeq(SubSeq(image, l + 1, l + z), p + 1, p + g)
      BY <2>1, <1>6
    <2>6. l + p + 1 = done + 1 /\ l + p + g = done + give
      BY <2>1, <2>4
    <2> QED BY <2>3, <2>5, <2>6
  <1>8. /\ r.out \o more = SubSeq(image, 1, done + give)
        /\ r.out \o more \in Bytes /\ Len(r.out \o more) = done + give
        /\ done + give <= Len(image)
    <2>1. PICK a \in 0 .. Len(image) : a = done
      BY <1>3, <1>4
    <2>2. PICK b \in a .. Len(image) : b = done + give
      BY <1>11, <2>1
    <2>3. PICK z \in Nat : z = 0
      OBVIOUS
    <2>4. /\ SubSeq(image, z + 1, a) \o SubSeq(image, a + 1, b) = SubSeq(image, z + 1, b)
          /\ SubSeq(image, z + 1, b) \in Bytes /\ Len(SubSeq(image, z + 1, b)) = b - z
      BY <1>2, <2>1, <2>2, <2>3, Extended
    <2>5. z + 1 = 1 /\ b - z = done + give /\ done + give <= Len(image)
      BY <1>3, <1>5, <2>1, <2>2, <2>3
    <2> QED BY <2>1, <2>2, <2>4, <2>5, <1>4, <1>7, <1>3, <1>5
  <1> HIDE DEF more
  <1>9. /\ d \in Reader /\ d.out = r.out \o more /\ d.pos = r.pos + give
        /\ d.next = "load" /\ d.seen = r.seen /\ d.chunkId = r.chunkId
        /\ d.generation = r.generation /\ d.count = r.count
    <2>1. d = [r EXCEPT !.pos = r.pos + give, !.out = r.out \o more]
      BY DEF Delivered, more, give, chunk
    <2>2. r.pos + give \in Nat
      BY <1>1, <1>5
    <2> HIDE DEF d
    <2> QED BY <2>1, <2>2, <1>1, <1>8 DEF Reader
  <1> HIDE DEF d
  <1>10. Streaming(d)
    <2>1. Len(d.out) = d.chunkId * ChunkSize + d.pos
      <3>1. done + give = lo + (r.pos + give)
        BY <1>1, <1>3, <1>4, <1>5
      <3> QED BY <3>1, <1>8, <1>9 DEF lo
    <2>2. d.pos <= Len(d.seen.chunks[d.chunkId])
      BY <1>5, <1>9 DEF size, chunk
    <2>3. Len(d.out) <= Len(d.seen.image) /\ d.out = SubSeq(d.seen.image, 1, Len(d.out))
      BY <1>8, <1>9 DEF image
    <2> QED BY <2>1, <2>2, <2>3, <1>9 DEF Streaming
  <1>12. ReaderOK(d)
    BY <1>9, <1>10 DEF ReaderOK
  <1> QED BY <1>12 DEF d

(* At the end of a chunk the loader goes on with the next one.             *)
LEMMA NextOpening ==
  ASSUME NEW r, ReaderOK(r), r.next = "load", Remaining(r) > 0,
         NEW n \in Nat \ {0}, Gives(r, n) = 0, r.chunkId + 1 < r.count,
         ChunkFits(r.seen.chunks[r.chunkId + 1], Remaining(r))
  PROVE  ReaderOK(NextOpened(r))
PROOF
  <1> DEFINE image == r.seen.image
             chunk == r.seen.chunks[r.chunkId]
             lo == r.chunkId * ChunkSize
             size == Len(chunk)
             done == Len(r.out)
             left == Remaining(r)
             d == NextOpened(r)
  <1>1. /\ r \in Reader /\ r.seen \in File /\ r.chunkId \in ChunkId /\ r.pos \in Nat
        /\ r.out \in Bytes /\ r.expected \in Nat /\ r.count \in Nat
        /\ Whole(r.seen) /\ r.count <= LastChunk + 1
    BY DEF ReaderOK, Reader
  <1>2. PICK next \in ChunkId : next = r.chunkId + 1
    BY <1>1, ImageAssumption DEF ChunkId
  <1>3. /\ image \in Bytes /\ r.chunkId \in Nat /\ chunk = Piece(image, r.chunkId)
        /\ chunk \in Bytes /\ size \in Nat
    BY <1>1, SeenChunk
  <1>4. /\ next \in Nat /\ r.seen.chunks[next] = Piece(image, next)
        /\ Len(r.seen.chunks[next]) \in Nat
    BY <1>1, SeenChunk
  <1>5. /\ lo \in Nat /\ done \in Nat /\ Len(image) \in Nat /\ ChunkSize \in Nat
        /\ ChunkSize > 0 /\ (r.chunkId + 1) * ChunkSize = lo + ChunkSize
    <2>1. done \in Nat /\ Len(image) \in Nat
      BY <1>1, <1>3, LenProperties DEF Bytes
    <2>2. ChunkSize \in Nat /\ ChunkSize > 0
      BY ImageAssumption
    <2>3. lo \in Nat /\ (r.chunkId + 1) * ChunkSize = lo + ChunkSize
      BY <1>3, Boundaries
    <2> QED BY <2>1, <2>2, <2>3
  <1>6. left \in Nat /\ left > 0
    BY <1>1, <1>5 DEF Remaining
  <1>7. Len(Piece(image, next)) > 0
    <2>1. Len(r.seen.chunks[next]) = Least(left, ChunkSize)
      BY <1>2 DEF ChunkFits
    <2> HIDE DEF left
    <2> QED BY <2>1, <1>4, <1>5, <1>6 DEF Least
  <1>8. /\ done = lo + r.pos /\ r.pos <= size
        /\ done <= Len(image) /\ r.out = SubSeq(image, 1, done)
    BY DEF ReaderOK, Streaming
  <1>9. r.pos = size
    <2>1. 0 = Least(Least(n, left), size - r.pos)
      BY DEF Gives
    <2> HIDE DEF left, size
    <2> QED BY <2>1, <1>1, <1>3, <1>6, <1>8 DEF Least
  <1>10. size = ChunkSize
    <2>1. ~(next * ChunkSize >= Len(image))
      <3>1. next * ChunkSize >= Len(image) => Piece(image, next) = <<>>
        BY <1>3, <1>4, PieceIs
      <3> QED BY <3>1, <1>7, EmptySeq
    <2>2. (r.chunkId + 1) * ChunkSize <= Len(image)
      BY <2>1, <1>2, <1>5
    <2>3. Len(Piece(image, r.chunkId)) = ChunkSize
      BY <2>2, <1>3, PieceIs
    <2> QED BY <2>3, <1>3
  <1> HIDE DEF lo, done, left
  <1>11. done = (r.chunkId + 1) * ChunkSize + 0
    BY <1>1, <1>5, <1>8, <1>9, <1>10
  <1>12. /\ d \in Reader /\ d.out = r.out /\ d.pos = 0 /\ d.chunkId = next
         /\ d.next = "load" /\ d.seen = r.seen
         /\ d.generation = r.generation /\ d.count = r.count
    <2>1. d = [r EXCEPT !.chunkId = next, !.pos = 0]
      BY <1>2 DEF NextOpened
    <2> HIDE DEF d
    <2> QED BY <2>1, <1>1 DEF Reader
  <1> HIDE DEF d
  <1>13. Streaming(d)
    <2>1. Len(d.out) = d.chunkId * ChunkSize + d.pos
      BY <1>2, <1>11, <1>12 DEF done
    <2>2. d.pos <= Len(d.seen.chunks[d.chunkId])
      BY <1>4, <1>12
    <2>3. Len(d.out) <= Len(d.seen.image) /\ d.out = SubSeq(d.seen.image, 1, Len(d.out))
      BY <1>8, <1>12 DEF done
    <2> QED BY <2>1, <2>2, <2>3, <1>12 DEF Streaming
  <1>14. ReaderOK(d)
    BY <1>12, <1>13 DEF ReaderOK
  <1> QED BY <1>14 DEF d

(* The beginning of a sequence agrees with it. *)
LEMMA CutAgrees ==
  ASSUME NEW s \in Bytes, NEW done \in Nat, done <= Len(s)
  PROVE  \A i \in 1 .. done : SubSeq(s, 1, done)[i] = s[i]
PROOF
  <1>1. \A j \in 1 .. done : s[j] \in Byte
    BY LenProperties, ElementOfSeq DEF Bytes
  <1>2. \A j \in 1 .. done - 1 + 1 : SubSeq(s, 1, done)[j] = s[1 + j - 1]
    <2>1. 1 \in Int /\ done \in Int
      OBVIOUS
    <2> QED BY <1>1, <2>1, SubSeqProperties
  <1> QED BY <1>2

(* A stream that is an image is all of the image it began. *)
LEMMA LoadedImage ==
  ASSUME NEW r, ReaderOK(r), r.next = "load", r.out \in Images
  PROVE  r.out = r.seen.image
PROOF
  <1> DEFINE image == r.seen.image
             done == Len(r.out)
  <1>1. /\ r.out \in Bytes /\ image \in Images /\ image \in Bytes
        /\ done \in Nat /\ Len(image) \in Nat
    BY ImageAssumption, LenProperties DEF ReaderOK, Reader, File, Bytes
  <1>2. done <= Len(image) /\ r.out = SubSeq(image, 1, done)
    BY DEF ReaderOK, Streaming
  <1>3. \A i \in 1 .. done : r.out[i] = image[i]
    BY <1>1, <1>2, CutAgrees
  <1>4. StartsWith(image, r.out)
    BY <1>2, <1>3 DEF StartsWith
  <1> QED BY <1>1, <1>4, ImageAssumption
-----------------------------------------------------------------------------
(* The steps of the writing connection. *)

LEMMA StartKeeps ==
  ASSUME ImageInv, StartWrite
  PROVE  ImageInv'
PROOF
  <1>1. PICK image \in Images :
          writer' = [image |-> image, offered |-> 0, taken |-> 0, buffer |-> <<>>,
                     chunkId |-> 0, chunks |-> file.chunks]
    BY DEF StartWrite
  <1>2. file' = file /\ reader' = reader /\ copy' = copy /\ file.generation < MaxGeneration
    BY DEF StartWrite
  <1>3. image \in Bytes /\ Len(image) \in Nat /\ ChunkSize \in Nat /\ ChunkSize > 0
    BY ImageAssumption, LenProperties DEF Bytes
  <1>4. file.chunks \in [ChunkId -> Bytes]
    BY DEF ImageInv, TypeOK, File
  <1>5. writer' \in Writer
    BY <1>1, <1>4 DEF Writer, Bytes
  <1>6. /\ writer'.image = image /\ writer'.offered = 0 /\ writer'.taken = 0
        /\ writer'.buffer = <<>> /\ writer'.chunkId = 0
    BY <1>1
  <1>7. WriterOK(writer')
    <2>1. SubSeq(image, 0 * ChunkSize + 1, 0) = <<>>
      <3>1. 0 * ChunkSize + 1 = 1
        BY <1>3
      <3>2. SubSeq(image, 1, 0) = <<>>
        BY SubSeqEmpty
      <3> QED BY <3>1, <3>2
    <2>2. Len(<<>>) = 0 /\ 0 * ChunkSize + 0 = 0
      BY <1>3
    <2>3. \A id \in ChunkId : ~(id < 0)
      BY ImageAssumption DEF ChunkId
    <2> QED BY <1>3, <1>5, <1>6, <2>1, <2>2, <2>3 DEF WriterOK
  <1>8. WriterInv'
    BY <1>2, <1>7 DEF WriterInv
  <1>9. TypeOK' /\ Whole(file)' /\ ReaderInv' /\ CopyInv'
    BY <1>2, <1>5 DEF ImageInv, TypeOK, ReaderInv, CopyInv
  <1> QED BY <1>8, <1>9 DEF ImageInv

LEMMA WritingKeeps ==
  ASSUME ImageInv, WriteCall \/ Fill \/ Flush
  PROVE  ImageInv'
PROOF
  <1>1. /\ writer # None /\ WriterOK(writer) /\ file.generation < MaxGeneration
        /\ file' = file /\ reader' = reader /\ copy' = copy
    BY DEF ImageInv, WriterInv, WriteCall, Fill, Flush
  <1>2. WriterOK(writer')
    <2>1. CASE WriteCall
      <3>1. PICK n \in CallSizes : /\ writer.offered + n <= Len(writer.image)
                                   /\ writer' = [writer EXCEPT !.offered = @ + n]
        BY <2>1 DEF WriteCall
      <3>2. n \in Nat /\ writer \in Writer /\ writer.offered \in Nat /\ writer.taken \in Nat
            /\ writer.taken <= writer.offered
        BY <1>1, ImageAssumption DEF WriterOK, Writer
      <3>3. writer' \in Writer
        BY <3>1, <3>2 DEF Writer
      <3>4. /\ writer'.image = writer.image /\ writer'.offered = writer.offered + n
            /\ writer'.taken = writer.taken /\ writer'.buffer = writer.buffer
            /\ writer'.chunkId = writer.chunkId /\ writer'.chunks = writer.chunks
        BY <3>1, <3>2 DEF Writer
      <3>5. writer'.taken <= writer'.offered /\ writer'.offered <= Len(writer'.image)
        BY <3>1, <3>2, <3>4
      <3> QED BY <1>1, <3>3, <3>4, <3>5 DEF WriterOK
    <2>2. CASE Fill
      BY <1>1, <2>2, Filling DEF Fill
    <2>3. CASE Flush
      BY <1>1, <2>3, Flushing DEF Flush
    <2> QED BY <2>1, <2>2, <2>3
  <1>3. WriterInv'
    BY <1>1, <1>2 DEF WriterInv
  <1>4. TypeOK' /\ Whole(file)' /\ ReaderInv' /\ CopyInv'
    BY <1>1, <1>2 DEF ImageInv, TypeOK, ReaderInv, CopyInv, WriterOK
  <1> QED BY <1>3, <1>4 DEF ImageInv

(* A new base is newer than every snapshot and every copy. *)
LEMMA CommitImageKeeps ==
  ASSUME ImageInv, CommitImage
  PROVE  ImageInv'
PROOF
  <1>1. /\ writer # None /\ WriterOK(writer) /\ writer.taken = Len(writer.image)
        /\ file.generation < MaxGeneration /\ file \in File
        /\ file' = Compacted(writer) /\ writer' = None /\ reader' = reader /\ copy' = copy
    BY DEF ImageInv, TypeOK, WriterInv, CommitImage
  <1>2. file' \in File /\ Whole(file')
    BY <1>1, Compacting
  <1>3. /\ file'.generation = file.generation + 1 /\ file'.baseAt = file.generation + 1
        /\ file.generation \in Nat
    BY <1>1, ImageAssumption DEF Compacted, File, Generation
  <1>4. ASSUME reader # None PROVE Before(reader.seen, file')
    <2>1. reader.seen.generation <= file.generation /\ reader.seen.generation \in Nat
      BY <1>4, ImageAssumption DEF ImageInv, ReaderInv, ReaderOK, Before, Reader, File, Generation
    <2>2. reader.seen.generation <= file'.generation /\ ~(reader.seen.generation >= file'.baseAt)
      BY <2>1, <1>3
    <2> QED BY <2>2 DEF Before
  <1>5. ReaderInv'
    BY <1>1, <1>4 DEF ImageInv, ReaderInv
  <1>6. CopyInv'
    <2>1. ASSUME copy # None
          PROVE  copy.generation <= file'.generation /\ ~(copy.generation >= file'.baseAt)
      <3>1. copy.generation \in Nat
        BY <2>1, ImageAssumption DEF ImageInv, TypeOK, Copy, Generation
      <3>2. copy.generation <= file.generation
        BY <2>1 DEF ImageInv, CopyInv
      <3> QED BY <3>1, <3>2, <1>3
    <2> QED BY <1>1, <2>1 DEF CopyInv
  <1>7. TypeOK' /\ WriterInv'
    BY <1>1, <1>2 DEF ImageInv, TypeOK, WriterInv
  <1> QED BY <1>2, <1>5, <1>6, <1>7 DEF ImageInv

LEMMA CommitDeltaKeeps ==
  ASSUME ImageInv, CommitDelta
  PROVE  ImageInv'
PROOF
  <1>1. /\ writer = None /\ file.generation < MaxGeneration /\ file \in File /\ Whole(file)
        /\ writer' = writer /\ reader' = reader /\ copy' = copy
    BY DEF ImageInv, TypeOK, CommitDelta
  <1>2. /\ file' \in File /\ Whole(file') /\ file'.image = file.image
        /\ file'.baseAt = file.baseAt /\ file'.generation = file.generation + 1
    BY <1>1, OneDelta DEF CommitDelta
  <1>3. file.generation \in Nat
    BY <1>1, ImageAssumption DEF File, Generation
  <1>4. ASSUME reader # None PROVE Before(reader.seen, file')
    <2>1. Before(reader.seen, file) /\ reader.seen.generation \in Nat
      BY <1>4, ImageAssumption DEF ImageInv, ReaderInv, ReaderOK, Reader, File, Generation
    <2> QED BY <2>1, <1>2, <1>3 DEF Before
  <1>5. ReaderInv'
    BY <1>1, <1>4 DEF ImageInv, ReaderInv
  <1>6. CopyInv'
    <2>1. ASSUME copy # None PROVE copy.generation <= file'.generation
      <3>1. copy.generation \in Nat /\ copy.generation <= file.generation
        BY <2>1, ImageAssumption DEF ImageInv, TypeOK, Copy, Generation, CopyInv
      <3> QED BY <3>1, <1>2, <1>3
    <2> QED BY <1>1, <1>2, <2>1 DEF ImageInv, CopyInv
  <1>7. TypeOK' /\ WriterInv'
    BY <1>1, <1>2 DEF ImageInv, TypeOK, WriterInv
  <1> QED BY <1>2, <1>5, <1>6, <1>7 DEF ImageInv
-----------------------------------------------------------------------------
(* The steps of the reading connection. *)

(* What a statement of the load sees is whole, and not older than what the *)
(* statements before it saw.                                               *)
LEMMA Looking ==
  ASSUME ImageInv, reader # None
  PROVE  /\ Look \in File /\ Whole(Look) /\ Before(Look, file)
         /\ reader \in Reader /\ reader.generation \in Nat /\ Look.generation \in Nat
         /\ reader.generation <= Look.generation
PROOF
  <1>1. /\ file \in File /\ Whole(file) /\ ReaderOK(reader) /\ Before(reader.seen, file)
    BY DEF ImageInv, TypeOK, ReaderInv
  <1>2. /\ reader \in Reader /\ reader.seen \in File /\ Whole(reader.seen)
        /\ reader.generation <= reader.seen.generation
        /\ reader.generation \in Nat /\ reader.seen.generation \in Nat /\ file.generation \in Nat
    BY <1>1, ImageAssumption DEF ReaderOK, Reader, File, Generation
  <1>3. CASE reader.held
    BY <1>1, <1>2, <1>3 DEF Look
  <1>4. CASE ~reader.held
    <2>1. Look = file /\ Before(file, file)
      BY <1>2, <1>4 DEF Look, Before
    <2>2. reader.generation <= file.generation
      BY <1>1, <1>2 DEF Before
    <2> QED BY <1>1, <1>2, <2>1, <2>2
  <1> QED BY <1>3, <1>4

(* What a failed load leaves. *)
LEMMA FailingKeeps ==
  ASSUME ImageInv, LoadFails, UNCHANGED <<file, writer>>
  PROVE  ImageInv'
PROOF
  BY DEF ImageInv, TypeOK, WriterInv, ReaderInv, CopyInv, LoadFails

(* A reader that is as it should be is all a step of the load has to show. *)
LEMMA ReadingKeeps ==
  ASSUME ImageInv, reader' # None => ReaderOK(reader') /\ Before(reader'.seen, file),
         UNCHANGED <<file, writer, copy>>
  PROVE  ImageInv'
PROOF
  <1>1. ReaderInv'
    BY DEF ReaderInv
  <1>2. reader' \in Reader \cup {None}
    BY DEF ReaderOK
  <1> QED BY <1>1, <1>2 DEF ImageInv, TypeOK, WriterInv, CopyInv

(* A load that has read no byte yet may see another commit. *)
LEMMA SeeingAnew ==
  ASSUME ImageInv, reader # None, reader.next \in {"lengths", "open"},
         NEW step \in {"open", "load"}, NEW count \in Nat, count <= LastChunk + 1
  PROVE  LET r == [reader EXCEPT !.next = step, !.seen = Look, !.count = count]
         IN  ReaderOK(r) /\ Before(r.seen, file)
PROOF
  <1> DEFINE r == [reader EXCEPT !.next = step, !.seen = Look, !.count = count]
  <1>1. /\ Look \in File /\ Whole(Look) /\ Before(Look, file) /\ reader \in Reader
        /\ reader.generation <= Look.generation
    BY Looking
  <1>2. reader.out = <<>> /\ reader.chunkId = 0 /\ reader.pos = 0
    BY DEF ImageInv, ReaderInv, ReaderOK, Streaming
  <1>3. /\ r \in Reader /\ r.next = step /\ r.seen = Look /\ r.count = count
        /\ r.generation = reader.generation /\ r.out = <<>> /\ r.chunkId = 0 /\ r.pos = 0
    BY <1>1, <1>2 DEF Reader
  <1> HIDE DEF r
  <1>4. Streaming(r)
    <2>1. r.seen.image \in Bytes /\ Len(r.seen.image) \in Nat
      BY <1>1, <1>3, ImageAssumption, LenProperties DEF File, Bytes
    <2>2. 0 \in ChunkId /\ 0 * ChunkSize + 0 = 0 /\ Len(<<>>) = 0
      BY ImageAssumption DEF ChunkId
    <2>3. Len(r.seen.chunks[0]) \in Nat
      BY <1>1, <1>3, <2>2, SeenChunk
    <2>4. SubSeq(r.seen.image, 1, 0) = <<>>
      BY <2>1, SubSeqEmpty
    <2>5. /\ Len(r.out) = r.chunkId * ChunkSize + r.pos
          /\ Len(r.out) <= Len(r.seen.image)
          /\ r.pos <= Len(r.seen.chunks[r.chunkId])
          /\ r.out = SubSeq(r.seen.image, 1, Len(r.out))
      BY <1>3, <2>1, <2>2, <2>3, <2>4
    <2> QED BY <1>3, <2>5 DEF Streaming
  <1>5. ReaderOK(r) /\ Before(r.seen, file)
    BY <1>1, <1>3, <1>4 DEF ReaderOK
  <1> QED BY <1>5 DEF r

LEMMA MetaKeeps ==
  ASSUME ImageInv, ReadMeta
  PROVE  ImageInv'
PROOF
  <1>1. PICK held \in BOOLEAN :
          reader' = [next |-> "lengths", held |-> held, seen |-> file,
                     generation |-> file.generation, expected |-> BaseLength(file),
                     expectsDeltas |-> HasDeltas(file),
                     count |-> 0, chunkId |-> 0, pos |-> 0, out |-> <<>>]
    BY DEF ReadMeta
  <1>2. /\ file \in File /\ Whole(file) /\ file.generation \in Generation
        /\ file.generation \in Nat /\ file.byteLen \in Int
    BY ImageAssumption DEF ImageInv, TypeOK, File, Generation
  <1>3. BaseLength(file) \in Nat /\ HasDeltas(file) \in BOOLEAN
    BY <1>2 DEF BaseLength, HasDeltas
  <1>4. 0 \in ChunkId /\ <<>> \in Bytes /\ 0 <= LastChunk + 1
    BY ImageAssumption DEF ChunkId, Bytes
  <1>5. reader' \in Reader
    BY <1>1, <1>2, <1>3, <1>4 DEF Reader
  <1>6. /\ reader'.next = "lengths" /\ reader'.seen = file /\ reader'.out = <<>>
        /\ reader'.generation = file.generation /\ reader'.count = 0
        /\ reader'.chunkId = 0 /\ reader'.pos = 0
    BY <1>1
  <1>7. ReaderOK(reader') /\ Before(reader'.seen, file)
    BY <1>2, <1>4, <1>5, <1>6 DEF ReaderOK, Streaming, Before
  <1> QED BY <1>7, ReadingKeeps DEF ReadMeta

LEMMA LengthsKeeps ==
  ASSUME ImageInv, ReadLengths
  PROVE  ImageInv'
PROOF
  <1>1. CASE LoadFails
    BY <1>1, FailingKeeps DEF ReadLengths
  <1>2. CASE ~LoadFails
    <2>1. PICK count \in 1 .. LastChunk + 1 :
            reader' = [reader EXCEPT !.next = "open", !.seen = Look, !.count = count]
            /\ copy' = copy
      BY <1>2 DEF ReadLengths
    <2>2. count \in Nat /\ count <= LastChunk + 1
      BY ImageAssumption
    <2>3. reader # None /\ reader.next \in {"lengths", "open"}
      BY DEF ReadLengths, Reading
    <2>4. ReaderOK(reader') /\ Before(reader'.seen, file)
      BY <2>1, <2>2, <2>3, SeeingAnew
    <2> QED BY <2>1, <2>4, ReadingKeeps DEF ReadLengths
  <1> QED BY <1>1, <1>2

LEMMA OpenKeeps ==
  ASSUME ImageInv, OpenBase
  PROVE  ImageInv'
PROOF
  <1>1. CASE LoadFails
    BY <1>1, FailingKeeps DEF OpenBase
  <1>2. CASE ~LoadFails
    <2>1. reader' = [reader EXCEPT !.next = "load", !.seen = Look] /\ copy' = copy
      BY <1>2 DEF OpenBase
    <2>2. /\ reader # None /\ reader.next \in {"lengths", "open"}
          /\ reader \in Reader /\ reader.count \in Nat /\ reader.count <= LastChunk + 1
      BY DEF OpenBase, Reading, ImageInv, ReaderInv, ReaderOK, Reader
    <2>3. reader' = [reader EXCEPT !.next = "load", !.seen = Look, !.count = reader.count]
      BY <2>1, <2>2 DEF Reader
    <2>4. ReaderOK(reader') /\ Before(reader'.seen, file)
      BY <2>2, <2>3, SeeingAnew
    <2> QED BY <2>1, <2>4, ReadingKeeps DEF OpenBase
  <1> QED BY <1>1, <1>2

LEMMA StreamKeeps ==
  ASSUME ImageInv, LoaderRead \/ NextChunk
  PROVE  ImageInv'
PROOF
  <1>1. /\ reader # None /\ ReaderOK(reader) /\ Before(reader.seen, file)
        /\ reader.next = "load" /\ Remaining(reader) > 0 /\ UNCHANGED <<file, writer>>
    BY DEF ImageInv, ReaderInv, LoaderRead, NextChunk, Reading
  <1>2. \A n \in Wanted : n \in Nat \ {0}
    BY ImageAssumption DEF Wanted
  <1>3. CASE LoaderRead
    <2>1. PICK n \in Wanted : Gives(reader, n) > 0 /\ reader' = Delivered(reader, n)
      BY <1>3 DEF LoaderRead
    <2>2. ReaderOK(reader')
      BY <1>1, <1>2, <2>1, Delivering
    <2>3. reader'.seen = reader.seen
      BY <1>1, <2>1 DEF Delivered, ReaderOK, Reader
    <2>4. copy' = copy
      BY <1>3 DEF LoaderRead
    <2> QED BY <1>1, <2>2, <2>3, <2>4, ReadingKeeps
  <1>4. CASE NextChunk /\ LoadFails
    BY <1>1, <1>4, FailingKeeps
  <1>5. CASE NextChunk /\ ~LoadFails
    <2>1. PICK n \in Wanted : Gives(reader, n) = 0
      BY <1>5 DEF NextChunk
    <2>2. /\ reader' = NextOpened(reader) /\ copy' = copy
          /\ reader.chunkId + 1 < reader.count
          /\ ChunkFits(reader.seen.chunks[reader.chunkId + 1], Remaining(reader))
      BY <1>5 DEF NextChunk
    <2>3. ReaderOK(reader')
      BY <1>1, <1>2, <2>1, <2>2, NextOpening
    <2>4. reader'.seen = reader.seen
      BY <1>1, <2>2 DEF NextOpened, ReaderOK, Reader
    <2> QED BY <1>1, <2>2, <2>3, <2>4, ReadingKeeps
  <1> QED BY <1>3, <1>4, <1>5

LEMMA LoadEndKeeps ==
  ASSUME ImageInv, LoadEnds
  PROVE  ImageInv'
PROOF
  <1>1. CASE LoadFails
    BY <1>1, FailingKeeps DEF LoadEnds
  <1>2. CASE ~LoadFails
    <2>1. /\ reader' = [reader EXCEPT !.next = "deltas"] /\ copy' = copy
          /\ reader.out \in Images /\ reader # None /\ reader.next = "load"
      BY <1>2 DEF LoadEnds, Reading
    <2>2. ReaderOK(reader) /\ Before(reader.seen, file) /\ reader \in Reader
      BY <2>1 DEF ImageInv, ReaderInv, ReaderOK
    <2>3. reader.out = reader.seen.image
      BY <2>1, <2>2, LoadedImage
    <2>4. /\ reader' \in Reader /\ reader'.next = "deltas" /\ reader'.seen = reader.seen
          /\ reader'.out = reader.out /\ reader'.generation = reader.generation
          /\ reader'.count = reader.count
      BY <2>1, <2>2 DEF Reader
    <2>5. ReaderOK(reader')
      BY <2>2, <2>3, <2>4 DEF ReaderOK, Streaming
    <2> QED BY <2>1, <2>2, <2>4, <2>5, ReadingKeeps DEF LoadEnds
  <1> QED BY <1>1, <1>2

(* The chain of deltas that ends at the generation of the metadata row is  *)
(* the one of the base the reader streamed, if that base is still stored.  *)
LEMMA DeltasKeeps ==
  ASSUME ImageInv, ReadDeltas
  PROVE  ImageInv'
PROOF
  <1>1. CASE LoadFails
    BY <1>1, FailingKeeps DEF ReadDeltas
  <1>2. CASE ~LoadFails
    <2>1. /\ EndsAt(Look.deltas, reader.generation, reader.expectsDeltas)
          /\ copy' = [generation |-> reader.generation, base |-> reader.out,
                      applied |-> Times(Look.deltas)]
          /\ reader' = None /\ UNCHANGED <<file, writer>>
          /\ reader # None /\ reader.next = "deltas"
      BY <1>2 DEF ReadDeltas, Reading
    <2>2. /\ Look \in File /\ Whole(Look) /\ Before(Look, file)
          /\ reader \in Reader /\ reader.generation \in Nat /\ Look.generation \in Nat
          /\ reader.generation <= Look.generation
      BY <2>1, Looking
    <2>3. /\ ReaderOK(reader) /\ Before(reader.seen, file) /\ reader.out = reader.seen.image
      BY <2>1 DEF ImageInv, ReaderInv, ReaderOK, Streaming
    <2>4. /\ reader.seen \in File /\ reader.seen.generation \in Nat
          /\ reader.generation <= reader.seen.generation
          /\ file.generation \in Nat /\ file.baseAt \in Nat /\ Look.baseAt \in Nat
      <3>1. reader.seen \in File /\ reader.generation <= reader.seen.generation
        BY <2>3 DEF ReaderOK, Reader
      <3>2. file \in File
        BY DEF ImageInv, TypeOK
      <3>3. \A f \in File : f.generation \in Nat /\ f.baseAt \in Nat
        BY ImageAssumption DEF File, Generation
      <3> QED BY <2>2, <3>1, <3>2, <3>3
    <2>5. copy' \in Copy
      <3>1. reader.out \in Images /\ reader.generation \in Generation
        BY <2>2, <2>3, <2>4 DEF File, Reader
      <3>2. Times(Look.deltas) \in [Generation -> Nat]
        BY DEF Times
      <3> QED BY <2>1, <3>1, <3>2 DEF Copy
    <2>6. copy'.generation <= file.generation
      BY <2>1, <2>3, <2>4, <2>2 DEF Before
    <2>7. ASSUME copy'.generation >= file.baseAt
          PROVE  /\ copy'.base = file.image
                 /\ copy'.applied = Times(file.baseAt + 1 .. copy'.generation)
      <3>1. copy'.generation = reader.generation /\ copy'.base = reader.out
        BY <2>1
      <3>2. reader.seen.generation >= file.baseAt /\ Look.generation >= file.baseAt
        BY <2>2, <2>4, <2>7, <3>1
      <3>3. copy'.base = file.image /\ Look.baseAt = file.baseAt
        BY <2>2, <2>3, <3>1, <3>2 DEF Before
      <3>4. Look.deltas = file.baseAt + 1 .. Look.generation
        BY <2>2, <3>3 DEF Whole
      <3>5. Look.deltas = file.baseAt + 1 .. reader.generation
        <4>1. CASE reader.expectsDeltas
          <5>1. \A d \in Look.deltas : d <= reader.generation
            BY <2>1, <4>1 DEF EndsAt
          <5>2. Look.deltas # {}
            BY <2>1, <4>1 DEF EndsAt
          <5>3. Look.generation \in Look.deltas
            BY <2>2, <2>4, <3>4, <5>2
          <5>4. Look.generation = reader.generation
            BY <2>2, <5>1, <5>3
          <5> QED BY <3>4, <5>4
        <4>2. CASE ~reader.expectsDeltas
          <5>1. Look.deltas = {}
            BY <2>1, <4>2 DEF EndsAt
          <5>2. Look.generation <= file.baseAt
            <6>1. Look.generation > file.baseAt => Look.generation \in Look.deltas
              BY <2>2, <2>4, <3>4
            <6> QED BY <2>2, <2>4, <5>1, <6>1
          <5>3. file.baseAt + 1 .. reader.generation = {}
            BY <2>2, <2>4, <5>2
          <5> QED BY <5>1, <5>3
        <4> QED BY <4>1, <4>2
      <3> QED BY <2>1, <3>1, <3>3, <3>5
    <2>8. CopyInv' /\ ReaderInv' /\ TypeOK' /\ WriterInv' /\ Whole(file)'
      BY <2>1, <2>5, <2>6, <2>7 DEF ImageInv, TypeOK, CopyInv, ReaderInv, WriterInv
    <2> QED BY <2>8 DEF ImageInv
  <1> QED BY <1>1, <1>2

(* A delta no newer than the copy shows that the base it was loaded from   *)
(* is still stored: replaying the ones after it completes the chain.       *)
LEMMA RefreshKeeps ==
  ASSUME ImageInv, Refresh
  PROVE  ImageInv'
PROOF
  <1>1. /\ UNCHANGED <<file, writer, reader>> /\ copy # None /\ copy \in Copy
        /\ file \in File /\ Whole(file) /\ copy.generation \in Nat
        /\ file.generation \in Nat /\ file.baseAt \in Nat /\ file.generation \in Generation
    BY ImageAssumption DEF Refresh, ImageInv, TypeOK, Copy, File, Generation
  <1>2. CASE ~CatchesUp(copy, file)
    <2>1. copy' = None
      BY <1>2 DEF Refresh
    <2> QED BY <1>1, <2>1 DEF ImageInv, TypeOK, CopyInv, ReaderInv, WriterInv
  <1>3. CASE CatchesUp(copy, file)
    <2>1. copy' = CaughtUp(copy, file)
      BY <1>3 DEF Refresh
    <2>2. file.deltas = file.baseAt + 1 .. file.generation
      BY <1>1 DEF Whole
    <2>3. file.baseAt < copy.generation /\ copy.generation < file.generation
      <3>1. PICK d \in file.deltas : d <= copy.generation
        BY <1>3 DEF CatchesUp
      <3>2. d \in Nat /\ d >= file.baseAt + 1
        BY <1>1, <2>2
      <3>3. copy.generation < file.generation
        BY <1>3 DEF CatchesUp
      <3> QED BY <1>1, <3>1, <3>2, <3>3
    <2>4. /\ copy.base = file.image
          /\ copy.applied = Times(file.baseAt + 1 .. copy.generation)
      <3>1. copy.generation >= file.baseAt
        BY <1>1, <2>3
      <3> QED BY <1>1, <3>1 DEF ImageInv, CopyInv
    <2>5. /\ copy'.generation = file.generation /\ copy'.base = copy.base
          /\ copy'.applied = [d \in Generation |->
               copy.applied[d] + Times(copy.generation + 1 .. file.generation)[d]]
      BY <2>1 DEF CaughtUp
    <2>6. copy'.applied = Times(file.baseAt + 1 .. file.generation)
      <3>1. \A d \in Generation :
              copy.applied[d] + Times(copy.generation + 1 .. file.generation)[d]
                = Times(file.baseAt + 1 .. file.generation)[d]
        <4> SUFFICES ASSUME NEW d \in Generation
                     PROVE copy.applied[d] + Times(copy.generation + 1 .. file.generation)[d]
                             = Times(file.baseAt + 1 .. file.generation)[d]
          OBVIOUS
        <4>1. d \in Nat
          BY ImageAssumption DEF Generation
        <4>2. copy.applied[d] = IF d \in file.baseAt + 1 .. copy.generation THEN 1 ELSE 0
          BY <2>4 DEF Times
        <4>3. Times(copy.generation + 1 .. file.generation)[d]
                = IF d \in copy.generation + 1 .. file.generation THEN 1 ELSE 0
          BY DEF Times
        <4>4. Times(file.baseAt + 1 .. file.generation)[d]
                = IF d \in file.baseAt + 1 .. file.generation THEN 1 ELSE 0
          BY DEF Times
        <4> HIDE DEF Times
        <4> QED BY <1>1, <2>3, <4>1, <4>2, <4>3, <4>4
      <3>2. Times(file.baseAt + 1 .. file.generation)
              = [d \in Generation |-> Times(file.baseAt + 1 .. file.generation)[d]]
        BY DEF Times
      <3> QED BY <2>5, <3>1, <3>2
    <2>7. copy' \in Copy
      <3>1. Times(file.baseAt + 1 .. file.generation) \in [Generation -> Nat]
        BY DEF Times
      <3>2. copy' = [generation |-> copy'.generation, base |-> copy'.base,
                     applied |-> copy'.applied]
        BY <2>1 DEF CaughtUp
      <3>3. copy.base \in Images
        BY <1>1 DEF Copy
      <3> QED BY <1>1, <2>5, <2>6, <3>1, <3>2, <3>3 DEF Copy
    <2>8. copy'.generation <= file.generation
      BY <1>1, <2>5
    <2>9. CopyInv'
      BY <1>1, <2>4, <2>5, <2>6, <2>8 DEF CopyInv
    <2>10. TypeOK' /\ ReaderInv' /\ WriterInv' /\ Whole(file)'
      BY <1>1, <2>7 DEF ImageInv, TypeOK, ReaderInv, WriterInv
    <2> QED BY <2>9, <2>10 DEF ImageInv
  <1> QED BY <1>2, <1>3
-----------------------------------------------------------------------------
LEMMA ImageInitially ==
  ASSUME ImageInit
  PROVE  ImageInv
PROOF
  <1>1. PICK image \in Images :
          file = [generation |-> 0, byteLen |-> Len(image), chunks |-> Split(image),
                  deltas |-> {}, image |-> image, baseAt |-> 0]
    BY DEF ImageInit
  <1>2. Split(image) \in [ChunkId -> Bytes] /\ Len(image) \in Nat
    BY SplitType, LenProperties DEF Bytes
  <1>3. 0 \in Generation
    BY ImageAssumption DEF Generation
  <1>4. file \in File
    BY <1>1, <1>2, <1>3 DEF File
  <1>5. Whole(file)
    <2>1. 0 + 1 .. 0 = {}
      OBVIOUS
    <2> QED BY <1>1, <1>2, <2>1 DEF Whole, BaseLength, HasDeltas
  <1> QED BY <1>4, <1>5 DEF ImageInit, ImageInv, TypeOK, WriterInv, ReaderInv, CopyInv

LEMMA ImageStep ==
  ASSUME ImageInv, [ImageNext]_imageVars
  PROVE  ImageInv'
PROOF
  <1>1. CASE StartWrite
    BY <1>1, StartKeeps
  <1>2. CASE WriteCall \/ Fill \/ Flush
    BY <1>2, WritingKeeps
  <1>3. CASE WriteFails
    BY <1>3 DEF WriteFails, ImageInv, TypeOK, WriterInv, ReaderInv, CopyInv
  <1>4. CASE CommitImage
    BY <1>4, CommitImageKeeps
  <1>5. CASE CommitDelta
    BY <1>5, CommitDeltaKeeps
  <1>6. CASE ReadMeta
    BY <1>6, MetaKeeps
  <1>7. CASE ReadLengths
    BY <1>7, LengthsKeeps
  <1>8. CASE OpenBase
    BY <1>8, OpenKeeps
  <1>9. CASE LoaderRead \/ NextChunk
    BY <1>9, StreamKeeps
  <1>10. CASE LoadEnds
    BY <1>10, LoadEndKeeps
  <1>11. CASE ReadDeltas
    BY <1>11, DeltasKeeps
  <1>12. CASE ReadFails
    BY <1>12, FailingKeeps DEF ReadFails
  <1>13. CASE Refresh
    BY <1>13, RefreshKeeps
  <1>14. CASE Drop
    BY <1>14 DEF Drop, ImageInv, TypeOK, WriterInv, ReaderInv, CopyInv
  <1>15. CASE UNCHANGED imageVars
    BY <1>15 DEF imageVars, ImageInv, TypeOK, WriterInv, ReaderInv, CopyInv
  <1> QED BY <1>1, <1>2, <1>3, <1>4, <1>5, <1>6, <1>7, <1>8, <1>9, <1>10, <1>11, <1>12,
             <1>13, <1>14, <1>15 DEF ImageNext, Write, Load

(* Every invariant of the run follows from the inductive one. *)
LEMMA ImageInvShows ==
  ASSUME ImageInv
  PROVE  TypeOK /\ StoredImageWhole /\ HandsOutImage /\ TrustedCopyIsStored
PROOF
  <1>1. TypeOK /\ StoredImageWhole
    BY DEF ImageInv, Whole, StoredImageWhole
  <1>2. HandsOutImage
    <2> SUFFICES ASSUME reader # None
                 PROVE  StartsWith(reader.seen.image, reader.out)
      BY DEF HandsOutImage
    <2> DEFINE image == reader.seen.image
               done == Len(reader.out)
    <2>1. /\ ReaderOK(reader) /\ reader \in Reader /\ image \in Images /\ image \in Bytes
          /\ reader.out \in Bytes /\ done \in Nat /\ Len(image) \in Nat
      BY ImageAssumption, LenProperties DEF ImageInv, ReaderInv, ReaderOK, Reader, File, Bytes
    <2>2. CASE reader.next \in {"lengths", "open"}
      <3>1. reader.out = <<>>
        BY <2>1, <2>2 DEF ReaderOK, Streaming
      <3> QED BY <2>1, <3>1 DEF StartsWith
    <2>3. CASE reader.next = "load"
      <3>1. done <= Len(image) /\ reader.out = SubSeq(image, 1, done)
        BY <2>1, <2>3 DEF ReaderOK, Streaming
      <3> QED BY <2>1, <3>1, CutAgrees DEF StartsWith
    <2>4. CASE reader.next = "deltas"
      <3>1. reader.out = image
        BY <2>1, <2>4 DEF ReaderOK, Streaming
      <3> QED BY <2>1, <3>1 DEF StartsWith
    <2> QED BY <2>1, <2>2, <2>3, <2>4 DEF Reader
  <1>3. TrustedCopyIsStored
    <2> SUFFICES ASSUME copy # None, copy.generation = file.generation
                 PROVE  copy.base = file.image /\ copy.applied = Times(file.deltas)
      BY DEF TrustedCopyIsStored
    <2>1. file.deltas = file.baseAt + 1 .. file.generation /\ file.baseAt <= file.generation
      BY DEF ImageInv, Whole
    <2>2. file.generation \in Nat /\ file.baseAt \in Nat
      BY ImageAssumption DEF ImageInv, TypeOK, File, Generation
    <2>3. copy.generation >= file.baseAt
      BY <2>1, <2>2
    <2> QED BY <2>1, <2>3 DEF ImageInv, CopyInv
  <1> QED BY <1>1, <1>2, <1>3

(* The writer counts and fills within its image, whatever the library      *)
(* writes and wherever it flushes; the length the reader expects is a      *)
(* natural, however byte_len is encoded; and the reader never leaves the   *)
(* chunks there are, though it knows only their lengths (ChunkReader).     *)
THEOREM ImageTypeCorrect == ImageSpec => []TypeOK
PROOF
  <1>1. ImageInit => ImageInv
    BY ImageInitially
  <1>2. ImageInv /\ [ImageNext]_imageVars => ImageInv'
    BY ImageStep
  <1>3. ImageInv => TypeOK
    BY ImageInvShows
  <1> QED BY <1>1, <1>2, <1>3, PTL DEF ImageSpec

(* What a commit leaves in the chunks is the image that was serialized,    *)
(* whole and with nothing behind it (write_chunk, write_index).            *)
THEOREM StoredImageIsWhole == ImageSpec => []StoredImageWhole
PROOF
  <1>1. ImageInit => ImageInv
    BY ImageInitially
  <1>2. ImageInv /\ [ImageNext]_imageVars => ImageInv'
    BY ImageStep
  <1>3. ImageInv => StoredImageWhole
    BY ImageInvShows
  <1> QED BY <1>1, <1>2, <1>3, PTL DEF ImageSpec

(* The loader is handed the beginning of one stored image (read).          *)
THEOREM LoaderGetsOneImage == ImageSpec => []HandsOutImage
PROOF
  <1>1. ImageInit => ImageInv
    BY ImageInitially
  <1>2. ImageInv /\ [ImageNext]_imageVars => ImageInv'
    BY ImageStep
  <1>3. ImageInv => HandsOutImage
    BY ImageInvShows
  <1> QED BY <1>1, <1>2, <1>3, PTL DEF ImageSpec

(* A copy of the stored generation is the stored index, though the load    *)
(* that made it saw several commits (read_index, refresh).                 *)
THEOREM TrustedCopyIsTheIndex == ImageSpec => []TrustedCopyIsStored
PROOF
  <1>1. ImageInit => ImageInv
    BY ImageInitially
  <1>2. ImageInv /\ [ImageNext]_imageVars => ImageInv'
    BY ImageStep
  <1>3. ImageInv => TrustedCopyIsStored
    BY ImageInvShows
  <1> QED BY <1>1, <1>2, <1>3, PTL DEF ImageSpec
=============================================================================
