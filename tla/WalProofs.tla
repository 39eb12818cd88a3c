--------------------------------- MODULE WalProofs ---------------------------------
(***************************************************************************)
(* What log::Writer writes, log::Reader reads back: for blocks and headers *)
(* of any size, any number of records of any length, any write failing and *)
(* the process ending anywhere.                                            *)
(***************************************************************************)
EXTENDS Wal, WritableFileLemmas

Byte == Seq(Nat)

----------------------------------------------------------------------------------
(***************************************************************************)
(* Blocks.                                                                 *)
(***************************************************************************)
LEMMA BlockSizes ==
  /\ kBlockSize \in Nat \ {0} /\ kHeaderSize \in Nat
  /\ 3 <= kHeaderSize /\ kHeaderSize <= kBlockSize
  BY BlockAssumption

LEMMA RemainderBound ==
  ASSUME NEW K \in Nat \ {0}, NEW p \in Nat
  PROVE  p % K \in Nat /\ p % K < K
  BY Z3

LEMMA RemainderToMultiple ==
  ASSUME NEW K \in Nat \ {0}, NEW p \in Nat
  PROVE  (p + (K - (p % K))) % K = 0
  BY RemainderBound, Z3

LEMMA RemainderWithin ==
  ASSUME NEW K \in Nat \ {0}, NEW p \in Nat, NEW c \in Nat, (p % K) + c < K
  PROVE  (p + c) % K = (p % K) + c
  BY RemainderBound, Z3

LEMMA RemainderSmall ==
  ASSUME NEW K \in Nat \ {0}, NEW c \in Nat, c < K
  PROVE  c % K = c /\ K % K = 0
  BY Z3

\* The place of position p in its block.
Place(p) == p % kBlockSize

LEMMA PlaceBound ==
  ASSUME NEW p \in Nat
  PROVE  Place(p) \in Nat /\ Place(p) < kBlockSize /\ kBlockSize \in Nat
  BY BlockSizes, RemainderBound DEF Place

LEMMA PlaceNext ==
  ASSUME NEW p \in Nat
  PROVE  Place(p + (kBlockSize - Place(p))) = 0
  BY BlockSizes, RemainderToMultiple DEF Place

LEMMA PlaceWithin ==
  ASSUME NEW p \in Nat, NEW c \in Nat, Place(p) + c < kBlockSize
  PROVE  Place(p + c) = Place(p) + c
  BY BlockSizes, RemainderWithin DEF Place

LEMMA PlaceSmall ==
  ASSUME NEW c \in Nat, c < kBlockSize
  PROVE  Place(c) = c
  BY BlockSizes, RemainderSmall DEF Place

LEMMA PlaceOfBlock == Place(kBlockSize) = 0
  <1>1. 0 \in Nat /\ 0 < kBlockSize
    BY BlockSizes
  <1> QED  BY <1>1, BlockSizes, RemainderSmall DEF Place

\* Where the fragment behind position p begins: at the next block, when what is left
\* of this one is less than a header.
Room(p) == kBlockSize - Place(p)

After(p) == IF Room(p) < kHeaderSize THEN p + Room(p) ELSE p

LEMMA AfterBound ==
  ASSUME NEW p \in Nat
  PROVE  /\ After(p) \in Nat /\ p <= After(p)
         /\ Place(After(p)) = IF Room(p) < kHeaderSize THEN 0 ELSE Place(p)
         /\ Place(After(p)) + kHeaderSize <= kBlockSize
  BY BlockSizes, PlaceBound, PlaceNext DEF After, Room

\* Position p is at o of its block, where at the end of a block o is 0 or the size.
AtOffset(p, o) == o \in 0..kBlockSize /\ Place(o) = Place(p)

\* From offset o of a block a writer goes on as After says.
LEMMA OffsetAfter ==
  ASSUME NEW p \in Nat, NEW o, AtOffset(p, o)
  PROVE  /\ After(p) = p + (IF kBlockSize - o < kHeaderSize THEN kBlockSize - o ELSE 0)
         /\ Place(After(p)) = IF kBlockSize - o < kHeaderSize THEN 0 ELSE o
  <1>1. o \in Nat /\ o <= kBlockSize /\ Place(o) = Place(p)
    BY BlockSizes DEF AtOffset
  <1>2. CASE o = kBlockSize
    <2>1. Place(p) = 0
      BY <1>1, <1>2, PlaceOfBlock
    <2> QED  BY <1>1, <1>2, <2>1, BlockSizes, AfterBound DEF After, Room
  <1>3. CASE o < kBlockSize
    <2>1. Place(p) = o
      BY <1>1, <1>3, PlaceSmall
    <2> QED  BY <1>1, <2>1, BlockSizes, AfterBound DEF After, Room
  <1> QED  BY <1>1, <1>2, <1>3, BlockSizes

\* Within its block, c bytes further is c further.
LEMMA OffsetMoves ==
  ASSUME NEW p \in Nat, NEW c \in Nat, Place(p) + c <= kBlockSize
  PROVE  AtOffset(p + c, Place(p) + c)
  <1>1. Place(p) \in Nat /\ kBlockSize \in Nat /\ Place(p) + c \in 0..kBlockSize
    BY PlaceBound
  <1>2. CASE Place(p) + c = kBlockSize
    <2>1. c = kBlockSize - Place(p)
      BY <1>1, <1>2
    <2> QED  BY <1>1, <1>2, <2>1, PlaceNext, PlaceOfBlock DEF AtOffset
  <1>3. CASE Place(p) + c < kBlockSize
    <2>1. Place(Place(p) + c) = Place(p) + c
      BY <1>1, <1>3, PlaceSmall
    <2> QED  BY <1>1, <1>3, <2>1, PlaceWithin DEF AtOffset
  <1> QED  BY <1>1, <1>2, <1>3

----------------------------------------------------------------------------------
(***************************************************************************)
(* The bytes of a fragment.                                                *)
(***************************************************************************)
LEMMA ZerosType ==
  ASSUME NEW n \in Nat
  PROVE  Zeros(n) \in Seq(Byte) /\ Len(Zeros(n)) = n
  <1>1. <<kZeroType>> \in Byte
    BY DEF kZeroType, Byte
  <1>2. Zeros(n) \in [1..n -> Byte]
    BY <1>1 DEF Zeros
  <1> QED  BY <1>2, SeqDef, LenProperties

LEMMA PayloadType ==
  ASSUME NEW i \in Nat, NEW a \in Nat \ {0}, NEW b \in Int, b >= a - 1
  PROVE  /\ Payload(i, a, b) \in Seq(Byte)
         /\ Len(Payload(i, a, b)) = b - a + 1
         /\ \A k \in 1..(b - a + 1) : Payload(i, a, b)[k] = <<i, a + k - 1>>
  <1>1. b - a + 1 \in Nat
    OBVIOUS
  <1>2. \A k \in 1..(b - a + 1) : <<i, a + k - 1>> \in Byte
    BY DEF Byte
  <1>3. Payload(i, a, b) \in [1..(b - a + 1) -> Byte]
    BY <1>2 DEF Payload
  <1>4. Payload(i, a, b) \in Seq(Byte) /\ Len(Payload(i, a, b)) = b - a + 1
    BY <1>1, <1>3, SeqDef, LenProperties
  <1> QED  BY <1>4 DEF Payload

LEMMA HeaderType ==
  ASSUME NEW type \in Nat, NEW length \in Nat
  PROVE  /\ Header(type, length) \in Seq(Byte)
         /\ Len(Header(type, length)) = kHeaderSize
         /\ Header(type, length)[kHeaderSize - 1] = <<length>>
         /\ Header(type, length)[kHeaderSize] = <<type>>
  <1> DEFINE zeros == Zeros(kHeaderSize - 2)
             two == <<<<length>>, <<type>>>>
  <1>1. kHeaderSize - 2 \in Nat /\ kHeaderSize \in Nat /\ 3 <= kHeaderSize
    BY BlockSizes
  <1>2. zeros \in Seq(Byte) /\ Len(zeros) = kHeaderSize - 2
    BY <1>1, ZerosType
  <1>3. two \in Seq(Byte) /\ Len(two) = 2 /\ two[1] = <<length>> /\ two[2] = <<type>>
    BY DEF Byte
  <1> HIDE DEF zeros, two
  <1>4. /\ zeros \o two \in Seq(Byte) /\ Len(zeros \o two) = Len(zeros) + Len(two)
        /\ \A i \in 1..(Len(zeros) + Len(two)) :
             (zeros \o two)[i] = IF i <= Len(zeros) THEN zeros[i] ELSE two[i - Len(zeros)]
    BY <1>2, <1>3, ConcatProperties
  <1>5. Header(type, length) = zeros \o two
    BY DEF Header, zeros, two
  <1>6. /\ (zeros \o two)[kHeaderSize - 1] = two[1]
        /\ (zeros \o two)[kHeaderSize] = two[2]
    <2>1. Len(zeros) = kHeaderSize - 2 /\ Len(two) = 2
      BY <1>2, <1>3
    <2>2. /\ kHeaderSize - 1 \in 1..(Len(zeros) + Len(two)) /\ ~ (kHeaderSize - 1 <= Len(zeros))
          /\ kHeaderSize - 1 - Len(zeros) = 1
          /\ kHeaderSize \in 1..(Len(zeros) + Len(two)) /\ ~ (kHeaderSize <= Len(zeros))
          /\ kHeaderSize - Len(zeros) = 2
      BY <1>1, <2>1
    <2> QED  BY <1>4, <2>2
  <1> QED  BY <1>1, <1>2, <1>3, <1>4, <1>5, <1>6

LEMMA TypeOfFragment ==
  ASSUME NEW first, NEW last
  PROVE  /\ FragmentType(first, last) \in 1..4
         /\ FragmentType(first, last) \in ReturnedTypes <=> last
  BY DEF FragmentType, ReturnedTypes, kFullType, kFirstType, kMiddleType, kLastType

----------------------------------------------------------------------------------
(***************************************************************************)
(* Types, and where the writer is in its block.                            *)
(***************************************************************************)
RecordWritten == [length : Nat, fragments : Nat]

\* While AddRecord runs it has part of the last record left, which is not acknowledged.
Emitting == pc = "emit" =>
  /\ written # <<>>
  /\ left <= written[Len(written)].length
  /\ acked <= Len(written) - 1

\* block_offset_ moves with the file as long as no write fails.
Aligned ==
  pc \in {"idle", "emit"} =>
    /\ file.buf = <<>>
    /\ NeverFailed => AtOffset(Len(file.disk), block_offset)

WriterInv == TypeOK /\ Emitting /\ Aligned

LEMMA WriterTypes ==
  ASSUME TypeOK
  PROVE  /\ file \in FileOf(Byte) /\ file.buf \in Seq(Byte) /\ file.disk \in Seq(Byte)
         /\ Len(file.disk) \in Nat /\ Len(written) \in Nat /\ acked \in Nat
         /\ acked <= Len(written) /\ left \in Nat /\ block_offset \in Nat
         /\ block_offset <= kBlockSize
         /\ \A i \in 1..Len(written) : written[i] \in RecordWritten /\ written[i].length \in Nat
                                       /\ written[i].fragments \in Nat
  <1>1. /\ file \in FileOf(Byte) /\ block_offset \in 0..kBlockSize /\ left \in Nat
        /\ written \in Seq(RecordWritten) /\ acked \in 0..Len(written)
    BY DEF TypeOK, Bytes, FileOf, Byte, RecordWritten
  <1>2. file.buf \in Seq(Byte) /\ file.disk \in Seq(Byte)
    BY <1>1, FileFields
  <1>3. Len(file.disk) \in Nat /\ Len(written) \in Nat
    BY <1>1, <1>2, LenProperties
  <1>4. \A i \in 1..Len(written) : written[i] \in RecordWritten
    BY <1>1, ElementOfSeq
  <1> QED  BY <1>1, <1>2, <1>3, <1>4, BlockSizes DEF RecordWritten

\* The fragment AddRecord is about to emit: n is the record it is of.
Cut(n) ==
  /\ n = Len(written) /\ n \in Nat \ {0} /\ n \in 1..Len(written)
  /\ written[n] \in RecordWritten /\ left <= written[n].length
  /\ FragmentStart \in Nat /\ FragmentLength \in Nat /\ FragmentLength <= left
  /\ FragmentStart + kHeaderSize + FragmentLength <= kBlockSize
  /\ Padding \in Seq(Byte)
  /\ Len(Padding) = IF kBlockSize - block_offset < kHeaderSize
                    THEN kBlockSize - block_offset ELSE 0
  /\ Fragment \in Seq(Byte) /\ Len(Fragment) = FragmentLength
  /\ \A k \in 1..FragmentLength :
       Fragment[k] = <<n, written[n].length - left + k>>
  /\ EmittedType \in 1..4
  /\ EmittedType \in ReturnedTypes <=> left = FragmentLength

LEMMA FragmentCut ==
  ASSUME WriterInv, pc = "emit"
  PROVE  Cut(Len(written))
  <1> DEFINE n == Len(written)
             total == written[n].length
             from == total - left + 1
  <1>1. /\ n \in Nat /\ n # 0 /\ left \in Nat /\ left <= total
        /\ block_offset \in Nat /\ block_offset <= kBlockSize
        /\ written[n] \in RecordWritten /\ total \in Nat
    <2>1. written \in Seq(RecordWritten) /\ written # <<>>
      BY DEF WriterInv, TypeOK, Emitting, RecordWritten
    <2>2. n \in Nat /\ n # 0
      BY <2>1, EmptySeq, LenProperties
    <2> QED  BY <2>2, WriterTypes DEF WriterInv, Emitting
  <1>2. /\ kBlockSize \in Nat /\ kHeaderSize \in Nat /\ 3 <= kHeaderSize
        /\ kHeaderSize <= kBlockSize
    BY BlockSizes
  <1>3. FragmentStart \in Nat /\ FragmentStart + kHeaderSize <= kBlockSize
    BY <1>1, <1>2 DEF FragmentStart
  <1>4. /\ FragmentLength \in Nat /\ FragmentLength <= left
        /\ FragmentStart + kHeaderSize + FragmentLength <= kBlockSize
    BY <1>1, <1>2, <1>3 DEF FragmentLength, Least
  <1>5. /\ Padding \in Seq(Byte)
        /\ Len(Padding) = IF kBlockSize - block_offset < kHeaderSize
                          THEN kBlockSize - block_offset ELSE 0
    <2>1. CASE kBlockSize - block_offset < kHeaderSize
      <3>1. kBlockSize - block_offset \in Nat
        BY <1>1, <1>2
      <3> QED  BY <2>1, <3>1, ZerosType DEF Padding
    <2>2. CASE ~ (kBlockSize - block_offset < kHeaderSize)
      BY <2>2 DEF Padding, Byte
    <2> QED  BY <2>1, <2>2
  <1>6. /\ Fragment \in Seq(Byte) /\ Len(Fragment) = FragmentLength
        /\ \A k \in 1..FragmentLength : Fragment[k] = <<n, total - left + k>>
    <2> DEFINE to == from + FragmentLength - 1
    <2>1. Fragment = Payload(n, from, to)
      BY DEF Fragment
    <2>2. from \in Nat \ {0} /\ to \in Int /\ to >= from - 1 /\ to - from + 1 = FragmentLength
      BY <1>1, <1>4
    <2>3. \A k \in 1..FragmentLength : from + k - 1 = total - left + k
      BY <1>1, <1>4
    <2> HIDE DEF from, to
    <2>4. /\ Payload(n, from, to) \in Seq(Byte)
          /\ Len(Payload(n, from, to)) = to - from + 1
          /\ \A k \in 1..(to - from + 1) : Payload(n, from, to)[k] = <<n, from + k - 1>>
      BY <1>1, <2>2, PayloadType
    <2> QED  BY <2>1, <2>2, <2>3, <2>4
  <1>7. EmittedType \in 1..4 /\ (EmittedType \in ReturnedTypes <=> left = FragmentLength)
    BY TypeOfFragment DEF EmittedType
  <1> QED  BY <1>1, <1>3, <1>4, <1>5, <1>6, <1>7 DEF Cut

\* The bytes of the fragment, with the padding in front of it.
Emitted == (Padding \o Header(EmittedType, FragmentLength)) \o Fragment

LEMMA EmittedBytes ==
  ASSUME WriterInv, pc = "emit"
  PROVE  /\ Emitted \in Seq(Byte)
         /\ Len(Emitted) = Len(Padding) + kHeaderSize + FragmentLength
         /\ Emitted[Len(Padding) + kHeaderSize - 1] = <<FragmentLength>>
         /\ Emitted[Len(Padding) + kHeaderSize] = <<EmittedType>>
         /\ \A k \in 1..FragmentLength :
              Emitted[Len(Padding) + kHeaderSize + k] = Fragment[k]
  <1> DEFINE h == Header(EmittedType, FragmentLength)
             p == Padding
             g == Fragment
  <1>1. /\ p \in Seq(Byte) /\ Len(p) \in Nat /\ g \in Seq(Byte) /\ Len(g) = FragmentLength
        /\ FragmentLength \in Nat /\ EmittedType \in Nat
    BY FragmentCut, LenProperties DEF Cut
  <1>2. kHeaderSize \in Nat /\ 3 <= kHeaderSize
    BY BlockSizes
  <1>3. /\ h \in Seq(Byte) /\ Len(h) = kHeaderSize
        /\ h[kHeaderSize - 1] = <<FragmentLength>> /\ h[kHeaderSize] = <<EmittedType>>
    BY <1>1, HeaderType
  <1> HIDE DEF h, p, g
  <1>4. /\ p \o h \in Seq(Byte) /\ Len(p \o h) = Len(p) + kHeaderSize
        /\ \A i \in 1..(Len(p) + Len(h)) :
             (p \o h)[i] = IF i <= Len(p) THEN p[i] ELSE h[i - Len(p)]
    BY <1>1, <1>3, ConcatProperties
  <1> DEFINE ph == p \o h
  <1> HIDE DEF ph
  <1>5. /\ ph \o g \in Seq(Byte) /\ Len(ph \o g) = Len(ph) + Len(g)
        /\ \A i \in 1..(Len(ph) + Len(g)) :
             (ph \o g)[i] = IF i <= Len(ph) THEN ph[i] ELSE g[i - Len(ph)]
    <2>1. ph \in Seq(Byte)
      BY <1>4 DEF ph
    <2> QED  BY <1>1, <2>1, ConcatProperties
  <1>6. Len(ph) = Len(p) + kHeaderSize
    BY <1>4 DEF ph
  <1>7. /\ ph[Len(p) + kHeaderSize - 1] = h[kHeaderSize - 1]
        /\ ph[Len(p) + kHeaderSize] = h[kHeaderSize]
    <2>1. /\ Len(p) + kHeaderSize - 1 \in 1..(Len(p) + Len(h))
          /\ ~ (Len(p) + kHeaderSize - 1 <= Len(p))
          /\ Len(p) + kHeaderSize - 1 - Len(p) = kHeaderSize - 1
          /\ Len(p) + kHeaderSize \in 1..(Len(p) + Len(h))
          /\ ~ (Len(p) + kHeaderSize <= Len(p))
          /\ Len(p) + kHeaderSize - Len(p) = kHeaderSize
      BY <1>1, <1>2, <1>3
    <2> DEFINE i == Len(p) + kHeaderSize - 1
               j == Len(p) + kHeaderSize
    <2> HIDE DEF i, j
    <2>2. ph[i] = h[i - Len(p)] /\ ph[j] = h[j - Len(p)]
      BY <1>4, <2>1 DEF ph, i, j
    <2>3. i - Len(p) = kHeaderSize - 1 /\ j - Len(p) = kHeaderSize
      BY <1>1, <1>2 DEF i, j
    <2>4. ph[i] = h[kHeaderSize - 1] /\ ph[j] = h[kHeaderSize]
      BY <2>2, <2>3
    <2> QED  BY <2>4 DEF i, j
  <1>8. \A k \in 1..FragmentLength : (ph \o g)[Len(p) + kHeaderSize + k] = g[k]
    <2> SUFFICES ASSUME NEW k \in 1..FragmentLength
                 PROVE  (ph \o g)[Len(p) + kHeaderSize + k] = g[k]
      OBVIOUS
    <2>1. /\ Len(p) + kHeaderSize + k \in 1..(Len(ph) + Len(g))
          /\ ~ (Len(p) + kHeaderSize + k <= Len(ph))
          /\ Len(p) + kHeaderSize + k - Len(ph) = k
      BY <1>1, <1>2, <1>6
    <2> DEFINE i == Len(p) + kHeaderSize + k
    <2> HIDE DEF i
    <2>2. (ph \o g)[i] = g[i - Len(ph)]
      BY <1>5, <2>1 DEF i
    <2>3. i - Len(ph) = k
      BY <1>1, <1>2, <1>6 DEF i
    <2>4. (ph \o g)[i] = g[k]
      BY <2>2, <2>3
    <2> QED  BY <2>4 DEF i
  <1>9. /\ (ph \o g)[Len(p) + kHeaderSize - 1] = ph[Len(p) + kHeaderSize - 1]
        /\ (ph \o g)[Len(p) + kHeaderSize] = ph[Len(p) + kHeaderSize]
    <2>1. /\ Len(p) + kHeaderSize - 1 \in 1..(Len(ph) + Len(g))
          /\ Len(p) + kHeaderSize - 1 <= Len(ph)
          /\ Len(p) + kHeaderSize \in 1..(Len(ph) + Len(g))
          /\ Len(p) + kHeaderSize <= Len(ph)
      BY <1>1, <1>2, <1>6
    <2> QED  BY <1>5, <2>1
  <1>10. Emitted = ph \o g
    BY DEF Emitted, ph, h, p, g
  <1>11. Padding = p /\ Fragment = g
    BY DEF p, g
  <1> QED  BY <1>1, <1>3, <1>5, <1>6, <1>7, <1>8, <1>9, <1>10, <1>11

\* Append(padding), Append(header), Append(payload), Flush: a prefix of all this is
\* written, all of it if the fragment is.
LEMMA EmitOutcome ==
  ASSUME WriterInv, pc = "emit",
         NEW padded \in AppendTo(file, Padding),
         NEW r \in EmitPhysicalRecord(padded.file, EmittedType, Fragment)
  PROVE  \E p \in Prefixes(Emitted) :
           Leaves(file, r.file, <<>>, p, Byte) /\ r.ok = (p = Emitted)
  <1> DEFINE h == Header(EmittedType, FragmentLength)
             p == Padding
             g == Fragment
  <1>1. /\ file \in FileOf(Byte) /\ file.buf = <<>> /\ Len(file.buf) = 0
    BY WriterTypes, LenProperties DEF WriterInv, Aligned
  <1>2. /\ p \in Seq(Byte) /\ Len(p) \in Nat /\ g \in Seq(Byte) /\ Len(g) = FragmentLength
        /\ FragmentLength \in Nat /\ EmittedType \in Nat /\ Len(p) <= kHeaderSize - 1
        /\ kHeaderSize + FragmentLength <= kBlockSize
    <2>1. Cut(Len(written))
      BY FragmentCut
    <2>2. block_offset \in Nat /\ block_offset <= kBlockSize
      BY WriterTypes DEF WriterInv
    <2>3. Len(p) \in Nat
      BY <2>1, LenProperties DEF Cut
    <2> QED  BY <2>1, <2>2, <2>3, BlockSizes DEF Cut
  <1>3. /\ kHeaderSize \in Nat /\ 3 <= kHeaderSize /\ kBlockSize \in Nat
        /\ BufferSize \in Nat /\ BufferSize >= kHeaderSize - 1 + kBlockSize
    BY BlockSizes, BlockAssumption, BufferSizeAssumption
  <1>4. h \in Seq(Byte) /\ Len(h) = kHeaderSize
    BY <1>2, HeaderType
  <1>5. PICK a \in AppendTo(padded.file, Header(EmittedType, Len(g))) :
          IF a.ok
          THEN \E b \in AppendTo(a.file, g) :
                 IF b.ok THEN r \in FlushBuffer(b.file) ELSE r = b
          ELSE r = a
    BY DEF EmitPhysicalRecord
  <1>6. a \in AppendTo(padded.file, h)
    BY <1>2, <1>5
  <1> HIDE DEF h, p, g
  <1>7. padded \in AppendTo(file, p)
    BY DEF p
  <1>8. /\ padded.file \in FileOf(Byte) /\ padded.file.buf = <<>> \o p
        /\ padded.file.disk = file.disk
    <2>1. Len(file.buf) + Len(p) <= BufferSize
      BY <1>1, <1>2, <1>3
    <2>2. Takes(file, padded.file, p, Byte)
      BY <1>1, <1>2, <1>7, <2>1, AppendFits
    <2> QED  BY <1>1, <2>2 DEF Takes
  <1>9. padded.file.buf = p
    BY <1>2, <1>8, ConcatEmptySeq
  <1>10. /\ a.ok = TRUE /\ a.file \in FileOf(Byte) /\ a.file.buf = p \o h
         /\ a.file.disk = file.disk
    <2>1. Len(padded.file.buf) + Len(h) <= BufferSize
      BY <1>2, <1>3, <1>4, <1>9
    <2>2. a.ok = TRUE /\ Takes(padded.file, a.file, h, Byte)
      BY <1>4, <1>6, <1>8, <2>1, AppendFits
    <2> QED  BY <1>8, <1>9, <2>2 DEF Takes
  <1>11. PICK b \in AppendTo(a.file, g) :
           IF b.ok THEN r \in FlushBuffer(b.file) ELSE r = b
    BY <1>5, <1>10
  <1>12. Len(p \o h) = Len(p) + Len(h)
    BY <1>2, <1>4, ConcatProperties
  <1>13. /\ b.ok = TRUE /\ b.file \in FileOf(Byte) /\ b.file.buf = (p \o h) \o g
         /\ b.file.disk = file.disk
    <2>1. Len(a.file.buf) + Len(g) <= BufferSize
      BY <1>2, <1>3, <1>4, <1>10, <1>12
    <2>2. b.ok = TRUE /\ Takes(a.file, b.file, g, Byte)
      BY <1>2, <1>10, <1>11, <2>1, AppendFits
    <2> QED  BY <1>10, <2>2 DEF Takes
  <1>14. b.file.buf = Emitted
    BY <1>13 DEF Emitted, p, h, g
  <1>15. r \in FlushBuffer(b.file)
    BY <1>11, <1>13
  <1>16. PICK q \in Prefixes(b.file.buf) :
           Leaves(b.file, r.file, <<>>, q, Byte) /\ r.ok = (q = b.file.buf)
    <2> DEFINE f == b.file
    <2>1. f \in FileOf(Byte) /\ r \in FlushBuffer(f)
      BY <1>13, <1>15
    <2> HIDE DEF f
    <2>2. \E q \in Prefixes(f.buf) :
            Leaves(f, r.file, <<>>, q, Byte) /\ r.ok = (q = f.buf)
      BY <2>1, FlushOutcome
    <2> QED  BY <2>2 DEF f
  <1>17. q \in Prefixes(Emitted)
    BY <1>14, <1>16
  <1>18. Leaves(file, r.file, <<>>, q, Byte)
    BY <1>13, <1>16 DEF Leaves
  <1> QED  BY <1>14, <1>16, <1>17, <1>18

\* What a turn of AddRecord's loop does to the file, with p what is written of the fragment.
EmitsPart(p) ==
  /\ p \in Prefixes(Emitted) /\ p \in Seq(Byte) /\ Len(p) <= Len(Emitted)
  /\ \A i \in 1..Len(p) : p[i] = Emitted[i]
  /\ Len(p) = Len(Emitted) => p = Emitted
  /\ file' \in FileOf(Byte)
  /\ file'.buf = <<>>
  /\ file'.disk = file.disk \o p
  /\ pc' = IF p = Emitted /\ left > FragmentLength THEN "emit" ELSE "idle"
  /\ acked' = IF p = Emitted /\ left = FragmentLength /\ acked = Len(written) - 1
              THEN acked + 1 ELSE acked

LEMMA EmitStep ==
  ASSUME WriterInv, EmitFragment
  PROVE  \E p : EmitsPart(p)
  <1>1. pc = "emit"
    BY DEF EmitFragment
  <1>2. PICK padded \in AppendTo(file, Padding) :
          \E r \in EmitPhysicalRecord(padded.file, EmittedType, Fragment) :
            /\ file' = r.file
            /\ pc' = IF r.ok /\ left > FragmentLength THEN "emit" ELSE "idle"
            /\ acked' = IF r.ok /\ left = FragmentLength /\ acked = Len(written) - 1
                        THEN acked + 1 ELSE acked
    BY DEF EmitFragment
  <1>3. PICK r \in EmitPhysicalRecord(padded.file, EmittedType, Fragment) :
          /\ file' = r.file
          /\ pc' = IF r.ok /\ left > FragmentLength THEN "emit" ELSE "idle"
          /\ acked' = IF r.ok /\ left = FragmentLength /\ acked = Len(written) - 1
                      THEN acked + 1 ELSE acked
    BY <1>2
  <1>4. PICK p \in Prefixes(Emitted) :
          Leaves(file, r.file, <<>>, p, Byte) /\ r.ok = (p = Emitted)
    BY <1>1, EmitOutcome
  <1>5. Emitted \in Seq(Byte)
    BY <1>1, EmittedBytes
  <1>6. /\ p \in Seq(Byte) /\ Len(p) <= Len(Emitted)
        /\ \A i \in 1..Len(p) : p[i] = Emitted[i]
        /\ Len(p) = Len(Emitted) => p = Emitted
    BY <1>5, PrefixType, SameLengthPrefix
  <1> QED  BY <1>3, <1>4, <1>6 DEF EmitsPart, Leaves

\* A part is a whole, or the file ends within it.
LEMMA PartLength ==
  ASSUME WriterInv, pc = "emit", NEW p, EmitsPart(p)
  PROVE  /\ Len(p) \in Nat /\ Len(file.disk) \in Nat
         /\ file'.disk \in Seq(Byte)
         /\ Len(file'.disk) = Len(file.disk) + Len(p)
         /\ \A i \in 1..Len(file.disk) : file'.disk[i] = file.disk[i]
         /\ \A i \in 1..Len(p) : file'.disk[Len(file.disk) + i] = Emitted[i]
  <1>1. p \in Seq(Byte) /\ file.disk \in Seq(Byte)
    BY WriterTypes DEF EmitsPart, WriterInv
  <1>2. Len(p) \in Nat /\ Len(file.disk) \in Nat
    BY <1>1, LenProperties
  <1> DEFINE d == file.disk
  <1> HIDE DEF d
  <1>3. /\ d \o p \in Seq(Byte) /\ Len(d \o p) = Len(d) + Len(p)
        /\ \A i \in 1..(Len(d) + Len(p)) : (d \o p)[i] = IF i <= Len(d) THEN d[i] ELSE p[i - Len(d)]
    <2>1. d \in Seq(Byte)
      BY <1>1 DEF d
    <2> QED  BY <1>1, <2>1, ConcatProperties
  <1>4. Len(d) \in Nat
    BY <1>2 DEF d
  <1>5. \A i \in 1..Len(d) : (d \o p)[i] = d[i]
    BY <1>2, <1>3, <1>4
  <1>6. \A i \in 1..Len(p) : (d \o p)[Len(d) + i] = Emitted[i]
    <2> SUFFICES ASSUME NEW i \in 1..Len(p) PROVE (d \o p)[Len(d) + i] = Emitted[i]
      OBVIOUS
    <2> DEFINE j == Len(d) + i
    <2>1. j \in 1..(Len(d) + Len(p)) /\ ~ (j <= Len(d)) /\ j - Len(d) = i
      BY <1>2, <1>4
    <2> HIDE DEF j
    <2>2. (d \o p)[j] = p[i]
      BY <1>3, <2>1
    <2>3. p[i] = Emitted[i]
      BY DEF EmitsPart
    <2> QED  BY <2>2, <2>3 DEF j
  <1>7. file'.disk = d \o p
    BY DEF EmitsPart, d
  <1> QED  BY <1>2, <1>3, <1>5, <1>6, <1>7 DEF d

LEMMA WriterInit == Init => WriterInv
  <1> SUFFICES ASSUME Init PROVE WriterInv
    OBVIOUS
  <1>1. TypeOK
    <2>1. file \in [buf : Bytes, disk : Bytes, open : BOOLEAN] /\ Len(file.disk) \in Nat
      BY DEF Init, NewFile, Bytes
    <2>2. written \in Seq([length : Nat, fragments : Nat]) /\ Len(written) \in Nat
          /\ returned \in Seq(Bytes) /\ buffer \in Bytes
      BY DEF Init, Bytes
    <2>3. block_offset \in 0..kBlockSize /\ offset \in 0..Len(file.disk) /\ acked \in 0..Len(written)
      BY <2>1, <2>2, BlockSizes DEF Init
    <2> QED  BY <2>1, <2>2, <2>3 DEF Init, TypeOK
  <1>2. Aligned
    BY BlockSizes DEF Init, Aligned, AtOffset, NewFile
  <1> QED  BY <1>1, <1>2 DEF Init, WriterInv, Emitting

LEMMA WriterAdds ==
  ASSUME WriterInv, NEW length \in Lengths, AddRecord(length)
  PROVE  WriterInv'
  <1> DEFINE new == [length |-> length, fragments |-> 0]
  <1>1. /\ written \in Seq(RecordWritten) /\ new \in RecordWritten /\ length \in Nat
        /\ new.length = length
    BY LengthsAssumption DEF WriterInv, TypeOK, RecordWritten
  <1> HIDE DEF new
  <1>2. /\ written' = Append(written, new) /\ written' \in Seq(RecordWritten)
        /\ Len(written') = Len(written) + 1 /\ written'[Len(written) + 1] = new
        /\ Len(written) \in Nat
    BY <1>1, AppendProperties, LenProperties DEF AddRecord, new
  <1>3. acked \in 0..Len(written) /\ acked' = acked
    BY DEF AddRecord, WriterInv, TypeOK
  <1>4. TypeOK'
    BY <1>1, <1>2, <1>3 DEF AddRecord, WriterInv, TypeOK, readerVars, RecordWritten
  <1>5. Emitting'
    <2>1. written' # <<>> /\ left' <= written'[Len(written')].length
      BY <1>1, <1>2, EmptySeq DEF AddRecord
    <2>2. acked' <= Len(written') - 1
      BY <1>2, <1>3
    <2> QED  BY <2>1, <2>2 DEF Emitting
  <1>6. Aligned'
    <2>1. /\ file' = file /\ block_offset' = block_offset /\ pc = "idle" /\ pc' = "emit"
          /\ NeverFailed' => NeverFailed
      BY <1>2, <1>3 DEF AddRecord, NeverFailed
    <2> QED  BY <2>1 DEF Aligned, WriterInv, AtOffset, Place
  <1> QED  BY <1>4, <1>5, <1>6 DEF WriterInv

LEMMA WriterEmits ==
  ASSUME WriterInv, EmitFragment
  PROVE  WriterInv'
  <1> DEFINE n == Len(written)
             old == written[n]
             new == [old EXCEPT !.fragments = @ + 1]
  <1>1. pc = "emit"
    BY DEF EmitFragment
  <1>2. PICK p : EmitsPart(p)
    BY EmitStep
  <1>3. Cut(n)
    BY <1>1, FragmentCut
  <1>4. /\ Len(p) \in Nat /\ Len(file.disk) \in Nat /\ file'.disk \in Seq(Byte)
        /\ Len(file'.disk) = Len(file.disk) + Len(p)
    BY <1>1, <1>2, PartLength
  <1>5. /\ n \in Nat /\ acked \in 0..n /\ acked <= n - 1 /\ left \in Nat
        /\ offset \in 0..Len(file.disk) /\ written \in Seq(RecordWritten)
        /\ block_offset \in 0..kBlockSize
    BY <1>1, <1>3 DEF WriterInv, TypeOK, Emitting, RecordWritten, Cut
  <1>6. old \in RecordWritten /\ new \in RecordWritten /\ new.length = old.length
    BY <1>3 DEF Cut, RecordWritten
  <1>7. /\ written' = [written EXCEPT ![n] = new] /\ written' \in Seq(RecordWritten)
        /\ Len(written') = n /\ written'[n] = new
    <2>1. written' = [written EXCEPT ![n] = new]
      BY DEF EmitFragment
    <2>2. n \in 1..Len(written) /\ DOMAIN written = 1..n
      BY <1>3, <1>5 DEF Cut
    <2> HIDE DEF new, old
    <2> QED  BY <1>5, <1>6, <2>1, <2>2, ExceptSeq
  <1> HIDE DEF new, old
  <1>8. /\ FragmentStart \in Nat /\ FragmentLength \in Nat /\ kHeaderSize \in Nat
        /\ FragmentLength <= left /\ kBlockSize \in Nat
        /\ FragmentStart + kHeaderSize + FragmentLength <= kBlockSize
        /\ block_offset' = FragmentStart + kHeaderSize + FragmentLength
        /\ left' = left - FragmentLength
    BY <1>3, BlockSizes DEF Cut, EmitFragment
  <1>9. TypeOK'
    <2>1. file' \in [buf : Bytes, disk : Bytes, open : BOOLEAN]
      BY <1>2 DEF EmitsPart, FileOf, Bytes, Byte
    <2>2. offset' \in 0..Len(file'.disk)
      BY <1>4, <1>5 DEF EmitFragment, readerVars
    <2>3. block_offset' \in 0..kBlockSize /\ left' \in Nat
      <3>1. FragmentStart + kHeaderSize + FragmentLength \in 0..kBlockSize
        BY <1>8
      <3>2. left - FragmentLength \in Nat
        BY <1>5, <1>8
      <3> QED  BY <1>8, <3>1, <3>2
    <2>4. pc' \in {"idle", "emit"} /\ acked' \in 0..Len(written')
      <3>1. acked \in 0..n /\ acked + 1 \in 0..n
        BY <1>5
      <3>2. acked' = acked \/ acked' = acked + 1
        BY <1>2 DEF EmitsPart
      <3>3. pc' \in {"idle", "emit"}
        BY <1>2 DEF EmitsPart
      <3> QED  BY <1>7, <3>1, <3>2, <3>3
    <2>5. written' \in Seq([length : Nat, fragments : Nat])
      BY <1>7 DEF RecordWritten
    <2>6. UNCHANGED readerVars /\ begin' = FALSE
      BY DEF EmitFragment
    <2> QED  BY <2>1, <2>2, <2>3, <2>4, <2>5, <2>6 DEF TypeOK, WriterInv, readerVars
  <1>10. Emitting'
    <2> SUFFICES ASSUME pc' = "emit"
                 PROVE  /\ written' # <<>>
                        /\ left' <= written'[Len(written')].length
                        /\ acked' <= Len(written') - 1
      BY DEF Emitting
    <2>1. p = Emitted /\ left > FragmentLength /\ acked' = acked
      BY <1>2, <1>8, <1>5 DEF EmitsPart
    <2>2. written' # <<>>
      BY <1>3, <1>7 DEF Cut
    <2>3. left' <= old.length
      BY <1>3, <1>5, <1>6, <1>8 DEF Cut, old, RecordWritten
    <2> QED  BY <1>5, <1>6, <1>7, <2>1, <2>2, <2>3
  <1>11. Aligned'
    <2>1. file'.buf = <<>>
      BY <1>2 DEF EmitsPart
    <2>2. ASSUME NeverFailed' PROVE AtOffset(Len(file'.disk), block_offset')
      <3>1. NeverFailed /\ p = Emitted
        <4>1. CASE pc' = "emit"
          <5>1. p = Emitted /\ left > FragmentLength
            BY <1>2, <4>1 DEF EmitsPart
          <5>2. acked' = acked
            BY <1>2, <1>5, <1>8, <5>1 DEF EmitsPart
          <5> QED  BY <1>1, <1>5, <1>7, <2>2, <4>1, <5>1, <5>2 DEF NeverFailed
        <4>2. CASE pc' # "emit"
          <5>1. acked' >= n
            BY <1>5, <1>7, <2>2, <4>2 DEF NeverFailed
          <5>2. p = Emitted /\ acked = n - 1
            BY <1>2, <1>5, <5>1 DEF EmitsPart
          <5> QED  BY <1>1, <1>5, <5>2 DEF NeverFailed
        <4> QED  BY <4>1, <4>2
      <3>2. AtOffset(Len(file.disk), block_offset)
        BY <1>1, <3>1 DEF WriterInv, Aligned
      <3>3. Len(p) = Len(Padding) + kHeaderSize + FragmentLength
        BY <1>1, <3>1, EmittedBytes
      <3>4. /\ After(Len(file.disk)) = Len(file.disk) + Len(Padding)
            /\ Place(After(Len(file.disk))) = FragmentStart
        BY <1>3, <1>4, <3>2, OffsetAfter DEF Cut, FragmentStart
      <3> DEFINE a == After(Len(file.disk))
                 c == kHeaderSize + FragmentLength
      <3>5. a \in Nat /\ c \in Nat
        <4>1. Len(file.disk) \in Nat
          BY <1>4
        <4>2. a \in Nat
          BY <4>1, AfterBound
        <4> QED  BY <1>8, <4>2
      <3>6. Place(a) + c <= kBlockSize /\ block_offset' = Place(a) + c
        BY <1>8, <3>4
      <3>7. Len(Padding) \in Nat
        BY <1>3, LenProperties DEF Cut
      <3>8. Len(file'.disk) = a + c
        <4>1. Len(p) = Len(Padding) + c
          BY <1>8, <3>3, <3>7
        <4>2. a = Len(file.disk) + Len(Padding)
          BY <3>4
        <4> HIDE DEF a, c
        <4>3. Len(file.disk) \in Nat /\ Len(p) \in Nat
          BY <1>4
        <4>4. Len(file.disk) + Len(p) = a + c
          <5> DEFINE x == Len(file.disk)
                     y == Len(Padding)
                     z == Len(p)
          <5>1. x \in Nat /\ y \in Nat /\ z \in Nat /\ c \in Nat /\ z = y + c /\ a = x + y
            BY <3>5, <3>7, <4>1, <4>2, <4>3
          <5> HIDE DEF x, y, z
          <5>2. x + z = a + c
            BY <5>1
          <5> QED  BY <5>2 DEF x, z
        <4> QED  BY <1>4, <4>4
      <3> HIDE DEF a, c
      <3> QED  BY <3>5, <3>6, <3>8, OffsetMoves
    <2> QED  BY <2>1, <2>2 DEF Aligned
  <1> QED  BY <1>9, <1>10, <1>11 DEF WriterInv

\* The end of the process leaves a prefix of the fragment it was writing.
LEMMA EndsWith ==
  ASSUME WriterInv, WriterEnds
  PROVE  \E p \in Seq(Byte) :
           /\ file' = [file EXCEPT !.buf = <<>>, !.disk = @ \o p]
           /\ IF pc = "emit" THEN p \in Prefixes(Emitted) ELSE p = <<>>
  <1>1. PICK p \in IF pc = "emit"
                   THEN Prefixes(Padding \o Header(EmittedType, FragmentLength) \o Fragment)
                   ELSE {<<>>} :
          file' = [file EXCEPT !.buf = <<>>, !.disk = @ \o p]
    BY DEF WriterEnds
  <1>2. IF pc = "emit" THEN p \in Prefixes(Emitted) ELSE p = <<>>
    BY <1>1 DEF Emitted
  <1>3. p \in Seq(Byte)
    <2>1. CASE pc = "emit"
      BY <1>2, <2>1, EmittedBytes, PrefixType
    <2>2. CASE pc # "emit"
      BY <1>2, <2>2
    <2> QED  BY <2>1, <2>2
  <1> QED  BY <1>1, <1>2, <1>3

LEMMA WriterStops ==
  ASSUME WriterInv, WriterEnds
  PROVE  WriterInv'
  <1>1. PICK p \in Seq(Byte) : file' = [file EXCEPT !.buf = <<>>, !.disk = @ \o p]
    BY EndsWith
  <1>2. /\ file \in FileOf(Byte) /\ file.disk \in Seq(Byte) /\ offset \in 0..Len(file.disk)
        /\ Len(file.disk) \in Nat
    BY WriterTypes DEF WriterInv, TypeOK
  <1> DEFINE d == file.disk \o p
  <1>3. d \in Seq(Byte) /\ Len(d) = Len(file.disk) + Len(p) /\ Len(p) \in Nat
    BY <1>2, ConcatProperties, LenProperties
  <1>4. file' = [file EXCEPT !.buf = <<>>, !.disk = d]
    BY <1>1
  <1>5. offset \in 0..Len(d)
    BY <1>2, <1>3
  <1> HIDE DEF d
  <1>6. file' \in [buf : Bytes, disk : Bytes, open : BOOLEAN] /\ file'.disk = d
    <2>1. d \in Seq(Byte) /\ <<>> \in Seq(Byte)
      BY <1>3 DEF d
    <2>2. file' \in FileOf(Byte) /\ file'.disk = d
      BY <1>2, <1>4, <2>1 DEF FileOf
    <2> QED  BY <2>2 DEF FileOf, Bytes, Byte
  <1>7. offset' \in 0..Len(file'.disk)
    BY <1>5, <1>6 DEF WriterEnds, readerVars
  <1>8. TypeOK'
    BY <1>6, <1>7 DEF WriterInv, TypeOK, WriterEnds, readerVars, history
  <1> QED  BY <1>8 DEF WriterInv, WriterEnds, Emitting, Aligned

LEMMA ReaderTypes ==
  ASSUME TypeOK
  PROVE  /\ buffer \in Seq(Byte) /\ Len(buffer) \in Nat
         /\ offset \in Nat /\ offset <= Len(file.disk)
         /\ file.disk \in Seq(Byte) /\ Len(file.disk) \in Nat
         /\ returned \in Seq(Seq(Byte))
  <1>1. file.disk \in Seq(Byte) /\ Len(file.disk) \in Nat
    BY WriterTypes
  <1>2. buffer \in Seq(Byte) /\ returned \in Seq(Seq(Byte)) /\ offset \in 0..Len(file.disk)
    BY DEF TypeOK, Bytes, Byte
  <1>3. Len(buffer) \in Nat
    BY <1>2, LenProperties
  <1> QED  BY <1>1, <1>2, <1>3

\* The next block is read, as much of it as there is.
LEMMA BlockRead ==
  ASSUME TypeOK, ReadBlock
  PROVE  /\ buffer' \in Seq(Byte)
         /\ offset' = Least(offset + kBlockSize, Len(file.disk))
         /\ Len(buffer') = offset' - offset
         /\ \A i \in 1..Len(buffer') : buffer'[i] = file.disk[offset + i]
  <1> DEFINE e == Least(offset + kBlockSize, Len(file.disk))
  <1>1. /\ file.disk \in Seq(Byte) /\ Len(file.disk) \in Nat /\ kBlockSize \in Nat
        /\ offset \in Nat /\ offset <= Len(file.disk)
    BY ReaderTypes, BlockSizes
  <1>2. e \in Nat /\ offset <= e /\ e <= Len(file.disk)
    BY <1>1 DEF Least
  <1>3. /\ buffer' = SubSeq(file.disk, offset + 1, e) /\ offset' = offset + Len(buffer')
    BY DEF ReadBlock
  <1> HIDE DEF e
  <1>4. /\ buffer' \in Seq(Byte) /\ Len(buffer') = e - offset
        /\ \A i \in 1..(e - offset) : buffer'[i] = file.disk[offset + i]
    BY <1>1, <1>2, <1>3, SliceType
  <1>5. offset' = e
    BY <1>1, <1>2, <1>3, <1>4
  <1> QED  BY <1>4, <1>5 DEF e

\* A header of the buffer is read, and the fragment it describes taken or dropped.
LEMMA HeaderRead ==
  ASSUME TypeOK, Len(buffer) >= kHeaderSize
  PROVE  /\ BufferLengths \subseteq Nat
         /\ BufferTypes \subseteq Nat
  <1>1. buffer \in Seq(Byte) /\ Len(buffer) \in Nat
    BY ReaderTypes
  <1>2. kHeaderSize - 1 \in 1..Len(buffer) /\ kHeaderSize \in 1..Len(buffer) /\ kBlockSize \in Nat
    BY <1>1, BlockSizes
  <1>3. buffer[kHeaderSize - 1] \in Byte /\ buffer[kHeaderSize] \in Byte
    BY <1>1, <1>2, ElementOfSeq
  <1>4. \A b \in Byte : Len(b) = 1 => b[1] \in Nat
    BY DEF Byte
  <1>5. 0..kBlockSize \subseteq Nat /\ 0..(kBadRecord + 1) \subseteq Nat
    BY <1>2 DEF kBadRecord
  <1> QED  BY <1>3, <1>4, <1>5 DEF BufferLengths, BufferTypes, Values

LEMMA FragmentTaken ==
  ASSUME TypeOK, TakeFragment
  PROVE  \E length \in BufferLengths, type \in BufferTypes :
           /\ length \in Nat /\ type \in Nat
           /\ kHeaderSize + length <= Len(buffer)
           /\ ~ (type = kZeroType /\ length = 0)
           /\ buffer' \in Seq(Byte) /\ Len(buffer') = Len(buffer) - (kHeaderSize + length)
           /\ \A i \in 1..Len(buffer') : buffer'[i] = buffer[kHeaderSize + length + i]
           /\ pc' = IF type = kEof THEN "done" ELSE "read"
           /\ returned' \in Seq(Seq(Byte))
           /\ IF type \in ReturnedTypes
              THEN \E s \in Seq(Byte) :
                     /\ returned' = Append(returned, s)
                     /\ Len(s) = length
                     /\ \A i \in 1..length : s[i] = buffer[kHeaderSize + i]
              ELSE returned' = returned
  <1>1. /\ buffer \in Seq(Byte) /\ Len(buffer) \in Nat /\ returned \in Seq(Seq(Byte))
        /\ kHeaderSize \in Nat /\ Len(buffer) >= kHeaderSize
    BY ReaderTypes, BlockSizes DEF TakeFragment
  <1>2. PICK length \in BufferLengths, type \in BufferTypes :
          /\ kHeaderSize + length <= Len(buffer)
          /\ ~ (type = kZeroType /\ length = 0)
          /\ buffer' = SubSeq(buffer, kHeaderSize + length + 1, Len(buffer))
          /\ returned' = IF type \in ReturnedTypes
                         THEN Append(returned,
                                     SubSeq(buffer, kHeaderSize + 1, kHeaderSize + length))
                         ELSE returned
          /\ pc' = IF type = kEof THEN "done" ELSE "read"
    BY DEF TakeFragment
  <1>3. length \in Nat /\ type \in Nat
    BY <1>1, HeaderRead
  <1> DEFINE e == kHeaderSize + length
             s == SubSeq(buffer, kHeaderSize + 1, e)
  <1>4. e \in Nat /\ e <= Len(buffer) /\ kHeaderSize <= e /\ e - kHeaderSize = length
    BY <1>1, <1>2, <1>3
  <1>5. buffer' = SubSeq(buffer, e + 1, Len(buffer))
    BY <1>2
  <1>6. s \in Seq(Byte) /\ Len(s) = length /\ \A i \in 1..length : s[i] = buffer[kHeaderSize + i]
    <2> HIDE DEF e
    <2>1. /\ s \in Seq(Byte) /\ Len(s) = e - kHeaderSize
          /\ \A i \in 1..(e - kHeaderSize) : s[i] = buffer[kHeaderSize + i]
      BY <1>1, <1>4, SliceType
    <2> QED  BY <1>4, <2>1
  <1>7. returned' = IF type \in ReturnedTypes THEN Append(returned, s) ELSE returned
    BY <1>2
  <1> HIDE DEF e, s
  <1>8. /\ buffer' \in Seq(Byte) /\ Len(buffer') = Len(buffer) - e
        /\ \A i \in 1..(Len(buffer) - e) : buffer'[i] = buffer[e + i]
    BY <1>1, <1>4, <1>5, SliceType
  <1>9. returned' \in Seq(Seq(Byte))
    BY <1>1, <1>6, <1>7, AppendProperties
  <1>10. /\ Len(buffer') = Len(buffer) - (kHeaderSize + length)
         /\ \A i \in 1..Len(buffer') : buffer'[i] = buffer[kHeaderSize + length + i]
    BY <1>8 DEF e
  <1> QED  BY <1>2, <1>3, <1>6, <1>7, <1>8, <1>9, <1>10

LEMMA ReaderKeepsWriter ==
  ASSUME WriterInv, Reading
  PROVE  WriterInv'
  <1>1. /\ pc = "read" /\ pc' \in {"read", "done"}
        /\ UNCHANGED <<file, block_offset, left, begin, written, acked>>
    BY DEF Reading, ReadBlock, ReadEof, DropBlock, TakeFragment, writerVars, history
  <1>2. /\ buffer' \in Seq(Byte) /\ eof' \in BOOLEAN /\ offset' \in 0..Len(file.disk)
        /\ returned' \in Seq(Seq(Byte))
    <2>1. /\ returned \in Seq(Seq(Byte)) /\ offset \in Nat /\ offset <= Len(file.disk)
          /\ Len(file.disk) \in Nat /\ eof \in BOOLEAN /\ TypeOK
      BY ReaderTypes DEF WriterInv, TypeOK
    <2>2. offset \in 0..Len(file.disk)
      BY <2>1
    <2>3. CASE ReadBlock
      <3>1. Least(offset + kBlockSize, Len(file.disk)) \in 0..Len(file.disk)
        BY <2>1, BlockSizes DEF Least
      <3> QED  BY <2>1, <2>3, <3>1, BlockRead DEF ReadBlock
    <2>4. CASE ReadEof
      BY <2>1, <2>2, <2>4 DEF ReadEof
    <2>5. CASE DropBlock
      BY <2>1, <2>2, <2>5 DEF DropBlock
    <2>6. CASE TakeFragment
      BY <2>1, <2>2, <2>6, FragmentTaken DEF TakeFragment
    <2> QED  BY <2>3, <2>4, <2>5, <2>6 DEF Reading
  <1>3. TypeOK'
    BY <1>1, <1>2 DEF WriterInv, TypeOK, Bytes, Byte
  <1> QED  BY <1>1, <1>3 DEF WriterInv, Emitting, Aligned

LEMMA WriterStep ==
  ASSUME WriterInv, [Next]_walVars
  PROVE  WriterInv'
  <1>1. ASSUME NEW length \in Lengths, AddRecord(length) PROVE WriterInv'
    BY <1>1, WriterAdds
  <1>2. CASE EmitFragment
    BY <1>2, WriterEmits
  <1>3. CASE WriterEnds
    BY <1>3, WriterStops
  <1>4. CASE Reading
    BY <1>4, ReaderKeepsWriter
  <1>5. CASE UNCHANGED walVars
    BY <1>5 DEF walVars, writerVars, readerVars, history, WriterInv, TypeOK, Emitting, Aligned,
                NeverFailed, AtOffset, Place
  <1> QED  BY <1>1, <1>2, <1>3, <1>4, <1>5 DEF Next, Writing

\* The variables of the writer and of the reader have their types: no block is longer
\* than it should be, no position past the end of the file.
THEOREM WalTypes == Spec => []TypeOK
  <1>1. WriterInv => TypeOK
    BY DEF WriterInv
  <1> QED  BY <1>1, WriterInit, WriterStep, PTL DEF Spec

\* Whatever is padded and cut, and whichever writes fail, block_offset_ is where the
\* file is in its block until the first failure, and nothing waits in the buffer.
THEOREM WriterIsAligned == Spec => []BlockAligned
  <1>1. WriterInv => BlockAligned
    BY DEF WriterInv, Aligned, BlockAligned, AtOffset, Place
  <1> QED  BY <1>1, WriterInit, WriterStep, PTL DEF Spec

----------------------------------------------------------------------------------
(***************************************************************************)
(* What is read back: the invariant.                                       *)
(*                                                                         *)
(* Up to the first failure the file is a chain of fragments: S is the set  *)
(* of positions they begin at, F[s] says what begins at s, and G is where  *)
(* the last one ends.  The Reader goes along this chain.                   *)
(***************************************************************************)
FragmentOf == [length : Nat, record : Nat \ {0}, last : BOOLEAN]

\* s is the end of record i.
EndOf(s, i) ==
  /\ Len(s) <= written[i].length
  /\ \A k \in 1..Len(s) : s[k] = <<i, written[i].length - Len(s) + k>>

\* In the file there are, behind position p, l bytes that are the end of record i.
EndsOnDisk(p, l, i) ==
  /\ l <= written[i].length
  /\ \A k \in 1..l : file.disk[p + k] = <<i, written[i].length - l + k>>

EndOfFragment(s, f) == s + kHeaderSize + f.length

\* How many records are complete behind fragment f.
Complete(f) == IF f.last THEN f.record ELSE f.record - 1

\* A header at position a, for l bytes in the same block.
HeaderOnDisk(a, l, t) ==
  /\ Place(a) + kHeaderSize + l <= kBlockSize
  /\ file.disk[a + kHeaderSize - 1] = <<l>>
  /\ file.disk[a + kHeaderSize] = <<t>>

\* Fragment f is at position s.
OnDisk(s, f) ==
  /\ \E t \in 1..4 : HeaderOnDisk(s, f.length, t) /\ (t \in ReturnedTypes <=> f.last)
  /\ f.last =>
       /\ f.record <= acked
       /\ EndsOnDisk(s + kHeaderSize, f.length, f.record)
       /\ written[f.record].fragments = 1 => f.length = written[f.record].length

\* With c records complete at position e, what follows is the next fragment of the chain,
\* or the chain ends there and these are the acknowledged ones.
Leads(S, F, G, e, c) ==
  \/ e = G /\ c = acked
  \/ After(e) \in S /\ F[After(e)].record = c + 1

Chain(S, F, G) ==
  /\ G <= Len(file.disk)
  /\ Leads(S, F, G, 0, 0)
  /\ \A s \in S :
       /\ OnDisk(s, F[s])
       /\ EndOfFragment(s, F[s]) <= G
       /\ Leads(S, F, G, EndOfFragment(s, F[s]), Complete(F[s]))

\* Behind the chain there is at most one fragment, whole or torn, of the record that is
\* not acknowledged.
Torn(G) ==
  \/ Len(file.disk) < After(G) + kHeaderSize
  \/ \E l \in Nat, t \in 1..4 :
       /\ HeaderOnDisk(After(G), l, t)
       /\ Len(file.disk) <= After(G) + kHeaderSize + l
       /\ Len(file.disk) = After(G) + kHeaderSize + l /\ t \in ReturnedTypes =>
            acked < Len(written) /\ EndsOnDisk(After(G) + kHeaderSize, l, acked + 1)

\* Only one record was not acknowledged, if any.
OneMissing == acked >= Len(written) - 1

\* While the writer runs the Reader has not begun, and without a failure the whole file
\* is the chain.
WriterAt(G) ==
  pc \in {"idle", "emit"} =>
    /\ buffer = <<>> /\ ~ eof /\ offset = 0 /\ returned = <<>>
    /\ NeverFailed => G = Len(file.disk)
    /\ pc = "emit" /\ written[Len(written)].fragments = 0 => left = written[Len(written)].length

\* Where the Reader is: buffer_ is what follows.
Position == offset - Len(buffer)

\* buffer_ is the rest of a block, or of the file.
BufferIsRest ==
  /\ Position \in Nat
  /\ \A i \in 1..Len(buffer) : buffer[i] = file.disk[Position + i]
  /\ Place(Position) + Len(buffer) <= kBlockSize
  /\ \/ offset = Len(file.disk)
     \/ Place(Position) + Len(buffer) = kBlockSize
     \/ Len(buffer) = 0 /\ Place(Position) = 0

\* Record i has come back.
Back(i) ==
  /\ EndOf(returned[i], i)
  /\ written[i].fragments = 1 => Len(returned[i]) = written[i].length

AllBack == acked <= Len(returned) /\ \A i \in 1..acked : Back(i)

Sound == Len(returned) <= Len(written) /\ \A i \in 1..Len(returned) : EndOf(returned[i], i)

\* The next fragment is one of the chain, and the records before it have come back.
OnTrack(S, F) ==
  /\ ~ eof
  /\ After(Position) \in S
  /\ F[After(Position)].record = Len(returned) + 1
  /\ Len(returned) <= acked
  /\ \A i \in 1..Len(returned) : Back(i)

AtEnd(G) == After(Position) = After(G) /\ Len(returned) = acked

Exhausted == offset = Len(file.disk) /\ Len(buffer) = 0

ReaderAt(S, F, G) ==
  /\ pc = "read" =>
       /\ BufferIsRest
       /\ OnTrack(S, F) \/ AllBack
       /\ OneMissing => Sound /\ (OnTrack(S, F) \/ AtEnd(G) \/ Exhausted)
  /\ pc = "done" => AllBack /\ (OneMissing => Sound)

ReadBackWith(S, F, G) ==
  /\ Chain(S, F, G)
  /\ OneMissing => Torn(G)
  /\ WriterAt(G)
  /\ ReaderAt(S, F, G)

ReadBackInv ==
  \E S \in SUBSET Nat, G \in Nat : \E F \in [S -> FragmentOf] : ReadBackWith(S, F, G)

----------------------------------------------------------------------------------
(***************************************************************************)
(* The writer makes the chain longer.                                      *)
(***************************************************************************)
LEMMA ChainFragment ==
  ASSUME NEW S \in SUBSET Nat, NEW F \in [S -> FragmentOf], NEW s \in S
  PROVE  /\ s \in Nat /\ F[s] \in FragmentOf
         /\ F[s].length \in Nat /\ F[s].record \in Nat \ {0} /\ F[s].last \in BOOLEAN
         /\ EndOfFragment(s, F[s]) \in Nat /\ s + kHeaderSize <= EndOfFragment(s, F[s])
  <1>1. s \in Nat /\ F[s] \in FragmentOf
    OBVIOUS
  <1>2. F[s].length \in Nat /\ F[s].record \in Nat \ {0} /\ F[s].last \in BOOLEAN
    BY <1>1 DEF FragmentOf
  <1> QED  BY <1>1, <1>2, BlockSizes DEF EndOfFragment

LEMMA ReadBackInit == Init => ReadBackInv
  <1> SUFFICES ASSUME Init PROVE ReadBackInv
    OBVIOUS
  <1> DEFINE F == [s \in {} |-> s]
  <1>1. Len(file.disk) = 0 /\ acked = 0 /\ pc = "idle" /\ returned = <<>>
    BY DEF Init, NewFile
  <1>2. Chain({}, F, 0)
    BY <1>1 DEF Chain, Leads
  <1>3. Torn(0)
    <2>1. After(0) \in Nat
      BY AfterBound
    <2> QED  BY <1>1, <2>1, BlockSizes DEF Torn
  <1>4. WriterAt(0)
    BY <1>1 DEF WriterAt, Init
  <1>5. ReaderAt({}, F, 0)
    BY <1>1 DEF ReaderAt
  <1>6. ReadBackWith({}, F, 0)
    BY <1>2, <1>3, <1>4, <1>5 DEF ReadBackWith
  <1>7. F \in [{} -> FragmentOf] /\ {} \in SUBSET Nat /\ 0 \in Nat
    OBVIOUS
  <1> QED  BY <1>6, <1>7 DEF ReadBackInv

\* What is in the file and what was acknowledged stays.
Grows ==
  /\ Len(file.disk) \in Nat /\ Len(file'.disk) \in Nat /\ Len(file.disk) <= Len(file'.disk)
  /\ \A i \in 1..Len(file.disk) : file'.disk[i] = file.disk[i]
  /\ acked \in Nat /\ acked' \in Nat /\ acked <= acked'
  /\ \A i \in 1..acked : written'[i] = written[i]

LEMMA OnDiskKept ==
  ASSUME Grows, NEW s \in Nat, NEW f \in FragmentOf, OnDisk(s, f),
         EndOfFragment(s, f) <= Len(file.disk)
  PROVE  OnDisk(s, f)'
  <1>1. /\ f.length \in Nat /\ f.record \in Nat \ {0} /\ f.last \in BOOLEAN
        /\ kHeaderSize \in Nat /\ 3 <= kHeaderSize /\ Len(file.disk) \in Nat
    BY BlockSizes DEF FragmentOf, Grows
  <1>2. /\ s + kHeaderSize - 1 \in 1..Len(file.disk) /\ s + kHeaderSize \in 1..Len(file.disk)
        /\ \A k \in 1..f.length : s + kHeaderSize + k \in 1..Len(file.disk)
    BY <1>1 DEF EndOfFragment
  <1>3. /\ file'.disk[s + kHeaderSize - 1] = file.disk[s + kHeaderSize - 1]
        /\ file'.disk[s + kHeaderSize] = file.disk[s + kHeaderSize]
        /\ \A k \in 1..f.length :
             file'.disk[s + kHeaderSize + k] = file.disk[s + kHeaderSize + k]
    BY <1>2 DEF Grows
  <1>4. \A t : HeaderOnDisk(s, f.length, t) => HeaderOnDisk(s, f.length, t)'
    BY <1>3 DEF HeaderOnDisk, Place
  <1>5. ASSUME f.last
        PROVE  /\ f.record <= acked'
               /\ EndsOnDisk(s + kHeaderSize, f.length, f.record)'
               /\ written'[f.record].fragments = 1 => f.length = written'[f.record].length
    <2>1. /\ f.record <= acked /\ EndsOnDisk(s + kHeaderSize, f.length, f.record)
          /\ written[f.record].fragments = 1 => f.length = written[f.record].length
      BY <1>5 DEF OnDisk
    <2>2. f.record \in 1..acked /\ f.record <= acked'
      BY <1>1, <2>1 DEF Grows
    <2>3. written'[f.record] = written[f.record]
      BY <2>2 DEF Grows
    <2> QED  BY <1>3, <2>1, <2>2, <2>3 DEF EndsOnDisk
  <1>6. \E t \in 1..4 : HeaderOnDisk(s, f.length, t)' /\ (t \in ReturnedTypes <=> f.last)
    BY <1>4 DEF OnDisk
  <1>7. (\E t \in 1..4 : HeaderOnDisk(s, f.length, t) /\ (t \in ReturnedTypes <=> f.last))'
    BY <1>6
  <1> QED  BY <1>5, <1>7 DEF OnDisk

LEMMA ChainKept ==
  ASSUME NEW S \in SUBSET Nat, NEW F \in [S -> FragmentOf], NEW G \in Nat,
         Chain(S, F, G), Grows, acked' = acked
  PROVE  Chain(S, F, G)'
  <1>1. G <= Len(file'.disk)
    BY DEF Chain, Grows
  <1>2. Leads(S, F, G, 0, 0)'
    BY DEF Chain, Leads, After, Room, Place
  <1>3. ASSUME NEW s \in S
        PROVE  /\ OnDisk(s, F[s])'
               /\ EndOfFragment(s, F[s]) <= G
               /\ Leads(S, F, G, EndOfFragment(s, F[s]), Complete(F[s]))'
    <2>1. /\ OnDisk(s, F[s]) /\ EndOfFragment(s, F[s]) <= G
          /\ Leads(S, F, G, EndOfFragment(s, F[s]), Complete(F[s])) /\ G <= Len(file.disk)
      BY DEF Chain
    <2>2. EndOfFragment(s, F[s]) <= Len(file.disk)
      BY <2>1, ChainFragment DEF Grows
    <2>3. OnDisk(s, F[s])'
      BY <2>1, <2>2, ChainFragment, OnDiskKept
    <2>4. Leads(S, F, G, EndOfFragment(s, F[s]), Complete(F[s]))'
      BY <2>1 DEF Leads, After, Room, Place, EndOfFragment, Complete
    <2> QED  BY <2>1, <2>3, <2>4
  <1> QED  BY <1>1, <1>2, <1>3 DEF Chain, EndOfFragment

LEMMA ReadBackAdds ==
  ASSUME WriterInv, ReadBackInv, NEW length \in Lengths, AddRecord(length)
  PROVE  ReadBackInv'
  <1> DEFINE n == Len(written)
             new == [length |-> length, fragments |-> 0]
  <1>1. PICK S \in SUBSET Nat, G \in Nat : \E F \in [S -> FragmentOf] : ReadBackWith(S, F, G)
    BY DEF ReadBackInv
  <1>2. PICK F \in [S -> FragmentOf] : ReadBackWith(S, F, G)
    BY <1>1
  <1>3. /\ pc = "idle" /\ pc' = "emit" /\ file' = file /\ acked' = acked /\ left' = length
        /\ written' = Append(written, new) /\ UNCHANGED readerVars
    BY DEF AddRecord
  <1>4. /\ written \in Seq(RecordWritten) /\ new \in RecordWritten /\ acked \in 0..n /\ n \in Nat
        /\ new.length = length /\ new.fragments = 0 /\ Len(file.disk) \in Nat
    <2>1. new \in RecordWritten
      BY LengthsAssumption DEF RecordWritten
    <2> QED  BY <2>1, WriterTypes, LenProperties DEF WriterInv, TypeOK, RecordWritten
  <1> HIDE DEF new
  <1>5. /\ Len(written') = n + 1 /\ written'[n + 1] = new
        /\ \A i \in 1..n : written'[i] = written[i]
    BY <1>3, <1>4, AppendProperties
  <1>6. Grows
    BY <1>3, <1>4, <1>5 DEF Grows
  <1>7. Chain(S, F, G)'
    BY <1>2, <1>3, <1>6, ChainKept DEF ReadBackWith
  <1>8. (OneMissing => Torn(G))'
    <2> SUFFICES ASSUME OneMissing' PROVE Torn(G)'
      OBVIOUS
    <2>1. NeverFailed
      BY <1>3, <1>4, <1>5 DEF OneMissing, NeverFailed
    <2>2. G = Len(file.disk)
      BY <1>2, <1>3, <2>1 DEF ReadBackWith, WriterAt
    <2>3. Len(file'.disk) < After(G) + kHeaderSize
      <3> DEFINE a == After(G)
      <3>1. a \in Nat /\ G <= a
        BY AfterBound
      <3> HIDE DEF a
      <3>2. G < a + kHeaderSize
        BY <3>1, BlockSizes
      <3> QED  BY <1>3, <2>2, <3>2 DEF a
    <2> QED  BY <2>3 DEF Torn, After, Room, Place
  <1>9. WriterAt(G)'
    <2>1. NeverFailed' => NeverFailed
      BY <1>3, <1>4, <1>5 DEF NeverFailed
    <2> QED  BY <1>2, <1>3, <1>4, <1>5, <2>1 DEF ReadBackWith, WriterAt, readerVars
  <1>10. ReaderAt(S, F, G)'
    BY <1>3 DEF ReaderAt
  <1>11. ReadBackWith(S, F, G)'
    BY <1>7, <1>8, <1>9, <1>10 DEF ReadBackWith
  <1> QED  BY <1>11 DEF ReadBackInv

\* The first l bytes of the fragment are written.
PartWritten(l) ==
  /\ l \in Nat /\ l <= Len(Emitted)
  /\ Len(file'.disk) = Len(file.disk) + l
  /\ \A i \in 1..l : file'.disk[Len(file.disk) + i] = Emitted[i]

\* Where the fragment is, and what there is of it.
LEMMA PartOnDisk ==
  ASSUME WriterInv, pc = "emit", NeverFailed, NEW l, PartWritten(l),
         written'[Len(written)].length = written[Len(written)].length,
         NEW a, a = After(Len(file.disk)), NEW g, g = FragmentLength,
         NEW type, type = EmittedType, NEW n, n = Len(written)
  PROVE  /\ a \in Nat /\ g \in Nat /\ type \in 1..4 /\ n \in Nat \ {0}
         /\ Len(file.disk) <= a
         /\ Len(file'.disk) <= a + kHeaderSize + g
         /\ Len(file'.disk) = a + kHeaderSize + g <=> l = Len(Emitted)
         /\ a + kHeaderSize <= Len(file'.disk) => HeaderOnDisk(a, g, type)'
         /\ Len(file'.disk) = a + kHeaderSize + g /\ left = g =>
              EndsOnDisk(a + kHeaderSize, g, n)'
  <1> DEFINE d == Len(file.disk)
             d2 == Len(file'.disk)
             x == Len(Padding)
             h == kHeaderSize
             em == Emitted
             disk2 == file'.disk
  <1>1. Cut(n)
    BY FragmentCut
  <1>2. d \in Nat
    BY WriterTypes DEF WriterInv
  <1>3. AtOffset(d, block_offset)
    BY DEF WriterInv, Aligned
  <1>4. a = d + x /\ Place(a) = FragmentStart
    BY <1>1, <1>2, <1>3, OffsetAfter DEF Cut, FragmentStart
  <1>5. x \in Nat /\ g \in Nat /\ h \in Nat /\ 3 <= h /\ FragmentStart + h + g <= kBlockSize
    BY <1>1, BlockSizes, LenProperties DEF Cut
  <1>6. /\ Len(em) = x + h + g
        /\ em[x + h - 1] = <<g>> /\ em[x + h] = <<type>>
        /\ \A k \in 1..g : em[x + h + k] = Fragment[k]
    BY EmittedBytes
  <1>7. /\ l \in Nat /\ l <= Len(em) /\ d2 = d + l
        /\ \A i \in 1..l : disk2[d + i] = em[i]
    BY DEF PartWritten
  <1>8. \A k \in 1..g : Fragment[k] = <<n, written[n].length - left + k>>
    BY <1>1 DEF Cut
  <1>9. FragmentStart + h + g <= kBlockSize /\ FragmentStart \in Nat
    BY <1>1, <1>5 DEF Cut
  <1>10. HeaderOnDisk(a, g, type)' <=>
           /\ Place(a) + h + g <= kBlockSize
           /\ disk2[a + h - 1] = <<g>>
           /\ disk2[a + h] = <<type>>
    BY DEF HeaderOnDisk, Place
  <1> HIDE DEF d, d2, x, h, em, disk2
  <1>11. a \in Nat /\ d <= a /\ d2 <= a + h + g /\ (d2 = a + h + g <=> l = Len(em))
    BY <1>2, <1>4, <1>5, <1>6, <1>7
  <1>12. ASSUME a + h <= d2
         PROVE  disk2[a + h - 1] = <<g>> /\ disk2[a + h] = <<type>>
    <2> DEFINE i == x + h - 1
               j == x + h
    <2>1. i \in 1..l /\ j \in 1..l /\ d + i = a + h - 1 /\ d + j = a + h
      BY <1>2, <1>4, <1>5, <1>7, <1>12
    <2>2. em[i] = <<g>> /\ em[j] = <<type>>
      BY <1>6
    <2> HIDE DEF i, j
    <2>3. disk2[d + i] = em[i] /\ disk2[d + j] = em[j]
      BY <1>7, <2>1
    <2> QED  BY <2>1, <2>2, <2>3
  <1>13. ASSUME d2 = a + h + g, left = g, NEW k \in 1..g
         PROVE  disk2[a + h + k] = <<n, written[n].length - g + k>>
    <2> DEFINE i == x + h + k
    <2>1. i \in 1..l /\ d + i = a + h + k
      BY <1>2, <1>4, <1>5, <1>7, <1>13
    <2>2. em[i] = Fragment[k]
      BY <1>6
    <2> HIDE DEF i
    <2>3. disk2[d + i] = em[i]
      BY <1>7, <2>1
    <2> QED  BY <1>8, <1>13, <2>1, <2>2, <2>3
  <1>14. Place(a) + h + g <= kBlockSize
    BY <1>4, <1>9
  <1>15. ASSUME a + h <= d2
         PROVE  HeaderOnDisk(a, g, type)'
    BY <1>10, <1>12, <1>14, <1>15
  <1>16. ASSUME d2 = a + h + g, left = g
         PROVE  EndsOnDisk(a + kHeaderSize, g, n)'
    <2>1. g <= written'[n].length
      BY <1>1, <1>16 DEF Cut
    <2>2. \A k \in 1..g : disk2[a + h + k] = <<n, written'[n].length - g + k>>
      BY <1>13, <1>16
    <2> QED  BY <2>1, <2>2 DEF EndsOnDisk, disk2, h
  <1> QED  BY <1>1, <1>5, <1>11, <1>15, <1>16 DEF Cut, d, d2, h, em

LEMMA PartIsTorn ==
  ASSUME WriterInv, pc = "emit", NeverFailed, NEW l, PartWritten(l),
         written'[Len(written)].length = written[Len(written)].length,
         Len(written') = Len(written), acked' = acked,
         NEW G \in Nat, G = Len(file.disk)
  PROVE  Torn(G)'
  <1>1. PICK a, g, type, n :
          a = After(G) /\ g = FragmentLength /\ type = EmittedType /\ n = Len(written)
    OBVIOUS
  <1>2. /\ a \in Nat /\ g \in Nat /\ type \in 1..4 /\ n \in Nat \ {0}
        /\ Len(file'.disk) <= a + kHeaderSize + g
        /\ a + kHeaderSize <= Len(file'.disk) => HeaderOnDisk(a, g, type)'
        /\ Len(file'.disk) = a + kHeaderSize + g /\ left = g => EndsOnDisk(a + kHeaderSize, g, n)'
    BY <1>1, PartOnDisk
  <1>3. acked \in Nat /\ acked + 1 = n
    BY <1>1, <1>2, WriterTypes DEF WriterInv, Emitting, NeverFailed
  <1>4. type \in ReturnedTypes <=> left = g
    BY <1>1, FragmentCut DEF Cut
  <1>5. Len(file'.disk) \in Nat
    BY WriterTypes DEF WriterInv, PartWritten
  <1>6. CASE Len(file'.disk) < a + kHeaderSize
    BY <1>1, <1>6 DEF Torn, After, Room, Place
  <1>7. CASE ~ (Len(file'.disk) < a + kHeaderSize)
    <2>1. a + kHeaderSize <= Len(file'.disk)
      BY <1>2, <1>5, <1>7, BlockSizes
    <2>2. HeaderOnDisk(a, g, type)'
      BY <1>2, <2>1
    <2>3. Len(file'.disk) = a + kHeaderSize + g /\ type \in ReturnedTypes =>
            acked' < Len(written') /\ EndsOnDisk(a + kHeaderSize, g, acked + 1)'
      <3> SUFFICES ASSUME Len(file'.disk) = a + kHeaderSize + g, left = g
                   PROVE  acked' < Len(written') /\ EndsOnDisk(a + kHeaderSize, g, acked + 1)'
        BY <1>4
      <3>1. EndsOnDisk(a + kHeaderSize, g, n)'
        BY <1>2
      <3> QED  BY <1>1, <1>3, <3>1 DEF EndsOnDisk
    <2>4. \E l_ \in Nat, t \in 1..4 :
            /\ HeaderOnDisk(After(G), l_, t)'
            /\ Len(file'.disk) <= After(G) + kHeaderSize + l_
            /\ Len(file'.disk) = After(G) + kHeaderSize + l_ /\ t \in ReturnedTypes =>
                 acked' < Len(written') /\ EndsOnDisk(After(G) + kHeaderSize, l_, acked + 1)'
      BY <1>1, <1>2, <2>2, <2>3
    <2> QED  BY <2>4 DEF Torn, HeaderOnDisk, EndsOnDisk, After, Room, Place
  <1> QED  BY <1>6, <1>7

LEMMA WholeExtends ==
  ASSUME WriterInv, pc = "emit", NeverFailed, PartWritten(Len(Emitted)), Grows,
         NEW S \in SUBSET Nat, NEW F \in [S -> FragmentOf], NEW G \in Nat,
         Chain(S, F, G), G = Len(file.disk),
         written'[Len(written)].length = written[Len(written)].length,
         written'[Len(written)].fragments = 1 => left = written[Len(written)].length,
         acked' = IF left = FragmentLength THEN acked + 1 ELSE acked
  PROVE  \E S2 \in SUBSET Nat, G2 \in Nat : \E F2 \in [S2 -> FragmentOf] :
           Chain(S2, F2, G2)' /\ G2 = Len(file'.disk)
  <1>1. PICK a, g, type, n :
          a = After(G) /\ g = FragmentLength /\ type = EmittedType /\ n = Len(written)
    OBVIOUS
  <1>2. PICK last \in BOOLEAN : last <=> left = g
    OBVIOUS
  <1> DEFINE new == [length |-> g, record |-> n, last |-> last]
             S2 == S \union {a}
             F2 == [s \in S2 |-> IF s = a THEN new ELSE F[s]]
             G2 == a + kHeaderSize + g
  <1>3. /\ a \in Nat /\ g \in Nat /\ type \in 1..4 /\ n \in Nat \ {0} /\ G <= a
        /\ Len(file'.disk) = G2
        /\ HeaderOnDisk(a, g, type)'
        /\ left = g => EndsOnDisk(a + kHeaderSize, g, n)'
    <2>1. /\ a \in Nat /\ g \in Nat /\ type \in 1..4 /\ n \in Nat \ {0} /\ G <= a
          /\ Len(file'.disk) = G2
          /\ a + kHeaderSize <= Len(file'.disk) => HeaderOnDisk(a, g, type)'
          /\ Len(file'.disk) = G2 /\ left = g => EndsOnDisk(a + kHeaderSize, g, n)'
      BY <1>1, PartOnDisk
    <2>2. a + kHeaderSize <= G2
      BY <2>1, BlockSizes
    <2> QED  BY <2>1, <2>2
  <1>4. acked \in Nat /\ acked + 1 = n
    BY <1>1, <1>3, WriterTypes DEF WriterInv, Emitting, NeverFailed
  <1>5. acked' = IF last THEN n ELSE n - 1
    BY <1>1, <1>2, <1>3, <1>4
  <1>6. type \in ReturnedTypes <=> last
    BY <1>1, <1>2, FragmentCut DEF Cut
  <1>7. /\ new \in FragmentOf /\ new.length = g /\ new.record = n /\ new.last = last
    BY <1>3 DEF FragmentOf
  <1>8. \A s \in S : s # a /\ s \in Nat
    <2> SUFFICES ASSUME NEW s \in S PROVE s # a
      OBVIOUS
    <2>1. EndOfFragment(s, F[s]) <= G
      BY DEF Chain
    <2>2. s \in Nat /\ s + kHeaderSize <= EndOfFragment(s, F[s]) /\ EndOfFragment(s, F[s]) \in Nat
      BY ChainFragment
    <2> QED  BY <1>3, <2>1, <2>2, BlockSizes
  <1>9. /\ S2 \in SUBSET Nat /\ G2 \in Nat /\ F2 \in [S2 -> FragmentOf]
        /\ F2[a] = new /\ \A s \in S : F2[s] = F[s]
    <2> HIDE DEF new
    <2> QED  BY <1>3, <1>7, <1>8, BlockSizes
  <1> HIDE DEF new, F2
  <1>10. ASSUME NEW e \in Nat, NEW c, Leads(S, F, G, e, c)
         PROVE  Leads(S2, F2, G2, e, c)'
    <2>1. CASE e = G /\ c = acked
      <3>1. After(e) = a /\ a \in S2 /\ F2[a].record = c + 1
        BY <1>1, <1>4, <1>7, <1>9, <2>1
      <3> QED  BY <3>1 DEF Leads, After, Room, Place
    <2>2. CASE After(e) \in S /\ F[After(e)].record = c + 1
      <3>1. After(e) \in S2 /\ F2[After(e)].record = c + 1
        BY <1>9, <2>2
      <3> QED  BY <3>1 DEF Leads, After, Room, Place
    <2> QED  BY <1>10, <2>1, <2>2 DEF Leads
  <1>11. ASSUME NEW s \in S
         PROVE  /\ OnDisk(s, F2[s])'
                /\ EndOfFragment(s, F2[s]) <= G2
                /\ Leads(S2, F2, G2, EndOfFragment(s, F2[s]), Complete(F2[s]))'
    <2>1. /\ OnDisk(s, F[s]) /\ EndOfFragment(s, F[s]) <= G
          /\ Leads(S, F, G, EndOfFragment(s, F[s]), Complete(F[s]))
      BY DEF Chain
    <2>2. s \in Nat /\ F[s] \in FragmentOf /\ EndOfFragment(s, F[s]) \in Nat
      BY ChainFragment
    <2>3. OnDisk(s, F[s])'
      BY <2>1, <2>2, OnDiskKept
    <2>4. EndOfFragment(s, F[s]) <= G2
      BY <1>3, <2>1, <2>2, BlockSizes
    <2>5. PICK e, c : e = EndOfFragment(s, F[s]) /\ c = Complete(F[s])
      OBVIOUS
    <2>6. Leads(S2, F2, G2, e, c)'
      BY <1>10, <2>1, <2>2, <2>5
    <2>7. F2[s] = F[s]
      BY <1>9
    <2> QED  BY <2>3, <2>4, <2>5, <2>6, <2>7 DEF OnDisk, EndOfFragment, Complete, Leads
  <1>12. /\ OnDisk(a, new)'
         /\ EndOfFragment(a, new) = G2
         /\ Complete(new) = acked'
    <2>1. EndOfFragment(a, new) = G2 /\ Complete(new) = acked'
      BY <1>5, <1>7 DEF EndOfFragment, Complete
    <2>2. \E t \in 1..4 : HeaderOnDisk(a, g, t)' /\ (t \in ReturnedTypes <=> last)
      BY <1>3, <1>6
    <2>3. last => /\ n <= acked'
                  /\ EndsOnDisk(a + kHeaderSize, g, n)'
                  /\ written'[n].fragments = 1 => g = written'[n].length
      BY <1>1, <1>2, <1>3, <1>5
    <2> QED  BY <1>7, <2>1, <2>2, <2>3 DEF OnDisk, HeaderOnDisk, EndsOnDisk, Place
  <1>13. Leads(S2, F2, G2, EndOfFragment(a, new), Complete(new))'
    BY <1>12 DEF Leads, EndOfFragment, Complete
  <1>14. Leads(S2, F2, G2, 0, 0)'
    BY <1>10 DEF Chain
  <1>15. Chain(S2, F2, G2)'
    <2>1. ASSUME NEW s \in S2
          PROVE  /\ OnDisk(s, F2[s])'
                 /\ EndOfFragment(s, F2[s]) <= G2
                 /\ Leads(S2, F2, G2, EndOfFragment(s, F2[s]), Complete(F2[s]))'
      <3>1. CASE s \in S
        BY <1>11, <3>1
      <3>2. CASE s = a
        <4>1. F2[s] = new
          BY <1>9, <3>2
        <4>2. G2 <= G2
          BY <1>9
        <4> QED  BY <1>12, <1>13, <3>2, <4>1, <4>2 DEF OnDisk, Leads, EndOfFragment, Complete
      <3> QED  BY <3>1, <3>2
    <2>2. G2 <= Len(file'.disk)
      BY <1>3, <1>9
    <2> QED  BY <1>14, <2>1, <2>2 DEF Chain, EndOfFragment
  <1> QED  BY <1>3, <1>9, <1>15

\* A turn of the loop leaves the records before in place.
LEMMA EmitKeeps ==
  ASSUME WriterInv, EmitFragment, NEW p, EmitsPart(p), NEW n, n = Len(written)
  PROVE  /\ PartWritten(Len(p)) /\ Grows
         /\ n \in Nat /\ Len(written') = n
         /\ acked \in Nat /\ acked <= n - 1
         /\ written'[n].length = written[n].length
         /\ written[n].fragments \in Nat /\ written'[n].fragments = written[n].fragments + 1
         /\ FragmentLength \in Nat /\ FragmentLength <= left /\ left \in Nat
  <1>1. pc = "emit"
    BY DEF EmitFragment
  <1>2. Cut(n)
    BY <1>1, FragmentCut
  <1>3. /\ written \in Seq(RecordWritten) /\ n \in 1..Len(written) /\ n \in Nat \ {0}
        /\ written[n] \in RecordWritten /\ acked \in Nat /\ acked <= n - 1 /\ left \in Nat
    BY <1>1, <1>2, WriterTypes DEF WriterInv, TypeOK, Emitting, Cut, RecordWritten
  <1>4. written' = [written EXCEPT ![n].fragments = @ + 1]
    BY DEF EmitFragment
  <1>5. DOMAIN written = 1..n
    BY <1>3
  <1>6. /\ written'[n] = [written[n] EXCEPT !.fragments = @ + 1]
        /\ \A i \in 1..n : i # n => written'[i] = written[i]
        /\ Len(written') = n
    BY <1>3, <1>4, <1>5
  <1>7. /\ written'[n].length = written[n].length
        /\ written[n].fragments \in Nat /\ written'[n].fragments = written[n].fragments + 1
    BY <1>3, <1>6 DEF RecordWritten
  <1>8. /\ Len(p) \in Nat /\ Len(file.disk) \in Nat
        /\ Len(file'.disk) = Len(file.disk) + Len(p)
        /\ \A i \in 1..Len(file.disk) : file'.disk[i] = file.disk[i]
        /\ \A i \in 1..Len(p) : file'.disk[Len(file.disk) + i] = Emitted[i]
    BY <1>1, PartLength
  <1>9. PartWritten(Len(p))
    BY <1>8 DEF PartWritten, EmitsPart
  <1>10. Grows
    <2>1. Len(file'.disk) \in Nat /\ Len(file.disk) <= Len(file'.disk)
      BY <1>8
    <2>2. acked' \in Nat /\ acked <= acked'
      BY <1>3 DEF EmitsPart
    <2>3. \A i \in 1..acked : written'[i] = written[i]
      <3>1. \A i \in 1..acked : i \in 1..n /\ i # n
        BY <1>3
      <3> QED  BY <1>6, <3>1
    <2> QED  BY <1>3, <1>8, <2>1, <2>2, <2>3 DEF Grows
  <1> QED  BY <1>2, <1>3, <1>6, <1>7, <1>9, <1>10 DEF Cut

LEMMA ReadBackEmits ==
  ASSUME WriterInv, ReadBackInv, EmitFragment
  PROVE  ReadBackInv'
  <1>1. PICK S \in SUBSET Nat, G \in Nat : \E F \in [S -> FragmentOf] : ReadBackWith(S, F, G)
    BY DEF ReadBackInv
  <1>2. PICK F \in [S -> FragmentOf] : ReadBackWith(S, F, G)
    BY <1>1
  <1>3. PICK p : EmitsPart(p)
    BY EmitStep
  <1>4. PICK n : n = Len(written)
    OBVIOUS
  <1>5. /\ PartWritten(Len(p)) /\ Grows
        /\ n \in Nat /\ Len(written') = n
        /\ acked \in Nat /\ acked <= n - 1
        /\ written'[n].length = written[n].length
        /\ written[n].fragments \in Nat /\ written'[n].fragments = written[n].fragments + 1
        /\ FragmentLength \in Nat /\ FragmentLength <= left /\ left \in Nat
    BY <1>3, <1>4, EmitKeeps
  <1>6. /\ pc = "emit" /\ UNCHANGED readerVars
        /\ buffer = <<>> /\ ~ eof /\ offset = 0 /\ returned = <<>>
        /\ NeverFailed => G = Len(file.disk)
        /\ written[n].fragments = 0 => left = written[n].length
        /\ Chain(S, F, G)
    BY <1>2, <1>4 DEF EmitFragment, ReadBackWith, WriterAt
  <1>7. /\ pc' = IF p = Emitted /\ left > FragmentLength THEN "emit" ELSE "idle"
        /\ acked' = IF p = Emitted /\ left = FragmentLength /\ acked = n - 1
                    THEN acked + 1 ELSE acked
        /\ Len(p) = Len(Emitted) <=> p = Emitted
    BY <1>3, <1>4 DEF EmitsPart
  <1>8. pc' \in {"idle", "emit"} /\ ~ (pc' = "emit" /\ written'[n].fragments = 0)
    BY <1>5, <1>7
  <1>9. ASSUME NEW S2 \in SUBSET Nat, NEW G2 \in Nat, NEW F2 \in [S2 -> FragmentOf],
               Chain(S2, F2, G2)', (OneMissing => Torn(G2))',
               NeverFailed' => G2 = Len(file'.disk)
        PROVE  ReadBackInv'
    <2>1. WriterAt(G2)'
      BY <1>4, <1>5, <1>6, <1>8, <1>9 DEF WriterAt, readerVars
    <2>2. ReaderAt(S2, F2, G2)'
      BY <1>8 DEF ReaderAt
    <2>3. ReadBackWith(S2, F2, G2)'
      BY <1>9, <2>1, <2>2 DEF ReadBackWith
    <2> QED  BY <2>3 DEF ReadBackInv
  <1>10. CASE NeverFailed /\ p = Emitted
    <2>1. acked = n - 1
      BY <1>4, <1>5, <1>6, <1>10 DEF NeverFailed
    <2>2. acked' = IF left = FragmentLength THEN acked + 1 ELSE acked
      BY <1>7, <1>10, <2>1
    <2>3. written'[n].fragments = 1 => left = written[n].length
      BY <1>5, <1>6
    <2>4. PICK S2 \in SUBSET Nat, G2 \in Nat : \E F2 \in [S2 -> FragmentOf] :
            Chain(S2, F2, G2)' /\ G2 = Len(file'.disk)
      BY <1>4, <1>5, <1>6, <1>10, <2>2, <2>3, WholeExtends
    <2>5. PICK F2 \in [S2 -> FragmentOf] : Chain(S2, F2, G2)' /\ G2 = Len(file'.disk)
      BY <2>4
    <2>6. Torn(G2)'
      <3> DEFINE a == After(G2)
      <3>1. a \in Nat /\ G2 <= a
        BY AfterBound
      <3> HIDE DEF a
      <3>2. G2 < a + kHeaderSize
        BY <3>1, BlockSizes
      <3>3. Len(file'.disk) < After(G2) + kHeaderSize
        BY <2>5, <3>2 DEF a
      <3> QED  BY <3>3 DEF Torn, After, Room, Place
    <2> QED  BY <1>9, <2>5, <2>6
  <1>11. CASE ~ (NeverFailed /\ p = Emitted)
    <2>1. acked' = acked
      BY <1>4, <1>5, <1>6, <1>7, <1>11 DEF NeverFailed
    <2>2. Chain(S, F, G)'
      BY <1>5, <1>6, <2>1, ChainKept
    <2>3. ~ NeverFailed'
      <3>1. CASE p = Emitted /\ left > FragmentLength
        BY <1>4, <1>5, <1>6, <1>7, <1>11, <2>1, <3>1 DEF NeverFailed
      <3>2. CASE ~ (p = Emitted /\ left > FragmentLength)
        BY <1>5, <1>7, <2>1, <3>2 DEF NeverFailed
      <3> QED  BY <3>1, <3>2
    <2>4. ASSUME OneMissing' PROVE Torn(G)'
      <3>1. NeverFailed
        BY <1>4, <1>5, <1>6, <2>1, <2>4 DEF NeverFailed, OneMissing
      <3> QED  BY <1>4, <1>5, <1>6, <2>1, <3>1, PartIsTorn
    <2> QED  BY <1>9, <2>2, <2>3, <2>4
  <1> QED  BY <1>10, <1>11

LEMMA ReadBackStops ==
  ASSUME WriterInv, ReadBackInv, WriterEnds
  PROVE  ReadBackInv'
  <1>1. PICK S \in SUBSET Nat, G \in Nat : \E F \in [S -> FragmentOf] : ReadBackWith(S, F, G)
    BY DEF ReadBackInv
  <1>2. PICK F \in [S -> FragmentOf] : ReadBackWith(S, F, G)
    BY <1>1
  <1>3. PICK p \in Seq(Byte) :
           /\ file' = [file EXCEPT !.buf = <<>>, !.disk = @ \o p]
           /\ IF pc = "emit" THEN p \in Prefixes(Emitted) ELSE p = <<>>
    BY EndsWith
  <1>4. /\ pc \in {"idle", "emit"} /\ pc' = "read" /\ written' = written /\ acked' = acked
        /\ UNCHANGED readerVars
        /\ buffer = <<>> /\ ~ eof /\ offset = 0 /\ returned = <<>>
        /\ NeverFailed => G = Len(file.disk)
        /\ Chain(S, F, G)
    BY <1>2 DEF WriterEnds, ReadBackWith, WriterAt, history
  <1>5. /\ file \in FileOf(Byte) /\ file.disk \in Seq(Byte) /\ Len(file.disk) \in Nat
        /\ Len(written) \in Nat /\ acked \in Nat /\ acked <= Len(written) /\ Len(p) \in Nat
    BY WriterTypes, LenProperties DEF WriterInv
  <1>6. /\ file'.disk = file.disk \o p
        /\ Len(file'.disk) = Len(file.disk) + Len(p)
        /\ \A i \in 1..Len(file.disk) : file'.disk[i] = file.disk[i]
        /\ \A i \in 1..Len(p) : file'.disk[Len(file.disk) + i] = p[i]
    <2> DEFINE d == file.disk
               y == d \o p
    <2>1. d \in Seq(Byte) /\ Len(d) \in Nat
      BY <1>5
    <2> HIDE DEF d
    <2>2. /\ Len(y) = Len(d) + Len(p)
          /\ \A i \in 1..(Len(d) + Len(p)) : y[i] = IF i <= Len(d) THEN d[i] ELSE p[i - Len(d)]
      BY <2>1, ConcatProperties
    <2>3. file' = [file EXCEPT !.buf = <<>>, !.disk = y]
      BY <1>3 DEF d
    <2> HIDE DEF y
    <2>4. \A i \in 1..Len(d) : y[i] = d[i]
      BY <1>5, <2>1, <2>2
    <2>5. \A i \in 1..Len(p) : y[Len(d) + i] = p[i]
      <3> SUFFICES ASSUME NEW i \in 1..Len(p) PROVE y[Len(d) + i] = p[i]
        OBVIOUS
      <3> DEFINE j == Len(d) + i
      <3>1. j \in 1..(Len(d) + Len(p)) /\ ~ (j <= Len(d)) /\ j - Len(d) = i
        BY <1>5, <2>1
      <3> HIDE DEF j
      <3>2. y[j] = p[i]
        BY <2>2, <3>1
      <3> QED  BY <3>2 DEF j
    <2>6. file'.disk = y
      BY <1>5, <2>3 DEF FileOf
    <2> QED  BY <2>2, <2>4, <2>5, <2>6 DEF d, y
  <1>7. Grows
    <2>1. Len(file'.disk) \in Nat /\ Len(file.disk) <= Len(file'.disk)
      BY <1>5, <1>6
    <2> QED  BY <1>4, <1>5, <1>6, <2>1 DEF Grows
  <1>8. Chain(S, F, G)'
    BY <1>4, <1>7, ChainKept
  <1>9. ASSUME OneMissing PROVE Torn(G)'
    <2>1. CASE pc = "emit"
      <3>1. Emitted \in Seq(Byte) /\ p \in Prefixes(Emitted)
        BY <1>3, <2>1, EmittedBytes
      <3>2. Len(p) <= Len(Emitted) /\ \A i \in 1..Len(p) : p[i] = Emitted[i]
        BY <3>1, PrefixType
      <3>3. PartWritten(Len(p))
        BY <1>5, <1>6, <3>2 DEF PartWritten
      <3>4. NeverFailed
        BY <1>5, <1>9, <2>1 DEF OneMissing, NeverFailed
      <3> QED  BY <1>4, <2>1, <3>3, <3>4, PartIsTorn
    <2>2. CASE pc = "idle"
      <3>1. Torn(G)
        BY <1>2, <1>9 DEF ReadBackWith
      <3>2. file'.disk = file.disk
        <4>1. p = <<>>
          BY <1>3, <2>2
        <4> QED  BY <1>5, <1>6, <4>1, ConcatEmptySeq
      <3> QED  BY <1>4, <3>1, <3>2
               DEF Torn, HeaderOnDisk, EndsOnDisk, After, Room, Place
    <2> QED  BY <1>4, <2>1, <2>2
  <1>10. ReaderAt(S, F, G)'
    <2>1. /\ buffer' = <<>> /\ Len(buffer') = 0 /\ offset' = 0 /\ eof' = eof
          /\ returned' = <<>> /\ Len(returned') = 0
      BY <1>4 DEF readerVars
    <2>2. Position' = 0
      <3>1. offset' - Len(buffer') = 0 - 0
        BY <2>1
      <3> QED  BY <3>1 DEF Position
    <2>3. Place(0) = 0 /\ After(0) = 0
      <3>1. Place(0) = 0
        BY BlockSizes, PlaceSmall
      <3> QED  BY <3>1, BlockSizes DEF After, Room
    <2>4. BufferIsRest'
      BY <2>1, <2>2, <2>3, BlockSizes DEF BufferIsRest, Place
    <2>5. (0 = G /\ acked = 0) \/ (0 \in S /\ F[0].record = 1)
      BY <1>4, <2>3 DEF Chain, Leads
    <2>6. CASE 0 = G /\ acked = 0
      <3>1. AllBack' /\ AtEnd(G)'
        BY <1>4, <2>1, <2>2, <2>6 DEF AllBack, AtEnd, After, Room, Place
      <3>2. Sound'
        BY <1>4, <1>5, <2>1 DEF Sound
      <3> QED  BY <1>4, <2>4, <3>1, <3>2 DEF ReaderAt
    <2>7. CASE 0 \in S /\ F[0].record = 1
      <3>1. OnTrack(S, F)'
        BY <1>4, <1>5, <2>1, <2>2, <2>3, <2>7 DEF OnTrack, After, Room, Place
      <3>2. Sound'
        BY <1>4, <1>5, <2>1 DEF Sound
      <3> QED  BY <1>4, <2>4, <3>1, <3>2 DEF ReaderAt
    <2> QED  BY <2>5, <2>6, <2>7
  <1>11. ReadBackWith(S, F, G)'
    BY <1>4, <1>8, <1>9, <1>10 DEF ReadBackWith, WriterAt, OneMissing
  <1> QED  BY <1>11 DEF ReadBackInv

----------------------------------------------------------------------------------
(***************************************************************************)
(* The Reader goes along the chain.                                        *)
(***************************************************************************)
\* Where the buffer ends, and what it begins with.
LEMMA RestPlace ==
  ASSUME TypeOK, BufferIsRest
  PROVE  /\ Position \in Nat /\ offset = Position + Len(buffer) /\ Len(buffer) \in Nat
         /\ offset \in Nat /\ offset <= Len(file.disk) /\ Len(file.disk) \in Nat
         /\ offset = Len(file.disk) \/ Place(offset) = 0
         /\ Len(buffer) >= kHeaderSize => After(Position) = Position
         /\ Len(buffer) < kHeaderSize /\ offset # Len(file.disk) =>
              After(Position) = offset /\ Place(offset) = 0 /\ After(offset) = offset
         /\ Len(buffer) < kHeaderSize /\ After(Position) + kHeaderSize <= Len(file.disk) =>
              offset # Len(file.disk)
  <1> DEFINE p == Position
             b == Len(buffer)
             d == Len(file.disk)
             K == kBlockSize
             H == kHeaderSize
  <1>1. /\ p \in Nat /\ b \in Nat /\ d \in Nat /\ offset \in Nat /\ offset <= d
        /\ offset = p + b
    <2>1. b \in Nat /\ d \in Nat /\ offset \in Nat /\ offset <= d
      BY ReaderTypes
    <2>2. p \in Nat /\ p = offset - b
      BY DEF BufferIsRest, Position
    <2> HIDE DEF p, b, d
    <2> QED  BY <2>1, <2>2
  <1>2. Place(p) \in Nat /\ Place(p) < K /\ K \in Nat /\ H \in Nat /\ H <= K /\ 3 <= H
    BY <1>1, PlaceBound, BlockSizes
  <1>3. /\ Place(p) + b <= K
        /\ offset = d \/ Place(p) + b = K \/ (b = 0 /\ Place(p) = 0)
    BY DEF BufferIsRest
  <1>4. Place(p) + b = K => Place(offset) = 0
    <2> SUFFICES ASSUME Place(p) + b = K PROVE Place(offset) = 0
      OBVIOUS
    <2> HIDE DEF b, p
    <2>1. b = K - Place(p)
      BY <1>1, <1>2
    <2> QED  BY <1>1, <2>1, PlaceNext
  <1>5. b = 0 /\ Place(p) = 0 => Place(offset) = 0
    <2> HIDE DEF b, p
    <2>1. b = 0 => offset = p
      BY <1>1
    <2> QED  BY <2>1
  <1>6. After(p) = IF K - Place(p) < H THEN p + (K - Place(p)) ELSE p
    BY DEF After, Room
  <1>7. Place(offset) = 0 => After(offset) = offset
    BY <1>2 DEF After, Room
  <1> HIDE DEF p, b, d, K, H
  <1>8. b >= H => After(p) = p
    BY <1>1, <1>2, <1>3, <1>6
  <1>9. b < H /\ offset # d => After(p) = offset /\ Place(offset) = 0
    <2> SUFFICES ASSUME b < H, offset # d PROVE After(p) = offset /\ Place(offset) = 0
      OBVIOUS
    <2>1. CASE Place(p) + b = K
      BY <1>1, <1>2, <1>4, <1>6, <2>1
    <2>2. CASE b = 0 /\ Place(p) = 0
      BY <1>1, <1>2, <1>5, <1>6, <2>2
    <2> QED  BY <1>3, <2>1, <2>2
  <1>10. b < H /\ After(p) + H <= d => offset # d
    BY <1>1, <1>2, <1>3, <1>6
  <1> QED  BY <1>1, <1>3, <1>4, <1>5, <1>7, <1>8, <1>9, <1>10 DEF p, b, d, H, K

\* A header in the buffer is the one of the file, and its fragment is in the buffer if it
\* is in the file.
LEMMA HeaderInBuffer ==
  ASSUME TypeOK, BufferIsRest, Len(buffer) >= kHeaderSize,
         NEW l \in Nat, NEW t \in Nat, HeaderOnDisk(Position, l, t)
  PROVE  /\ BufferLengths = {l} /\ BufferTypes = {t}
         /\ Position + kHeaderSize + l <= Len(file.disk) => kHeaderSize + l <= Len(buffer)
         /\ Len(file.disk) <= Position + kHeaderSize + l => offset = Len(file.disk)
  <1> DEFINE p == Position
             b == Len(buffer)
             d == Len(file.disk)
             K == kBlockSize
             H == kHeaderSize
  <1>1. p \in Nat /\ offset = p + b /\ b \in Nat /\ offset \in Nat /\ offset <= d /\ d \in Nat
    BY RestPlace
  <1>2. Place(p) \in Nat /\ K \in Nat /\ H \in Nat /\ 3 <= H
    BY <1>1, PlaceBound, BlockSizes
  <1>3. /\ Place(p) + b <= K
        /\ offset = d \/ Place(p) + b = K \/ (b = 0 /\ Place(p) = 0)
        /\ \A i \in 1..b : buffer[i] = file.disk[p + i]
    BY DEF BufferIsRest
  <1>4. /\ Place(p) + H + l <= K
        /\ file.disk[p + H - 1] = <<l>> /\ file.disk[p + H] = <<t>>
    BY DEF HeaderOnDisk
  <1>5. b >= H
    OBVIOUS
  <1> HIDE DEF p, b, d, K
  <1>6. p + H + l <= d => H + l <= b
    BY <1>1, <1>2, <1>3, <1>4, <1>5
  <1>7. d <= p + H + l => offset = d
    BY <1>1, <1>2, <1>3, <1>4, <1>5
  <1>8. buffer[H - 1] = <<l>> /\ buffer[H] = <<t>>
    <2>1. H - 1 \in 1..b /\ H \in 1..b
      BY <1>1, <1>2, <1>5
    <2>2. buffer[H - 1] = file.disk[p + (H - 1)] /\ buffer[H] = file.disk[p + H]
      BY <1>3, <2>1
    <2>3. p + (H - 1) = p + H - 1
      BY <1>1, <1>2
    <2> QED  BY <1>4, <2>2, <2>3
  <1>9. /\ Len(<<l>>) = 1 /\ <<l>>[1] = l
        /\ Len(<<t>>) = 1 /\ <<t>>[1] = t
    OBVIOUS
  <1>10. BufferLengths = {l} /\ BufferTypes = {t}
    BY <1>8, <1>9 DEF BufferLengths, BufferTypes, Values
  <1> QED  BY <1>6, <1>7, <1>10 DEF p, b, d

\* After every step of the Reader its buffer is the rest of a block or of the file again.
LEMMA RestAfterRead ==
  ASSUME TypeOK, BufferIsRest, ReadBlock
  PROVE  /\ BufferIsRest' /\ Position' = offset
         /\ offset = Len(file.disk) => offset' = Len(file.disk) /\ Len(buffer') = 0
         /\ Place(offset) = 0 /\ offset + kHeaderSize <= Len(file.disk) =>
              kHeaderSize <= Len(buffer')
  <1> DEFINE d == Len(file.disk)
             b2 == Len(buffer')
             K == kBlockSize
             H == kHeaderSize
  <1>1. offset \in Nat /\ offset <= d /\ d \in Nat /\ (offset = d \/ Place(offset) = 0)
    BY RestPlace
  <1>2. Place(offset) \in Nat /\ Place(offset) < K /\ K \in Nat /\ H \in Nat /\ H <= K
    BY <1>1, PlaceBound, BlockSizes
  <1>3. /\ offset' = IF offset + K <= d THEN offset + K ELSE d
        /\ b2 = offset' - offset
        /\ \A i \in 1..b2 : buffer'[i] = file.disk[offset + i]
    BY BlockRead DEF Least
  <1>4. Position' = offset' - b2 /\ UNCHANGED file
    BY DEF Position, ReadBlock, writerVars
  <1> HIDE DEF d, b2, K, H
  <1>5. Position' = offset
    BY <1>1, <1>2, <1>3, <1>4
  <1>6. /\ offset = d => offset' = d /\ b2 = 0
        /\ Place(offset) = 0 /\ offset + H <= d => H <= b2
        /\ Place(offset) + b2 <= K
        /\ offset' = d \/ Place(offset) + b2 = K
    BY <1>1, <1>2, <1>3
  <1>7. BufferIsRest'
    <2>1. Place(Position)' = Place(offset)
      BY <1>5 DEF Place
    <2> QED  BY <1>1, <1>3, <1>4, <1>5, <1>6, <2>1 DEF BufferIsRest, Place, d, b2, K
  <1> QED  BY <1>5, <1>6, <1>7 DEF d, b2, H

LEMMA RestAfterDrop ==
  ASSUME TypeOK, BufferIsRest, DropBlock
  PROVE  BufferIsRest' /\ Position' = offset /\ Len(buffer') = 0 /\ offset' = offset
  <1>1. /\ offset \in Nat /\ (offset = Len(file.disk) \/ Place(offset) = 0)
        /\ Place(offset) \in Nat /\ Place(offset) < kBlockSize /\ kBlockSize \in Nat
    BY RestPlace, PlaceBound
  <1>2. Len(buffer') = 0 /\ offset' = offset /\ UNCHANGED file
    BY DEF DropBlock, writerVars
  <1>3. Position' = offset
    <2>1. Position' = offset - 0
      BY <1>2 DEF Position
    <2> QED  BY <1>1, <2>1
  <1>4. Place(Position)' = Place(offset)
    BY <1>3 DEF Place
  <1>5. Place(offset) + 0 <= kBlockSize
    BY <1>1
  <1>6. BufferIsRest'
    BY <1>1, <1>2, <1>3, <1>4, <1>5 DEF BufferIsRest, Place
  <1> QED  BY <1>2, <1>3, <1>6

\* x bytes are taken from the buffer.
LEMMA RestAfterTake ==
  ASSUME TypeOK, BufferIsRest, NEW x \in Nat, x <= Len(buffer), UNCHANGED <<file, offset>>,
         Len(buffer') = Len(buffer) - x,
         \A i \in 1..Len(buffer') : buffer'[i] = buffer[x + i]
  PROVE  BufferIsRest' /\ Position' = Position + x
  <1> DEFINE p == Position
             b == Len(buffer)
             b2 == Len(buffer')
             d == Len(file.disk)
             K == kBlockSize
  <1>1. p \in Nat /\ offset = p + b /\ b \in Nat /\ offset \in Nat
    BY RestPlace
  <1>2. Place(p) \in Nat /\ K \in Nat
    BY <1>1, PlaceBound
  <1>3. /\ Place(p) + b <= K
        /\ offset = d \/ Place(p) + b = K \/ (b = 0 /\ Place(p) = 0)
        /\ \A i \in 1..b : buffer[i] = file.disk[p + i]
    BY DEF BufferIsRest
  <1>4. b2 = b - x /\ x <= b /\ Position' = offset - b2
    BY DEF Position
  <1> HIDE DEF p, b, b2, d, K
  <1>5. Position' = p + x /\ p + x \in Nat
    BY <1>1, <1>4
  <1>6. \A i \in 1..b2 : buffer'[i] = file.disk[p + x + i]
    <2> SUFFICES ASSUME NEW i \in 1..b2 PROVE buffer'[i] = file.disk[p + x + i]
      OBVIOUS
    <2>1. x + i \in 1..b /\ p + (x + i) = p + x + i
      BY <1>1, <1>4
    <2>2. buffer'[i] = buffer[x + i]
      BY DEF b2
    <2>3. buffer[x + i] = file.disk[p + (x + i)]
      BY <1>3, <2>1
    <2> QED  BY <2>1, <2>2, <2>3
  <1>7. /\ Place(p + x) + b2 <= K
        /\ offset = d \/ Place(p + x) + b2 = K \/ (b2 = 0 /\ Place(p + x) = 0)
    <2>1. CASE Place(p) + x < K
      <3>1. Place(p + x) = Place(p) + x
        BY <1>1, <2>1, PlaceWithin DEF K
      <3> DEFINE y == Place(p)
                 z == Place(p + x)
      <3>2. y \in Nat /\ z = y + x /\ b2 = b - x /\ y + b <= K
        BY <1>2, <1>3, <1>4, <3>1
      <3> HIDE DEF y, z
      <3>3. z + b2 = y + b
        BY <1>1, <1>4, <3>2
      <3>4. y + b = K \/ (b = 0 /\ y = 0) => z + b2 = K \/ (b2 = 0 /\ z = 0)
        BY <1>1, <1>4, <3>2, <3>3
      <3>5. offset = d \/ y + b = K \/ (b = 0 /\ y = 0)
        BY <1>3 DEF y
      <3>6. /\ z + b2 <= K
            /\ offset = d \/ z + b2 = K \/ (b2 = 0 /\ z = 0)
        BY <3>2, <3>3, <3>4, <3>5
      <3> QED  BY <3>6 DEF z
    <2>2. CASE Place(p) + x = K
      <3>1. x = K - Place(p)
        BY <1>2, <2>2
      <3>2. Place(p + x) = 0
        BY <1>1, <3>1, PlaceNext DEF K
      <3>3. b2 = 0
        BY <1>1, <1>2, <1>3, <1>4, <2>2
      <3> QED  BY <1>2, <3>2, <3>3
    <2>3. Place(p) + x < K \/ Place(p) + x = K
      <3>1. Place(p) + b <= K /\ x <= b /\ b \in Nat /\ x \in Nat
        BY <1>1, <1>3, <1>4
      <3> DEFINE y == Place(p)
      <3>2. y \in Nat /\ K \in Nat /\ y + b <= K /\ x <= b /\ b \in Nat /\ x \in Nat
        BY <1>2, <3>1
      <3> HIDE DEF y
      <3>3. y + x <= K
        BY <3>2
      <3>4. y + x < K \/ y + x = K
        BY <3>2, <3>3
      <3> QED  BY <3>4 DEF y
    <2> QED  BY <2>1, <2>2, <2>3
  <1>8. BufferIsRest'
    <2>1. Place(Position)' = Place(p + x) /\ offset' = offset /\ file' = file
      BY <1>5 DEF Place
    <2> QED  BY <1>5, <1>6, <1>7, <2>1 DEF BufferIsRest, Place, b2, d, K
  <1> QED  BY <1>5, <1>8 DEF p

\* What a step of the Reader that returns nothing leaves as it was.
ReturnsNothing == UNCHANGED <<file, written, acked, returned>>

LEMMA NothingReturned ==
  ASSUME ReturnsNothing
  PROVE  /\ (AllBack => AllBack') /\ (Sound => Sound') /\ (OneMissing' => OneMissing)
         /\ \A i : Back(i) => Back(i)'
  <1>1. \A i : Back(i) => Back(i)'
    BY DEF ReturnsNothing, Back, EndOf
  <1>2. AllBack => AllBack'
    BY DEF ReturnsNothing, AllBack, Back, EndOf
  <1>3. (Sound => Sound') /\ (OneMissing' => OneMissing)
    BY DEF ReturnsNothing, Sound, EndOf, OneMissing
  <1> QED  BY <1>1, <1>2, <1>3

\* The fragment the Reader is to find next is in the file.
LEMMA TrackOnDisk ==
  ASSUME TypeOK, NEW S \in SUBSET Nat, NEW F \in [S -> FragmentOf], NEW G \in Nat,
         Chain(S, F, G), NEW s \in S
  PROVE  /\ s + kHeaderSize <= Len(file.disk)
         /\ EndOfFragment(s, F[s]) <= Len(file.disk)
         /\ \E t \in 1..4 : HeaderOnDisk(s, F[s].length, t) /\ (t \in ReturnedTypes <=> F[s].last)
  <1>1. OnDisk(s, F[s]) /\ EndOfFragment(s, F[s]) <= G /\ G <= Len(file.disk)
    BY DEF Chain
  <1>2. /\ s \in Nat /\ EndOfFragment(s, F[s]) \in Nat
        /\ s + kHeaderSize <= EndOfFragment(s, F[s]) /\ Len(file.disk) \in Nat
    BY ChainFragment, WriterTypes
  <1>3. s + kHeaderSize <= Len(file.disk) /\ EndOfFragment(s, F[s]) <= Len(file.disk)
    <2> DEFINE e == EndOfFragment(s, F[s])
               d == Len(file.disk)
    <2>1. e \in Nat /\ d \in Nat /\ s \in Nat /\ s + kHeaderSize <= e /\ e <= G /\ G <= d
      BY <1>1, <1>2
    <2> HIDE DEF e, d
    <2>2. s + kHeaderSize <= d /\ e <= d
      BY <2>1, BlockSizes
    <2> QED  BY <2>2 DEF e, d
  <1> QED  BY <1>1, <1>3 DEF OnDisk

LEMMA ReadsOn ==
  ASSUME WriterInv, NEW S \in SUBSET Nat, NEW F \in [S -> FragmentOf], NEW G \in Nat,
         ReadBackWith(S, F, G), ReadBlock
  PROVE  ReaderAt(S, F, G)'
  <1>1. /\ TypeOK /\ Chain(S, F, G) /\ BufferIsRest /\ (OnTrack(S, F) \/ AllBack)
        /\ OneMissing => Sound /\ (OnTrack(S, F) \/ AtEnd(G) \/ Exhausted)
    BY DEF WriterInv, ReadBackWith, ReaderAt, ReadBlock
  <1>2. /\ pc' = "read" /\ ReturnsNothing /\ Len(buffer) < kHeaderSize
        /\ eof' = (Len(buffer') < kHeaderSize)
    BY DEF ReadBlock, writerVars, history, ReturnsNothing
  <1>3. /\ BufferIsRest' /\ Position' = offset
        /\ offset = Len(file.disk) => offset' = Len(file.disk) /\ Len(buffer') = 0
        /\ Place(offset) = 0 /\ offset + kHeaderSize <= Len(file.disk) =>
             kHeaderSize <= Len(buffer')
    BY <1>1, RestAfterRead
  <1>4. /\ offset # Len(file.disk) =>
             After(Position) = offset /\ Place(offset) = 0 /\ After(offset) = offset
        /\ After(Position) + kHeaderSize <= Len(file.disk) => offset # Len(file.disk)
    BY <1>1, <1>2, RestPlace
  <1>5. After(Position)' = After(offset)
    BY <1>3 DEF After, Room, Place
  <1>6. OnTrack(S, F) => OnTrack(S, F)'
    <2> SUFFICES ASSUME OnTrack(S, F) PROVE OnTrack(S, F)'
      OBVIOUS
    <2>1. After(Position) \in S
      BY DEF OnTrack
    <2>2. After(Position) + kHeaderSize <= Len(file.disk)
      BY <1>1, <2>1, TrackOnDisk
    <2>3. After(Position) = offset /\ Place(offset) = 0 /\ After(Position)' = After(Position)
      BY <1>4, <1>5, <2>2
    <2>4. kHeaderSize <= Len(buffer')
      BY <1>3, <2>2, <2>3
    <2>5. Len(buffer') \in Nat /\ kHeaderSize \in Nat
      BY <1>1, BlockRead, LenProperties, BlockSizes
    <2>6. ~ eof'
      <3> DEFINE b2 == Len(buffer')
      <3>1. b2 \in Nat /\ kHeaderSize \in Nat /\ kHeaderSize <= b2 /\ eof' = (b2 < kHeaderSize)
        BY <1>2, <2>4, <2>5
      <3> HIDE DEF b2
      <3>2. (b2 < kHeaderSize) = FALSE
        BY <3>1
      <3> QED  BY <3>1, <3>2
    <2> QED  BY <1>2, <2>3, <2>6, NothingReturned DEF OnTrack, ReturnsNothing
  <1>7. AtEnd(G) => AtEnd(G)' \/ Exhausted'
    <2>1. CASE offset = Len(file.disk)
      BY <1>2, <1>3, <2>1 DEF Exhausted, ReturnsNothing
    <2>2. CASE offset # Len(file.disk)
      <3>1. After(Position)' = After(Position)
        BY <1>4, <1>5, <2>2
      <3> QED  BY <1>2, <3>1 DEF AtEnd, ReturnsNothing, After, Room, Place
    <2> QED  BY <2>1, <2>2
  <1>8. Exhausted => Exhausted'
    BY <1>2, <1>3 DEF Exhausted, ReturnsNothing
  <1>9. /\ (AllBack => AllBack') /\ (Sound => Sound') /\ (OneMissing' => OneMissing)
    BY <1>2, NothingReturned
  <1> QED  BY <1>1, <1>2, <1>3, <1>6, <1>7, <1>8, <1>9 DEF ReaderAt

LEMMA EofReads ==
  ASSUME WriterInv, NEW S \in SUBSET Nat, NEW F \in [S -> FragmentOf], NEW G \in Nat,
         ReadBackWith(S, F, G), ReadEof
  PROVE  ReaderAt(S, F, G)'
  <1>1. /\ OnTrack(S, F) \/ AllBack
        /\ OneMissing => Sound
    BY DEF ReadBackWith, ReaderAt, ReadEof
  <1>2. pc' = "done" /\ ReturnsNothing /\ eof
    BY DEF ReadEof, writerVars, history, ReturnsNothing
  <1>3. AllBack
    BY <1>1, <1>2 DEF OnTrack
  <1> QED  BY <1>1, <1>2, <1>3, NothingReturned DEF ReaderAt

\* The header at the end of the chain, when there is a whole one.
LEMMA TornInBuffer ==
  ASSUME TypeOK, BufferIsRest, Len(buffer) >= kHeaderSize, NEW G \in Nat, Torn(G), AtEnd(G)
  PROVE  /\ Position = After(G)
         /\ offset = Len(file.disk)
         /\ \E l \in Nat, t \in 1..4 :
              /\ BufferLengths = {l} /\ BufferTypes = {t}
              /\ Len(buffer) <= kHeaderSize + l
              /\ Len(buffer) = kHeaderSize + l /\ t \in ReturnedTypes =>
                   acked < Len(written) /\ EndsOnDisk(Position + kHeaderSize, l, acked + 1)
  <1> DEFINE p == Position
             b == Len(buffer)
             d == Len(file.disk)
             H == kHeaderSize
  <1>1. /\ p \in Nat /\ offset = p + b /\ b \in Nat /\ offset \in Nat /\ offset <= d /\ d \in Nat
        /\ After(p) = p /\ H \in Nat /\ b >= H
    BY RestPlace, BlockSizes
  <1>2. p = After(G)
    BY <1>1 DEF AtEnd
  <1>3. ~ (d < p + H)
    <2> HIDE DEF p, b, d, H
    <2> QED  BY <1>1
  <1>4. PICK l \in Nat, t \in 1..4 :
          /\ HeaderOnDisk(p, l, t)
          /\ d <= p + H + l
          /\ d = p + H + l /\ t \in ReturnedTypes =>
               acked < Len(written) /\ EndsOnDisk(p + H, l, acked + 1)
    BY <1>2, <1>3 DEF Torn
  <1>5. BufferLengths = {l} /\ BufferTypes = {t} /\ offset = d
    <2>1. t \in Nat
      OBVIOUS
    <2> QED  BY <1>4, <2>1, HeaderInBuffer
  <1>6. b <= H + l /\ (b = H + l => d = p + H + l)
    <2> HIDE DEF p, b, d, H
    <2> QED  BY <1>1, <1>4, <1>5
  <1> QED  BY <1>2, <1>4, <1>5, <1>6

\* The header the Reader is to find next, when it is in the buffer.
LEMMA TrackInBuffer ==
  ASSUME TypeOK, BufferIsRest, Len(buffer) >= kHeaderSize,
         NEW S \in SUBSET Nat, NEW F \in [S -> FragmentOf], NEW G \in Nat,
         Chain(S, F, G), OnTrack(S, F)
  PROVE  /\ Position \in S
         /\ BufferLengths = {F[Position].length}
         /\ kHeaderSize + F[Position].length <= Len(buffer)
         /\ \E t \in 1..4 : BufferTypes = {t} /\ (t \in ReturnedTypes <=> F[Position].last)
  <1>1. After(Position) = Position /\ Position \in S
    BY RestPlace DEF OnTrack
  <1>2. PICK s \in S : s = Position
    BY <1>1
  <1>3. PICK t \in 1..4 : HeaderOnDisk(s, F[s].length, t) /\ (t \in ReturnedTypes <=> F[s].last)
    BY TrackOnDisk
  <1>4. s + kHeaderSize + F[s].length <= Len(file.disk)
    BY TrackOnDisk DEF EndOfFragment
  <1>5. F[s].length \in Nat /\ t \in Nat
    BY ChainFragment
  <1>6. /\ BufferLengths = {F[s].length} /\ BufferTypes = {t}
        /\ kHeaderSize + F[s].length <= Len(buffer)
    BY <1>2, <1>3, <1>4, <1>5, HeaderInBuffer
  <1> QED  BY <1>1, <1>2, <1>3, <1>6

LEMMA DropsBlock ==
  ASSUME WriterInv, NEW S \in SUBSET Nat, NEW F \in [S -> FragmentOf], NEW G \in Nat,
         ReadBackWith(S, F, G), DropBlock
  PROVE  ReaderAt(S, F, G)'
  <1>1. /\ TypeOK /\ Chain(S, F, G) /\ BufferIsRest /\ (OnTrack(S, F) \/ AllBack)
        /\ OneMissing => Sound /\ (OnTrack(S, F) \/ AtEnd(G) \/ Exhausted)
        /\ OneMissing => Torn(G)
    BY DEF WriterInv, ReadBackWith, ReaderAt, DropBlock
  <1>2. /\ pc' = "read" /\ ReturnsNothing /\ Len(buffer) >= kHeaderSize
    BY DEF DropBlock, writerVars, history, ReturnsNothing
  <1>3. PICK length \in BufferLengths, type \in BufferTypes :
          \/ kHeaderSize + length > Len(buffer)
          \/ type = kZeroType /\ length = 0
    BY DEF DropBlock
  <1>4. BufferIsRest' /\ Len(buffer') = 0 /\ offset' = offset
    BY <1>1, RestAfterDrop
  <1>5. ~ OnTrack(S, F)
    <2> SUFFICES ASSUME OnTrack(S, F) PROVE FALSE
      OBVIOUS
    <2> DEFINE l == F[Position].length
    <2>1. /\ length = l /\ kHeaderSize + l <= Len(buffer) /\ type \in 1..4
          /\ Position \in S
      BY <1>1, <1>2, TrackInBuffer
    <2>2. l \in Nat /\ Len(buffer) \in Nat /\ kHeaderSize \in Nat
      BY <1>1, <2>1, ChainFragment, ReaderTypes, BlockSizes
    <2> QED  BY <1>3, <2>1, <2>2 DEF kZeroType
  <1>6. AtEnd(G) /\ OneMissing => Exhausted'
    <2> SUFFICES ASSUME AtEnd(G), OneMissing PROVE Exhausted'
      OBVIOUS
    <2>1. offset = Len(file.disk)
      BY <1>1, <1>2, TornInBuffer
    <2> QED  BY <1>2, <1>4, <2>1 DEF Exhausted, ReturnsNothing
  <1>7. ~ Exhausted
    BY <1>2, BlockSizes DEF Exhausted
  <1> QED  BY <1>1, <1>2, <1>4, <1>5, <1>6, <1>7, NothingReturned DEF ReaderAt

\* What is taken out of the buffer is what the file has there.
LEMMA TakenIsEnd ==
  ASSUME TypeOK, BufferIsRest, NEW l \in Nat, kHeaderSize + l <= Len(buffer),
         NEW i \in Nat, EndsOnDisk(Position + kHeaderSize, l, i),
         NEW s \in Seq(Byte), Len(s) = l, \A k \in 1..l : s[k] = buffer[kHeaderSize + k]
  PROVE  EndOf(s, i)
  <1> DEFINE p == Position
             b == Len(buffer)
             H == kHeaderSize
  <1>1. p \in Nat /\ b \in Nat /\ H \in Nat /\ H + l <= b
    BY RestPlace, BlockSizes
  <1>2. \A j \in 1..b : buffer[j] = file.disk[p + j]
    BY DEF BufferIsRest
  <1>3. /\ l <= written[i].length
        /\ \A k \in 1..l : file.disk[p + H + k] = <<i, written[i].length - l + k>>
    BY DEF EndsOnDisk
  <1>4. \A k \in 1..l : s[k] = buffer[H + k]
    OBVIOUS
  <1> HIDE DEF p, b, H
  <1>5. ASSUME NEW k \in 1..l PROVE s[k] = <<i, written[i].length - l + k>>
    <2> DEFINE j == H + k
    <2>1. j \in 1..b /\ p + j = p + H + k
      BY <1>1
    <2>2. s[k] = buffer[j]
      BY <1>4
    <2> HIDE DEF j
    <2>3. buffer[j] = file.disk[p + j]
      BY <1>2, <2>1
    <2> QED  BY <1>3, <2>1, <2>2, <2>3
  <1> QED  BY <1>3, <1>5 DEF EndOf

LEMMA RecordBack ==
  ASSUME TypeOK, NEW s \in Seq(Byte), returned' = Append(returned, s),
         UNCHANGED <<written, acked>>
  PROVE  /\ Len(returned) \in Nat /\ Len(returned') = Len(returned) + 1
         /\ \A i \in 1..Len(returned) : returned'[i] = returned[i]
         /\ returned'[Len(returned) + 1] = s
         /\ \A i \in 1..Len(returned) : Back(i) => Back(i)'
         /\ AllBack => AllBack'
  <1> DEFINE n == Len(returned)
  <1>1. returned \in Seq(Seq(Byte)) /\ n \in Nat /\ acked \in Nat
    BY ReaderTypes, WriterTypes, LenProperties
  <1>2. /\ Len(returned') = n + 1
        /\ \A i \in 1..n : returned'[i] = returned[i]
        /\ returned'[n + 1] = s
    BY <1>1, AppendProperties
  <1> HIDE DEF n
  <1>3. \A i \in 1..n : Back(i) => Back(i)'
    BY <1>2 DEF Back, EndOf
  <1>4. AllBack => AllBack'
    <2> SUFFICES ASSUME AllBack PROVE AllBack'
      OBVIOUS
    <2>1. acked <= n /\ \A i \in 1..acked : Back(i)
      BY DEF AllBack, n
    <2>2. \A i \in 1..acked : i \in 1..n
      BY <1>1, <2>1
    <2>3. acked' = acked /\ acked <= Len(returned')
      BY <1>1, <1>2, <2>1
    <2> QED  BY <1>3, <2>1, <2>2, <2>3 DEF AllBack
  <1> QED  BY <1>1, <1>2, <1>3, <1>4 DEF n

\* The Reader takes the fragment of the chain it has come to.
LEMMA TakesOnTrack ==
  ASSUME TypeOK, NEW S \in SUBSET Nat, NEW F \in [S -> FragmentOf], NEW G \in Nat,
         Chain(S, F, G), BufferIsRest, OnTrack(S, F), TakeFragment
  PROVE  /\ BufferIsRest' /\ pc' = "read" /\ Sound'
         /\ OnTrack(S, F)' \/ (AllBack' /\ AtEnd(G)')
  <1>1. /\ Len(buffer) >= kHeaderSize
        /\ UNCHANGED <<file, written, acked, eof, offset>>
        /\ ~ eof /\ Len(returned) <= acked /\ \A i \in 1..Len(returned) : Back(i)
    BY DEF TakeFragment, writerVars, history, OnTrack
  <1>2. /\ Position \in S
        /\ BufferLengths = {F[Position].length}
        /\ kHeaderSize + F[Position].length <= Len(buffer)
        /\ \E t \in 1..4 : BufferTypes = {t} /\ (t \in ReturnedTypes <=> F[Position].last)
    BY <1>1, TrackInBuffer
  <1>3. PICK s \in S : s = Position
    BY <1>2
  <1>4. PICK t \in 1..4 : BufferTypes = {t} /\ (t \in ReturnedTypes <=> F[s].last)
    BY <1>2, <1>3
  <1> DEFINE l == F[s].length
             e == EndOfFragment(s, F[s])
             n == Len(returned)
             m == Len(returned')
  <1>5. /\ l \in Nat /\ F[s].record \in Nat \ {0} /\ F[s].last \in BOOLEAN
        /\ s \in Nat /\ e \in Nat /\ kHeaderSize \in Nat
    BY ChainFragment, BlockSizes
  <1>6. /\ F[s].record = n + 1 /\ n \in Nat /\ acked \in Nat /\ acked <= Len(written)
        /\ Len(written) \in Nat /\ returned \in Seq(Seq(Byte))
    <2>1. After(Position) = Position
      BY <1>1, RestPlace
    <2> QED  BY <1>3, <2>1, ReaderTypes, WriterTypes, LenProperties DEF OnTrack
  <1>7. /\ buffer' \in Seq(Byte) /\ Len(buffer') = Len(buffer) - (kHeaderSize + l)
        /\ \A i \in 1..Len(buffer') : buffer'[i] = buffer[kHeaderSize + l + i]
        /\ pc' = "read"
        /\ IF F[s].last
           THEN \E z \in Seq(Byte) :
                  /\ returned' = Append(returned, z)
                  /\ Len(z) = l
                  /\ \A i \in 1..l : z[i] = buffer[kHeaderSize + i]
           ELSE returned' = returned
    <2>1. PICK length \in BufferLengths, type \in BufferTypes :
           /\ buffer' \in Seq(Byte) /\ Len(buffer') = Len(buffer) - (kHeaderSize + length)
           /\ \A i \in 1..Len(buffer') : buffer'[i] = buffer[kHeaderSize + length + i]
           /\ pc' = IF type = kEof THEN "done" ELSE "read"
           /\ IF type \in ReturnedTypes
              THEN \E z \in Seq(Byte) :
                     /\ returned' = Append(returned, z)
                     /\ Len(z) = length
                     /\ \A i \in 1..length : z[i] = buffer[kHeaderSize + i]
              ELSE returned' = returned
      BY FragmentTaken
    <2>2. length = l /\ type = t
      BY <1>2, <1>3, <1>4
    <2>3. type # kEof
      BY <2>2 DEF kEof
    <2> QED  BY <1>4, <2>1, <2>2, <2>3
  <1>8. BufferIsRest' /\ Position' = e
    <2> DEFINE x == kHeaderSize + l
    <2>1. x \in Nat /\ x <= Len(buffer)
      BY <1>2, <1>3, <1>5
    <2>2. Len(buffer') = Len(buffer) - x /\ \A i \in 1..Len(buffer') : buffer'[i] = buffer[x + i]
      BY <1>7
    <2>3. s + x = e
      BY <1>5 DEF EndOfFragment
    <2> HIDE DEF x, e
    <2>4. BufferIsRest' /\ Position' = Position + x
      BY <1>1, <2>1, <2>2, RestAfterTake
    <2> QED  BY <1>3, <2>3, <2>4
  <1>9. OnDisk(s, F[s]) /\ Leads(S, F, G, e, Complete(F[s]))
    BY DEF Chain
  <1>10. m \in Nat /\ m <= acked /\ Complete(F[s]) = m /\ \A i \in 1..m : Back(i)'
    <2>1. CASE F[s].last
      <3>1. PICK z \in Seq(Byte) :
              /\ returned' = Append(returned, z)
              /\ Len(z) = l
              /\ \A i \in 1..l : z[i] = buffer[kHeaderSize + i]
        BY <1>7, <2>1
      <3>2. /\ m = n + 1 /\ returned'[n + 1] = z
            /\ \A i \in 1..n : Back(i) => Back(i)'
        BY <1>1, <3>1, RecordBack
      <3>3. /\ F[s].record <= acked
            /\ EndsOnDisk(s + kHeaderSize, l, n + 1)
            /\ written[n + 1].fragments = 1 => l = written[n + 1].length
        BY <1>6, <1>9, <2>1 DEF OnDisk
      <3>4. EndOf(z, n + 1)
        BY <1>2, <1>3, <1>5, <1>6, <3>1, <3>3, TakenIsEnd
      <3> HIDE DEF n, m, l
      <3>5. ASSUME NEW i, i = n + 1 PROVE Back(i)'
        <4>1. returned'[i] = z /\ EndOf(z, i) /\ (written[i].fragments = 1 => Len(z) = written[i].length)
          BY <3>1, <3>2, <3>3, <3>4, <3>5
        <4> QED  BY <1>1, <4>1 DEF Back, EndOf
      <3>6. \A i \in 1..m : i \in 1..n \/ i = n + 1
        BY <1>6, <3>2
      <3>7. \A i \in 1..n : Back(i)'
        BY <1>1, <3>2 DEF n
      <3>8. \A i \in 1..m : Back(i)'
        BY <3>5, <3>6, <3>7
      <3>9. m \in Nat /\ m <= acked /\ Complete(F[s]) = m
        BY <1>6, <2>1, <3>2, <3>3 DEF Complete
      <3> QED  BY <3>8, <3>9
    <2>2. CASE ~ F[s].last
      <3>1. returned' = returned /\ m = n
        BY <1>7, <2>2
      <3>2. \A i \in 1..m : Back(i)'
        BY <1>1, <3>1, NothingReturned DEF ReturnsNothing
      <3> QED  BY <1>1, <1>6, <2>2, <3>1, <3>2 DEF Complete
    <2> QED  BY <2>1, <2>2
  <1> HIDE DEF m, n, l
  <1>11. Sound'
    <2>1. m <= Len(written')
      BY <1>1, <1>6, <1>10
    <2> QED  BY <1>10, <2>1 DEF Sound, Back, m
  <1>12. After(Position)' = After(e)
    BY <1>8 DEF After, Room, Place
  <1>13. CASE e = G /\ m = acked
    <2>1. AllBack'
      BY <1>1, <1>6, <1>10, <1>13 DEF AllBack, m
    <2>2. AtEnd(G)'
      BY <1>1, <1>12, <1>13 DEF AtEnd, After, Room, Place, m
    <2> QED  BY <1>7, <1>8, <1>11, <2>1, <2>2
  <1>14. CASE After(e) \in S /\ F[After(e)].record = m + 1
    <2>1. OnTrack(S, F)'
      BY <1>1, <1>10, <1>12, <1>14 DEF OnTrack, m
    <2> QED  BY <1>7, <1>8, <1>11, <2>1
  <1> QED  BY <1>9, <1>10, <1>13, <1>14 DEF Leads

\* Behind the chain it can take one fragment at most, the last thing in the file.
LEMMA TakesAtEnd ==
  ASSUME TypeOK, BufferIsRest, Sound, NEW G \in Nat, Torn(G), AtEnd(G), TakeFragment
  PROVE  pc' = "read" /\ Sound' /\ Exhausted'
  <1>1. /\ Len(buffer) >= kHeaderSize /\ UNCHANGED <<file, written, acked, offset>>
        /\ Len(returned) = acked
    BY DEF TakeFragment, writerVars, history, AtEnd
  <1>2. offset = Len(file.disk)
    BY <1>1, TornInBuffer
  <1>3. PICK l \in Nat, t \in 1..4 :
          /\ BufferLengths = {l} /\ BufferTypes = {t}
          /\ Len(buffer) <= kHeaderSize + l
          /\ Len(buffer) = kHeaderSize + l /\ t \in ReturnedTypes =>
               acked < Len(written) /\ EndsOnDisk(Position + kHeaderSize, l, acked + 1)
    BY <1>1, TornInBuffer
  <1>4. /\ kHeaderSize + l <= Len(buffer)
        /\ Len(buffer') = Len(buffer) - (kHeaderSize + l)
        /\ pc' = "read"
        /\ IF t \in ReturnedTypes
           THEN \E z \in Seq(Byte) :
                  /\ returned' = Append(returned, z)
                  /\ Len(z) = l
                  /\ \A i \in 1..l : z[i] = buffer[kHeaderSize + i]
           ELSE returned' = returned
    <2>1. PICK length \in BufferLengths, type \in BufferTypes :
           /\ kHeaderSize + length <= Len(buffer)
           /\ Len(buffer') = Len(buffer) - (kHeaderSize + length)
           /\ pc' = IF type = kEof THEN "done" ELSE "read"
           /\ IF type \in ReturnedTypes
              THEN \E z \in Seq(Byte) :
                     /\ returned' = Append(returned, z)
                     /\ Len(z) = length
                     /\ \A i \in 1..length : z[i] = buffer[kHeaderSize + i]
              ELSE returned' = returned
      BY FragmentTaken
    <2>2. length = l /\ type = t /\ type # kEof
      BY <1>3 DEF kEof
    <2> QED  BY <2>1, <2>2
  <1> DEFINE b == Len(buffer)
             n == Len(returned)
  <1>5. b \in Nat /\ kHeaderSize \in Nat /\ n \in Nat /\ acked \in Nat /\ Len(written) \in Nat
    BY ReaderTypes, WriterTypes, BlockSizes, LenProperties
  <1>6. b = kHeaderSize + l /\ Len(buffer') = 0
    <2> HIDE DEF b
    <2>1. b <= kHeaderSize + l /\ kHeaderSize + l <= b
      BY <1>3, <1>4 DEF b
    <2>2. b = kHeaderSize + l
      BY <1>5, <2>1
    <2>3. Len(buffer') = b - b
      BY <1>4, <2>2 DEF b
    <2> QED  BY <1>5, <2>2, <2>3
  <1>7. Exhausted'
    BY <1>1, <1>2, <1>6 DEF Exhausted
  <1>8. Sound'
    <2>1. CASE t \in ReturnedTypes
      <3>1. PICK z \in Seq(Byte) :
              /\ returned' = Append(returned, z)
              /\ Len(z) = l
              /\ \A i \in 1..l : z[i] = buffer[kHeaderSize + i]
        BY <1>4, <2>1
      <3>2. acked < Len(written) /\ EndsOnDisk(Position + kHeaderSize, l, acked + 1)
        BY <1>3, <1>6, <2>1
      <3>3. EndOf(z, n + 1)
        <4>1. acked + 1 \in Nat /\ n = acked
          BY <1>1, <1>5
        <4>2. EndOf(z, acked + 1)
          BY <1>4, <3>1, <3>2, <4>1, TakenIsEnd
        <4> QED  BY <4>1, <4>2
      <3>4. /\ Len(returned') = n + 1 /\ returned'[n + 1] = z
            /\ \A i \in 1..n : returned'[i] = returned[i]
        BY <1>1, <3>1, RecordBack
      <3>5. n + 1 <= Len(written)
        <4> HIDE DEF n
        <4>1. n = acked
          BY <1>1 DEF n
        <4> QED  BY <1>5, <3>2, <4>1
      <3>6. \A i \in 1..(n + 1) : i \in 1..n \/ i = n + 1
        <4> HIDE DEF n
        <4> QED  BY <1>5
      <3>7. \A i \in 1..n : EndOf(returned[i], i)
        BY DEF Sound
      <3>8. ASSUME NEW i \in 1..(n + 1) PROVE EndOf(returned[i], i)'
        <4>1. CASE i \in 1..n
          BY <1>1, <3>4, <3>7, <4>1 DEF EndOf
        <4>2. CASE i = n + 1
          BY <1>1, <3>3, <3>4, <4>2 DEF EndOf
        <4> QED  BY <3>6, <4>1, <4>2
      <3> HIDE DEF n
      <3> QED  BY <1>1, <3>4, <3>5, <3>8 DEF Sound
    <2>2. CASE t \notin ReturnedTypes
      BY <1>1, <1>4, <2>2, NothingReturned DEF ReturnsNothing
    <2> QED  BY <2>1, <2>2
  <1> QED  BY <1>4, <1>7, <1>8

\* Whatever it takes, the records that have come back stay in place.
LEMMA TakesAnything ==
  ASSUME TypeOK, BufferIsRest, TakeFragment
  PROVE  /\ BufferIsRest' /\ pc' \in {"read", "done"}
         /\ AllBack => AllBack'
  <1>1. UNCHANGED <<file, written, acked, offset>>
    BY DEF TakeFragment, writerVars, history
  <1>2. PICK length \in BufferLengths, type \in BufferTypes :
          /\ length \in Nat
          /\ kHeaderSize + length <= Len(buffer)
          /\ Len(buffer') = Len(buffer) - (kHeaderSize + length)
          /\ \A i \in 1..Len(buffer') : buffer'[i] = buffer[kHeaderSize + length + i]
          /\ pc' = IF type = kEof THEN "done" ELSE "read"
          /\ IF type \in ReturnedTypes
             THEN \E s \in Seq(Byte) : returned' = Append(returned, s)
             ELSE returned' = returned
    <2>1. TypeOK /\ TakeFragment
      OBVIOUS
    <2> QED  BY <2>1, FragmentTaken
  <1>3. BufferIsRest'
    <2> DEFINE x == kHeaderSize + length
    <2>1. x \in Nat /\ x <= Len(buffer)
      BY <1>2, BlockSizes
    <2>2. Len(buffer') = Len(buffer) - x /\ \A i \in 1..Len(buffer') : buffer'[i] = buffer[x + i]
      BY <1>2
    <2> HIDE DEF x
    <2> QED  BY <1>1, <2>1, <2>2, RestAfterTake
  <1>4. AllBack => AllBack'
    <2>1. CASE type \in ReturnedTypes
      <3>1. PICK s \in Seq(Byte) : returned' = Append(returned, s)
        BY <1>2, <2>1
      <3> QED  BY <1>1, <3>1, RecordBack
    <2>2. CASE type \notin ReturnedTypes
      BY <1>1, <1>2, <2>2, NothingReturned DEF ReturnsNothing
    <2> QED  BY <2>1, <2>2
  <1> QED  BY <1>2, <1>3, <1>4

LEMMA TakesFragment ==
  ASSUME WriterInv, NEW S \in SUBSET Nat, NEW F \in [S -> FragmentOf], NEW G \in Nat,
         ReadBackWith(S, F, G), TakeFragment
  PROVE  ReaderAt(S, F, G)'
  <1>1. /\ TypeOK /\ Chain(S, F, G) /\ BufferIsRest /\ (OnTrack(S, F) \/ AllBack)
        /\ OneMissing => Sound /\ (OnTrack(S, F) \/ AtEnd(G) \/ Exhausted)
        /\ OneMissing => Torn(G)
    BY DEF WriterInv, ReadBackWith, ReaderAt, TakeFragment
  <1>2. CASE OnTrack(S, F)
    BY <1>1, <1>2, TakesOnTrack DEF ReaderAt
  <1>3. CASE ~ OnTrack(S, F)
    <2>1. BufferIsRest' /\ pc' \in {"read", "done"} /\ AllBack'
      BY <1>1, <1>3, TakesAnything
    <2>2. ~ Exhausted
      BY BlockSizes DEF Exhausted, TakeFragment
    <2>3. OneMissing' => OneMissing
      BY DEF OneMissing, TakeFragment, history
    <2>4. OneMissing => pc' = "read" /\ Sound' /\ Exhausted'
      BY <1>1, <1>3, <2>2, TakesAtEnd
    <2> QED  BY <2>1, <2>3, <2>4 DEF ReaderAt
  <1> QED  BY <1>2, <1>3

LEMMA ReadBackReads ==
  ASSUME WriterInv, ReadBackInv, Reading
  PROVE  ReadBackInv'
  <1>1. PICK S \in SUBSET Nat, G \in Nat : \E F \in [S -> FragmentOf] : ReadBackWith(S, F, G)
    BY DEF ReadBackInv
  <1>2. PICK F \in [S -> FragmentOf] : ReadBackWith(S, F, G)
    BY <1>1
  <1>3. /\ UNCHANGED <<file, written, acked>>
        /\ pc' \in {"read", "done"}
    BY DEF Reading, ReadBlock, ReadEof, DropBlock, TakeFragment, writerVars, history
  <1>4. ReaderAt(S, F, G)'
    BY <1>2, ReadsOn, EofReads, DropsBlock, TakesFragment DEF Reading
  <1>5. Chain(S, F, G)'
    BY <1>2, <1>3 DEF ReadBackWith, Chain, Leads, OnDisk, HeaderOnDisk, EndsOnDisk,
                     EndOfFragment, Complete, After, Room, Place
  <1>6. OneMissing' => Torn(G)'
    BY <1>2, <1>3 DEF ReadBackWith, OneMissing, Torn, HeaderOnDisk, EndsOnDisk,
                     After, Room, Place
  <1>7. WriterAt(G)'
    BY <1>3 DEF WriterAt
  <1>8. ReadBackWith(S, F, G)'
    BY <1>4, <1>5, <1>6, <1>7 DEF ReadBackWith
  <1> QED  BY <1>8 DEF ReadBackInv

LEMMA ReadBackStep ==
  ASSUME WriterInv, ReadBackInv, [Next]_walVars
  PROVE  ReadBackInv'
  <1>1. CASE Writing
    BY <1>1, ReadBackAdds, ReadBackEmits, ReadBackStops DEF Writing
  <1>2. CASE Reading
    BY <1>2, ReadBackReads
  <1>3. CASE UNCHANGED walVars
    <2>1. PICK S \in SUBSET Nat, G \in Nat : \E F \in [S -> FragmentOf] : ReadBackWith(S, F, G)
      BY DEF ReadBackInv
    <2>2. PICK F \in [S -> FragmentOf] : ReadBackWith(S, F, G)
      BY <2>1
    <2>3. UNCHANGED <<pc, file, block_offset, left, begin, buffer, eof, offset, returned, written,
                      acked>>
      BY <1>3 DEF walVars, writerVars, readerVars, history
    <2>4. Chain(S, F, G)'
      BY <2>2, <2>3 DEF ReadBackWith, Chain, Leads, OnDisk, HeaderOnDisk, EndsOnDisk,
                       EndOfFragment, Complete, After, Room, Place
    <2>5. OneMissing' => Torn(G)'
      BY <2>2, <2>3 DEF ReadBackWith, OneMissing, Torn, HeaderOnDisk, EndsOnDisk,
                       After, Room, Place
    <2>6. WriterAt(G)'
      BY <2>2, <2>3 DEF ReadBackWith, WriterAt, NeverFailed
    <2>7. ReaderAt(S, F, G)'
      <3>1. BufferIsRest => BufferIsRest'
        BY <2>3 DEF BufferIsRest, Position, Place
      <3>2. OnTrack(S, F) => OnTrack(S, F)'
        BY <2>3 DEF OnTrack, Back, EndOf, Position, After, Room, Place
      <3>3. AtEnd(G) => AtEnd(G)'
        BY <2>3 DEF AtEnd, Position, After, Room, Place
      <3>4. (AllBack => AllBack') /\ (Sound => Sound') /\ (OneMissing' => OneMissing)
        BY <2>3, NothingReturned DEF ReturnsNothing
      <3>5. Exhausted => Exhausted'
        BY <2>3 DEF Exhausted
      <3> QED  BY <2>2, <2>3, <3>1, <3>2, <3>3, <3>4, <3>5 DEF ReadBackWith, ReaderAt
    <2>8. ReadBackWith(S, F, G)'
      BY <2>4, <2>5, <2>6, <2>7 DEF ReadBackWith
    <2> QED  BY <2>8 DEF ReadBackInv
  <1> QED  BY <1>1, <1>2, <1>3 DEF Next

----------------------------------------------------------------------------------
(***************************************************************************)
(* The end of a record as Wal states it.                                   *)
(***************************************************************************)
LEMMA ReverseType ==
  ASSUME NEW s \in Seq(Byte)
  PROVE  /\ Reverse(s) \in Seq(Byte) /\ Len(Reverse(s)) = Len(s) /\ Len(s) \in Nat
         /\ \A i \in 1..Len(s) : Reverse(s)[i] = s[Len(s) - i + 1]
  <1> DEFINE n == Len(s)
             r == Reverse(s)
  <1>1. n \in Nat
    BY LenProperties
  <1>2. r = [i \in 1..n |-> s[(n - i) + 1]]
    BY DEF Reverse
  <1>3. \A i \in 1..n : s[(n - i) + 1] \in Byte
    <2> SUFFICES ASSUME NEW i \in 1..n PROVE s[(n - i) + 1] \in Byte
      OBVIOUS
    <2> DEFINE j == (n - i) + 1
    <2> HIDE DEF n
    <2>1. j \in 1..n
      BY <1>1
    <2> HIDE DEF j
    <2>2. s[j] \in Byte
      BY <2>1, ElementOfSeq DEF n
    <2> QED  BY <2>2 DEF j
  <1> HIDE DEF r, n
  <1>4. r \in [1..n -> Byte]
    BY <1>2, <1>3
  <1>5. r \in Seq(Byte) /\ Len(r) = n
    BY <1>1, <1>4, SeqDef, LenProperties
  <1>6. \A i \in 1..n : r[i] = s[n - i + 1]
    BY <1>2
  <1> QED  BY <1>1, <1>5, <1>6 DEF r, n

LEMMA SuffixOf ==
  ASSUME NEW s \in Seq(Byte), NEW t \in Seq(Byte), Len(s) <= Len(t),
         \A k \in 1..Len(s) : s[k] = t[Len(t) - Len(s) + k]
  PROVE  IsSuffix(s, t)
  <1> DEFINE n == Len(s)
             m == Len(t)
             r == Reverse(s)
             q == Reverse(t)
             a == SubSeq(r, 0 + 1, n)
             b == SubSeq(q, 0 + 1, n)
  <1>1. /\ n \in Nat /\ m \in Nat /\ n <= m
        /\ r \in Seq(Byte) /\ Len(r) = n /\ \A i \in 1..n : r[i] = s[n - i + 1]
        /\ q \in Seq(Byte) /\ Len(q) = m /\ \A i \in 1..m : q[i] = t[m - i + 1]
        /\ \A k \in 1..n : s[k] = t[m - n + k]
    BY ReverseType
  <1> HIDE DEF n, m, r, q
  <1>2. a \in Seq(Byte) /\ Len(a) = n - 0 /\ \A i \in 1..(n - 0) : a[i] = r[0 + i]
    BY <1>1, SliceType
  <1>3. b \in Seq(Byte) /\ Len(b) = n - 0 /\ \A i \in 1..(n - 0) : b[i] = q[0 + i]
    BY <1>1, SliceType
  <1> HIDE DEF a, b
  <1>4. ASSUME NEW i \in 1..n PROVE a[i] = b[i]
    <2> DEFINE k == n - i + 1
    <2>1. i \in 1..(n - 0) /\ i \in 1..m /\ 0 + i = i /\ k \in 1..n /\ m - n + k = m - i + 1
      BY <1>1
    <2>2. a[i] = r[i] /\ b[i] = q[i]
      BY <1>2, <1>3, <2>1
    <2>3. r[i] = s[k] /\ q[i] = t[m - i + 1]
      BY <1>1, <2>1
    <2> HIDE DEF k
    <2> QED  BY <1>1, <2>1, <2>2, <2>3
  <1>5. a = b
    <2>1. n - 0 = n
      BY <1>1
    <2>2. Len(a) = n /\ Len(b) = n
      BY <1>2, <1>3, <2>1
    <2> QED  BY <1>2, <1>3, <1>4, <2>2, SeqEqual
  <1>6. Len(r) <= Len(q) /\ SubSeq(r, 1, Len(r)) = SubSeq(q, 1, Len(r))
    <2>1. 0 + 1 = 1
      OBVIOUS
    <2>2. SubSeq(r, 0 + 1, n) = SubSeq(q, 0 + 1, n)
      BY ONLY <1>5, Zenon DEF a, b
    <2>3. SubSeq(r, 1, n) = SubSeq(q, 1, n)
      BY <2>1, <2>2
    <2> QED  BY <1>1, <2>3
  <1> QED  BY <1>6 DEF IsSuffix, IsPrefix, r, q

LEMMA EndIsSuffix ==
  ASSUME TypeOK, NEW i \in 1..Len(written), NEW s \in Seq(Byte), EndOf(s, i)
  PROVE  /\ IsSuffix(s, Payload(i, 1, written[i].length))
         /\ Len(s) = written[i].length => s = Payload(i, 1, written[i].length)
  <1> DEFINE w == written[i].length
             n == Len(s)
             t == Payload(i, 1, w)
  <1>1. w \in Nat /\ n \in Nat /\ i \in Nat
    <2>1. written \in Seq([length : Nat, fragments : Nat]) /\ Len(written) \in Nat
      BY WriterTypes DEF TypeOK
    <2>2. written[i] \in [length : Nat, fragments : Nat]
      BY <2>1, ElementOfSeq
    <2> QED  BY <2>1, <2>2, LenProperties
  <1>2. n <= w /\ \A k \in 1..n : s[k] = <<i, w - n + k>>
    BY DEF EndOf
  <1> HIDE DEF n, w
  <1>3. t \in Seq(Byte) /\ Len(t) = w /\ \A k \in 1..w : t[k] = <<i, k>>
    <2>1. 1 \in Nat \ {0} /\ w \in Int /\ w >= 1 - 1 /\ w - 1 + 1 = w
      BY <1>1
    <2>2. t \in Seq(Byte) /\ Len(t) = w - 1 + 1 /\ \A k \in 1..(w - 1 + 1) : t[k] = <<i, 1 + k - 1>>
      BY <1>1, <2>1, PayloadType
    <2>3. \A k \in 1..w : 1 + k - 1 = k
      BY <1>1
    <2> HIDE DEF t
    <2> QED  BY <2>1, <2>2, <2>3
  <1> HIDE DEF t
  <1>4. \A k \in 1..n : s[k] = t[w - n + k]
    <2> SUFFICES ASSUME NEW k \in 1..n PROVE s[k] = t[w - n + k]
      OBVIOUS
    <2> DEFINE j == w - n + k
    <2>1. j \in 1..w
      BY <1>1, <1>2
    <2>2. s[k] = <<i, j>>
      BY <1>2
    <2> HIDE DEF j
    <2>3. t[j] = <<i, j>>
      BY <1>3, <2>1
    <2> QED  BY <2>2, <2>3 DEF j
  <1>5. IsSuffix(s, t)
    BY <1>2, <1>3, <1>4, SuffixOf DEF n
  <1>6. ASSUME n = w PROVE s = t
    <2>1. \A k \in 1..n : w - n + k = k
      BY <1>1, <1>6
    <2>2. \A k \in 1..n : s[k] = t[k]
      BY <1>4, <2>1
    <2> QED  BY <1>3, <1>6, <2>2, SeqEqual DEF n
  <1> QED  BY <1>5, <1>6 DEF t, n, w

\* What has come back are ends of the records, in order.
LEMMA RecordsBack ==
  ASSUME WriterInv, ReadBackInv, pc = "done"
  PROVE  AllBack /\ (OneMissing => Sound)
  BY DEF ReadBackInv, ReadBackWith, ReaderAt

\* A log is read back: of every record AddRecord acknowledged before a write failed, and
\* in the order they were added, the Reader returns the whole or, of one that was cut up,
\* the end.
THEOREM AcknowledgedIsReadBack == Spec => []AckedReadBack
  <1>1. ASSUME WriterInv, ReadBackInv PROVE AckedReadBack
    <2> SUFFICES ASSUME pc = "done" PROVE AckedReadBack
      BY DEF AckedReadBack
    <2>1. /\ acked <= Len(returned) /\ \A i \in 1..acked : Back(i)
      BY <1>1, RecordsBack DEF AllBack
    <2>2. /\ TypeOK /\ acked \in Nat /\ acked <= Len(written) /\ Len(written) \in Nat
          /\ returned \in Seq(Seq(Byte)) /\ Len(returned) \in Nat
      BY <1>1, ReaderTypes, WriterTypes, LenProperties DEF WriterInv
    <2>3. ASSUME NEW i \in 1..acked
          PROVE  LET all == Payload(i, 1, written[i].length)
                 IN  IF written[i].fragments = 1 THEN returned[i] = all
                     ELSE IsSuffix(returned[i], all)
      <3>1. i \in 1..Len(written) /\ i \in 1..Len(returned)
        BY <2>1, <2>2
      <3>2. returned[i] \in Seq(Byte)
        BY <2>2, <3>1, ElementOfSeq
      <3>3. EndOf(returned[i], i) /\ (written[i].fragments = 1 => Len(returned[i]) = written[i].length)
        BY <2>1 DEF Back
      <3> QED  BY <2>2, <3>1, <3>2, <3>3, EndIsSuffix
    <2> QED  BY <2>1, <2>2, <2>3 DEF AckedReadBack
  <1> QED  BY <1>1, WriterInit, WriterStep, ReadBackInit, ReadBackStep, PTL DEF Spec

\* The torn end of a log is not taken for a record: as long as no write but the last has
\* failed, what comes back besides the acknowledged records is the end of the one that
\* was being written.
THEOREM TornIsNotRead == Spec => []NothingInvented
  <1>1. ASSUME WriterInv, ReadBackInv PROVE NothingInvented
    <2> SUFFICES ASSUME pc = "done", acked >= Len(written) - 1 PROVE NothingInvented
      BY DEF NothingInvented
    <2>1. Len(returned) <= Len(written) /\ \A i \in 1..Len(returned) : EndOf(returned[i], i)
      BY <1>1, RecordsBack DEF OneMissing, Sound
    <2>2. /\ TypeOK /\ Len(written) \in Nat
          /\ returned \in Seq(Seq(Byte)) /\ Len(returned) \in Nat
          /\ DOMAIN returned = 1..Len(returned)
      BY <1>1, ReaderTypes, WriterTypes, LenProperties DEF WriterInv
    <2>3. ASSUME NEW i \in DOMAIN returned
          PROVE  IsSuffix(returned[i], Payload(i, 1, written[i].length))
      <3>1. i \in 1..Len(written) /\ i \in 1..Len(returned)
        BY <2>1, <2>2
      <3>2. returned[i] \in Seq(Byte)
        BY <2>2, <3>1, ElementOfSeq
      <3> QED  BY <2>1, <2>2, <3>1, <3>2, EndIsSuffix
    <2> QED  BY <2>1, <2>3 DEF NothingInvented
  <1> QED  BY <1>1, WriterInit, WriterStep, ReadBackInit, ReadBackStep, PTL DEF Spec
==================================================================================
