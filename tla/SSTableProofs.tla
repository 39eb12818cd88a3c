------------------------------- MODULE SSTableProofs -------------------------------
(***************************************************************************)
(* Theorems about SSTable, for every value of its constants, and their     *)
(* proofs.                                                                 *)
(***************************************************************************)
EXTENDS SSTable, EntriesLemmas, WritableFileLemmas

TextKinds == {"key", "value", "crc32", "filter"}

\* What a file is made of.
Cell == [u32 : Nat] \union [u64 : Nat] \union [of : TextKinds, id : Nat, at : Nat]

\* SSTableBuilderRep.
Rep == [file : FileOf(Cell), offset : Nat, status : BOOLEAN,
        pending_handle : Handles, pending_index_entry : BOOLEAN,
        last_key : Seq(Cell), data_block : Seq(Cell), filter_block : Seq(Cell),
        index_block : Seq(Cell), entries : SUBSET Entry,
        blocks : Seq([handle : Handles, entries : SUBSET Entry]), intact : BOOLEAN]

----------------------------------------------------------------------------------
(***************************************************************************)
(* Encodings.                                                              *)
(***************************************************************************)
LEMMA TextType ==
  ASSUME NEW of \in TextKinds, NEW id \in Nat, NEW n \in Nat
  PROVE  /\ Text(of, id, n) \in Seq(Cell) /\ Len(Text(of, id, n)) = n
         /\ \A i \in 1..n : Text(of, id, n)[i] = [of |-> of, id |-> id, at |-> i]
<1> DEFINE cell(i) == [of |-> of, id |-> id, at |-> i]
           text == [i \in 1..n |-> cell(i)]
<1>1. \A i \in 1..n : cell(i) \in Cell
  BY DEF Cell
<1>2. text \in [1..n -> Cell] /\ \A i \in 1..n : text[i] = cell(i)
  BY <1>1
<1>3. text \in Seq(Cell) /\ Len(text) = n
  BY <1>2
<1> QED BY <1>2, <1>3 DEF Text

\* One cell each.
LEMMA NumberTypes ==
  ASSUME NEW n \in Nat
  PROVE  /\ U32(n) \in Seq(Cell) /\ Len(U32(n)) = 1 /\ U32(n)[1] = [u32 |-> n]
         /\ U64(n) \in Seq(Cell) /\ Len(U64(n)) = 1 /\ U64(n)[1] = [u64 |-> n]
<1>1. [u32 |-> n] \in Cell /\ [u64 |-> n] \in Cell
  BY DEF Cell
<1> QED BY <1>1 DEF U32, U64

\* The crc32 behind a block is one cell, the filter's name two.
LEMMA ConstantTypes ==
  /\ Crc32 \in Seq(Cell) /\ Len(Crc32) = 1 /\ Crc32[1] = [of |-> "crc32", id |-> 0, at |-> 1]
  /\ FilterName \in Seq(Cell) /\ Len(FilterName) = 2
<1>1. "crc32" \in TextKinds /\ "filter" \in TextKinds
  BY DEF TextKinds
<1>2. 0 \in Nat /\ 1 \in Nat /\ 2 \in Nat
  OBVIOUS
<1>3. /\ Text("crc32", 0, 1) \in Seq(Cell) /\ Len(Text("crc32", 0, 1)) = 1
      /\ \A i \in 1..1 : Text("crc32", 0, 1)[i] = [of |-> "crc32", id |-> 0, at |-> i]
  BY <1>1, <1>2, TextType
<1>4. Text("filter", 0, 2) \in Seq(Cell) /\ Len(Text("filter", 0, 2)) = 2
  BY <1>1, <1>2, TextType
<1>5. Text("crc32", 0, 1)[1] = [of |-> "crc32", id |-> 0, at |-> 1]
  BY <1>3
<1> QED BY <1>3, <1>4, <1>5 DEF Crc32, FilterName

\* An encoded BlockHandle is its offset and its size, one cell each.
LEMMA HandleType ==
  ASSUME NEW h \in Handles
  PROVE  /\ Handle(h) \in Seq(Cell) /\ Len(Handle(h)) = 2
         /\ Handle(h)[1] = [u64 |-> h.offset] /\ Handle(h)[2] = [u64 |-> h.size]
<1>1. h.offset \in Nat /\ h.size \in Nat
  BY DEF Handles
<1> DEFINE a == U64(h.offset)
           b == U64(h.size)
<1>2. /\ a \in Seq(Cell) /\ Len(a) = 1 /\ a[1] = [u64 |-> h.offset]
      /\ b \in Seq(Cell) /\ Len(b) = 1 /\ b[1] = [u64 |-> h.size]
  BY <1>1, NumberTypes
<1> HIDE DEF a, b
<1>3. /\ a \o b \in Seq(Cell) /\ Len(a \o b) = 2
      /\ (a \o b)[1] = a[1] /\ (a \o b)[2] = b[1]
  BY <1>2, ConcatProperties
<1> QED BY <1>2, <1>3 DEF Handle, a, b

\* A key's text is as long as the key says.
LEMMA KeyTextType ==
  ASSUME NEW k \in Key
  PROVE  KeyText(k) \in Seq(Cell) /\ Len(KeyText(k)) = k[1] /\ k[1] \in Nat /\ k[2] \in Nat
<1>1. k[1] \in Nat /\ k[2] \in Nat
  BY KeyAssumption
<1>2. "key" \in TextKinds
  BY DEF TextKinds
<1>3. Text("key", k[2], k[1]) \in Seq(Cell) /\ Len(Text("key", k[2], k[1])) = k[1]
  BY <1>1, <1>2, TextType
<1> QED BY <1>1, <1>3 DEF KeyText

\* A value's text is as long as its number, and the empty value's is empty.
LEMMA ValueTextType ==
  ASSUME NEW v \in Nat
  PROVE  ValueText(v) \in Seq(Cell) /\ Len(ValueText(v)) = v
<1>1. "value" \in TextKinds
  BY DEF TextKinds
<1>2. Text("value", v, v) \in Seq(Cell) /\ Len(Text("value", v, v)) = v
  BY <1>1, TextType
<1> QED BY <1>2 DEF ValueText

\* EncodeBytes puts the length in front of the text.
LEMMA EncodedType ==
  ASSUME NEW t \in Seq(Cell)
  PROVE  /\ EncodeBytes(t) \in Seq(Cell) /\ Len(EncodeBytes(t)) = Len(t) + 1
         /\ EncodeBytes(t)[1] = [u32 |-> Len(t)]
         /\ \A i \in 1..Len(t) : EncodeBytes(t)[i + 1] = t[i]
<1> DEFINE n == Len(t)
           a == U32(n)
<1>1. n \in Nat
  BY LenProperties
<1>2. a \in Seq(Cell) /\ Len(a) = 1 /\ a[1] = [u32 |-> n]
  BY <1>1, NumberTypes
<1> HIDE DEF a
<1>3. /\ a \o t \in Seq(Cell) /\ Len(a \o t) = Len(a) + Len(t)
      /\ \A i \in 1..(Len(a) + Len(t)) :
           (a \o t)[i] = IF i <= Len(a) THEN a[i] ELSE t[i - Len(a)]
  BY <1>2, ConcatProperties
<1>4. /\ Len(a \o t) = 1 + n
      /\ \A i \in 1..(1 + n) : (a \o t)[i] = IF i <= 1 THEN a[i] ELSE t[i - 1]
  BY <1>2, <1>3 DEF n
<1> HIDE DEF n
<1>7. (a \o t)[1] = a[1]
  BY <1>1, <1>4
<1>5. ASSUME NEW i \in 1..n PROVE (a \o t)[i + 1] = t[i]
  <2>1. i + 1 \in 1..(1 + n) /\ ~ (i + 1 <= 1) /\ (i + 1) - 1 = i
    BY <1>1
  <2> QED BY <1>4, <2>1
<1>6. 1 + n = n + 1
  BY <1>1
<1> QED BY <1>2, <1>3, <1>4, <1>5, <1>6, <1>7 DEF EncodeBytes, a, n

\* What Add appends to the data block.
EncodedEntry(e) == EncodeBytes(KeyText(e.key)) \o EncodeBytes(ValueText(e.value))

\* What Add appends to a data block for an entry, and that the parts of it are texts.
LEMMA EncodedEntryType ==
  ASSUME NEW e \in Entry
  PROVE  /\ EncodedEntry(e) \in Seq(Cell)
         /\ Len(EncodedEntry(e)) = e.key[1] + 1 + e.value + 1
         /\ e.key \in Key /\ e.key[1] \in Nat /\ e.value \in Nat
         /\ KeyText(e.key) \in Seq(Cell) /\ ValueText(e.value) \in Seq(Cell)
         /\ EncodeBytes(KeyText(e.key)) \in Seq(Cell)
         /\ EncodeBytes(ValueText(e.value)) \in Seq(Cell)
         /\ Len(EncodeBytes(KeyText(e.key))) = e.key[1] + 1
         /\ Len(EncodeBytes(ValueText(e.value))) = e.value + 1
<1> DEFINE k == KeyText(e.key)
           v == ValueText(e.value)
           a == EncodeBytes(k)
           b == EncodeBytes(v)
<1>1. e.key \in Key /\ e.key[1] \in Nat /\ e.value \in Nat
  BY EntryFields
<1>2. k \in Seq(Cell) /\ Len(k) = e.key[1] /\ v \in Seq(Cell) /\ Len(v) = e.value
  BY <1>1, KeyTextType, ValueTextType
<1> HIDE DEF k, v
<1>3. /\ a \in Seq(Cell) /\ Len(a) = e.key[1] + 1
      /\ b \in Seq(Cell) /\ Len(b) = e.value + 1
  BY <1>2, EncodedType
<1> HIDE DEF a, b
<1>4. a \o b \in Seq(Cell) /\ Len(a \o b) = Len(a) + Len(b)
  BY <1>3, ConcatProperties
<1>5. Len(a \o b) = e.key[1] + 1 + e.value + 1
  BY <1>1, <1>3, <1>4
<1> QED BY <1>1, <1>2, <1>3, <1>4, <1>5 DEF EncodedEntry, a, b, k, v

----------------------------------------------------------------------------------
(***************************************************************************)
(* Texts within texts.                                                     *)
(***************************************************************************)
\* t is what s has behind its first p cells.
Lies(s, p, t) ==
  /\ p + Len(t) <= Len(s)
  /\ \A i \in 1..Len(t) : s[p + i] = t[i]

\* What is appended lies where the text ended before ...
LEMMA LiesBehind ==
  ASSUME NEW s \in Seq(Cell), NEW t \in Seq(Cell)
  PROVE  Lies(s \o t, Len(s), t)
<1> DEFINE n == Len(s)
           m == Len(t)
           st == s \o t
<1>1. n \in Nat /\ m \in Nat
  BY LenProperties
<1>2. /\ Len(st) = n + m
      /\ \A i \in 1..(n + m) : st[i] = IF i <= n THEN s[i] ELSE t[i - n]
  BY ConcatProperties
<1> HIDE DEF n, m, st
<1>3. ASSUME NEW i \in 1..m PROVE st[n + i] = t[i]
  <2>1. n + i \in 1..(n + m) /\ ~ (n + i <= n) /\ (n + i) - n = i
    BY <1>1
  <2> QED BY <1>2, <2>1
<1>4. n + m <= Len(st)
  BY <1>1, <1>2
<1> QED BY <1>3, <1>4 DEF Lies, n, m, st

\* ... what lay in the text still lies there ...
LEMMA LiesStill ==
  ASSUME NEW s \in Seq(Cell), NEW t \in Seq(Cell), NEW u \in Seq(Cell), NEW p \in Nat,
         Lies(s, p, u)
  PROVE  Lies(s \o t, p, u)
<1> DEFINE n == Len(s)
           m == Len(t)
           l == Len(u)
           st == s \o t
<1>1. n \in Nat /\ m \in Nat /\ l \in Nat
  BY LenProperties
<1>2. /\ Len(st) = n + m
      /\ \A i \in 1..(n + m) : st[i] = IF i <= n THEN s[i] ELSE t[i - n]
  BY ConcatProperties
<1>3. p + l <= n /\ \A i \in 1..l : s[p + i] = u[i]
  BY DEF Lies
<1> HIDE DEF n, m, l, st
<1>4. ASSUME NEW i \in 1..l PROVE st[p + i] = u[i]
  <2>1. p + i \in 1..(n + m) /\ p + i <= n
    BY <1>1, <1>3
  <2> QED BY <1>2, <1>3, <2>1
<1>5. p + l <= Len(st)
  BY <1>1, <1>2, <1>3
<1> QED BY <1>4, <1>5 DEF Lies, l, st

\* ... and a part of what lies in the text lies in it, behind the other parts.
LEMMA LiesPart ==
  ASSUME NEW s \in Seq(Cell), NEW t \in Seq(Cell), NEW u \in Seq(Cell),
         NEW p \in Nat, NEW q \in Nat, Lies(s, p, t), Lies(t, q, u)
  PROVE  Lies(s, p + q, u)
<1> DEFINE n == Len(s)
           m == Len(t)
           l == Len(u)
<1>1. n \in Nat /\ m \in Nat /\ l \in Nat
  BY LenProperties
<1>2. p + m <= n /\ \A i \in 1..m : s[p + i] = t[i]
  BY DEF Lies
<1>3. q + l <= m /\ \A i \in 1..l : t[q + i] = u[i]
  BY DEF Lies
<1> HIDE DEF n, m, l
<1>4. ASSUME NEW i \in 1..l PROVE s[(p + q) + i] = u[i]
  <2> DEFINE j == q + i
  <2>1. j \in 1..m /\ (p + q) + i = p + j /\ t[j] = u[i]
    BY <1>1, <1>3
  <2> HIDE DEF j
  <2>2. s[p + j] = t[j]
    BY <1>2, <2>1
  <2> QED BY <2>1, <2>2
<1>5. (p + q) + l <= n
  BY <1>1, <1>2, <1>3
<1> QED BY <1>4, <1>5 DEF Lies, n, l

\* What lies there is what is cut out there.
LEMMA LiesCut ==
  ASSUME NEW s \in Seq(Cell), NEW t \in Seq(Cell), NEW p \in Nat, Lies(s, p, t)
  PROVE  SubSeq(s, p + 1, p + Len(t)) = t
<1> DEFINE m == Len(t)
           b == p + m
           u == SubSeq(s, p + 1, b)
<1>1. m \in Nat /\ Len(s) \in Nat /\ b \in Nat /\ b <= Len(s) /\ p <= b /\ b - p = m
  <2>1. m \in Nat /\ Len(s) \in Nat
    BY LenProperties
  <2>2. p + m <= Len(s)
    BY DEF Lies
  <2> HIDE DEF m
  <2> QED BY <2>1, <2>2
<1>2. \A i \in 1..m : s[p + i] = t[i]
  BY DEF Lies
<1> HIDE DEF b
<1>3. u \in Seq(Cell) /\ Len(u) = b - p /\ \A i \in 1..(b - p) : u[i] = s[p + i]
  BY <1>1, SliceType
<1> HIDE DEF u
<1>4. Len(u) = Len(t) /\ \A i \in 1..Len(u) : u[i] = t[i]
  BY <1>1, <1>2, <1>3
<1>5. u = t
  BY <1>3, <1>4, SeqEqual
<1> QED BY <1>5 DEF u, b

\* What is cut out there lies there.
LEMMA CutLies ==
  ASSUME NEW s \in Seq(Cell), NEW p \in Nat, NEW b \in Nat, p <= b, b <= Len(s)
  PROVE  /\ SubSeq(s, p + 1, b) \in Seq(Cell) /\ Len(SubSeq(s, p + 1, b)) = b - p
         /\ Lies(s, p, SubSeq(s, p + 1, b))
<1> DEFINE u == SubSeq(s, p + 1, b)
<1>1. u \in Seq(Cell) /\ Len(u) = b - p /\ \A i \in 1..(b - p) : u[i] = s[p + i]
  BY SliceType
<1> HIDE DEF u
<1>2. p + (b - p) = b /\ Len(s) \in Nat
  BY LenProperties
<1>3. Lies(s, p, u)
  BY <1>1, <1>2 DEF Lies
<1> QED BY <1>1, <1>3 DEF u

----------------------------------------------------------------------------------
(***************************************************************************)
(* The steps of the builder.                                               *)
(***************************************************************************)
RepOK(r) == r \in Rep /\ Len(r.file.buf) <= BufferSize

\* What the file is going to hold.
Content(r) == r.file.disk \o r.file.buf

\* w differs from r in the file, the offset and the status at most.
SameBlocks(r, w) ==
  /\ w.pending_handle = r.pending_handle
  /\ w.pending_index_entry = r.pending_index_entry
  /\ w.last_key = r.last_key
  /\ w.data_block = r.data_block
  /\ w.filter_block = r.filter_block
  /\ w.index_block = r.index_block
  /\ w.entries = r.entries
  /\ w.blocks = r.blocks

\* The file of a builder and what it has been given: on disk and still in the buffer.
LEMMA RepFields ==
  ASSUME NEW r, RepOK(r)
  PROVE  /\ r.file \in FileOf(Cell) /\ r.file.disk \in Seq(Cell) /\ r.file.buf \in Seq(Cell)
         /\ Content(r) \in Seq(Cell)
         /\ Len(Content(r)) = Len(r.file.disk) + Len(r.file.buf)
<1>1. r.file \in FileOf(Cell)
  BY DEF RepOK, Rep
<1>2. r.file.disk \in Seq(Cell) /\ r.file.buf \in Seq(Cell)
  BY <1>1, FileFields
<1> QED BY <1>1, <1>2, ConcatProperties DEF Content

\* WritableFile::Append under a builder: as long as no write failed, the data is behind
\* all that was given before.
LEMMA AppendedOK ==
  ASSUME NEW r, RepOK(r), NEW data \in Seq(Cell), NEW w \in Appended(r, data)
  PROVE  /\ RepOK(w) /\ SameBlocks(r, w) /\ w.offset = r.offset
         /\ w.intact => /\ r.intact /\ w.status
                        /\ Content(w) = Content(r) \o data
<1> DEFINE f == r.file
           fits == Len(f.buf) + Len(data) <= BufferSize
<1>1. PICK a \in AppendTo(f, data) :
        w = [r EXCEPT !.file = a.file, !.status = a.ok, !.intact = @ /\ a.ok /\ fits]
  BY DEF Appended
<1>2. f \in FileOf(Cell) /\ f.buf \in Seq(Cell) /\ f.disk \in Seq(Cell) /\ Len(f.buf) <= BufferSize
        /\ Len(f.buf) \in Nat /\ Len(data) \in Nat /\ BufferSize \in Nat
  BY RepFields, LenProperties, BufferSizeAssumption DEF RepOK
<1>3. /\ a.file \in FileOf(Cell) /\ Len(a.file.buf) <= BufferSize /\ a.ok \in BOOLEAN
      /\ fits => Takes(f, a.file, data, Cell)
  <2>1. CASE fits
    <3>1. a.ok = TRUE /\ Takes(f, a.file, data, Cell)
      BY <1>2, <2>1, AppendFits
    <3>2. Len(f.buf \o data) = Len(f.buf) + Len(data)
      BY <1>2, ConcatProperties
    <3> QED BY <2>1, <3>1, <3>2 DEF Takes
  <2>2. CASE ~ fits
    <3>1. Len(f.buf) + Len(data) > BufferSize
      BY <1>2, <2>2
    <3>2. /\ a.file \in FileOf(Cell) /\ Len(a.file.buf) <= BufferSize /\ a.ok \in BOOLEAN
      BY <1>2, <3>1, AppendOverflows DEF Leaves
    <3> QED BY <2>2, <3>2
  <2> QED BY <2>1, <2>2
<1>4. r \in Rep
  BY DEF RepOK
<1> HIDE DEF f, fits
<1> DEFINE whole == r.intact /\ a.ok /\ fits
           g == a.file
           good == a.ok
<1>5. w = [r EXCEPT !.file = g, !.status = good, !.intact = whole]
  BY <1>1
<1>6. whole \in BOOLEAN /\ good \in BOOLEAN /\ g \in FileOf(Cell)
  BY <1>3, <1>4 DEF Rep
<1> HIDE DEF whole, g, good
<1>7. /\ w \in Rep /\ w.file = g /\ w.status = good /\ w.intact = whole /\ w.offset = r.offset
      /\ SameBlocks(r, w)
  BY <1>4, <1>5, <1>6 DEF Rep, SameBlocks
<1>8. RepOK(w)
  BY <1>3, <1>7 DEF RepOK, g
<1>9. ASSUME w.intact
      PROVE  r.intact /\ w.status /\ Content(w) = Content(r) \o data
  <2>1. r.intact /\ a.ok /\ fits
    BY <1>7, <1>9 DEF whole
  <2>2. g.disk = f.disk /\ g.buf = f.buf \o data
    BY <1>3, <2>1 DEF Takes, g
  <2>3. f.disk \o (f.buf \o data) = (f.disk \o f.buf) \o data
    <3> DEFINE x == f.disk
               y == f.buf
    <3>1. x \in Seq(Cell) /\ y \in Seq(Cell)
      BY <1>2
    <3> HIDE DEF x, y
    <3>2. (x \o y) \o data = x \o (y \o data)
      BY <3>1, Regroup
    <3> QED BY <3>2 DEF x, y
  <2> QED BY <1>7, <2>1, <2>2, <2>3 DEF Content, f, good
<1> QED BY <1>7, <1>8, <1>9

\* WritableFile::Flush under a builder: the same content, none of it in the buffer.
LEMMA FlushedOK ==
  ASSUME NEW r, RepOK(r), NEW w \in Flushed(r)
  PROVE  /\ RepOK(w) /\ SameBlocks(r, w) /\ w.offset = r.offset
         /\ w.intact => /\ r.intact /\ w.status
                        /\ Content(w) = Content(r) /\ w.file.buf = <<>>
<1> DEFINE f == r.file
<1>1. PICK a \in FlushBuffer(f) :
        w = [r EXCEPT !.file = a.file, !.status = a.ok, !.intact = @ /\ a.ok]
  BY DEF Flushed
<1>2. f \in FileOf(Cell) /\ f.buf \in Seq(Cell) /\ f.disk \in Seq(Cell) /\ BufferSize \in Nat
  BY RepFields, BufferSizeAssumption
<1>3. r \in Rep
  BY DEF RepOK
<1>4. PICK p \in Prefixes(f.buf) :
        /\ Leaves(f, a.file, <<>>, p, Cell)
        /\ a.ok = (p = f.buf)
  BY <1>2, FlushOutcome
<1> HIDE DEF f
<1> DEFINE whole == r.intact /\ a.ok
           g == a.file
           good == a.ok
<1>5. w = [r EXCEPT !.file = g, !.status = good, !.intact = whole]
  BY <1>1
<1>6. whole \in BOOLEAN /\ good \in BOOLEAN /\ g \in FileOf(Cell)
  BY <1>3, <1>4 DEF Rep, Leaves
<1> HIDE DEF whole, g, good
<1>7. /\ w \in Rep /\ w.file = g /\ w.status = good /\ w.intact = whole /\ w.offset = r.offset
      /\ SameBlocks(r, w)
  BY <1>3, <1>5, <1>6 DEF Rep, SameBlocks
<1>8. g.buf = <<>> /\ g.disk = f.disk \o p /\ Len(<<>>) = 0
  BY <1>4 DEF Leaves, g
<1>9. RepOK(w)
  BY <1>2, <1>7, <1>8 DEF RepOK
<1>10. ASSUME w.intact
       PROVE  r.intact /\ w.status /\ Content(w) = Content(r) /\ w.file.buf = <<>>
  <2>1. r.intact /\ a.ok /\ p = f.buf
    BY <1>4, <1>7, <1>10 DEF whole
  <2> DEFINE x == f.disk \o f.buf
  <2>2. x \in Seq(Cell)
    BY <1>2, ConcatProperties
  <2>3. x \o <<>> = x
    BY <2>2, ConcatEmptySeq
  <2> QED BY <1>7, <1>8, <2>1, <2>3 DEF Content, f, good
<1> QED BY <1>7, <1>9, <1>10

\* A block and its checksum.
LEMMA WriteRawBlockOK ==
  ASSUME NEW r, RepOK(r), NEW block \in Seq(Cell), NEW w \in WriteRawBlock(r, block)
  PROVE  /\ RepOK(w) /\ SameBlocks(r, w)
         /\ w.intact => /\ r.intact /\ w.status
                        /\ Content(w) = (Content(r) \o block) \o Crc32
                        /\ w.offset = r.offset + Len(block) + 1
<1>1. PICK a \in Appended(r, block) :
        w \in IF ~ a.status THEN {a}
              ELSE {IF b.status THEN [b EXCEPT !.offset = @ + Len(block) + Len(Crc32)] ELSE b :
                      b \in Appended(a, Crc32)}
  BY DEF WriteRawBlock
<1>2. /\ RepOK(a) /\ SameBlocks(r, a) /\ a.offset = r.offset
      /\ a.intact => r.intact /\ a.status /\ Content(a) = Content(r) \o block
  BY AppendedOK
<1>3. CASE ~ a.status
  BY <1>1, <1>2, <1>3
<1>4. CASE a.status
  <2>1. PICK b \in Appended(a, Crc32) :
          w = IF b.status THEN [b EXCEPT !.offset = @ + Len(block) + Len(Crc32)] ELSE b
    BY <1>1, <1>4
  <2>2. /\ RepOK(b) /\ SameBlocks(a, b) /\ b.offset = a.offset
        /\ b.intact => a.intact /\ b.status /\ Content(b) = Content(a) \o Crc32
    BY <1>2, <2>1, ConstantTypes, AppendedOK
  <2>3. SameBlocks(r, b)
    BY <1>2, <2>2 DEF SameBlocks
  <2>4. CASE ~ b.status
    BY <1>2, <2>1, <2>2, <2>3, <2>4
  <2>5. CASE b.status
    <3> DEFINE behind == r.offset + Len(block) + 1
    <3>1. behind \in Nat /\ b.offset + Len(block) + Len(Crc32) = behind
      <4> DEFINE n == Len(block)
                 c == Len(Crc32)
                 o == r.offset
      <4>1. n \in Nat /\ c = 1 /\ o \in Nat /\ b.offset = o
        BY <1>2, <2>2, LenProperties, ConstantTypes DEF RepOK, Rep
      <4> HIDE DEF n, c, o
      <4>2. o + n + 1 \in Nat /\ b.offset + n + c = o + n + 1
        BY <4>1
      <4> QED BY <4>2 DEF n, c, o
    <3>2. w = [b EXCEPT !.offset = behind]
      BY <2>1, <2>5, <3>1
    <3> HIDE DEF behind
    <3>3. /\ w \in Rep /\ w.file = b.file /\ w.status = b.status /\ w.intact = b.intact
          /\ w.offset = behind /\ SameBlocks(b, w)
      BY <2>2, <3>1, <3>2 DEF RepOK, Rep, SameBlocks
    <3>4. RepOK(w) /\ SameBlocks(r, w)
      BY <2>2, <2>3, <3>3 DEF RepOK, SameBlocks
    <3>5. Content(w) = Content(b)
      BY <3>3 DEF Content
    <3> QED BY <1>2, <2>2, <3>3, <3>4, <3>5 DEF behind
  <2> QED BY <2>4, <2>5
<1> QED BY <1>3, <1>4

\* The data block as it is written: its place, and the entries in it.
Written(r) == [handle |-> HandleOf(r, r.data_block), entries |-> r.entries]

\* The end of a data block that is not empty, as long as no write has failed.
LEMMA FlushBlockOK ==
  ASSUME NEW r, RepOK(r), NEW w \in FlushBlock(r)
  PROVE  /\ RepOK(w)
         /\ w.last_key = r.last_key
         /\ w.filter_block = r.filter_block /\ w.index_block = r.index_block
         /\ ~ r.status \/ r.data_block = <<>> => w = r
         /\ r.status /\ r.data_block # <<>> =>
              /\ w.data_block = <<>> /\ w.entries = {}
              /\ w.pending_handle = HandleOf(r, r.data_block)
              /\ w.blocks = Append(r.blocks, Written(r))
              /\ w.intact => /\ r.intact /\ w.status /\ w.pending_index_entry
                             /\ Content(w) = (Content(r) \o r.data_block) \o Crc32
                             /\ w.offset = r.offset + Len(r.data_block) + 1
<1>1. CASE ~ r.status \/ r.data_block = <<>>
  BY <1>1 DEF FlushBlock
<1>2. CASE r.status /\ r.data_block # <<>>
  <2> DEFINE block == r.data_block
             handle == HandleOf(r, block)
             longer == Append(r.blocks, Written(r))
             none == <<>>
             begun == [r EXCEPT !.pending_handle = handle, !.data_block = none,
                                !.entries = {}, !.blocks = longer]
  <2>1. PICK v \in WriteRawBlock(begun, block) :
          w \in IF v.status THEN Flushed([v EXCEPT !.pending_index_entry = TRUE]) ELSE {v}
    BY <1>2 DEF FlushBlock, Written
  <2>2. /\ r \in Rep /\ block \in Seq(Cell) /\ r.offset \in Nat /\ r.entries \in SUBSET Entry
        /\ r.blocks \in Seq([handle : Handles, entries : SUBSET Entry])
    BY DEF RepOK, Rep
  <2>3. handle \in Handles
    BY <2>2, LenProperties DEF HandleOf, Handles
  <2>4. longer \in Seq([handle : Handles, entries : SUBSET Entry])
    BY <2>2, <2>3, AppendProperties DEF Written
  <2> HIDE DEF handle, longer
  <2>5. /\ begun \in Rep /\ begun.file = r.file /\ begun.offset = r.offset
        /\ begun.intact = r.intact
        /\ begun.last_key = r.last_key /\ begun.filter_block = r.filter_block
        /\ begun.index_block = r.index_block
        /\ begun.data_block = none /\ begun.entries = {}
        /\ begun.pending_handle = handle /\ begun.blocks = longer
    <3>1. none \in Seq(Cell) /\ {} \in SUBSET Entry
      OBVIOUS
    <3> HIDE DEF none
    <3> QED BY <2>2, <2>3, <2>4, <3>1 DEF Rep
  <2>6. RepOK(begun) /\ Content(begun) = Content(r)
    BY <2>5 DEF RepOK, Content
  <2> HIDE DEF begun, block
  <2>7. /\ RepOK(v) /\ SameBlocks(begun, v)
        /\ v.intact => /\ begun.intact /\ v.status
                       /\ Content(v) = (Content(begun) \o block) \o Crc32
                       /\ v.offset = begun.offset + Len(block) + 1
    BY <2>1, <2>2, <2>6, WriteRawBlockOK
  <2>8. CASE ~ v.status
    <3>1. w = v
      BY <2>1, <2>8
    <3> QED BY <1>2, <2>5, <2>6, <2>7, <2>8, <3>1 DEF SameBlocks, handle, longer, block
  <2>9. CASE v.status
    <3> DEFINE u == [v EXCEPT !.pending_index_entry = TRUE]
    <3>1. /\ u \in Rep /\ u.file = v.file /\ u.offset = v.offset /\ u.intact = v.intact
          /\ u.last_key = v.last_key /\ u.filter_block = v.filter_block
          /\ u.index_block = v.index_block
          /\ u.data_block = v.data_block /\ u.entries = v.entries
          /\ u.pending_handle = v.pending_handle /\ u.blocks = v.blocks
          /\ u.pending_index_entry = TRUE
      BY <2>7 DEF RepOK, Rep
    <3>2. RepOK(u) /\ Content(u) = Content(v)
      BY <2>7, <3>1 DEF RepOK, Content
    <3>3. w \in Flushed(u)
      BY <2>1, <2>9
    <3> HIDE DEF u
    <3>4. /\ RepOK(w) /\ SameBlocks(u, w) /\ w.offset = u.offset
          /\ w.intact => u.intact /\ w.status /\ Content(w) = Content(u)
      BY <3>2, <3>3, FlushedOK
    <3>5. /\ w.last_key = r.last_key
          /\ w.filter_block = r.filter_block /\ w.index_block = r.index_block
          /\ w.data_block = <<>> /\ w.entries = {}
          /\ w.pending_handle = handle /\ w.blocks = longer
          /\ w.pending_index_entry
      BY <2>5, <2>7, <3>1, <3>4 DEF SameBlocks
    <3>6. w.intact => /\ r.intact /\ w.status
                      /\ Content(w) = (Content(r) \o block) \o Crc32
                      /\ w.offset = r.offset + Len(block) + 1
      BY <2>5, <2>6, <2>7, <3>1, <3>2, <3>4
    <3> QED BY <1>2, <3>4, <3>5, <3>6 DEF handle, longer, block
  <2> QED BY <2>8, <2>9
<1> QED BY <1>1, <1>2

\* The index block with a pending entry is one with that entry behind it.
LEMMA IndexBlockType ==
  ASSUME NEW r, RepOK(r)
  PROVE  /\ IndexBlock(r) \in Seq(Cell)
         /\ r.last_key \o Handle(r.pending_handle) \in Seq(Cell)
         /\ r.pending_index_entry =>
              IndexBlock(r) = r.index_block \o (r.last_key \o Handle(r.pending_handle))
<1> DEFINE a == r.index_block
           b == r.last_key
           c == Handle(r.pending_handle)
<1>1. a \in Seq(Cell) /\ b \in Seq(Cell) /\ c \in Seq(Cell)
  BY HandleType DEF RepOK, Rep
<1>2. IndexBlock(r) = IF r.pending_index_entry THEN (a \o b) \o c ELSE a
  BY DEF IndexBlock
<1> HIDE DEF a, b, c
<1>3. b \o c \in Seq(Cell) /\ a \o (b \o c) \in Seq(Cell) /\ (a \o b) \o c = a \o (b \o c)
  BY <1>1, ConcatProperties, Regroup
<1> QED BY <1>1, <1>2, <1>3 DEF a, b, c

\* Add of an entry to a builder leaves its file, its offset and its blocks as they were.
LEMMA AddedOK ==
  ASSUME NEW r, RepOK(r), NEW e \in Entry
  PROVE  LET w == Added(r, e)
         IN  /\ RepOK(w) /\ w.file = r.file /\ w.offset = r.offset
             /\ w.status = r.status /\ w.intact = r.intact
             /\ w.pending_handle = r.pending_handle
             /\ w.pending_index_entry = r.pending_index_entry
             /\ w.blocks = r.blocks
             /\ w.last_key = KeyText(e.key)
             /\ w.data_block = r.data_block \o EncodedEntry(e)
             /\ w.entries = r.entries \union {e}
             /\ w.index_block = IndexBlock(r)
<1> DEFINE k == KeyText(e.key)
           a == EncodeBytes(k)
           b == EncodeBytes(ValueText(e.value))
           block == (r.data_block \o a) \o b
           more == r.entries \union {e}
           index == IndexBlock(r)
           filter == r.filter_block \o k
           w == Added(r, e)
<1>1. r \in Rep /\ r.data_block \in Seq(Cell) /\ r.filter_block \in Seq(Cell)
        /\ r.entries \in SUBSET Entry
  BY DEF RepOK, Rep
<1>2. k \in Seq(Cell) /\ a \in Seq(Cell) /\ b \in Seq(Cell)
  BY EncodedEntryType
<1>3. block \in Seq(Cell) /\ block = r.data_block \o EncodedEntry(e)
  <2> DEFINE d == r.data_block
  <2>1. d \in Seq(Cell)
    BY <1>1
  <2>2. EncodedEntry(e) = a \o b
    BY DEF EncodedEntry
  <2> HIDE DEF d, a, b
  <2>3. d \o a \in Seq(Cell) /\ (d \o a) \o b \in Seq(Cell) /\ (d \o a) \o b = d \o (a \o b)
    BY <1>2, <2>1, ConcatProperties, Regroup
  <2> QED BY <2>2, <2>3 DEF d
<1>4. index \in Seq(Cell) /\ filter \in Seq(Cell) /\ more \in SUBSET Entry
  BY <1>1, <1>2, IndexBlockType, ConcatProperties
<1>5. w = [r EXCEPT !.data_block = block, !.entries = more, !.index_block = index,
                    !.filter_block = filter, !.last_key = k]
  BY DEF Added
<1> HIDE DEF k, a, b, block, more, index, filter, w
<1>6. /\ w \in Rep /\ w.file = r.file /\ w.offset = r.offset
      /\ w.status = r.status /\ w.intact = r.intact
      /\ w.pending_handle = r.pending_handle
      /\ w.pending_index_entry = r.pending_index_entry
      /\ w.blocks = r.blocks
      /\ w.last_key = k /\ w.data_block = block /\ w.entries = more /\ w.index_block = index
  BY <1>1, <1>2, <1>3, <1>4, <1>5 DEF Rep
<1>7. RepOK(w)
  BY <1>6 DEF RepOK
<1> QED BY <1>3, <1>6, <1>7 DEF w, k, more, index

----------------------------------------------------------------------------------
(***************************************************************************)
(* Finish: the blocks behind the data.                                     *)
(***************************************************************************)
MetaIndex(data) == FilterName \o Handle(HandleOf(data, data.filter_block))

Footer(data, filter, meta) ==
  Handle(HandleOf(filter, MetaIndex(data))) \o Handle(HandleOf(meta, IndexBlock(meta)))

\* A block has been written behind what was there, or something has gone wrong.
Wrote(r, block, w) ==
  w.intact => /\ r.intact
              /\ Content(w) = (Content(r) \o block) \o Crc32
              /\ w.offset = r.offset + Len(block) + 1

\* The handle of the block about to be written is a BlockHandle.
LEMMA HandleOfType ==
  ASSUME NEW r, RepOK(r), NEW block \in Seq(Cell)
  PROVE  HandleOf(r, block) \in Handles
<1>1. r.offset \in Nat /\ Len(block) \in Nat
  BY LenProperties DEF RepOK, Rep
<1> QED BY <1>1 DEF HandleOf, Handles

\* Two handles side by side: where the cells of each are.
LEMMA FourCells ==
  ASSUME NEW a \in Seq(Cell), NEW b \in Seq(Cell), Len(a) = 2, Len(b) = 2
  PROVE  /\ a \o b \in Seq(Cell) /\ Len(a \o b) = 4
         /\ (a \o b)[1] = a[1] /\ (a \o b)[3] = b[1] /\ (a \o b)[4] = b[2]
<1>1. /\ a \o b \in Seq(Cell) /\ Len(a \o b) = Len(a) + Len(b)
      /\ \A i \in 1..(Len(a) + Len(b)) :
           (a \o b)[i] = IF i <= Len(a) THEN a[i] ELSE b[i - Len(a)]
  BY ConcatProperties
<1>2. /\ Len(a \o b) = 4
      /\ \A i \in 1..4 : (a \o b)[i] = IF i <= 2 THEN a[i] ELSE b[i - 2]
  BY <1>1
<1> QED BY <1>1, <1>2

\* The meta index: the filter's name and the handle of the filter block.
LEMMA MetaIndexType ==
  ASSUME NEW r, RepOK(r)
  PROVE  MetaIndex(r) \in Seq(Cell) /\ Len(MetaIndex(r)) = 4
           /\ MetaIndex(r)[3] = [u64 |-> r.offset]
<1> DEFINE h == HandleOf(r, r.filter_block)
           a == FilterName
           b == Handle(h)
<1>1. h \in Handles /\ h.offset = r.offset
  BY HandleOfType DEF RepOK, Rep, HandleOf
<1>2. a \in Seq(Cell) /\ Len(a) = 2
  BY ConstantTypes
<1> HIDE DEF h
<1>3. b \in Seq(Cell) /\ Len(b) = 2 /\ b[1] = [u64 |-> r.offset]
  BY <1>1, HandleType
<1> HIDE DEF a, b
<1>4. a \o b \in Seq(Cell) /\ Len(a \o b) = 4 /\ (a \o b)[3] = b[1]
  BY <1>2, <1>3, FourCells
<1> QED BY <1>3, <1>4 DEF MetaIndex, a, b, h

\* The footer: the handles of the meta index block and of the index block.
LEMMA FooterType ==
  ASSUME NEW data, NEW filter, NEW meta, RepOK(data), RepOK(filter), RepOK(meta)
  PROVE  LET footer == Footer(data, filter, meta)
         IN  /\ footer \in Seq(Cell) /\ Len(footer) = 4
             /\ footer[1] = [u64 |-> filter.offset]
             /\ footer[3] = [u64 |-> meta.offset]
             /\ footer[4] = [u64 |-> Len(IndexBlock(meta))]
<1> DEFINE g == HandleOf(filter, MetaIndex(data))
           h == HandleOf(meta, IndexBlock(meta))
           a == Handle(g)
           b == Handle(h)
<1>1. /\ g \in Handles /\ g.offset = filter.offset
      /\ h \in Handles /\ h.offset = meta.offset /\ h.size = Len(IndexBlock(meta))
  BY HandleOfType, MetaIndexType, IndexBlockType DEF HandleOf
<1> HIDE DEF g, h
<1>2. /\ a \in Seq(Cell) /\ Len(a) = 2 /\ a[1] = [u64 |-> filter.offset]
      /\ b \in Seq(Cell) /\ Len(b) = 2 /\ b[1] = [u64 |-> meta.offset]
      /\ b[2] = [u64 |-> Len(IndexBlock(meta))]
  BY <1>1, HandleType
<1> HIDE DEF a, b
<1>3. /\ a \o b \in Seq(Cell) /\ Len(a \o b) = 4
      /\ (a \o b)[1] = a[1] /\ (a \o b)[3] = b[1] /\ (a \o b)[4] = b[2]
  BY <1>2, FourCells
<1> QED BY <1>2, <1>3 DEF Footer, a, b, g, h

\* Finish writes the last data block, the filter, the meta index, the index and the
\* footer, in that order, each to what the one before left.
LEMMA FinishOK ==
  ASSUME RepOK(rep), Finish
  PROVE  /\ RepOK(rep') /\ file_size' \in Nat /\ file_size' = rep.offset'
         /\ \E data \in FlushBlock(rep), filter \in Rep, meta \in Rep, index \in Rep :
              /\ RepOK(data) /\ RepOK(filter) /\ RepOK(meta) /\ RepOK(index)
              /\ Wrote(data, data.filter_block, filter)
              /\ Wrote(filter, MetaIndex(data), meta)
              /\ Wrote(meta, IndexBlock(meta), index)
              /\ Wrote(index, Footer(data, filter, meta), rep')
              /\ SameBlocks(data, meta)
              /\ rep.blocks' = data.blocks
<1>1. PICK data \in FlushBlock(rep) :
      \E filter \in WriteRawBlock(data, data.filter_block) :
      \E meta \in WriteRawBlock(filter, MetaIndex(data)) :
      \E index \in WriteRawBlock(meta, IndexBlock(meta)) :
      \E foot \in WriteRawBlock(index, Footer(data, filter, meta)) :
        /\ rep' = [foot EXCEPT !.pending_index_entry = FALSE, !.status = TRUE]
        /\ file_size' = foot.offset
  BY DEF Finish, MetaIndex, Footer
<1>2. PICK filter \in WriteRawBlock(data, data.filter_block) :
      \E meta \in WriteRawBlock(filter, MetaIndex(data)) :
      \E index \in WriteRawBlock(meta, IndexBlock(meta)) :
      \E foot \in WriteRawBlock(index, Footer(data, filter, meta)) :
        /\ rep' = [foot EXCEPT !.pending_index_entry = FALSE, !.status = TRUE]
        /\ file_size' = foot.offset
  BY <1>1
<1>3. PICK meta \in WriteRawBlock(filter, MetaIndex(data)) :
      \E index \in WriteRawBlock(meta, IndexBlock(meta)) :
      \E foot \in WriteRawBlock(index, Footer(data, filter, meta)) :
        /\ rep' = [foot EXCEPT !.pending_index_entry = FALSE, !.status = TRUE]
        /\ file_size' = foot.offset
  BY <1>2
<1>4. PICK index \in WriteRawBlock(meta, IndexBlock(meta)) :
      \E foot \in WriteRawBlock(index, Footer(data, filter, meta)) :
        /\ rep' = [foot EXCEPT !.pending_index_entry = FALSE, !.status = TRUE]
        /\ file_size' = foot.offset
  BY <1>3
<1>5. PICK foot \in WriteRawBlock(index, Footer(data, filter, meta)) :
        /\ rep' = [foot EXCEPT !.pending_index_entry = FALSE, !.status = TRUE]
        /\ file_size' = foot.offset
  BY <1>4
<1>6. RepOK(data)
  BY FlushBlockOK
<1>7. RepOK(filter) /\ SameBlocks(data, filter) /\ Wrote(data, data.filter_block, filter)
  <2>1. data.filter_block \in Seq(Cell)
    BY <1>6 DEF RepOK, Rep
  <2> QED BY <1>2, <1>6, <2>1, WriteRawBlockOK DEF Wrote
<1>8. RepOK(meta) /\ SameBlocks(filter, meta) /\ Wrote(filter, MetaIndex(data), meta)
  <2>1. MetaIndex(data) \in Seq(Cell)
    BY <1>6, MetaIndexType
  <2> QED BY <1>3, <1>7, <2>1, WriteRawBlockOK DEF Wrote
<1>9. RepOK(index) /\ SameBlocks(meta, index) /\ Wrote(meta, IndexBlock(meta), index)
  <2>1. IndexBlock(meta) \in Seq(Cell)
    BY <1>8, IndexBlockType
  <2> QED BY <1>4, <1>8, <2>1, WriteRawBlockOK DEF Wrote
<1>10. /\ RepOK(foot) /\ SameBlocks(index, foot)
       /\ Wrote(index, Footer(data, filter, meta), foot)
  <2>1. Footer(data, filter, meta) \in Seq(Cell)
    BY <1>6, <1>7, <1>8, FooterType
  <2> QED BY <1>5, <1>9, <2>1, WriteRawBlockOK DEF Wrote
<1> DEFINE last == [foot EXCEPT !.pending_index_entry = FALSE, !.status = TRUE]
<1>11. /\ last \in Rep /\ last.file = foot.file /\ last.offset = foot.offset
       /\ last.intact = foot.intact /\ last.blocks = foot.blocks
  BY <1>10 DEF RepOK, Rep
<1>12. rep' = last
  BY <1>5
<1> HIDE DEF last
<1>13. RepOK(last) /\ Content(last) = Content(foot)
  BY <1>10, <1>11 DEF RepOK, Content
<1>14. Wrote(index, Footer(data, filter, meta), last)
  BY <1>10, <1>11, <1>13 DEF Wrote
<1>15. SameBlocks(data, meta) /\ last.blocks = data.blocks
  BY <1>7, <1>8, <1>9, <1>10, <1>11 DEF SameBlocks
<1>16. file_size' = last.offset /\ last.offset \in Nat
  BY <1>5, <1>11 DEF Rep
<1>17. filter \in Rep /\ meta \in Rep /\ index \in Rep
  BY <1>7, <1>8, <1>9 DEF RepOK
<1> QED BY <1>6, <1>7, <1>8, <1>9, <1>12, <1>13, <1>14, <1>15, <1>16, <1>17

\* Close, if no write failed, leaves all that was appended on disk.
LEMMA CloseOK ==
  ASSUME RepOK(rep), Close
  PROVE  /\ RepOK(rep') /\ ok' \in BOOLEAN
         /\ rep.offset' = rep.offset /\ rep.blocks' = rep.blocks
         /\ rep.intact' => /\ rep.intact /\ ok'
                           /\ rep.file.disk' = Content(rep) /\ rep.file.buf' = <<>>
<1>0. PICK s \in Flushed(rep) : \E c \in CloseFile(s.file) :
        /\ rep' = [s EXCEPT !.file = c.file, !.intact = @ /\ c.ok]
        /\ ok' = (s.status /\ c.ok)
  BY DEF Close
<1>1. PICK c \in CloseFile(s.file) :
        /\ rep' = [s EXCEPT !.file = c.file, !.intact = @ /\ c.ok]
        /\ ok' = (s.status /\ c.ok)
  BY <1>0
<1>2. /\ RepOK(s) /\ SameBlocks(rep, s) /\ s.offset = rep.offset
      /\ s.intact => /\ rep.intact /\ s.status
                     /\ Content(s) = Content(rep) /\ s.file.buf = <<>>
  BY FlushedOK
<1>3. /\ s.file \in FileOf(Cell) /\ s.file.disk \in Seq(Cell) /\ s \in Rep
      /\ s.status \in BOOLEAN /\ s.intact \in BOOLEAN /\ s.file.buf \in Seq(Cell)
  BY <1>2, RepFields DEF RepOK, Rep
<1>4. PICK p \in Prefixes(s.file.buf) :
        Leaves(s.file, c.file, <<>>, p, Cell) /\ c.ok \in BOOLEAN /\ (c.ok => p = s.file.buf)
  BY <1>3, CloseOutcome
<1> DEFINE g == c.file
           whole == s.intact /\ c.ok
           w == [s EXCEPT !.file = g, !.intact = whole]
<1>5. g \in FileOf(Cell) /\ g.buf = <<>> /\ g.disk = s.file.disk \o p /\ whole \in BOOLEAN
  BY <1>3, <1>4 DEF Leaves
<1>6. rep' = w
  BY <1>1
<1> HIDE DEF g, whole
<1>7. /\ w \in Rep /\ w.file = g /\ w.intact = whole /\ w.offset = s.offset
      /\ w.blocks = s.blocks
  BY <1>3, <1>5 DEF Rep
<1> HIDE DEF w
<1>8. RepOK(w)
  BY <1>5, <1>7, BufferSizeAssumption DEF RepOK
<1>9. ASSUME w.intact
      PROVE  rep.intact /\ ok' /\ w.file.disk = Content(rep) /\ w.file.buf = <<>>
  <2>1. s.intact /\ c.ok
    BY <1>7, <1>9 DEF whole
  <2>2. Content(s) = s.file.disk \o s.file.buf
    BY DEF Content
  <2> QED BY <1>1, <1>2, <1>4, <1>5, <1>7, <2>1, <2>2
<1>10. ok' \in BOOLEAN
  BY <1>1, <1>3, <1>4
<1> QED BY <1>2, <1>6, <1>7, <1>8, <1>9, <1>10 DEF SameBlocks

----------------------------------------------------------------------------------
(***************************************************************************)
(* Types, and the builder's offset.                                        *)
(***************************************************************************)
TypeInv ==
  /\ pc \in {"new", "put", "finished", "closed", "seek", "done", "aborted"}
  /\ pc = "new" => rep = NewRep
  /\ pc = "put" => built # {}
  /\ built \subseteq Entry /\ IsFiniteSet(built) /\ left \subseteq built
  /\ RepOK(rep)
  /\ file_size \in Nat
  /\ ok \in BOOLEAN
  /\ key \in Key \union {NULL} /\ (pc \in {"seek", "done"} => key \in Key)
  /\ contents \in Seq(Cell)
  /\ offset \in 0..Len(contents)

\* The offset is what has been appended; Close is what puts all of it on the disk.
OffsetInv ==
  rep.intact =>
    /\ rep.offset = Len(Content(rep))
    /\ pc = "finished" => file_size = rep.offset
    /\ pc \in {"closed", "seek", "done"} =>
         /\ ok /\ file_size = rep.offset
         /\ rep.file.disk = Content(rep) /\ rep.file.buf = <<>>

\* A builder starts with an empty file.
LEMMA NewRepOK == RepOK(NewRep) /\ Content(NewRep) = <<>>
<1> DEFINE none == <<>>
           f == [buf |-> none, disk |-> none, open |-> TRUE]
           h == [offset |-> 0, size |-> 0]
           r == [file |-> f, offset |-> 0, status |-> TRUE,
                 pending_handle |-> h, pending_index_entry |-> FALSE,
                 last_key |-> none, data_block |-> none, filter_block |-> none,
                 index_block |-> none, entries |-> {}, blocks |-> none, intact |-> TRUE]
<1>1. /\ none \in Seq(Cell) /\ none \in Seq([handle : Handles, entries : SUBSET Entry])
      /\ {} \in SUBSET Entry /\ Len(none) = 0 /\ none \o none = none
  OBVIOUS
<1>2. NewRep = r
  BY DEF NewRep, NewFile
<1> HIDE DEF none
<1>3. f \in FileOf(Cell) /\ f.buf = none /\ f.disk = none
  BY <1>1 DEF FileOf
<1>4. h \in Handles
  BY DEF Handles
<1> HIDE DEF f, h
<1>5. r \in Rep /\ r.file = f
  BY <1>1, <1>3, <1>4 DEF Rep
<1> HIDE DEF r
<1>6. RepOK(r)
  BY <1>1, <1>3, <1>5, BufferSizeAssumption DEF RepOK
<1>7. Content(r) = none
  BY <1>1, <1>3, <1>5 DEF Content
<1> QED BY <1>2, <1>6, <1>7 DEF none

\* What is read of the contents stays within them.
LEMMA BytesLengthType ==
  ASSUME contents \in Seq(Cell), NEW p \in Nat, p <= Len(contents)
  PROVE  /\ BytesLength(p) \in Nat /\ p + BytesLength(p) <= Len(contents)
         /\ p + BytesLength(p) \in Nat
<1> DEFINE n == Len(contents)
           cell == contents[p + 1]
<1>1. n \in Nat /\ p <= n
  BY LenProperties
<1>2. BytesLength(p) = IF p < n /\ "u32" \in DOMAIN cell /\ p + 1 + cell.u32 <= n
                       THEN 1 + cell.u32 ELSE 0
  BY DEF BytesLength
<1>3. p < n /\ "u32" \in DOMAIN cell => cell.u32 \in Nat
  <2> SUFFICES ASSUME p < n, "u32" \in DOMAIN cell PROVE cell.u32 \in Nat
    OBVIOUS
  <2>1. cell \in Cell
    <3>1. p + 1 \in 1..n
      BY <1>1
    <3> QED BY <3>1, ElementOfSeq
  <2> HIDE DEF cell
  <2> QED BY <2>1 DEF Cell
<1> DEFINE there == p < n /\ "u32" \in DOMAIN cell
           u == cell.u32
<1>6. /\ BytesLength(p) = IF there /\ p + 1 + u <= n THEN 1 + u ELSE 0
      /\ there => u \in Nat
  BY <1>2, <1>3
<1> HIDE DEF n, cell, there, u
<1>4. BytesLength(p) \in Nat /\ p + BytesLength(p) <= n
  <2>1. CASE there /\ p + 1 + u <= n
    <3>1. u \in Nat /\ BytesLength(p) = 1 + u
      BY <1>6, <2>1
    <3> QED BY <1>1, <2>1, <3>1
  <2>2. CASE ~ (there /\ p + 1 + u <= n)
    <3>1. BytesLength(p) = 0
      BY <1>6, <2>2
    <3> QED BY <1>1, <3>1
  <2> QED BY <2>1, <2>2
<1>5. p + BytesLength(p) \in Nat
  BY <1>4
<1> QED BY <1>4, <1>5 DEF n

\* What Next of the block iterator moves to is inside the contents, in a state of the
\* invariant.
LEMMA NextOffsetType ==
  ASSUME TypeInv
  PROVE  /\ offset \in Nat /\ offset <= Len(contents) /\ Len(contents) \in Nat
         /\ NextOffset \in 0..Len(contents)
<1>1. Len(contents) \in Nat /\ contents \in Seq(Cell)
  BY LenProperties DEF TypeInv
<1>2. offset \in Nat /\ offset <= Len(contents)
  BY <1>1 DEF TypeInv
<1>3. ValueOffset \in Nat /\ ValueOffset <= Len(contents)
  BY <1>1, <1>2, BytesLengthType DEF ValueOffset
<1>4. /\ ValueOffset + BytesLength(ValueOffset) \in Nat
      /\ ValueOffset + BytesLength(ValueOffset) <= Len(contents)
  BY <1>1, <1>3, BytesLengthType
<1> QED BY <1>1, <1>2, <1>4 DEF NextOffset

\* Every step keeps the types: one case for each action.
LEMMA NextTyped == ASSUME TypeInv, [Next]_tableVars PROVE TypeInv'
<1>1. ASSUME NEW S \in MemTables, Put(S) PROVE TypeInv'
  <2>1. S \subseteq Entry /\ IsFiniteSet(S)
    BY MemTablesAssumption
  <2> QED BY <1>1, <2>1 DEF Put, TypeInv, getVars
<1>2. CASE Add
  <2> DEFINE e == FirstEntry(left)
             r == Added(rep, e)
  <2>1. left # {} /\ left \in SUBSET Entry /\ IsFiniteSet(left)
    BY <1>2, FS_Subset DEF Add, TypeInv
  <2>2. e \in left /\ e \in Entry
    BY <2>1, FirstAndLast
  <2> HIDE DEF e
  <2>3. RepOK(r)
    BY <2>2, AddedOK DEF TypeInv
  <2>4. rep' \in IF Len(r.data_block) >= BlockSize THEN FlushBlock(r) ELSE {r}
    BY <1>2 DEF Add, e
  <2> HIDE DEF r
  <2>5. RepOK(rep')
    BY <2>3, <2>4, FlushBlockOK
  <2>6. /\ left' \subseteq left /\ pc' = "put" /\ pc = "put"
        /\ UNCHANGED <<built, file_size, ok, getVars>>
    BY <1>2 DEF Add
  <2> QED BY <2>5, <2>6 DEF TypeInv, getVars
<1>3. CASE Finish
  <2>1. RepOK(rep') /\ file_size' \in Nat
    BY <1>3, FinishOK DEF TypeInv
  <2>2. pc' = "finished" /\ UNCHANGED <<built, left, ok, getVars>>
    BY <1>3 DEF Finish
  <2> QED BY <2>1, <2>2 DEF TypeInv, getVars
<1>4. CASE Close
  <2>1. RepOK(rep') /\ ok' \in BOOLEAN
    BY <1>4, CloseOK DEF TypeInv
  <2>2. pc' = "closed" /\ UNCHANGED <<built, left, file_size, getVars>>
    BY <1>4 DEF Close
  <2> QED BY <2>1, <2>2 DEF TypeInv, getVars
<1>5. ASSUME NEW k \in Key, Get(k) PROVE TypeInv'
  <2>1. contents' \in Seq(Cell) /\ offset' = 0
    <3>1. CASE DataSize # NULL /\ DataSize \in Len(Crc32)..Len(disk)
      <4> DEFINE d == DataSize
      <4>1. disk \in Seq(Cell) /\ Len(disk) \in Nat
        BY RepFields, LenProperties DEF TypeInv, disk
      <4>2. d \in Nat /\ d <= Len(disk) /\ 0 <= d /\ 0 + 1 = 1
        BY <3>1, <4>1, ConstantTypes
      <4>3. contents' = SubSeq(disk, 1, d) /\ offset' = 0
        BY <1>5, <3>1 DEF Get
      <4> HIDE DEF d
      <4> QED BY <4>1, <4>2, <4>3, CutLies
    <3>2. CASE ~ (DataSize # NULL /\ DataSize \in Len(Crc32)..Len(disk))
      <4>1. contents' = <<>> /\ offset' = 0
        BY <1>5, <3>2 DEF Get
      <4>2. <<>> \in Seq(Cell)
        OBVIOUS
      <4> QED BY <4>1, <4>2
    <3> QED BY <3>1, <3>2
  <2>2. 0 \in 0..Len(contents')
    BY <2>1, LenProperties
  <2>3. pc' \in {"seek", "done"} /\ key' = k /\ UNCHANGED putVars
    BY <1>5 DEF Get
  <2> QED BY <2>1, <2>2, <2>3 DEF TypeInv, putVars
<1>6. CASE Seeking
  <2>1. offset' \in 0..Len(contents)
    BY <1>6, NextOffsetType DEF Seeking, SeekNext, SeekWild, SeekEnds, TypeInv
  <2>2. pc = "seek" /\ pc' \in {"seek", "done"} /\ UNCHANGED <<putVars, key, contents>>
    BY <1>6 DEF Seeking, SeekNext, SeekWild, SeekEnds
  <2> QED BY <2>1, <2>2 DEF TypeInv, putVars
<1>7. CASE UNCHANGED tableVars
  BY <1>7 DEF TypeInv, tableVars, putVars, getVars
<1> QED BY <1>1, <1>2, <1>3, <1>4, <1>5, <1>6, <1>7 DEF Next, Putting

\* The types and the offsets hold of a builder that was just opened.
LEMMA InitTyped == Init => TypeInv /\ OffsetInv
<1> SUFFICES ASSUME Init PROVE TypeInv /\ OffsetInv
  OBVIOUS
<1>1. RepOK(rep) /\ Content(rep) = <<>> /\ rep.offset = 0
  BY NewRepOK DEF Init, NewRep
<1>2. contents = <<>> /\ Len(<<>>) = 0 /\ <<>> \in Seq(Cell) /\ 0 \in 0..0
  BY DEF Init
<1>3. IsFiniteSet({})
  BY FS_EmptySet
<1> QED BY <1>1, <1>2, <1>3 DEF Init, TypeInv, OffsetInv

\* WriteBlock moves the offset by what it appends, the crc32 included ...
LEMMA WroteOffset ==
  ASSUME NEW r, NEW w, RepOK(r), NEW block \in Seq(Cell), Wrote(r, block, w),
         r.intact => r.offset = Len(Content(r))
  PROVE  w.intact => w.offset = Len(Content(w))
<1> SUFFICES ASSUME w.intact PROVE w.offset = Len(Content(w))
  OBVIOUS
<1> DEFINE c == Content(r)
<1>1. /\ r.offset = Len(c) /\ Content(w) = (c \o block) \o Crc32
      /\ w.offset = r.offset + Len(block) + 1
  BY DEF Wrote
<1>2. c \in Seq(Cell)
  BY RepFields
<1> HIDE DEF c
<1>3. c \o block \in Seq(Cell) /\ Len(c \o block) = Len(c) + Len(block)
  BY <1>2, ConcatProperties
<1>4. Crc32 \in Seq(Cell) /\ Len(Crc32) = 1
  BY ConstantTypes
<1> DEFINE x == c \o block
<1>5. Len(x \o Crc32) = Len(x) + Len(Crc32)
  <2>1. x \in Seq(Cell)
    BY <1>3
  <2> DEFINE y == Crc32
  <2>2. y \in Seq(Cell)
    BY <1>4
  <2> HIDE DEF x, y
  <2>3. Len(x \o y) = Len(x) + Len(y)
    BY <2>1, <2>2, ConcatProperties
  <2> QED BY <2>3 DEF y
<1> QED BY <1>1, <1>3, <1>4, <1>5

\* ... and so does FlushBlock, which writes the data block if there is one.
LEMMA FlushBlockOffset ==
  ASSUME NEW r, RepOK(r), NEW w \in FlushBlock(r), r.intact => r.offset = Len(Content(r))
  PROVE  w.intact => w.offset = Len(Content(w))
<1>1. CASE ~ r.status \/ r.data_block = <<>>
  BY <1>1, FlushBlockOK
<1>2. CASE ~ (~ r.status \/ r.data_block = <<>>)
  <2>1. Wrote(r, r.data_block, w)
    BY <1>2, FlushBlockOK DEF Wrote
  <2>2. r.data_block \in Seq(Cell)
    BY DEF RepOK, Rep
  <2> QED BY <2>1, <2>2, WroteOffset
<1> QED BY <1>1, <1>2

\* Every step keeps the offset at the length of what was appended.
LEMMA NextOffsets == ASSUME TypeInv, OffsetInv, [Next]_tableVars PROVE OffsetInv'
<1>1. ASSUME NEW S \in MemTables, Put(S) PROVE OffsetInv'
  <2>1. rep' = rep /\ pc' \in {"put", "aborted"}
    BY <1>1 DEF Put
  <2> QED BY <2>1 DEF OffsetInv, Content
<1>2. CASE Add
  <2> DEFINE e == FirstEntry(left)
             r == Added(rep, e)
  <2>1. left # {} /\ left \in SUBSET Entry /\ IsFiniteSet(left)
    BY <1>2, FS_Subset DEF Add, TypeInv
  <2>2. e \in left /\ e \in Entry
    BY <2>1, FirstAndLast
  <2> HIDE DEF e
  <2>3. RepOK(r) /\ r.file = rep.file /\ r.offset = rep.offset /\ r.intact = rep.intact
    BY <2>2, AddedOK DEF TypeInv
  <2>4. rep' \in IF Len(r.data_block) >= BlockSize THEN FlushBlock(r) ELSE {r}
    BY <1>2 DEF Add, e
  <2> HIDE DEF r
  <2>5. r.intact => r.offset = Len(Content(r))
    BY <2>3 DEF OffsetInv, Content
  <2>6. PICK w : rep' = w /\ (w = r \/ w \in FlushBlock(r))
    BY <2>4
  <2>7. w.intact => w.offset = Len(Content(w))
    BY <2>3, <2>5, <2>6, FlushBlockOffset
  <2>8. pc' = "put"
    BY <1>2 DEF Add
  <2> QED BY <2>6, <2>7, <2>8 DEF OffsetInv, Content
<1>3. CASE Finish
  <2> DEFINE last == rep'
  <2>1. PICK data \in FlushBlock(rep), filter \in Rep, meta \in Rep, index \in Rep :
              /\ RepOK(data) /\ RepOK(filter) /\ RepOK(meta) /\ RepOK(index)
              /\ Wrote(data, data.filter_block, filter)
              /\ Wrote(filter, MetaIndex(data), meta)
              /\ Wrote(meta, IndexBlock(meta), index)
              /\ Wrote(index, Footer(data, filter, meta), last)
    BY <1>3, FinishOK DEF TypeInv
  <2>2. file_size' = last.offset /\ pc' = "finished"
    BY <1>3, FinishOK DEF Finish, TypeInv
  <2> HIDE DEF last
  <2>3. data.intact => data.offset = Len(Content(data))
    BY FlushBlockOffset DEF TypeInv, OffsetInv
  <2>4. /\ data.filter_block \in Seq(Cell) /\ MetaIndex(data) \in Seq(Cell)
        /\ IndexBlock(meta) \in Seq(Cell) /\ Footer(data, filter, meta) \in Seq(Cell)
    <3>1. data.filter_block \in Seq(Cell)
      BY <2>1 DEF RepOK, Rep
    <3>2. MetaIndex(data) \in Seq(Cell) /\ IndexBlock(meta) \in Seq(Cell)
      BY <2>1, MetaIndexType, IndexBlockType
    <3>3. Footer(data, filter, meta) \in Seq(Cell)
      BY <2>1, FooterType
    <3> QED BY <3>1, <3>2, <3>3
  <2>5. filter.intact => filter.offset = Len(Content(filter))
    BY <2>1, <2>3, <2>4, WroteOffset
  <2>6. meta.intact => meta.offset = Len(Content(meta))
    BY <2>1, <2>4, <2>5, WroteOffset
  <2>7. index.intact => index.offset = Len(Content(index))
    BY <2>1, <2>4, <2>6, WroteOffset
  <2>8. last.intact => last.offset = Len(Content(last))
    BY <2>1, <2>4, <2>7, WroteOffset
  <2> QED BY <2>2, <2>8 DEF OffsetInv, Content, last
<1>4. CASE Close
  <2>1. /\ rep.offset' = rep.offset /\ RepOK(rep')
        /\ rep.intact' => /\ rep.intact /\ ok'
                          /\ rep.file.disk' = Content(rep) /\ rep.file.buf' = <<>>
    BY <1>4, CloseOK DEF TypeInv
  <2>2. pc = "finished" /\ pc' = "closed" /\ file_size' = file_size
    BY <1>4 DEF Close
  <2> DEFINE w == rep'
  <2>3. ASSUME w.intact PROVE Content(w) = Content(rep) /\ Content(w) = w.file.disk
    <3> DEFINE c == Content(rep)
    <3>1. c \in Seq(Cell)
      BY RepFields DEF TypeInv
    <3> HIDE DEF c
    <3>2. c \o <<>> = c
      BY <3>1, ConcatEmptySeq
    <3>3. w.file.disk = c /\ w.file.buf = <<>>
      BY <2>1, <2>3 DEF c
    <3> HIDE DEF w
    <3> QED BY <3>2, <3>3 DEF Content, c
  <2> QED BY <2>1, <2>2, <2>3 DEF OffsetInv, Content
<1>5. ASSUME NEW k \in Key, Get(k) PROVE OffsetInv'
  <2>1. pc \in {"closed", "done"} /\ pc' \in {"seek", "done"} /\ UNCHANGED putVars
    BY <1>5 DEF Get
  <2> QED BY <2>1 DEF OffsetInv, putVars, Content
<1>6. CASE Seeking
  <2>1. pc = "seek" /\ pc' \in {"seek", "done"} /\ UNCHANGED putVars
    BY <1>6 DEF Seeking, SeekNext, SeekWild, SeekEnds
  <2> QED BY <2>1 DEF OffsetInv, putVars, Content
<1>7. CASE UNCHANGED tableVars
  BY <1>7 DEF OffsetInv, tableVars, putVars, getVars, Content
<1> QED BY <1>1, <1>2, <1>3, <1>4, <1>5, <1>6, <1>7 DEF Next, Putting

\* The builder, the file, the footer's and the block's readers keep their types, whatever
\* is in the file.
THEOREM TableTypes == Spec => []TypeOK
<1>1. TypeInv => TypeOK
  <2> SUFFICES ASSUME TypeInv PROVE TypeOK
    OBVIOUS
  <2>1. rep \in Rep /\ Len(rep.file.buf) <= BufferSize
    BY DEF TypeInv, RepOK
  <2>2. rep.file \in FileOf(Cell)
    BY <2>1 DEF Rep
  <2>3. rep.file.open \in BOOLEAN
    BY <2>2, FileFields
  <2> QED BY <2>1, <2>3 DEF TypeInv, TypeOK, Rep
<1>2. TypeInv /\ [Next]_tableVars => TypeInv'
  BY NextTyped
<1> QED BY <1>1, <1>2, InitTyped, PTL DEF Spec

\* The offset the builder keeps is the length of the file, for blocks, buffers and
\* memtables of any size, as long as no write has failed and every Append has fitted the
\* buffer; after Close it is the size FileMetaData is given.
THEOREM OffsetIsExact == Spec => []OffsetExact
<1>1. TypeInv /\ OffsetInv => OffsetExact
  BY RepFields DEF TypeInv, OffsetInv, OffsetExact, disk
<1>2. TypeInv /\ OffsetInv /\ [Next]_tableVars => (TypeInv /\ OffsetInv)'
  BY NextTyped, NextOffsets
<1> QED BY <1>1, <1>2, InitTyped, PTL DEF Spec

----------------------------------------------------------------------------------
(***************************************************************************)
(* A data block and the entries in it.                                     *)
(***************************************************************************)
End(place, e) == place[e] + Len(EncodedEntry(e))

\* e is the last entry of the block, or another one, the next in the order of the
\* memtable, lies behind it.
Follows(block, E, place, e) ==
  \/ /\ End(place, e) = Len(block)
     /\ \A f \in E \ {e} : Before(f, e)
  \/ \E f \in E \ {e} :
       /\ place[f] = End(place, e)
       /\ Before(e, f)
       /\ \A g \in E \ {e, f} : Before(g, e) \/ Before(f, g)

\* The entries lie in the block one behind the other, in the order of the memtable.
Placed(block, E, place) ==
  /\ \A e \in E : Lies(block, place[e], EncodedEntry(e)) /\ Follows(block, E, place, e)
  /\ E = {} => block = <<>>
  /\ E # {} => \E e \in E : place[e] = 0 /\ \A f \in E \ {e} : Before(e, f)

Laid(block, E) == \E place \in [E -> Nat] : Placed(block, E, place)

\* A block in which entries lie in order, and one more behind them.
LEMMA LaidMore ==
  ASSUME NEW block \in Seq(Cell), NEW E \in SUBSET Entry, NEW e \in Entry,
         \A f \in E : Before(f, e), Laid(block, E)
  PROVE  Laid(block \o EncodedEntry(e), E \union {e})
<1> DEFINE D == E \union {e}
           t == EncodedEntry(e)
           longer == block \o t
           n == Len(block)
<1>1. PICK place \in [E -> Nat] : Placed(block, E, place)
  BY DEF Laid
<1> DEFINE wider == [f \in D |-> IF f = e THEN n ELSE place[f]]
<1>2. e \notin E
  BY BeforeOrders
<1>3. t \in Seq(Cell) /\ n \in Nat /\ Len(t) \in Nat
  BY EncodedEntryType, LenProperties
<1>4. wider \in [D -> Nat] /\ wider[e] = n /\ \A f \in E : wider[f] = place[f]
  BY <1>2, <1>3
<1>5. \A f \in E : End(wider, f) = End(place, f)
  BY <1>4 DEF End
<1>6. longer \in Seq(Cell) /\ Len(longer) = n + Len(t)
  BY <1>3, ConcatProperties
<1>7. Lies(longer, n, t)
  BY <1>3, LiesBehind
<1>8. End(wider, e) = Len(longer)
  BY <1>4, <1>6 DEF End
<1> HIDE DEF wider, n
<1>9. ASSUME NEW f \in D
      PROVE  Lies(longer, wider[f], EncodedEntry(f)) /\ Follows(longer, D, wider, f)
  <2>1. CASE f = e
    BY <1>4, <1>7, <1>8, <2>1 DEF Follows
  <2>2. CASE f # e
    <3>1. f \in E /\ wider[f] = place[f] /\ place[f] \in Nat /\ EncodedEntry(f) \in Seq(Cell)
      BY <1>4, <2>2, EncodedEntryType
    <3>2. Lies(block, place[f], EncodedEntry(f)) /\ Follows(block, E, place, f)
      BY <1>1, <3>1 DEF Placed
    <3>3. Lies(longer, wider[f], EncodedEntry(f))
      BY <1>3, <3>1, <3>2, LiesStill
    <3> HIDE DEF longer
    <3>4. CASE End(place, f) = Len(block) /\ \A g \in E \ {f} : Before(g, f)
      <4>1. wider[e] = End(wider, f) /\ Before(f, e) /\ e \in D \ {f}
        BY <1>4, <1>5, <2>2, <3>1, <3>4 DEF n
      <4>2. \A g \in D \ {f, e} : Before(g, f)
        BY <3>4
      <4> QED BY <3>3, <4>1, <4>2 DEF Follows
    <3>5. CASE \E h \in E \ {f} : /\ place[h] = End(place, f)
                                  /\ Before(f, h)
                                  /\ \A g \in E \ {f, h} : Before(g, f) \/ Before(h, g)
      <4>1. PICK h \in E \ {f} : /\ place[h] = End(place, f)
                                 /\ Before(f, h)
                                 /\ \A g \in E \ {f, h} : Before(g, f) \/ Before(h, g)
        BY <3>5
      <4>2. h \in D \ {f} /\ wider[h] = End(wider, f) /\ Before(h, e)
        BY <1>4, <1>5, <3>1, <4>1
      <4>3. \A g \in D \ {f, h} : Before(g, f) \/ Before(h, g)
        BY <4>1, <4>2
      <4> QED BY <3>3, <4>1, <4>2, <4>3 DEF Follows
    <3> QED BY <3>2, <3>4, <3>5 DEF Follows
  <2> QED BY <2>1, <2>2
<1>10. \E f \in D : wider[f] = 0 /\ \A g \in D \ {f} : Before(f, g)
  <2>1. CASE E = {}
    <3>1. n = 0
      BY <1>1, <2>1 DEF Placed, n
    <3> QED BY <1>4, <2>1, <3>1
  <2>2. CASE E # {}
    <3>1. PICK f \in E : place[f] = 0 /\ \A g \in E \ {f} : Before(f, g)
      BY <1>1, <2>2 DEF Placed
    <3> QED BY <1>4, <3>1
  <2> QED BY <2>1, <2>2
<1>11. D # {}
  OBVIOUS
<1> HIDE DEF longer
<1>12. Placed(longer, D, wider)
  <2> HIDE DEF D
  <2> QED BY <1>9, <1>10, <1>11 DEF Placed
<1> QED BY <1>4, <1>12 DEF Laid, longer, t

\* A block with an entry is not empty.
LEMMA LaidLength ==
  ASSUME NEW block \in Seq(Cell), NEW E \in SUBSET Entry, Laid(block, E)
  PROVE  E # {} <=> block # <<>>
<1>1. PICK place \in [E -> Nat] : Placed(block, E, place)
  BY DEF Laid
<1>2. ASSUME NEW e \in E PROVE block # <<>>
  <2> DEFINE n == Len(EncodedEntry(e))
             p == place[e]
  <2>1. e.key[1] \in Nat /\ e.value \in Nat /\ n = e.key[1] + 1 + e.value + 1
    BY EncodedEntryType
  <2>2. p + n <= Len(block) /\ p \in Nat
    BY <1>1 DEF Placed, Lies
  <2> HIDE DEF n, p
  <2>3. Len(block) # 0
    BY <2>1, <2>2, LenProperties
  <2> QED BY <2>3
<1>3. E = {} => block = <<>>
  BY <1>1 DEF Placed
<1> QED BY <1>2, <1>3

\* A text of a key is a text of no other.
LEMMA KeyTextIs ==
  ASSUME NEW k \in Key, NEW l \in Key, KeyText(k) = KeyText(l)
  PROVE  k = l
<1>1. /\ k[1] \in Nat /\ k[2] \in Nat /\ l[1] \in Nat /\ l[2] \in Nat
      /\ Len(KeyText(k)) = k[1] /\ Len(KeyText(l)) = l[1]
  BY KeyTextType
<1>2. k[1] = l[1]
  BY <1>1
<1>3. CASE k[1] = 0
  BY <1>2, <1>3, ReadAssumption
<1>4. CASE k[1] # 0
  <2>1. 1 \in 1..k[1]
    BY <1>1, <1>4
  <2> DEFINE a == [of |-> "key", id |-> k[2], at |-> 1]
             b == [of |-> "key", id |-> l[2], at |-> 1]
  <2>2. KeyText(k)[1] = a /\ KeyText(l)[1] = b
    BY <1>2, <2>1 DEF KeyText, Text
  <2>3. a = b
    BY <2>2
  <2>4. a.id = k[2] /\ b.id = l[2]
    OBVIOUS
  <2>5. k[2] = l[2]
    BY <2>3, <2>4
  <2> QED BY <2>5, KeyAssumption
<1> QED BY <1>3, <1>4

\* A text with its length in front of it is read as that text.
LEMMA ReadsBytes ==
  ASSUME contents \in Seq(Cell), NEW p \in Nat, NEW t \in Seq(Cell),
         Lies(contents, p, EncodeBytes(t))
  PROVE  BytesLength(p) = Len(t) + 1 /\ BytesAt(p) = t
<1> DEFINE n == Len(t)
           s == EncodeBytes(t)
           cell == contents[p + 1]
           size == Len(contents)
<1>1. /\ s \in Seq(Cell) /\ Len(s) = n + 1 /\ s[1] = [u32 |-> n]
      /\ \A i \in 1..n : s[i + 1] = t[i]
      /\ n \in Nat /\ size \in Nat
  BY EncodedType, LenProperties
<1>2. p + Len(s) <= size /\ \A i \in 1..Len(s) : contents[p + i] = s[i]
  BY DEF Lies
<1> HIDE DEF s
<1>3. p + n + 1 <= size /\ 1 \in 1..(n + 1)
  BY <1>1, <1>2
<1>4. cell = [u32 |-> n]
  BY <1>1, <1>2, <1>3
<1>5. BytesLength(p) = IF p < size /\ "u32" \in DOMAIN cell /\ p + 1 + cell.u32 <= size
                       THEN 1 + cell.u32 ELSE 0
  BY DEF BytesLength
<1> HIDE DEF cell, n, size
<1>6. "u32" \in DOMAIN cell /\ cell.u32 = n
  BY <1>4
<1>7. BytesLength(p) = n + 1
  <2>1. p < size /\ p + 1 + n <= size /\ 1 + n = n + 1
    BY <1>1, <1>3
  <2> QED BY <1>5, <1>6, <2>1
<1>8. Lies(contents, p + 1, t)
  <2>1. ASSUME NEW i \in 1..n PROVE contents[(p + 1) + i] = t[i]
    <3> DEFINE j == i + 1
    <3>1. j \in 1..Len(s) /\ (p + 1) + i = p + j
      BY <1>1
    <3>2. s[j] = t[i]
      BY <1>1
    <3> HIDE DEF j
    <3> QED BY <1>2, <3>1, <3>2
  <2>2. (p + 1) + n <= size
    BY <1>1, <1>3
  <2> QED BY <2>1, <2>2 DEF Lies, n, size
<1>9. SubSeq(contents, (p + 1) + 1, (p + 1) + Len(t)) = t
  BY <1>8, LiesCut
<1>10. (p + 1) + 1 = p + 2 /\ (p + 1) + n = p + (n + 1)
  BY <1>1
<1> QED BY <1>7, <1>9, <1>10 DEF BytesAt, n

\* The iterator at an entry: what it takes for the key and the value, and where the next
\* entry begins.
LEMMA ReadsEntry ==
  ASSUME contents \in Seq(Cell), offset \in Nat, NEW e \in Entry,
         Lies(contents, offset, EncodedEntry(e))
  PROVE  /\ BytesLength(offset) # 0 /\ BytesAt(offset) = KeyText(e.key)
         /\ NextOffset = offset + Len(EncodedEntry(e)) /\ NextOffset # offset
         /\ BytesAt(ValueOffset) = ValueText(e.value)
         /\ offset + Len(EncodedEntry(e)) \in Nat
         /\ Len(EncodedEntry(e)) \in Nat /\ Len(EncodedEntry(e)) > 1
         /\ offset + Len(EncodedEntry(e)) <= Len(contents)
<1> DEFINE a == EncodeBytes(KeyText(e.key))
           b == EncodeBytes(ValueText(e.value))
           t == EncodedEntry(e)
           k == e.key[1]
           v == e.value
<1>1. /\ t \in Seq(Cell) /\ Len(t) = k + 1 + v + 1 /\ k \in Nat /\ v \in Nat
      /\ e.key \in Key
      /\ a \in Seq(Cell) /\ Len(a) = k + 1 /\ b \in Seq(Cell) /\ Len(b) = v + 1
      /\ KeyText(e.key) \in Seq(Cell) /\ ValueText(e.value) \in Seq(Cell)
  BY EncodedEntryType
<1>2. Len(KeyText(e.key)) = k /\ Len(ValueText(e.value)) = v
  BY <1>1, KeyTextType, ValueTextType
<1>3. t = a \o b
  BY DEF EncodedEntry
<1> HIDE DEF a, b, t, k, v
<1>4. Lies(t, 0, a) /\ Lies(t, k + 1, b)
  <2>1. Lies(a \o b, Len(a), b)
    BY <1>1, LiesBehind
  <2>2. Lies(a, 0, a)
    BY <1>1, LenProperties DEF Lies
  <2>3. Lies(a \o b, 0, a)
    BY <1>1, <2>2, LiesStill
  <2> QED BY <1>1, <1>3, <2>1, <2>3
<1>5. Lies(contents, offset, t)
  BY DEF t
<1>6. Lies(contents, offset + 0, a) /\ Lies(contents, offset + (k + 1), b)
  <2>1. 0 \in Nat /\ k + 1 \in Nat
    BY <1>1
  <2> QED BY <1>1, <1>4, <1>5, <2>1, LiesPart
<1>7. offset + 0 = offset /\ offset + (k + 1) \in Nat
  BY <1>1
<1>8. BytesLength(offset) = k + 1 /\ BytesAt(offset) = KeyText(e.key)
  BY <1>1, <1>2, <1>6, <1>7, ReadsBytes DEF a
<1>9. ValueOffset = offset + (k + 1)
  BY <1>8 DEF ValueOffset
<1>10. BytesLength(ValueOffset) = v + 1 /\ BytesAt(ValueOffset) = ValueText(e.value)
  BY <1>1, <1>2, <1>6, <1>7, <1>9, ReadsBytes DEF b
<1>11. BytesLength(offset) # 0 /\ BytesLength(ValueOffset) # 0
  BY <1>1, <1>8, <1>10
<1>12. NextOffset = ValueOffset + BytesLength(ValueOffset)
  BY <1>11 DEF NextOffset
<1>13. /\ NextOffset = offset + Len(t) /\ NextOffset # offset /\ offset + Len(t) \in Nat
       /\ Len(t) \in Nat /\ Len(t) > 1
  BY <1>1, <1>9, <1>10, <1>12
<1>14. offset + Len(t) <= Len(contents)
  BY <1>5 DEF Lies
<1> QED BY <1>8, <1>10, <1>11, <1>13, <1>14 DEF t

----------------------------------------------------------------------------------
(***************************************************************************)
(* What the builder has written, as long as no write has failed and every  *)
(* Append has fitted.                                                      *)
(***************************************************************************)
\* c begins with the data block of the entries E, the first of those written; it holds
\* no more than that block and its checksum if these are all.
Headed(c, E, written) ==
  /\ E # {} /\ E \subseteq written
  /\ \A e \in E, f \in written \ E : Before(e, f)
  /\ \E first \in Seq(Cell) :
       /\ Laid(first, E)
       /\ Lies(c, 0, first)
       /\ Lies(c, Len(first), Crc32)
       /\ \/ E = written /\ Len(c) = Len(first) + 1
          \/ E # written /\ Len(c) >= Len(first) + 3

\* The entry of the index for a data block.
Named(block) == KeyText(LastEntry(block.entries).key) \o Handle(block.handle)

Indexed(index, block) ==
  Named(block) \in Seq(Cell) /\ \E n \in Nat : Lies(index, n, Named(block))

LastBlock(r) == r.blocks[Len(r.blocks)]

\* The builder after these entries have been added to it.
Built(r, added) ==
  /\ r.status
  /\ r.entries \subseteq added
  /\ \A e \in added \ r.entries, f \in r.entries : Before(e, f)
  /\ Laid(r.data_block, r.entries)
  /\ r.entries # {} => r.last_key = KeyText(LastEntry(r.entries).key)
  /\ r.blocks = <<>> => Content(r) = <<>> /\ r.entries = added
  /\ r.blocks # <<>> =>
       /\ Headed(Content(r), r.blocks[1].entries, added \ r.entries)
       /\ r.pending_index_entry
       /\ r.pending_handle = LastBlock(r).handle
       /\ r.entries = {} => r.last_key = KeyText(LastEntry(LastBlock(r).entries).key)
       /\ \A i \in 1..Len(r.blocks) :
            i < Len(r.blocks) \/ r.entries # {} => Indexed(r.index_block, r.blocks[i])

\* What indexes a block still does when more has been appended to the file.
LEMMA IndexedStill ==
  ASSUME NEW s \in Seq(Cell), NEW t \in Seq(Cell), NEW block, Indexed(s, block)
  PROVE  Indexed(s \o t, block)
<1>1. PICK n \in Nat : Lies(s, n, Named(block))
  BY DEF Indexed
<1>2. Lies(s \o t, n, Named(block))
  BY <1>1, LiesStill DEF Indexed
<1> QED BY <1>2 DEF Indexed

\* The index block has, with the pending entry, an entry for every data block but the one
\* that is being built.
LEMMA IndexBlockNames ==
  ASSUME NEW r, RepOK(r), NEW added, Built(r, added)
  PROVE  \A i \in 1..Len(r.blocks) : Indexed(IndexBlock(r), r.blocks[i])
<1> SUFFICES ASSUME NEW i \in 1..Len(r.blocks) PROVE Indexed(IndexBlock(r), r.blocks[i])
  OBVIOUS
<1> DEFINE n == Len(r.blocks)
           b == r.blocks[i]
           t == r.last_key \o Handle(r.pending_handle)
<1>1. n \in Nat /\ r.blocks # <<>> /\ i \in Nat /\ i <= n
  BY LenProperties DEF RepOK, Rep
<1>2. r.pending_index_entry /\ r.pending_handle = LastBlock(r).handle
  BY <1>1 DEF Built
<1>3. /\ r.index_block \in Seq(Cell) /\ t \in Seq(Cell)
      /\ IndexBlock(r) = r.index_block \o t
  BY <1>2, IndexBlockType DEF RepOK, Rep
<1>4. CASE i < n \/ r.entries # {}
  <2>1. Indexed(r.index_block, b)
    BY <1>1, <1>4 DEF Built
  <2> HIDE DEF t, b
  <2> QED BY <1>3, <2>1, IndexedStill DEF b
<1>5. CASE ~ (i < n \/ r.entries # {})
  <2>1. i = n /\ r.entries = {}
    BY <1>1, <1>5
  <2>2. b = LastBlock(r)
    BY <2>1 DEF LastBlock
  <2>3. r.last_key = KeyText(LastEntry(b.entries).key) /\ r.pending_handle = b.handle
    BY <1>1, <1>2, <2>1, <2>2 DEF Built
  <2>4. Named(b) = t
    BY <2>3 DEF Named
  <2> HIDE DEF t, b
  <2>5. Lies(r.index_block \o t, Len(r.index_block), t)
    BY <1>3, LiesBehind
  <2>6. Len(r.index_block) \in Nat
    BY <1>3, LenProperties
  <2> QED BY <1>3, <2>4, <2>5, <2>6 DEF Indexed, b
<1> QED BY <1>4, <1>5

\* Add, without the end of the block.
LEMMA AddedBuilt ==
  ASSUME NEW r, RepOK(r), NEW added \in SUBSET Entry, Built(r, added),
         NEW e \in Entry, e \notin added, \A f \in added : Before(f, e)
  PROVE  Built(Added(r, e), added \union {e})
<1> DEFINE w == Added(r, e)
           more == added \union {e}
<1>1. /\ w.file = r.file /\ w.status = r.status
      /\ w.pending_handle = r.pending_handle
      /\ w.pending_index_entry = r.pending_index_entry
      /\ w.blocks = r.blocks
      /\ w.last_key = KeyText(e.key)
      /\ w.data_block = r.data_block \o EncodedEntry(e)
      /\ w.entries = r.entries \union {e}
      /\ w.index_block = IndexBlock(r)
  BY AddedOK
<1> HIDE DEF w
<1>2. /\ r.entries \in SUBSET Entry /\ r.data_block \in Seq(Cell)
      /\ r.entries \subseteq added
  BY DEF RepOK, Rep, Built
<1>3. Laid(w.data_block, w.entries)
  <2>1. \A f \in r.entries : Before(f, e)
    BY <1>2
  <2>2. Laid(r.data_block, r.entries)
    BY DEF Built
  <2> QED BY <1>1, <1>2, <2>1, <2>2, LaidMore
<1>4. w.last_key = KeyText(LastEntry(w.entries).key)
  <2>1. w.entries \in SUBSET Entry /\ e \in w.entries /\ \A f \in w.entries \ {e} : Before(f, e)
    BY <1>1, <1>2
  <2>2. LastEntry(w.entries) = e
    BY <2>1, LastEntryIs
  <2> QED BY <1>1, <2>2
<1>5. more \ w.entries = added \ r.entries
  BY <1>1
<1>6. \A f \in more \ w.entries, g \in w.entries : Before(f, g)
  BY <1>1, <1>5 DEF Built
<1>7. w.entries # {} /\ w.entries \subseteq more
  BY <1>1, <1>2
<1>8. Content(w) = Content(r)
  BY <1>1 DEF Content
<1>9. w.blocks = <<>> => Content(w) = <<>> /\ w.entries = more
  BY <1>1, <1>8 DEF Built
<1>10. ASSUME w.blocks # <<>>
       PROVE  /\ Headed(Content(w), w.blocks[1].entries, more \ w.entries)
              /\ w.pending_index_entry
              /\ w.pending_handle = LastBlock(w).handle
  BY <1>1, <1>5, <1>8, <1>10 DEF Built, LastBlock
<1>11. \A i \in 1..Len(w.blocks) : Indexed(w.index_block, w.blocks[i])
  BY <1>1, IndexBlockNames
<1>12. w.status
  BY <1>1 DEF Built
<1> HIDE DEF more
<1> QED BY <1>3, <1>4, <1>6, <1>7, <1>9, <1>10, <1>11, <1>12 DEF Built, w, more

\* A text lies at the start of itself.
LEMMA LiesFirst ==
  ASSUME NEW s \in Seq(Cell)
  PROVE  Lies(s, 0, s)
BY LenProperties DEF Lies

\* The first data block, and what is in front of the others.
LEMMA HeadGrows ==
  ASSUME NEW c \in Seq(Cell), NEW block \in Seq(Cell), block # <<>>,
         NEW E, NEW written, NEW more,
         more # {}, \A e \in written, f \in more : Before(e, f),
         written \intersect more = {}, Headed(c, E, written)
  PROVE  Headed((c \o block) \o Crc32, E, written \union more)
<1> DEFINE d == c \o block
           whole == d \o Crc32
           n == Len(c)
           m == Len(block)
<1>1. PICK first \in Seq(Cell) :
        /\ Laid(first, E)
        /\ Lies(c, 0, first)
        /\ Lies(c, Len(first), Crc32)
        /\ \/ E = written /\ n = Len(first) + 1
           \/ E # written /\ n >= Len(first) + 3
  BY DEF Headed
<1>2. n \in Nat /\ m \in Nat /\ m # 0 /\ Len(first) \in Nat
  BY LenProperties
<1>3. d \in Seq(Cell) /\ Len(d) = n + m /\ Crc32 \in Seq(Cell) /\ Len(Crc32) = 1
  BY ConcatProperties, ConstantTypes
<1>4. Lies(d, 0, first) /\ Lies(d, Len(first), Crc32)
  BY <1>1, <1>2, <1>3, LiesStill
<1> HIDE DEF d
<1>5. Lies(whole, 0, first) /\ Lies(whole, Len(first), Crc32)
  BY <1>2, <1>3, <1>4, LiesStill
<1>6. Len(whole) = Len(d) + Len(Crc32)
  BY <1>3, ConcatProperties
<1>7. Len(whole) >= Len(first) + 3
  BY <1>1, <1>2, <1>3, <1>6
<1>8. E # {} /\ E \subseteq written /\ E # written \union more
  BY DEF Headed
<1>9. \A e \in E, f \in (written \union more) \ E : Before(e, f)
  BY <1>8 DEF Headed
<1> HIDE DEF whole
<1>10. Headed(whole, E, written \union more)
  BY <1>1, <1>5, <1>7, <1>8, <1>9 DEF Headed
<1> QED BY <1>10 DEF whole, d

\* The first data block of a file is its head.
LEMMA HeadBegins ==
  ASSUME NEW block \in Seq(Cell), NEW E, E # {}, Laid(block, E)
  PROVE  Headed((<<>> \o block) \o Crc32, E, E)
<1> DEFINE whole == block \o Crc32
           n == Len(block)
<1>1. n \in Nat /\ Crc32 \in Seq(Cell) /\ Len(Crc32) = 1
  BY LenProperties, ConstantTypes
<1>2. <<>> \o block = block
  BY ConcatEmptySeq
<1>3. Len(whole) = n + 1
  BY <1>1, ConcatProperties
<1>4. Lies(block, 0, block)
  BY LiesFirst
<1>5. Lies(whole, 0, block) /\ Lies(whole, n, Crc32)
  BY <1>1, <1>4, LiesStill, LiesBehind
<1> HIDE DEF whole
<1>6. Headed(whole, E, E)
  BY <1>3, <1>5 DEF Headed
<1> QED BY <1>2, <1>6 DEF whole

\* The end of a data block.
LEMMA FlushedBuilt ==
  ASSUME NEW r, RepOK(r), NEW added \in SUBSET Entry, Built(r, added),
         NEW w \in FlushBlock(r), w.intact
  PROVE  Built(w, added) /\ w.entries = {} /\ (added # {} => w.blocks # <<>>)
           /\ r.intact
<1> DEFINE block == r.data_block
           E == r.entries
           n == Len(r.blocks)
<1>1. /\ r.status /\ block \in Seq(Cell) /\ E \in SUBSET Entry /\ Laid(block, E)
      /\ r.blocks \in Seq([handle : Handles, entries : SUBSET Entry])
  BY DEF RepOK, Rep, Built
<1>2. E # {} <=> block # <<>>
  BY <1>1, LaidLength
<1>3. CASE block = <<>>
  <2>1. w = r
    BY <1>3, FlushBlockOK
  <2> QED BY <1>2, <1>3, <2>1 DEF Built
<1>4. CASE block # <<>>
  <2>1. /\ RepOK(w) /\ w.last_key = r.last_key /\ w.index_block = r.index_block
        /\ w.data_block = <<>> /\ w.entries = {}
        /\ w.pending_handle = HandleOf(r, r.data_block)
        /\ w.blocks = Append(r.blocks, Written(r))
        /\ r.intact /\ w.status /\ w.pending_index_entry
        /\ Content(w) = (Content(r) \o r.data_block) \o Crc32
    BY <1>1, <1>4, FlushBlockOK
  <2>2. n \in Nat /\ Content(r) \in Seq(Cell)
    BY <1>1, LenProperties, RepFields
  <2>3. Written(r) \in [handle : Handles, entries : SUBSET Entry]
    BY <1>1, HandleOfType DEF Written
  <2>4. /\ Len(w.blocks) = n + 1 /\ w.blocks # <<>>
        /\ w.blocks[n + 1] = Written(r)
        /\ \A i \in 1..n : w.blocks[i] = r.blocks[i]
    BY <1>1, <2>1, <2>3, AppendProperties
  <2>5. LastBlock(w) = Written(r)
    BY <2>4 DEF LastBlock
  <2>6. /\ w.pending_handle = LastBlock(w).handle
        /\ w.last_key = KeyText(LastEntry(LastBlock(w).entries).key)
    BY <1>2, <1>4, <2>1, <2>5 DEF Written, Built
  <2>7. \A i \in 1..n : Indexed(w.index_block, w.blocks[i])
    BY <1>2, <1>4, <2>1, <2>2, <2>4 DEF Built
  <2>8. Headed(Content(w), w.blocks[1].entries, added)
    <3>1. CASE r.blocks = <<>>
      <4>1. n = 0 /\ E = added /\ Content(r) = <<>>
        BY <3>1 DEF Built
      <4>2. w.blocks[1].entries = E
        BY <2>4, <4>1 DEF Written
      <4> HIDE DEF block, E
      <4>3. Headed((<<>> \o block) \o Crc32, E, E)
        BY <1>1, <1>2, <1>4, HeadBegins
      <4> QED BY <2>1, <4>1, <4>2, <4>3 DEF block
    <3>2. CASE r.blocks # <<>>
      <4> DEFINE F == r.blocks[1].entries
                 before == added \ E
                 c == Content(r)
      <4>1. Headed(c, F, before) /\ \A e \in before, f \in E : Before(e, f)
        BY <3>2 DEF Built
      <4>2. before \union E = added /\ before \intersect E = {}
        BY DEF Built
      <4>3. n # 0
        BY <1>1, <3>2, EmptySeq
      <4>4. w.blocks[1].entries = F
        BY <2>2, <2>4, <4>3
      <4>5. c \in Seq(Cell)
        BY <2>2
      <4> HIDE DEF block, E, F, before, c
      <4>6. Headed((c \o block) \o Crc32, F, before \union E)
        BY <1>1, <1>2, <1>4, <4>1, <4>2, <4>5, HeadGrows
      <4> QED BY <2>1, <4>2, <4>4, <4>6 DEF block, c
    <3> QED BY <3>1, <3>2
  <2>9. Laid(w.data_block, w.entries)
    <3>1. [e \in {} |-> 0] \in [{} -> Nat]
      OBVIOUS
    <3>2. Placed(<<>>, {}, [e \in {} |-> 0])
      BY DEF Placed
    <3> QED BY <2>1, <3>1, <3>2 DEF Laid
  <2>10. \A i \in 1..Len(w.blocks) :
           i < Len(w.blocks) \/ w.entries # {} => Indexed(w.index_block, w.blocks[i])
    <3> SUFFICES ASSUME NEW i \in 1..(n + 1), i < n + 1
                 PROVE  Indexed(w.index_block, w.blocks[i])
      BY <2>1, <2>4
    <3>1. i \in 1..n
      BY <2>2
    <3> QED BY <2>7, <3>1
  <2>11. added \ w.entries = added
    BY <2>1
  <2> HIDE DEF block, E, n
  <2>12. Built(w, added)
    BY <2>1, <2>4, <2>6, <2>8, <2>9, <2>10, <2>11 DEF Built
  <2> QED BY <2>1, <2>4, <2>12
<1> QED BY <1>3, <1>4

----------------------------------------------------------------------------------
(***************************************************************************)
(* The finished file.                                                      *)
(***************************************************************************)
\* c holds these data blocks, of a table with the entries S; the footer leads to the meta
\* index block, which has the place of the filter block, where the data ends, and to the
\* index block, which has an entry for every data block.
Complete(c, blocks, S) ==
  /\ blocks # <<>>
  /\ \E data \in Seq(Cell), index \in Seq(Cell), m \in Nat, x \in Nat :
       /\ Headed(data, blocks[1].entries, S)
       /\ Lies(c, 0, data)
       /\ m + 3 <= Len(c) /\ c[m + 3] = [u64 |-> Len(data)]
       /\ Lies(c, x, index)
       /\ \A i \in 1..Len(blocks) : Indexed(index, blocks[i])
       /\ Len(c) >= 5
       /\ c[Len(c) - 4] = [u64 |-> m]
       /\ c[Len(c) - 2] = [u64 |-> x]
       /\ c[Len(c) - 1] = [u64 |-> Len(index)]

\* The table as far as it is built.
LayoutInv ==
  /\ \A e \in built \ left, f \in left : Before(e, f)
  /\ rep.intact =>
       /\ pc = "put" => Built(rep, built \ left)
       /\ pc \in {"finished", "closed", "seek", "done"} =>
            Complete(Content(rep), rep.blocks, built)

\* A block that WriteBlock wrote lies in the file behind what was there, and all that
\* was there still does.
LEMMA WroteLies ==
  ASSUME NEW r, NEW w, RepOK(r), NEW block \in Seq(Cell), Wrote(r, block, w), w.intact
  PROVE  /\ r.intact
         /\ Lies(Content(w), Len(Content(r)), block)
         /\ Len(Content(w)) = Len(Content(r)) + Len(block) + 1
         /\ \A p \in Nat, u \in Seq(Cell) : Lies(Content(r), p, u) => Lies(Content(w), p, u)
<1> DEFINE c == Content(r)
           y == Crc32
           d == c \o block
           n == Len(c)
           m == Len(block)
<1>1. Content(w) = d \o y /\ r.intact
  BY DEF Wrote
<1>2. c \in Seq(Cell) /\ y \in Seq(Cell) /\ Len(y) = 1
  BY RepFields, ConstantTypes
<1> HIDE DEF c, y
<1>3. d \in Seq(Cell) /\ Len(d) = n + m /\ n \in Nat /\ m \in Nat
  BY <1>2, ConcatProperties, LenProperties
<1>4. Lies(d, n, block)
  BY <1>2, LiesBehind
<1>5. \A p \in Nat, u \in Seq(Cell) : Lies(c, p, u) => Lies(d, p, u)
  BY <1>2, LiesStill
<1> HIDE DEF d, n, m
<1>6. Len(d \o y) = Len(d) + Len(y)
  <2>1. d \in Seq(Cell) /\ y \in Seq(Cell)
    BY <1>2, <1>3
  <2> QED BY <2>1, ConcatProperties
<1>7. \A p \in Nat, u \in Seq(Cell) : Lies(d, p, u) => Lies(d \o y, p, u)
  BY <1>2, <1>3, LiesStill
<1>8. Len(d \o y) = n + m + 1
  BY <1>2, <1>3, <1>6
<1> QED BY <1>1, <1>3, <1>4, <1>5, <1>7, <1>8 DEF c, n, m

\* A file that ends with a footer and its checksum.
LEMMA FooterCells ==
  ASSUME NEW c, NEW p \in Nat, NEW t \in Seq(Cell), Len(t) = 4, Lies(c, p, t), Len(c) = p + 5
  PROVE  /\ Len(c) >= 5 /\ c[Len(c) - 4] = t[1] /\ c[Len(c) - 2] = t[3]
         /\ c[Len(c) - 1] = t[4]
<1>1. \A i \in 1..4 : c[p + i] = t[i]
  BY DEF Lies
<1>2. c[p + 1] = t[1] /\ c[p + 3] = t[3] /\ c[p + 4] = t[4]
  BY <1>1
<1>3. Len(c) >= 5 /\ Len(c) - 4 = p + 1 /\ Len(c) - 2 = p + 3 /\ Len(c) - 1 = p + 4
  OBVIOUS
<1> QED BY <1>2, <1>3

\* After Finish the file is complete: the data blocks, the meta index, the index and the
\* footer are where the handles say.
LEMMA FinishLays ==
  ASSUME TypeInv, OffsetInv, LayoutInv, Finish, rep.intact'
  PROVE  Complete(Content(rep)', rep.blocks', built)
<1> DEFINE last == rep'
<1>1. PICK data \in FlushBlock(rep), filter \in Rep, meta \in Rep, index \in Rep :
        /\ RepOK(data) /\ RepOK(filter) /\ RepOK(meta) /\ RepOK(index)
        /\ Wrote(data, data.filter_block, filter)
        /\ Wrote(filter, MetaIndex(data), meta)
        /\ Wrote(meta, IndexBlock(meta), index)
        /\ Wrote(index, Footer(data, filter, meta), last)
        /\ SameBlocks(data, meta)
        /\ last.blocks = data.blocks
  BY FinishOK DEF TypeInv
<1>2. last.intact /\ Content(rep)' = Content(last)
  BY DEF Content
<1>3. RepOK(rep) /\ built \in SUBSET Entry /\ built # {}
        /\ (rep.intact => rep.offset = Len(Content(rep)) /\ Built(rep, built))
  BY DEF Finish, TypeInv, OffsetInv, LayoutInv
<1> HIDE DEF last
<1> DEFINE filter_block == data.filter_block
           meta_index == MetaIndex(data)
           index_block == IndexBlock(meta)
           footer == Footer(data, filter, meta)
           start == Content(data)
           c == Content(last)
<1>4. /\ filter_block \in Seq(Cell) /\ start \in Seq(Cell)
      /\ meta_index \in Seq(Cell) /\ Len(meta_index) = 4
      /\ meta_index[3] = [u64 |-> data.offset]
      /\ index_block \in Seq(Cell)
      /\ footer \in Seq(Cell) /\ Len(footer) = 4
      /\ footer[1] = [u64 |-> filter.offset]
      /\ footer[3] = [u64 |-> meta.offset]
      /\ footer[4] = [u64 |-> Len(index_block)]
  <2>1. filter_block \in Seq(Cell) /\ start \in Seq(Cell)
    BY <1>1, RepFields DEF RepOK, Rep
  <2>2. /\ meta_index \in Seq(Cell) /\ Len(meta_index) = 4
        /\ meta_index[3] = [u64 |-> data.offset]
    BY <1>1, MetaIndexType
  <2>3. index_block \in Seq(Cell)
    BY <1>1, IndexBlockType
  <2>4. /\ footer \in Seq(Cell) /\ Len(footer) = 4
        /\ footer[1] = [u64 |-> filter.offset]
        /\ footer[3] = [u64 |-> meta.offset]
        /\ footer[4] = [u64 |-> Len(index_block)]
    BY <1>1, FooterType
  <2> QED BY <2>1, <2>2, <2>3, <2>4
<1> DEFINE fc == Content(filter)
           mc == Content(meta)
           ic == Content(index)
<1>5. /\ index.intact
      /\ Lies(c, Len(ic), footer) /\ Len(c) = Len(ic) + Len(footer) + 1
      /\ \A p \in Nat, u \in Seq(Cell) : Lies(ic, p, u) => Lies(c, p, u)
  BY <1>1, <1>2, <1>4, WroteLies
<1>6. /\ meta.intact /\ Lies(ic, Len(mc), index_block)
      /\ \A p \in Nat, u \in Seq(Cell) : Lies(mc, p, u) => Lies(ic, p, u)
  BY <1>1, <1>4, <1>5, WroteLies
<1>7. /\ filter.intact /\ Lies(mc, Len(fc), meta_index)
      /\ \A p \in Nat, u \in Seq(Cell) : Lies(fc, p, u) => Lies(mc, p, u)
  BY <1>1, <1>4, <1>6, WroteLies
<1>8. /\ data.intact
      /\ \A p \in Nat, u \in Seq(Cell) : Lies(start, p, u) => Lies(fc, p, u)
  BY <1>1, <1>4, <1>7, WroteLies
<1>9. /\ rep.intact /\ Built(data, built) /\ data.entries = {} /\ data.blocks # <<>>
  <2>1. rep.intact
    BY <1>1, <1>3, <1>8, FlushBlockOK
  <2> QED BY <1>1, <1>3, <1>8, <2>1, FlushedBuilt
<1>10. /\ data.offset = Len(start)
       /\ filter.offset = Len(fc)
       /\ meta.offset = Len(mc)
  <2>1. data.offset = Len(start)
    BY <1>3, <1>8, <1>9, FlushBlockOffset
  <2>2. filter.offset = Len(fc)
    BY <1>1, <1>4, <1>7, <2>1, WroteOffset
  <2>3. meta.offset = Len(mc)
    BY <1>1, <1>4, <1>6, <2>2, WroteOffset
  <2> QED BY <2>1, <2>2, <2>3
<1>11. Len(fc) \in Nat /\ Len(mc) \in Nat /\ Len(ic) \in Nat /\ 0 \in Nat
  BY <1>1, RepFields, LenProperties
<1> HIDE DEF filter_block, meta_index, index_block, footer, start, c, fc, mc, ic
<1>12. Lies(c, 0, start)
  <2>1. Lies(start, 0, start)
    BY <1>4, LiesFirst
  <2> QED BY <1>4, <1>5, <1>6, <1>7, <1>8, <1>11, <2>1
<1>13. Lies(c, Len(fc), meta_index) /\ Lies(c, Len(mc), index_block)
  BY <1>4, <1>5, <1>6, <1>7, <1>11
<1>14. Len(fc) + 3 <= Len(c) /\ c[Len(fc) + 3] = [u64 |-> Len(start)]
  <2> DEFINE n == Len(fc)
             size == Len(c)
  <2>1. n + Len(meta_index) <= size /\ \A i \in 1..Len(meta_index) : c[n + i] = meta_index[i]
    BY <1>13 DEF Lies
  <2>2. n \in Nat /\ size \in Nat
    BY <1>4, <1>5, <1>11
  <2> HIDE DEF n, size
  <2>3. n + 3 <= size /\ c[n + 3] = meta_index[3]
    BY <1>4, <2>1, <2>2
  <2> QED BY <1>4, <1>10, <2>3 DEF n, size
<1>15. /\ Len(c) >= 5 /\ c[Len(c) - 4] = [u64 |-> Len(fc)]
       /\ c[Len(c) - 2] = [u64 |-> Len(mc)] /\ c[Len(c) - 1] = [u64 |-> Len(index_block)]
  <2> DEFINE p == Len(ic)
  <2>1. p \in Nat /\ Len(c) = p + 5 /\ Lies(c, p, footer)
    BY <1>4, <1>5, <1>11
  <2> HIDE DEF p
  <2>2. /\ Len(c) >= 5 /\ c[Len(c) - 4] = footer[1] /\ c[Len(c) - 2] = footer[3]
        /\ c[Len(c) - 1] = footer[4]
    BY <1>4, <2>1, FooterCells
  <2> QED BY <1>4, <1>10, <2>2
<1>16. \A i \in 1..Len(data.blocks) : Indexed(index_block, data.blocks[i])
  <2>1. IndexBlock(data) = IndexBlock(meta)
    BY <1>1 DEF SameBlocks, IndexBlock
  <2> QED BY <1>1, <1>9, <2>1, IndexBlockNames DEF index_block
<1>17. Headed(start, data.blocks[1].entries, built)
  <2>1. built \ data.entries = built
    BY <1>9
  <2> QED BY <1>9, <2>1 DEF Built, start
<1> DEFINE blocks == last.blocks
           m == Len(fc)
           x == Len(mc)
<1>18. /\ blocks # <<>>
       /\ Headed(start, blocks[1].entries, built)
       /\ \A i \in 1..Len(blocks) : Indexed(index_block, blocks[i])
  BY <1>1, <1>9, <1>16, <1>17
<1>19. /\ m \in Nat /\ x \in Nat
       /\ Lies(c, 0, start)
       /\ m + 3 <= Len(c) /\ c[m + 3] = [u64 |-> Len(start)]
       /\ Lies(c, x, index_block)
       /\ Len(c) >= 5
       /\ c[Len(c) - 4] = [u64 |-> m]
       /\ c[Len(c) - 2] = [u64 |-> x]
       /\ c[Len(c) - 1] = [u64 |-> Len(index_block)]
  BY <1>11, <1>12, <1>13, <1>14, <1>15
<1> HIDE DEF blocks, m, x
<1>20. Complete(c, blocks, built)
  BY <1>4, <1>18, <1>19 DEF Complete
<1>21. Content(rep)' = c /\ rep.blocks' = blocks
  BY <1>2 DEF c, blocks, last
<1> QED BY <1>20, <1>21

\* Every step keeps the layout: Put and Add while building, Finish and Close at the end.
LEMMA NextLays ==
  ASSUME TypeInv, OffsetInv, LayoutInv, [Next]_tableVars
  PROVE  LayoutInv'
<1>1. ASSUME NEW S \in MemTables, Put(S) PROVE LayoutInv'
  <2>1. built' \ left' = {} /\ rep' = NewRep /\ pc' \in {"put", "aborted"}
    BY <1>1 DEF Put, TypeInv
  <2>2. Built(NewRep, {})
    <3> DEFINE place == [e \in {} |-> 0]
    <3>1. place \in [{} -> Nat] /\ Placed(<<>>, {}, place)
      BY DEF Placed
    <3>2. Laid(<<>>, {})
      BY <3>1 DEF Laid
    <3>3. /\ NewRep.status /\ NewRep.entries = {} /\ NewRep.data_block = <<>>
          /\ NewRep.blocks = <<>>
      BY DEF NewRep
    <3> QED BY <3>2, <3>3, NewRepOK DEF Built
  <2>3. Built(rep, built \ left)'
    BY <2>1, <2>2 DEF Built, Content, LastBlock
  <2> QED BY <2>1, <2>3 DEF LayoutInv
<1>2. CASE Add
  <2> DEFINE e == FirstEntry(left)
             added == built \ left
             r == Added(rep, e)
  <2>1. left # {} /\ left \in SUBSET Entry /\ IsFiniteSet(left) /\ left \subseteq built
          /\ built \subseteq Entry /\ pc = "put" /\ pc' = "put" /\ built' = built
          /\ left' = left \ {e}
    BY <1>2, FS_Subset DEF Add, TypeInv
  <2>2. e \in left /\ e \in Entry /\ \A f \in left \ {e} : Before(e, f)
    BY <2>1, FirstAndLast
  <2>3. rep' \in IF Len(r.data_block) >= BlockSize THEN FlushBlock(r) ELSE {r}
    BY <1>2 DEF Add
  <2> HIDE DEF e
  <2>4. /\ \A f \in added : Before(f, e)
        /\ e \notin added /\ built' \ left' = added \union {e}
        /\ added \in SUBSET Entry
    BY <2>1, <2>2 DEF LayoutInv
  <2>5. \A f \in added \union {e}, g \in left \ {e} : Before(f, g)
    BY <2>2 DEF LayoutInv
  <2>6. RepOK(rep) /\ RepOK(r) /\ r.intact = rep.intact
    BY <2>2, AddedOK DEF TypeInv
  <2>7. ASSUME rep.intact PROVE Built(r, added \union {e})
    <3>1. Built(rep, added)
      BY <2>1, <2>7 DEF LayoutInv
    <3> HIDE DEF added
    <3> QED BY <2>2, <2>4, <2>6, <3>1, AddedBuilt
  <2> HIDE DEF r
  <2>8. PICK w : rep' = w /\ (w = r \/ w \in FlushBlock(r))
    BY <2>3
  <2>9. ASSUME w.intact PROVE Built(w, added \union {e})
    <3>1. CASE w = r
      BY <2>6, <2>7, <2>9, <3>1
    <3>2. CASE w \in FlushBlock(r)
      <4>1. r.intact
        BY <2>6, <2>9, <3>2, FlushBlockOK
      <4>2. added \union {e} \in SUBSET Entry /\ Built(r, added \union {e})
        BY <2>2, <2>4, <2>6, <2>7, <4>1
      <4> HIDE DEF added
      <4> QED BY <2>6, <2>9, <3>2, <4>2, FlushedBuilt
    <3> QED BY <2>8, <3>1, <3>2
  <2>10. rep.intact' => Built(rep, built \ left)'
    BY <2>4, <2>8, <2>9 DEF Built, Content, LastBlock
  <2> QED BY <2>1, <2>4, <2>5, <2>10 DEF LayoutInv
<1>3. CASE Finish
  <2>1. pc' = "finished" /\ UNCHANGED <<built, left>>
    BY <1>3 DEF Finish
  <2>2. rep.intact' => Complete(Content(rep), rep.blocks, built)'
    BY <1>3, <2>1, FinishLays DEF Complete, Headed
  <2> QED BY <2>1, <2>2 DEF LayoutInv
<1>4. CASE Close
  <2>1. pc = "finished" /\ pc' = "closed" /\ UNCHANGED <<built, left>>
    BY <1>4 DEF Close
  <2>2. /\ rep.blocks' = rep.blocks
        /\ rep.intact' => /\ rep.intact /\ rep.file.disk' = Content(rep)
                          /\ rep.file.buf' = <<>>
    BY <1>4, CloseOK DEF TypeInv
  <2>3. rep.intact' => Content(rep)' = Content(rep)
    <3> DEFINE c == Content(rep)
    <3>1. c \in Seq(Cell)
      BY RepFields DEF TypeInv
    <3> HIDE DEF c
    <3>2. c \o <<>> = c
      BY <3>1, ConcatEmptySeq
    <3>3. rep.intact' => Content(rep)' = c \o <<>>
      BY <2>2 DEF Content, c
    <3> QED BY <3>2, <3>3 DEF c
  <2>4. rep.intact' => Complete(Content(rep), rep.blocks, built)'
    <3> SUFFICES ASSUME rep.intact' PROVE Complete(Content(rep), rep.blocks, built)'
      OBVIOUS
    <3>1. Complete(Content(rep), rep.blocks, built)
      BY <2>1, <2>2 DEF LayoutInv
    <3>2. Content(rep)' = Content(rep) /\ rep.blocks' = rep.blocks /\ built' = built
      BY <2>1, <2>2, <2>3
    <3> QED BY <3>1, <3>2 DEF Complete, Headed
  <2> QED BY <2>1, <2>4 DEF LayoutInv
<1>5. CASE (\E k \in Key : Get(k)) \/ Seeking
  <2>1. /\ pc \in {"closed", "seek", "done"} /\ pc' \in {"seek", "done"}
        /\ UNCHANGED <<rep, built, left>>
    BY <1>5 DEF Get, Seeking, SeekNext, SeekWild, SeekEnds, putVars
  <2> QED BY <2>1 DEF LayoutInv, Complete, Content, Headed
<1>6. CASE UNCHANGED tableVars
  <2>1. pc' = pc /\ rep' = rep /\ built' = built /\ left' = left
    BY <1>6 DEF tableVars, putVars
  <2>2. /\ (built \ left)' = built \ left
        /\ Built(rep, built \ left)' = Built(rep, built \ left)
        /\ Complete(Content(rep), rep.blocks, built)' = Complete(Content(rep), rep.blocks, built)
    BY <2>1 DEF Built, LastBlock, Complete, Content, Headed
  <2> QED BY <2>1, <2>2 DEF LayoutInv
<1> QED BY <1>1, <1>2, <1>3, <1>4, <1>5, <1>6 DEF Next, Putting

----------------------------------------------------------------------------------
(***************************************************************************)
(* What the resolver finds in such a file.                                 *)
(***************************************************************************)
LEMMA ReadsNumber ==
  ASSUME Len(disk) \in Nat, NEW p \in Nat, p < Len(disk), NEW n \in Nat,
         disk[p + 1] = [u64 |-> n]
  PROVE  U64At(p) = n /\ n # NULL
<1> DEFINE cell == disk[p + 1]
<1>1. cell = [u64 |-> n]
  OBVIOUS
<1>2. p \in 0..(Len(disk) - 1)
  OBVIOUS
<1>3. U64At(p) = IF p \in 0..(Len(disk) - 1) /\ "u64" \in DOMAIN cell THEN cell.u64 ELSE NULL
  BY DEF U64At
<1> HIDE DEF cell
<1>4. "u64" \in DOMAIN cell /\ cell.u64 = n
  BY <1>1
<1>5. n # NULL
  BY ReadAssumption
<1> QED BY <1>2, <1>3, <1>4, <1>5

\* What the resolver finds in a complete file as the size of its first data block.
LEMMA ResolverReads ==
  ASSUME RepOK(rep), Complete(disk, rep.blocks, built)
  PROVE  /\ disk \in Seq(Cell) /\ rep.blocks # <<>>
         /\ \E data \in Seq(Cell) :
              /\ Headed(data, rep.blocks[1].entries, built)
              /\ Lies(disk, 0, data)
              /\ DataSize = Len(data) - 1 /\ DataSize # NULL
              /\ DataSize \in Len(Crc32)..Len(disk)
         /\ \E index \in Seq(Cell) :
              /\ IndexHandle.offset \in Nat /\ IndexHandle.size = Len(index)
              /\ Lies(disk, IndexHandle.offset, index)
              /\ \A i \in 1..Len(rep.blocks) : Indexed(index, rep.blocks[i])
<1>1. disk \in Seq(Cell) /\ Len(disk) \in Nat
  BY RepFields, LenProperties DEF disk
<1>2. PICK data \in Seq(Cell), index \in Seq(Cell), m \in Nat, x \in Nat :
       /\ Headed(data, rep.blocks[1].entries, built)
       /\ Lies(disk, 0, data)
       /\ m + 3 <= Len(disk) /\ disk[m + 3] = [u64 |-> Len(data)]
       /\ Lies(disk, x, index)
       /\ \A i \in 1..Len(rep.blocks) : Indexed(index, rep.blocks[i])
       /\ Len(disk) >= 5
       /\ disk[Len(disk) - 4] = [u64 |-> m]
       /\ disk[Len(disk) - 2] = [u64 |-> x]
       /\ disk[Len(disk) - 1] = [u64 |-> Len(index)]
  BY DEF Complete
<1> DEFINE f == FooterOffset
           size == Len(disk)
           d == Len(data)
           i == Len(index)
<1>3. f = size - 5
  <2> DEFINE h == [offset |-> 0, size |-> 0]
  <2>1. h \in Handles
    BY DEF Handles
  <2> DEFINE a == Len(Handle(h))
             b == Len(Crc32)
  <2>2. a = 2 /\ b = 1
    BY <2>1, HandleType, ConstantTypes
  <2>3. f = size - b - a * 2 /\ size \in Nat
    BY <1>1 DEF FooterOffset
  <2> HIDE DEF a, b, f, size
  <2> QED BY <2>2, <2>3
<1>4. d \in Nat /\ i \in Nat
  BY LenProperties
<1> HIDE DEF f
<1>5. /\ f \in Nat /\ f < size /\ f + 1 = size - 4
      /\ f + 2 \in Nat /\ f + 2 < size /\ (f + 2) + 1 = size - 2
      /\ f + 3 \in Nat /\ f + 3 < size /\ (f + 3) + 1 = size - 1
  <2>1. size \in Nat /\ size >= 5
    BY <1>1, <1>2
  <2> HIDE DEF size
  <2> QED BY <1>3, <2>1
<1>6. U64At(f) = m /\ m # NULL
  BY <1>1, <1>2, <1>5, ReadsNumber
<1>7. U64At(f + 2) = x
  <2> DEFINE p == f + 2
  <2>1. p \in Nat /\ p < Len(disk) /\ disk[p + 1] = [u64 |-> x]
    BY <1>2, <1>5
  <2> HIDE DEF p
  <2>2. U64At(p) = x
    BY <1>1, <2>1, ReadsNumber
  <2> QED BY <2>2 DEF p
<1>8. U64At(f + 3) = i
  <2> DEFINE p == f + 3
  <2>1. p \in Nat /\ p < Len(disk) /\ disk[p + 1] = [u64 |-> i]
    BY <1>2, <1>5
  <2> HIDE DEF p
  <2>2. U64At(p) = i
    BY <1>1, <1>4, <2>1, ReadsNumber
  <2> QED BY <2>2 DEF p
<1>9. IndexHandle.offset = x /\ IndexHandle.size = Len(index)
  BY <1>7, <1>8 DEF IndexHandle, f
<1>10. U64At(m + 2) = d /\ d # NULL
  <2> DEFINE p == m + 2
  <2>1. p \in Nat /\ p < Len(disk) /\ p + 1 = m + 3
    BY <1>1, <1>2
  <2>2. disk[p + 1] = [u64 |-> d]
    BY <1>2, <2>1
  <2> HIDE DEF p
  <2>3. U64At(p) = d /\ d # NULL
    BY <1>1, <1>4, <2>1, <2>2, ReadsNumber
  <2> QED BY <2>3 DEF p
<1>11. FilterOffset = d
  BY <1>6, <1>10, ConstantTypes DEF FilterOffset, MetaIndexOffset, f
<1>12. DataSize = d - 1
  BY <1>10, <1>11, ConstantTypes DEF DataSize
<1>13. d - 1 \in 1..Len(disk) /\ d - 1 \in Nat
  <2>1. PICK first \in Seq(Cell) :
          /\ Laid(first, rep.blocks[1].entries)
          /\ \/ d = Len(first) + 1
             \/ d >= Len(first) + 3
    BY <1>2 DEF Headed
  <2>2. rep.blocks[1].entries \in SUBSET Entry /\ rep.blocks[1].entries # {}
    <3>1. rep.blocks \in Seq([handle : Handles, entries : SUBSET Entry]) /\ rep.blocks # <<>>
      BY DEF RepOK, Rep, Complete
    <3>2. 1 \in 1..Len(rep.blocks)
      BY <3>1, EmptySeq, LenProperties
    <3>3. rep.blocks[1] \in [handle : Handles, entries : SUBSET Entry]
      BY <3>1, <3>2, ElementOfSeq
    <3>4. rep.blocks[1].entries # {}
      BY <1>2 DEF Headed
    <3> QED BY <3>3, <3>4
  <2>3. first # <<>>
    BY <2>1, <2>2, LaidLength
  <2>4. Len(first) \in Nat /\ Len(first) # 0
    BY <2>3, EmptySeq, LenProperties
  <2>5. 0 + d <= Len(disk)
    BY <1>2 DEF Lies
  <2> HIDE DEF d
  <2> QED BY <1>1, <1>4, <2>1, <2>4, <2>5
<1>14. d - 1 # NULL
  BY <1>13, ReadAssumption
<1>15. rep.blocks # <<>>
  BY DEF Complete
<1>16. Len(Crc32) = 1
  BY ConstantTypes
<1> QED BY <1>1, <1>2, <1>9, <1>12, <1>13, <1>14, <1>15, <1>16

\* In a table whose writes have not failed the footer leads to an index with an entry for
\* every data block, at the block's place and under its last key: for memtables, blocks and
\* buffers of any size.
THEOREM IndexIsComplete == Spec => []IndexComplete
<1>1. TypeInv /\ OffsetInv /\ LayoutInv => IndexComplete
  <2> SUFFICES ASSUME TypeInv, OffsetInv, LayoutInv, pc \in {"closed", "seek", "done"},
                      rep.intact, NEW i \in DOMAIN rep.blocks
               PROVE  LET index == SubSeq(disk, IndexHandle.offset + 1,
                                          IndexHandle.offset + IndexHandle.size)
                          block == rep.blocks[i]
                          entry == KeyText(LastEntry(block.entries).key) \o Handle(block.handle)
                      IN  \E n \in 0..(Len(index) - Len(entry)) :
                            entry = SubSeq(index, n + 1, n + Len(entry))
    BY DEF IndexComplete
  <2>1. Complete(disk, rep.blocks, built) /\ RepOK(rep)
    BY DEF OffsetInv, LayoutInv, TypeInv, disk
  <2>2. PICK index \in Seq(Cell) :
              /\ IndexHandle.offset \in Nat /\ IndexHandle.size = Len(index)
              /\ Lies(disk, IndexHandle.offset, index)
              /\ \A j \in 1..Len(rep.blocks) : Indexed(index, rep.blocks[j])
    BY <2>1, ResolverReads
  <2> DEFINE x == IndexHandle.offset
             entry == Named(rep.blocks[i])
  <2>3. SubSeq(disk, x + 1, x + Len(index)) = index
    <3>1. disk \in Seq(Cell) /\ x \in Nat /\ Lies(disk, x, index)
      BY <2>1, <2>2, ResolverReads
    <3> HIDE DEF x
    <3> QED BY <3>1, LiesCut
  <2>4. i \in 1..Len(rep.blocks)
    BY <2>1, LenProperties DEF RepOK, Rep
  <2>5. PICK n \in Nat : Lies(index, n, entry)
    BY <2>2, <2>4 DEF Indexed
  <2>6. entry \in Seq(Cell)
    BY <2>2, <2>4 DEF Indexed
  <2> HIDE DEF entry
  <2>7. SubSeq(index, n + 1, n + Len(entry)) = entry
    BY <2>5, <2>6, LiesCut
  <2>8. n \in 0..(Len(index) - Len(entry))
    <3> DEFINE a == Len(index)
               b == Len(entry)
    <3>1. a \in Nat /\ b \in Nat /\ n + b <= a
      BY <2>5, <2>6, LenProperties DEF Lies
    <3> HIDE DEF a, b
    <3>2. n \in 0..(a - b)
      BY <3>1
    <3> QED BY <3>2 DEF a, b
  <2> QED BY <2>2, <2>3, <2>7, <2>8 DEF Named, entry
<1>2. Init => LayoutInv
  BY DEF Init, LayoutInv
<1>3. TypeInv /\ OffsetInv /\ LayoutInv /\ [Next]_tableVars => (TypeInv /\ OffsetInv /\ LayoutInv)'
  BY NextTyped, NextOffsets, NextLays
<1> QED BY <1>1, <1>2, <1>3, InitTyped, PTL DEF Spec

----------------------------------------------------------------------------------
(***************************************************************************)
(* Get.                                                                    *)
(***************************************************************************)
\* The text Get reads begins with the block of the entries E, the first of those in S, and
\* has no more, or goes on with the checksum of that block.
Readable(text, S, E, first, place) ==
  /\ Placed(first, E, place)
  /\ Lies(text, 0, first)
  /\ E # {} /\ E \subseteq S
  /\ \A e \in E, f \in S \ E : Before(e, f)
  /\ \/ E = S /\ Len(text) = Len(first)
     \/ E # S /\ Len(text) >= Len(first) + 2 /\ text[Len(first) + 1] = Crc32[1]

\* The iterator is at an entry of the first block or at its end, and no entry of the key
\* lies before it.
Sought(position, k, E, first, place) ==
  \/ position = Len(first) /\ \A f \in E : f.key # k
  \/ \E e \in E : position = place[e] /\ \A f \in E : Before(f, e) => f.key # k

\* The answer Get gives is the one Entries has.
Answered ==
  LET value == TableGet(built, rep.blocks[1].entries, key)
  IN  out = IF value = NULL THEN NULL ELSE ValueText(value)

SeekInv ==
  rep.intact =>
    /\ pc = "seek" =>
         \E first \in Seq(Cell) : \E place \in [rep.blocks[1].entries -> Nat] :
           /\ Readable(contents, built, rep.blocks[1].entries, first, place)
           /\ Sought(offset, key, rep.blocks[1].entries, first, place)
    /\ pc = "done" => Answered

\* A lookup of a key that no entry of the first data block has is to find nothing: the
\* value is the empty one where the table has no second block.
LEMMA NotInFirst ==
  ASSUME NEW S \in SUBSET Entry, IsFiniteSet(S), NEW E \in SUBSET S, E # {},
         NEW k, \A f \in E : f.key # k
  PROVE  TableGet(S, E, k) = IF E = S THEN EmptyValue ELSE NULL
<1> DEFINE found == {f \in S : f.key = k}
<1>1. found \in SUBSET Entry /\ IsFiniteSet(found)
  BY FS_Subset
<1>2. ~ (found # {} /\ FirstEntry(found) \in E)
  <2> SUFFICES ASSUME found # {} PROVE FirstEntry(found) \notin E
    OBVIOUS
  <2>1. FirstEntry(found) \in found
    <3> HIDE DEF found
    <3> QED BY <1>1, FirstAndLast
  <2> QED BY <2>1
<1>3. TableGet(S, E, k) = IF found # {} /\ FirstEntry(found) \in E
                          THEN FirstEntry(found).value
                          ELSE IF S # {} /\ E = S THEN EmptyValue ELSE NULL
  BY Zenon DEF TableGet
<1> HIDE DEF found
<1> QED BY <1>2, <1>3

\* Get begins: what it takes for the data block.
LEMMA GetBegins ==
  ASSUME TypeInv, OffsetInv, LayoutInv, rep.intact, NEW k \in Key, Get(k)
  PROVE  pc' = "seek" /\ SeekInv'
<1> DEFINE E == rep.blocks[1].entries
<1>1. Complete(disk, rep.blocks, built) /\ RepOK(rep)
  BY DEF OffsetInv, LayoutInv, TypeInv, disk, Get
<1>2. disk \in Seq(Cell) /\ Len(disk) \in Nat
  BY <1>1, ResolverReads, LenProperties
<1>3. PICK data \in Seq(Cell) :
        /\ Headed(data, E, built)
        /\ Lies(disk, 0, data)
        /\ DataSize = Len(data) - 1 /\ DataSize # NULL
        /\ DataSize \in Len(Crc32)..Len(disk)
  BY <1>1, ResolverReads
<1> DEFINE d == DataSize
           text == SubSeq(disk, 1, d)
<1>4. /\ pc' = "seek" /\ key' = k /\ offset' = 0 /\ contents' = text
      /\ UNCHANGED <<rep, built>>
  BY <1>3 DEF Get, putVars
<1>5. d \in Nat /\ d = Len(data) - 1 /\ d <= Len(disk) /\ 0 <= d /\ Len(data) \in Nat
        /\ 0 + 1 = 1
  BY <1>2, <1>3, ConstantTypes, LenProperties
<1> HIDE DEF d
<1>6. text \in Seq(Cell) /\ Len(text) = d /\ \A i \in 1..d : text[i] = disk[i]
  <2>1. /\ SubSeq(disk, 0 + 1, d) \in Seq(Cell) /\ Len(SubSeq(disk, 0 + 1, d)) = d - 0
        /\ \A i \in 1..(d - 0) : SubSeq(disk, 0 + 1, d)[i] = disk[0 + i]
    BY <1>2, <1>5, SliceType
  <2> QED BY <1>5, <2>1
<1> HIDE DEF text
<1>7. \A i \in 1..d : text[i] = data[i]
  <2> SUFFICES ASSUME NEW i \in 1..d PROVE text[i] = data[i]
    OBVIOUS
  <2>1. i \in 1..Len(data) /\ 0 + i = i
    BY <1>5
  <2>2. disk[i] = data[i]
    BY <1>3, <2>1 DEF Lies
  <2> QED BY <1>6, <2>2
<1>8. PICK first \in Seq(Cell) :
       /\ Laid(first, E)
       /\ Lies(data, 0, first)
       /\ Lies(data, Len(first), Crc32)
       /\ \/ E = built /\ Len(data) = Len(first) + 1
          \/ E # built /\ Len(data) >= Len(first) + 3
  BY <1>3 DEF Headed
<1>9. PICK place \in [E -> Nat] : Placed(first, E, place)
  BY <1>8 DEF Laid
<1>10. E # {} /\ E \subseteq built /\ \A e \in E, f \in built \ E : Before(e, f)
  BY <1>3 DEF Headed
<1> DEFINE n == Len(first)
           size == Len(data)
<1>11. n \in Nat /\ size \in Nat /\ d = size - 1
  BY <1>5, LenProperties
<1>12. Lies(text, 0, first)
  <2>1. \A i \in 1..n : data[0 + i] = first[i]
    BY <1>8 DEF Lies
  <2>2. n <= d
    <3>1. size = n + 1 \/ size >= n + 3
      BY <1>8
    <3> HIDE DEF n, size
    <3> QED BY <1>11, <3>1
  <2>3. \A i \in 1..n : text[0 + i] = first[i]
    <3> SUFFICES ASSUME NEW i \in 1..n PROVE text[0 + i] = first[i]
      OBVIOUS
    <3>1. i \in 1..d /\ 0 + i = i
      BY <1>11, <2>2
    <3> QED BY <1>7, <2>1, <3>1
  <2>4. 0 + n <= Len(text)
    BY <1>6, <1>11, <2>2
  <2> QED BY <2>3, <2>4 DEF Lies
<1>13. \/ E = built /\ Len(text) = n
       \/ E # built /\ Len(text) >= n + 2 /\ text[n + 1] = Crc32[1]
  <2>1. CASE E = built /\ size = n + 1
    <3> HIDE DEF n, size
    <3> QED BY <1>6, <1>11, <2>1
  <2>2. CASE E # built /\ size >= n + 3
    <3>1. data[n + 1] = Crc32[1]
      <4>1. 1 \in 1..Len(Crc32)
        BY ConstantTypes
      <4> QED BY <1>8, <4>1 DEF Lies
    <3> HIDE DEF n, size
    <3>2. n + 1 \in 1..d /\ Len(text) >= n + 2
      BY <1>6, <1>11, <2>2
    <3> QED BY <1>7, <2>2, <3>1, <3>2
  <2> QED BY <1>8, <2>1, <2>2
<1>14. Readable(text, built, E, first, place)
  BY <1>9, <1>10, <1>12, <1>13 DEF Readable
<1>15. Sought(0, k, E, first, place)
  <2>1. PICK e \in E : place[e] = 0 /\ \A f \in E \ {e} : Before(e, f)
    BY <1>9, <1>10 DEF Placed
  <2>2. built \subseteq Entry
    BY DEF TypeInv
  <2>3. \A f \in E : ~ Before(f, e)
    BY <1>10, <2>1, <2>2, BeforeOrders
  <2> QED BY <2>1, <2>3 DEF Sought
<1> HIDE DEF E
<1>16. /\ Readable(contents', built', E, first, place)
       /\ Sought(offset', key', E, first, place)
  BY <1>4, <1>14, <1>15
<1>17. E = rep.blocks[1].entries'
  BY <1>4 DEF E
<1>18. \E s \in Seq(Cell) : \E p \in [rep.blocks[1].entries' -> Nat] :
         /\ Readable(contents', built', rep.blocks[1].entries', s, p)
         /\ Sought(offset', key', rep.blocks[1].entries', s, p)
  BY <1>16, <1>17
<1> QED BY <1>4, <1>18 DEF SeekInv

\* The iterator at an entry of the first block: it is valid, and knows the key.
LEMMA AtAnEntry ==
  ASSUME contents \in Seq(Cell), key \in Key,
         NEW E \in SUBSET Entry, NEW first \in Seq(Cell), NEW place \in [E -> Nat],
         NEW S, Readable(contents, S, E, first, place), NEW e \in E, offset = place[e]
  PROVE  /\ Valid
         /\ AtKey <=> e.key = key
         /\ NextOffset = End(place, e) /\ NextOffset # offset
         /\ offset < Len(contents) /\ offset # Len(contents)
         /\ BytesAt(ValueOffset) = ValueText(e.value)
<1>1. Lies(first, offset, EncodedEntry(e)) /\ Lies(contents, 0, first)
        /\ e \in Entry /\ offset \in Nat
  BY DEF Readable, Placed
<1>2. Lies(contents, offset, EncodedEntry(e))
  <2>1. 0 \in Nat /\ 0 + offset = offset /\ EncodedEntry(e) \in Seq(Cell)
    BY <1>1, EncodedEntryType
  <2>2. Lies(contents, 0 + offset, EncodedEntry(e))
    BY <1>1, <2>1, LiesPart
  <2> QED BY <2>1, <2>2
<1> DEFINE t == Len(EncodedEntry(e))
           size == Len(contents)
<1>3. /\ BytesLength(offset) # 0 /\ BytesAt(offset) = KeyText(e.key)
      /\ NextOffset = offset + t /\ NextOffset # offset
      /\ BytesAt(ValueOffset) = ValueText(e.value)
      /\ t \in Nat /\ t > 1 /\ offset + t <= size
  BY <1>1, <1>2, ReadsEntry
<1>4. NextOffset = End(place, e)
  BY <1>3 DEF End
<1>5. e.key \in Key
  BY <1>1, EntryFields
<1>6. AtKey <=> e.key = key
  BY <1>3, <1>5, KeyTextIs DEF AtKey
<1>7. size \in Nat /\ Len(Crc32) = 1
  BY LenProperties, ConstantTypes
<1>8. Valid <=> offset < size - 1
  BY <1>7 DEF Valid
<1> HIDE DEF t, size
<1>9. offset < size - 1 /\ offset < size /\ offset # size
  BY <1>1, <1>3, <1>7
<1> QED BY <1>3, <1>4, <1>6, <1>8, <1>9 DEF size

\* The iterator past the first block: a checksum is no length.
LEMMA PastFirst ==
  ASSUME contents \in Seq(Cell), NEW E, NEW first \in Seq(Cell), NEW place,
         NEW S, Readable(contents, S, E, first, place), offset = Len(first)
  PROVE  /\ E = S => ~ Valid /\ offset = Len(contents)
         /\ E # S => Valid /\ ~ AtKey /\ NextOffset = offset
<1> DEFINE n == Len(first)
           size == Len(contents)
<1>1. n \in Nat /\ size \in Nat /\ Len(Crc32) = 1
  BY LenProperties, ConstantTypes
<1>2. Valid <=> offset < size - 1
  BY <1>1 DEF Valid
<1>3. CASE E = S
  <2>1. size = n /\ offset = n
    BY <1>3 DEF Readable
  <2> HIDE DEF n, size
  <2>2. ~ (offset < size - 1) /\ offset = size
    BY <1>1, <2>1
  <2> QED BY <1>2, <1>3, <2>2 DEF size
<1>4. CASE E # S
  <2>1. size >= n + 2 /\ contents[n + 1] = Crc32[1] /\ offset = n
    BY <1>4 DEF Readable
  <2> DEFINE cell == contents[offset + 1]
  <2>2. cell = [of |-> "crc32", id |-> 0, at |-> 1]
    BY <2>1, ConstantTypes
  <2>3. "u32" \notin DOMAIN cell
    <3> HIDE DEF cell
    <3> QED BY <2>2
  <2>4. BytesLength(offset) = 0
    BY <2>3 DEF BytesLength
  <2>5. ~ AtKey /\ NextOffset = offset
    BY <2>4 DEF AtKey, NextOffset
  <2>6. offset < size - 1
    <3> HIDE DEF n, size
    <3> QED BY <1>1, <2>1
  <2> QED BY <1>2, <1>4, <2>5, <2>6
<1> QED BY <1>3, <1>4

\* A step of the seek through the first data block: at an entry of another key it goes on
\* to the next, at one of the key it answers, and behind the last it ends or leaves.
LEMMA SeekingFinds ==
  ASSUME TypeInv, OffsetInv, LayoutInv, SeekInv, rep.intact, Seeking
  PROVE  SeekInv'
<1> DEFINE E == rep.blocks[1].entries
<1>1. /\ pc = "seek" /\ key \in Key /\ contents \in Seq(Cell)
      /\ built \in SUBSET Entry /\ IsFiniteSet(built)
      /\ UNCHANGED <<rep, built, key, contents>>
  BY DEF Seeking, SeekNext, SeekWild, SeekEnds, TypeInv, putVars
<1>2. PICK first \in Seq(Cell), place \in [E -> Nat] :
        /\ Readable(contents, built, E, first, place)
        /\ Sought(offset, key, E, first, place)
  BY <1>1 DEF SeekInv
<1>3. E \in SUBSET built /\ E \in SUBSET Entry /\ E # {}
        /\ \A e \in E, f \in built \ E : Before(e, f)
  BY <1>1, <1>2 DEF Readable
<1>4. ASSUME pc' = "seek", Sought(offset', key, E, first, place)
      PROVE  SeekInv'
  BY <1>1, <1>2, <1>4 DEF SeekInv
<1>5. ASSUME pc' = "done", out' = IF TableGet(built, E, key) = NULL THEN NULL
                                  ELSE ValueText(TableGet(built, E, key))
      PROVE  SeekInv'
  BY <1>1, <1>5 DEF SeekInv, Answered, TableGet
<1> HIDE DEF E
<1>6. ASSUME NEW e \in E, offset = place[e], \A f \in E : Before(f, e) => f.key # key
      PROVE  SeekInv'
  <2>1. /\ Valid
        /\ AtKey <=> e.key = key
        /\ NextOffset = End(place, e) /\ NextOffset # offset
        /\ offset # Len(contents)
        /\ BytesAt(ValueOffset) = ValueText(e.value)
    BY <1>1, <1>2, <1>3, <1>6, AtAnEntry
  <2>2. CASE SeekNext
    <3>1. pc' = "seek" /\ offset' = End(place, e) /\ e.key # key
      BY <1>1, <2>1, <2>2 DEF SeekNext
    <3>2. Follows(first, E, place, e)
      BY <1>2 DEF Readable, Placed
    <3>3. CASE End(place, e) = Len(first) /\ \A f \in E \ {e} : Before(f, e)
      <4>1. \A f \in E : f.key # key
        BY <1>6, <3>1, <3>3
      <4> QED BY <1>4, <3>1, <3>3, <4>1 DEF Sought
    <3>4. CASE \E f \in E \ {e} :
                 /\ place[f] = End(place, e)
                 /\ Before(e, f)
                 /\ \A g \in E \ {e, f} : Before(g, e) \/ Before(f, g)
      <4>1. PICK f \in E \ {e} :
                 /\ place[f] = End(place, e)
                 /\ Before(e, f)
                 /\ \A g \in E \ {e, f} : Before(g, e) \/ Before(f, g)
        BY <3>4
      <4>2. ASSUME NEW g \in E, Before(g, f) PROVE g.key # key
        <5>1. g \in Entry /\ f \in Entry
          BY <1>3
        <5>2. g # f /\ ~ Before(f, g)
          BY <4>2, <5>1, BeforeOrders
        <5> QED BY <1>6, <3>1, <4>1, <5>2
      <4>3. Sought(offset', key, E, first, place)
        BY <3>1, <4>1, <4>2 DEF Sought
      <4> QED BY <1>4, <3>1, <4>3
    <3> QED BY <3>2, <3>3, <3>4 DEF Follows
  <2>3. CASE SeekEnds
    <3>1. e.key = key /\ pc' = "done" /\ out' = ValueText(e.value)
      BY <2>1, <2>3 DEF SeekEnds
    <3>2. TableGet(built, E, key) = e.value /\ e.value # NULL
      <4> DEFINE found == {f \in built : f.key = e.key}
      <4>1. found \in SUBSET Entry /\ e \in found
        <5>1. built \subseteq Entry /\ e \in built
          BY <1>1, <1>3
        <5> QED BY <5>1
      <4>2. \A f \in found \ {e} : Before(e, f)
        <5> SUFFICES ASSUME NEW f \in built, f.key = e.key, f # e PROVE Before(e, f)
          OBVIOUS
        <5>1. CASE f \in E
          <6>1. ~ Before(f, e)
            BY <1>6, <3>1, <5>1
          <6> QED BY <1>3, <5>1, <6>1, BeforeTotal
        <5>2. CASE f \notin E
          BY <1>3, <5>2
        <5> QED BY <5>1, <5>2
      <4>3. FirstEntry(found) = e
        <5> HIDE DEF found
        <5> QED BY <4>1, <4>2, FirstEntryIs
      <4>4. TableGet(built, E, e.key) = IF found # {} /\ FirstEntry(found) \in E
                                       THEN FirstEntry(found).value
                                       ELSE IF built # {} /\ E = built
                                            THEN EmptyValue ELSE NULL
        BY Zenon DEF TableGet
      <4>5. e.value \in Value \union {EmptyValue}
        BY <1>3, EntryFields DEF Entry
      <4> HIDE DEF found
      <4> QED BY <3>1, <4>1, <4>3, <4>4, <4>5, NullAssumption
    <3> QED BY <1>5, <3>1, <3>2
  <2>4. ~ SeekWild
    BY <2>1 DEF SeekWild
  <2> QED BY <2>2, <2>3, <2>4 DEF Seeking
<1>7. ASSUME offset = Len(first), \A f \in E : f.key # key
      PROVE  SeekInv'
  <2>1. /\ E = built => ~ Valid /\ offset = Len(contents)
        /\ E # built => Valid /\ ~ AtKey /\ NextOffset = offset
    BY <1>1, <1>2, <1>7, PastFirst
  <2>2. TableGet(built, E, key) = IF E = built THEN EmptyValue ELSE NULL
    BY <1>1, <1>3, <1>7, NotInFirst
  <2>3. CASE E = built
    <3>1. pc' = "done" /\ out' = <<>>
      BY <2>1, <2>3 DEF Seeking, SeekNext, SeekWild, SeekEnds
    <3>2. ValueText(EmptyValue) = <<>> /\ EmptyValue # NULL
      <4>1. ValueText(0) \in Seq(Cell) /\ Len(ValueText(0)) = 0
        BY ValueTextType
      <4>2. ValueText(0) = <<>>
        BY <4>1, EmptySeq
      <4> QED BY <4>2, ReadAssumption DEF EmptyValue
    <3> QED BY <1>5, <2>2, <2>3, <3>1, <3>2
  <2>4. CASE E # built
    <3>1. pc' = "done" /\ out' = NULL
      BY <2>1, <2>4 DEF Seeking, SeekNext, SeekWild, SeekEnds
    <3> QED BY <1>5, <2>2, <2>4, <3>1
  <2> QED BY <2>3, <2>4
<1> QED BY <1>2, <1>6, <1>7 DEF Sought

\* Every step keeps the seek on its way, or its answer right.
LEMMA NextSeeks ==
  ASSUME TypeInv, OffsetInv, LayoutInv, SeekInv, [Next]_tableVars
  PROVE  SeekInv'
<1>1. CASE (\E S \in MemTables : Put(S)) \/ Putting
  <2>1. pc' \in {"put", "aborted", "finished", "closed"}
    BY <1>1 DEF Put, Putting, Add, Finish, Close
  <2> QED BY <2>1 DEF SeekInv
<1>2. ASSUME NEW k \in Key, Get(k) PROVE SeekInv'
  <2>1. rep' = rep
    BY <1>2 DEF Get, putVars
  <2> QED BY <1>2, <2>1, GetBegins DEF SeekInv
<1>3. CASE Seeking
  <2>1. rep' = rep
    BY <1>3 DEF Seeking, SeekNext, SeekWild, SeekEnds, putVars
  <2> QED BY <1>3, <2>1, SeekingFinds DEF SeekInv
<1>4. CASE UNCHANGED tableVars
  <2>1. /\ pc' = pc /\ rep' = rep /\ built' = built /\ key' = key /\ out' = out
        /\ contents' = contents /\ offset' = offset
    BY <1>4 DEF tableVars, putVars, getVars
  <2> QED BY <2>1 DEF SeekInv, Answered, TableGet
<1> QED BY <1>1, <1>2, <1>3, <1>4 DEF Next

\* What Get returns for a table whose writes have not failed is what Entries!TableGet says
\* of its entries and of those of its first data block, which is what DB takes a lookup in
\* a table for: for memtables, keys, values, blocks and buffers of any size.
THEOREM ReadsAlwaysAsTableGet == Spec => []ReadsAsTableGet
<1>1. SeekInv => ReadsAsTableGet
  BY DEF SeekInv, Answered, ReadsAsTableGet
<1>2. Init => LayoutInv /\ SeekInv
  BY DEF Init, LayoutInv, SeekInv
<1>3. TypeInv /\ OffsetInv /\ LayoutInv /\ SeekInv /\ [Next]_tableVars
        => (TypeInv /\ OffsetInv /\ LayoutInv /\ SeekInv)'
  BY NextTyped, NextOffsets, NextLays, NextSeeks
<1> QED BY <1>1, <1>2, <1>3, InitTyped, PTL DEF Spec
==================================================================================
