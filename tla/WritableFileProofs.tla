----------------------------- MODULE WritableFileProofs -----------------------------
(***************************************************************************)
(* What a client of one WritableFile may rely on, for a buffer of any size *)
(* and writes that fail in any way.                                        *)
(***************************************************************************)
EXTENDS WritableFileSpec, WritableFileLemmas

----------------------------------------------------------------------------------
(***************************************************************************)
(* Bytes in order.                                                         *)
(***************************************************************************)
\* The bytes of s are some of the first n, in order.
Ordered(s, n) ==
  /\ s \in Seq(Nat)
  /\ Increasing(s)
  /\ \A i \in DOMAIN s : s[i] <= n

LEMMA OrderedPrefix ==
  ASSUME NEW s, NEW n, Ordered(s, n), NEW p \in Prefixes(s)
  PROVE  Ordered(p, n)
  <1>1. s \in Seq(Nat)
    BY DEF Ordered
  <1>2. p \in Seq(Nat) /\ Len(p) <= Len(s) /\ \A i \in 1..Len(p) : p[i] = s[i]
    BY <1>1, PrefixType
  <1>3. Len(s) \in Nat /\ Len(p) \in Nat /\ DOMAIN s = 1..Len(s) /\ DOMAIN p = 1..Len(p)
    BY <1>1, <1>2, LenProperties
  <1>4. 1..Len(p) \subseteq 1..Len(s)
    BY <1>2, <1>3
  <1> QED  BY <1>2, <1>3, <1>4 DEF Ordered, Increasing

\* Bytes behind the first m may follow any of those.
LEMMA OrderedConcat ==
  ASSUME NEW s, NEW t, NEW m \in Nat, NEW n \in Nat, m <= n,
         Ordered(s, m), Ordered(t, n), \A i \in DOMAIN t : m < t[i]
  PROVE  Ordered(s \o t, n)
  <1>1. s \in Seq(Nat) /\ t \in Seq(Nat)
    BY DEF Ordered
  <1>2. /\ s \o t \in Seq(Nat) /\ Len(s \o t) = Len(s) + Len(t)
        /\ \A i \in 1..(Len(s) + Len(t)) :
             (s \o t)[i] = IF i <= Len(s) THEN s[i] ELSE t[i - Len(s)]
    BY <1>1, ConcatProperties
  <1>3. /\ Len(s) \in Nat /\ Len(t) \in Nat
        /\ DOMAIN s = 1..Len(s) /\ DOMAIN t = 1..Len(t)
        /\ DOMAIN (s \o t) = 1..(Len(s) + Len(t))
    BY <1>1, <1>2, LenProperties
  <1> DEFINE st == s \o t
  <1> HIDE DEF st
  <1>4. ASSUME NEW i \in 1..(Len(s) + Len(t)), i <= Len(s)
        PROVE  i \in DOMAIN s /\ st[i] = s[i] /\ st[i] <= m /\ s[i] \in Nat
    <2>1. i \in DOMAIN s /\ st[i] = s[i]
      BY <1>2, <1>3, <1>4 DEF st
    <2> QED  BY <1>1, <1>3, <2>1, ElementOfSeq DEF Ordered
  <1>5. ASSUME NEW i \in 1..(Len(s) + Len(t)), ~ (i <= Len(s))
        PROVE  /\ i - Len(s) \in DOMAIN t /\ st[i] = t[i - Len(s)]
               /\ m < st[i] /\ st[i] <= n /\ t[i - Len(s)] \in Nat
    <2>1. i - Len(s) \in DOMAIN t
      BY <1>3, <1>5
    <2>2. st[i] = t[i - Len(s)]
      BY <1>2, <1>5 DEF st
    <2> QED  BY <1>1, <1>3, <2>1, <2>2, ElementOfSeq DEF Ordered
  <1>6. \A i \in 1..(Len(s) + Len(t)) : st[i] <= n
    <2> SUFFICES ASSUME NEW i \in 1..(Len(s) + Len(t)) PROVE st[i] <= n
      OBVIOUS
    <2>1. CASE i <= Len(s)
      BY <1>4, <2>1
    <2> QED  BY <1>5, <2>1
  <1>7. \A i, j \in 1..(Len(s) + Len(t)) : i < j => st[i] < st[j]
    <2> SUFFICES ASSUME NEW i \in 1..(Len(s) + Len(t)), NEW j \in 1..(Len(s) + Len(t)), i < j
                 PROVE  st[i] < st[j]
      OBVIOUS
    <2>1. CASE j <= Len(s)
      <3>1. i <= Len(s)
        BY <1>3, <2>1
      <3> QED  BY <1>4, <2>1, <3>1 DEF Ordered, Increasing
    <2>2. CASE i <= Len(s) /\ ~ (j <= Len(s))
      BY <1>4, <1>5, <2>2
    <2>3. CASE ~ (i <= Len(s))
      <3>1. ~ (j <= Len(s)) /\ i - Len(s) < j - Len(s)
        BY <1>3, <2>3
      <3> QED  BY <1>5, <2>3, <3>1 DEF Ordered, Increasing
    <2> QED  BY <2>1, <2>2, <2>3
  <1> QED  BY <1>2, <1>3, <1>6, <1>7 DEF Ordered, Increasing, st

\* A part of the bytes that are appended after the first m.
LEMMA NextBytes ==
  ASSUME NEW m \in Nat, NEW n \in Nat, NEW a \in Nat, NEW b \in Nat, a <= b, b <= n
  PROVE  LET s == SubSeq([i \in 1..n |-> m + i], a + 1, b)
         IN  Ordered(s, m + b) /\ \A i \in DOMAIN s : m + a < s[i]
  <1> DEFINE data == [i \in 1..n |-> m + i]
             s == SubSeq(data, a + 1, b)
  <1>1. data \in Seq(Nat) /\ Len(data) = n /\ \A i \in 1..n : data[i] = m + i
    OBVIOUS
  <1> HIDE DEF data
  <1>2. /\ s \in Seq(Nat) /\ Len(s) = b - a
        /\ \A i \in 1..(b - a) : s[i] = data[a + i]
    BY <1>1, SliceType
  <1> HIDE DEF s
  <1>3. DOMAIN s = 1..(b - a)
    BY <1>2, LenProperties
  <1>4. \A i \in 1..(b - a) : s[i] = m + (a + i)
    <2>1. \A i \in 1..(b - a) : a + i \in 1..n
      OBVIOUS
    <2> QED  BY <1>1, <1>2, <2>1
  <1> QED  BY <1>2, <1>3, <1>4 DEF Ordered, Increasing, s, data

----------------------------------------------------------------------------------
(***************************************************************************)
(* The inductive invariant.                                                *)
(***************************************************************************)
\* As long as the buffer can take all that was appended since the last Flush or Close,
\* it has it: it was flushed by no Append in between.
PendingKept == Len(pending) <= BufferSize => file.buf = pending

FileInv == TypeOK /\ Ordered(file.disk \o file.buf, given) /\ PendingKept

LEMMA FileTyped ==
  ASSUME TypeOK
  PROVE  /\ file \in FileOf(Nat)
         /\ file.buf \in Seq(Nat) /\ file.disk \in Seq(Nat)
         /\ Len(file.buf) \in Nat /\ Len(pending) \in Nat /\ BufferSize \in Nat \ {0}
  BY LenProperties, BufferSizeAssumption DEF TypeOK, FileOf

LEMMA FileInit == Init => FileInv
  <1> SUFFICES ASSUME Init PROVE FileInv
    OBVIOUS
  <1>1. <<>> \in Seq(Nat) /\ Len(<<>>) = 0 /\ BufferSize \in Nat
    BY BufferSizeAssumption
  <1>2. file.buf = <<>> /\ file.disk = <<>> /\ pending = <<>> /\ given = 0
    BY DEF Init, NewFile
  <1>3. TypeOK
    BY <1>1, <1>2 DEF Init, NewFile, TypeOK
  <1>4. Ordered(<<>> \o <<>>, 0)
    <2>1. <<>> \o <<>> = <<>>
      OBVIOUS
    <2> QED  BY <1>1, <2>1 DEF Ordered, Increasing
  <1> QED  BY <1>2, <1>3, <1>4 DEF FileInv, PendingKept

\* What a Flush or a Close leaves.
LEMMA GivenUp ==
  ASSUME FileInv, NEW p \in Prefixes(file.buf),
         Leaves(file, file', <<>>, p, Nat), ok' \in BOOLEAN,
         pending' = <<>>, UNCHANGED given
  PROVE  FileInv'
  <1>1. /\ file.buf \in Seq(Nat) /\ file.disk \in Seq(Nat) /\ BufferSize \in Nat
        /\ <<>> \in Seq(Nat) /\ Len(<<>>) = 0
    BY FileTyped DEF FileInv
  <1>2. file' \in FileOf(Nat) /\ file'.buf = <<>> /\ file'.disk = file.disk \o p
    BY DEF Leaves
  <1>3. TypeOK'
    BY <1>1, <1>2 DEF TypeOK, FileInv, FileOf
  <1>4. Ordered(file.disk \o p, given)
    BY <1>1, PrefixBehind, OrderedPrefix DEF FileInv
  <1>5. file'.disk \o file'.buf = file.disk \o p
    <2>1. file'.disk \in Seq(Nat)
      BY <1>2, FileFields
    <2>2. file'.disk \o <<>> = file'.disk
      BY <2>1, ConcatEmptySeq
    <2> QED  BY <1>2, <2>2
  <1>6. Ordered(file.disk \o file.buf, given)'
    BY <1>4, <1>5
  <1> QED  BY <1>2, <1>3, <1>6 DEF FileInv, PendingKept

LEMMA FlushInv == ASSUME FileInv, Flush PROVE FileInv'
  <1>1. PICK r \in FlushBuffer(file) : file' = r.file /\ ok' = r.ok
    BY DEF Flush, Returns
  <1>2. PICK p \in Prefixes(file.buf) :
          Leaves(file, r.file, <<>>, p, Nat) /\ r.ok = (p = file.buf)
    BY FileTyped, FlushOutcome DEF FileInv
  <1> QED  BY <1>1, <1>2, GivenUp DEF Flush

LEMMA CloseInv == ASSUME FileInv, Close PROVE FileInv'
  <1>1. PICK r \in CloseFile(file) : file' = r.file /\ ok' = r.ok
    BY DEF Close, Returns
  <1>2. PICK p \in Prefixes(file.buf) :
          Leaves(file, r.file, <<>>, p, Nat) /\ r.ok \in BOOLEAN
    BY FileTyped, CloseOutcome DEF FileInv
  <1> QED  BY <1>1, <1>2, GivenUp DEF Close

\* Appended data that fits joins what is pending.  If what is pending fits the buffer,
\* nothing of it is anywhere else.
LEMMA AppendInv == ASSUME FileInv, NEW n \in Sizes, AppendBytes(n) PROVE FileInv'
  <1> DEFINE data == [i \in 1..n |-> given + i]
             room == BufferSize - Len(file.buf)
             first == SubSeq(data, 1, room)
             rest == SubSeq(data, room + 1, Len(data))
  <1>1. /\ n \in Nat \ {0} /\ given \in Nat /\ pending \in Seq(Nat) /\ given' = given + n
        /\ Len(file.buf) <= BufferSize
    BY SizesAssumption DEF AppendBytes, FileInv, TypeOK
  <1>2. /\ file \in FileOf(Nat) /\ file.buf \in Seq(Nat) /\ file.disk \in Seq(Nat)
        /\ Len(file.buf) \in Nat /\ Len(pending) \in Nat /\ BufferSize \in Nat \ {0}
    BY FileTyped DEF FileInv
  <1>3. data \in Seq(Nat) /\ Len(data) = n
    BY <1>1
  <1>4. PICK r \in AppendTo(file, data) : file' = r.file /\ ok' = r.ok
    BY DEF AppendBytes, Returns
  <1>5. pending' = pending \o data
    BY DEF AppendBytes
  <1>6. data = SubSeq(data, 1, n)
    BY <1>3, SubSeqFull
  <1>7. Ordered(data, given + n) /\ \A i \in DOMAIN data : given < data[i]
    <2>1. 0 + 1 = 1 /\ given + 0 = given /\ 0 <= n /\ n <= n
      BY <1>1
    <2>2. LET s == SubSeq(data, 0 + 1, n)
          IN  Ordered(s, given + n) /\ \A i \in DOMAIN s : given + 0 < s[i]
      BY <1>1, <2>1, NextBytes
    <2> QED  BY <1>6, <2>1, <2>2
  <1> HIDE DEF data
  <1>8. pending' \in Seq(Nat) /\ Len(pending') = Len(pending) + n
    BY <1>1, <1>3, <1>5, ConcatProperties
  <1>9. CASE Len(file.buf) + Len(data) <= BufferSize
    <2>0. data \in Seq(Nat)
      BY <1>3
    <2>1. /\ file' \in FileOf(Nat) /\ file'.buf = file.buf \o data
          /\ file'.disk = file.disk /\ ok' = TRUE
      <3>1. r.ok = TRUE /\ Takes(file, r.file, data, Nat)
        BY <1>2, <1>9, <2>0, AppendFits
      <3> QED  BY <1>4, <3>1 DEF Takes
    <2>2. Len(file'.buf) <= BufferSize
      BY <1>2, <1>3, <1>9, <2>1, ConcatProperties
    <2>3. TypeOK'
      BY <1>1, <1>8, <2>1, <2>2 DEF TypeOK, FileOf
    <2>4. Ordered((file.disk \o file.buf) \o data, given + n)
      BY <1>1, <1>7, OrderedConcat DEF FileInv
    <2>5. file'.disk \o file'.buf = (file.disk \o file.buf) \o data
      <3> DEFINE d == file.disk
                 b == file.buf
      <3>1. d \in Seq(Nat) /\ b \in Seq(Nat)
        BY <1>2
      <3> HIDE DEF d, b
      <3>2. (d \o b) \o data = d \o (b \o data)
        BY <2>0, <3>1, Regroup
      <3> QED  BY <2>1, <3>2 DEF d, b
    <2>6. Ordered(file.disk \o file.buf, given)'
      BY <1>1, <2>4, <2>5
    <2>7. PendingKept'
      <3>1. Len(pending') <= BufferSize => Len(pending) <= BufferSize
        BY <1>1, <1>2, <1>8
      <3>2. Len(pending) <= BufferSize => file'.buf = pending'
        BY <1>5, <2>1 DEF PendingKept, FileInv
      <3> QED  BY <3>1, <3>2 DEF PendingKept
    <2> QED  BY <2>3, <2>6, <2>7 DEF FileInv
  <1>10. CASE Len(file.buf) + Len(data) > BufferSize
    <2>1. PICK p \in Prefixes(file.buf \o first), q \in Prefixes(rest) :
            /\ Leaves(file, r.file, q, p, Nat) \/ Leaves(file, r.file, <<>>, p \o q, Nat)
            /\ Len(r.file.buf) <= BufferSize
            /\ r.ok \in BOOLEAN
      BY <1>1, <1>2, <1>3, <1>10, AppendOverflows
    <2>2. TypeOK'
      <3>1. file' \in FileOf(Nat) /\ Len(file'.buf) <= BufferSize
        BY <1>4, <2>1 DEF Leaves
      <3> QED  BY <1>1, <1>4, <1>8, <2>1, <3>1 DEF TypeOK, FileOf
    <2>3. room \in Nat /\ room <= n
      BY <1>1, <1>2, <1>3, <1>10
    <2>4. Ordered(first, given + room) /\ \A i \in DOMAIN first : given < first[i]
      <3>1. 0 + 1 = 1 /\ given + 0 = given /\ 0 <= room
        BY <1>1, <2>3
      <3>2. LET s == SubSeq(data, 0 + 1, room)
            IN  Ordered(s, given + room) /\ \A i \in DOMAIN s : given + 0 < s[i]
        BY <1>1, <2>3, <3>1, NextBytes DEF data
      <3> QED  BY <3>1, <3>2
    <2>5. Ordered(rest, given + n) /\ \A i \in DOMAIN rest : given + room < rest[i]
      <3>1. n \in Nat /\ n <= n
        BY <1>1
      <3> HIDE DEF room
      <3>2. LET s == SubSeq(data, room + 1, n)
            IN  Ordered(s, given + n) /\ \A i \in DOMAIN s : given + room < s[i]
        BY <1>1, <2>3, <3>1, NextBytes DEF data
      <3> QED  BY <1>3, <3>2
    <2> HIDE DEF first, rest, room
    <2>6. given + room \in Nat /\ given + room <= given + n /\ given + n \in Nat
            /\ given <= given + room
      BY <1>1, <2>3
    <2>7. first \in Seq(Nat) /\ rest \in Seq(Nat)
      BY <2>4, <2>5 DEF Ordered
    <2>8. file.buf \o first \in Seq(Nat)
      BY <1>2, <2>7, ConcatProperties
    <2>9. p \in Seq(Nat) /\ q \in Seq(Nat)
      BY <2>7, <2>8, PrefixType
    <2>10. Ordered(file.disk \o p, given + room)
      <3>1. Ordered((file.disk \o file.buf) \o first, given + room)
        BY <1>1, <2>4, <2>6, OrderedConcat DEF FileInv
      <3>2. (file.disk \o file.buf) \o first = file.disk \o (file.buf \o first)
        <4> DEFINE d == file.disk
                   b == file.buf
        <4>1. d \in Seq(Nat) /\ b \in Seq(Nat)
          BY <1>2
        <4> HIDE DEF d, b
        <4>2. (d \o b) \o first = d \o (b \o first)
          BY <2>7, <4>1, Regroup
        <4> QED  BY <4>2 DEF d, b
      <3>3. file.disk \o p \in Prefixes(file.disk \o (file.buf \o first))
        BY <1>2, <2>8, PrefixBehind
      <3>4. Ordered(file.disk \o (file.buf \o first), given + room)
        BY <3>1, <3>2
      <3> QED  BY <3>3, <3>4, OrderedPrefix
    <2>11. Ordered(q, given + n) /\ \A i \in DOMAIN q : given + room < q[i]
      <3>1. Ordered(q, given + n)
        BY <2>5, OrderedPrefix
      <3>2. /\ \A i \in 1..Len(q) : q[i] = rest[i]
            /\ Len(q) <= Len(rest)
            /\ DOMAIN q = 1..Len(q) /\ DOMAIN rest = 1..Len(rest)
            /\ Len(q) \in Nat /\ Len(rest) \in Nat
        BY <2>7, <2>9, PrefixType, LenProperties
      <3>3. \A i \in DOMAIN q : i \in DOMAIN rest /\ q[i] = rest[i]
        BY <3>2
      <3> QED  BY <2>5, <3>1, <3>3
    <2>12. Ordered((file.disk \o p) \o q, given + n)
      BY <2>6, <2>10, <2>11, OrderedConcat
    <2>13. file'.disk \o file'.buf = (file.disk \o p) \o q
      <3> DEFINE d == file.disk
      <3>1. d \in Seq(Nat) /\ <<>> \in Seq(Nat)
        BY <1>2
      <3>2. \/ file'.buf = q /\ file'.disk = d \o p
            \/ file'.buf = <<>> /\ file'.disk = d \o (p \o q)
        BY <1>4, <2>1 DEF Leaves
      <3> HIDE DEF d
      <3>3. (d \o p) \o q = d \o (p \o q)
        BY <2>9, <3>1, Regroup
      <3>4. d \o (p \o q) \in Seq(Nat)
        BY <2>9, <3>1, ConcatProperties
      <3>5. (d \o (p \o q)) \o <<>> = d \o (p \o q)
        BY <3>4, ConcatEmptySeq
      <3> QED  BY <3>2, <3>3, <3>5 DEF d
    <2>14. Ordered(file.disk \o file.buf, given)'
      BY <1>1, <2>12, <2>13
    <2>15. PendingKept'
      <3>1. Len(pending) > BufferSize \/ Len(pending) = Len(file.buf)
        BY <1>2 DEF FileInv, PendingKept
      <3> QED  BY <1>1, <1>2, <1>3, <1>8, <1>10, <3>1 DEF PendingKept
    <2> QED  BY <2>2, <2>14, <2>15 DEF FileInv
  <1> QED  BY <1>2, <1>3, <1>9, <1>10

LEMMA FileStep == FileInv /\ [Next]_fileVars => FileInv'
  <1>1. CASE UNCHANGED fileVars
    BY <1>1 DEF fileVars, FileInv, TypeOK, PendingKept
  <1> QED  BY <1>1, AppendInv, FlushInv, CloseInv DEF Next

LEMMA FileSound == Spec => []FileInv
  BY FileInit, FileStep, PTL DEF Spec

----------------------------------------------------------------------------------
\* The buffer never takes more than it has room for.
THEOREM FileTypes == Spec => []TypeOK
  <1>1. FileInv => TypeOK
    BY DEF FileInv
  <1> QED  BY <1>1, FileSound, PTL

\* Whatever writes fail, the file is some of the appended bytes in their order, none of
\* them twice: a flush that fails gives the buffer up, and Append goes on behind it.
THEOREM BytesInOrder == Spec => []InOrder
  <1>1. FileInv => InOrder
    BY DEF FileInv, InOrder, Ordered
  <1> QED  BY <1>1, FileSound, PTL

\* A Flush or Close that returns OK has put on the disk all that was appended since the
\* one before, as long as that fits the buffer.
THEOREM FlushIsWhole == Spec => FlushedOnDisk
  <1> DEFINE Whole ==
        pending # <<>> /\ pending' = <<>> /\ ok' /\ Len(pending) <= BufferSize
          => file'.disk = file.disk \o pending
  <1>1. FileInv /\ [Next]_fileVars => [Whole]_fileVars
    <2> SUFFICES ASSUME FileInv, Next PROVE Whole
      BY DEF fileVars
    <2>1. ASSUME NEW n \in Sizes, AppendBytes(n)
          PROVE  pending' # <<>>
      <3> DEFINE data == [i \in 1..n |-> given + i]
      <3>1. n \in Nat \ {0} /\ pending \in Seq(Nat) /\ given \in Nat
        BY SizesAssumption DEF FileInv, TypeOK
      <3>2. data \in Seq(Nat) /\ Len(data) = n
        BY <3>1
      <3> HIDE DEF data
      <3>3. pending' = pending \o data
        BY <2>1 DEF AppendBytes, data
      <3>4. Len(pending') = Len(pending) + n /\ Len(pending) \in Nat
        BY <3>1, <3>2, <3>3, ConcatProperties, LenProperties
      <3>5. Len(pending') # 0
        BY <3>1, <3>4
      <3> QED  BY <3>5, EmptySeq
    <2>2. CASE Flush
      <3>1. PICK r \in FlushBuffer(file) : file' = r.file /\ ok' = r.ok
        BY <2>2 DEF Flush, Returns
      <3>2. PICK p \in Prefixes(file.buf) :
              Leaves(file, r.file, <<>>, p, Nat) /\ r.ok = (p = file.buf)
        BY FileTyped, FlushOutcome DEF FileInv
      <3> QED  BY <3>1, <3>2 DEF Leaves, FileInv, PendingKept
    <2>3. CASE Close
      <3>1. PICK r \in CloseFile(file) : file' = r.file /\ ok' = r.ok
        BY <2>3 DEF Close, Returns
      <3>2. PICK p \in Prefixes(file.buf) :
              Leaves(file, r.file, <<>>, p, Nat) /\ (r.ok => p = file.buf)
        BY FileTyped, CloseOutcome DEF FileInv
      <3> QED  BY <3>1, <3>2 DEF Leaves, FileInv, PendingKept
    <2> QED  BY <2>1, <2>2, <2>3 DEF Next
  <1> QED  BY <1>1, FileSound, PTL DEF Spec, FlushedOnDisk
==================================================================================
