----------------------------- MODULE WritableFileLemmas -----------------------------
(***************************************************************************)
(* What the operations of a WritableFile leave in its buffer and on the    *)
(* disk, for a buffer of any size and bytes of any kind.  WritableFile is  *)
(* part of WritableFileSpec and of CurrentFile, whose proofs cite this.    *)
(***************************************************************************)
EXTENDS WritableFile, SequenceTheorems, TLAPS

FileOf(T) == [buf : Seq(T), disk : Seq(T), open : BOOLEAN]

----------------------------------------------------------------------------------
(***************************************************************************)
(* Prefixes.                                                               *)
(***************************************************************************)
LEMMA Regroup ==
  ASSUME NEW T, NEW a, NEW b, NEW c, a \in Seq(T), b \in Seq(T), c \in Seq(T)
  PROVE  (a \o b) \o c = a \o (b \o c)
  OBVIOUS

\* A part of a sequence, from behind position a to position b.
LEMMA SliceType ==
  ASSUME NEW T, NEW s \in Seq(T), NEW a \in Nat, NEW b \in Nat, b <= Len(s), a <= b
  PROVE  /\ SubSeq(s, a + 1, b) \in Seq(T)
         /\ Len(SubSeq(s, a + 1, b)) = b - a
         /\ \A i \in 1..(b - a) : SubSeq(s, a + 1, b)[i] = s[a + i]
  <1> DEFINE m == a + 1
  <1>1. m \in Int /\ b \in Int /\ Len(s) \in Nat
    BY LenProperties
  <1>2. \A i \in m..b : s[i] \in T
    <2>1. \A i \in m..b : i \in 1..Len(s)
      BY <1>1
    <2> QED  BY <2>1, ElementOfSeq
  <1> HIDE DEF m
  <1>3. /\ SubSeq(s, m, b) \in Seq(T)
        /\ Len(SubSeq(s, m, b)) = IF m <= b THEN b - m + 1 ELSE 0
        /\ \A i \in 1..(b - m + 1) : SubSeq(s, m, b)[i] = s[m + i - 1]
    BY <1>1, <1>2, SubSeqProperties
  <1>4. b - m + 1 = b - a
    BY DEF m
  <1>5. \A i \in 1..(b - a) : m + i - 1 = a + i
    BY DEF m
  <1>6. Len(SubSeq(s, m, b)) = b - a
    BY <1>1, <1>3, <1>4 DEF m
  <1> QED  BY <1>3, <1>4, <1>5, <1>6 DEF m

LEMMA PrefixType ==
  ASSUME NEW T, NEW s \in Seq(T), NEW p \in Prefixes(s)
  PROVE  /\ p \in Seq(T)
         /\ Len(p) <= Len(s)
         /\ \A i \in 1..Len(p) : p[i] = s[i]
  <1>1. PICK l \in 0..Len(s) : p = SubSeq(s, 1, l)
    BY DEF Prefixes
  <1>2. Len(s) \in Nat /\ 0 + 1 = 1 /\ l \in Nat /\ l <= Len(s) /\ 0 <= l
    BY LenProperties
  <1>3. /\ SubSeq(s, 1, l) \in Seq(T) /\ Len(SubSeq(s, 1, l)) = l - 0
        /\ \A i \in 1..(l - 0) : SubSeq(s, 1, l)[i] = s[0 + i]
    BY <1>2, SliceType
  <1> QED  BY <1>1, <1>2, <1>3

LEMMA SameLengthPrefix ==
  ASSUME NEW T, NEW s \in Seq(T), NEW p \in Prefixes(s)
  PROVE  Len(p) = Len(s) <=> p = s
  <1>1. p \in Seq(T) /\ \A i \in 1..Len(p) : p[i] = s[i]
    BY PrefixType
  <1>2. Len(p) = Len(s) => p = s
    BY <1>1, SeqEqual
  <1> QED  BY <1>2

LEMMA WholeIsPrefix ==
  ASSUME NEW T, NEW s \in Seq(T)
  PROVE  s \in Prefixes(s) /\ <<>> \in Prefixes(s)
  <1>1. Len(s) \in Nat /\ Len(s) \in 0..Len(s) /\ 0 \in 0..Len(s)
    BY LenProperties
  <1>2. SubSeq(s, 1, Len(s)) = s
    BY SubSeqFull
  <1>3. SubSeq(s, 1, 0) = <<>>
    BY SubSeqEmpty
  <1> QED  BY <1>1, <1>2, <1>3 DEF Prefixes

\* A prefix of what follows s makes a prefix of the whole.
LEMMA PrefixBehind ==
  ASSUME NEW T, NEW s \in Seq(T), NEW t \in Seq(T), NEW p \in Prefixes(t)
  PROVE  s \o p \in Prefixes(s \o t)
  <1> DEFINE st == s \o t
             l == Len(s) + Len(p)
             u == SubSeq(st, 1, l)
  <1>1. p \in Seq(T) /\ Len(p) <= Len(t) /\ \A i \in 1..Len(p) : p[i] = t[i]
    BY PrefixType
  <1>2. Len(s) \in Nat /\ Len(t) \in Nat /\ Len(p) \in Nat
    BY <1>1, LenProperties
  <1>3. /\ st \in Seq(T) /\ Len(st) = Len(s) + Len(t)
        /\ \A i \in 1..(Len(s) + Len(t)) : st[i] = IF i <= Len(s) THEN s[i] ELSE t[i - Len(s)]
    BY ConcatProperties
  <1>4. /\ s \o p \in Seq(T) /\ Len(s \o p) = l
        /\ \A i \in 1..l : (s \o p)[i] = IF i <= Len(s) THEN s[i] ELSE p[i - Len(s)]
    BY <1>1, ConcatProperties
  <1>5. l \in 0..Len(st)
    BY <1>1, <1>2, <1>3
  <1>6. u \in Prefixes(st)
    BY <1>5 DEF Prefixes
  <1> HIDE DEF st, u
  <1>7. u \in Seq(T) /\ \A i \in 1..Len(u) : u[i] = st[i]
    BY <1>3, <1>6, PrefixType
  <1>8. Len(u) = l
    <2>1. 0 + 1 = 1 /\ l \in Nat /\ l <= Len(st) /\ 0 <= l
      BY <1>2, <1>3, <1>5
    <2>2. Len(SubSeq(st, 1, l)) = l - 0
      BY <1>3, <2>1, SliceType
    <2> QED  BY <2>1, <2>2 DEF u
  <1>9. \A i \in 1..l : (s \o p)[i] = u[i]
    <2> SUFFICES ASSUME NEW i \in 1..l PROVE (s \o p)[i] = u[i]
      OBVIOUS
    <2>1. i \in 1..(Len(s) + Len(t)) /\ i \in Nat
      BY <1>1, <1>2
    <2>2. u[i] = st[i]
      BY <1>7, <1>8
    <2>3. CASE i <= Len(s)
      BY <1>3, <1>4, <2>1, <2>2, <2>3
    <2>4. CASE ~ (i <= Len(s))
      <3>1. i - Len(s) \in 1..Len(p)
        BY <1>2, <2>1, <2>4
      <3>2. p[i - Len(s)] = t[i - Len(s)]
        BY <1>1, <3>1
      <3> QED  BY <1>3, <1>4, <2>1, <2>2, <2>4, <3>2
    <2> QED  BY <2>3, <2>4
  <1>10. s \o p = u
    BY <1>4, <1>7, <1>8, <1>9, SeqEqual
  <1> QED  BY <1>6, <1>10 DEF st

----------------------------------------------------------------------------------
(***************************************************************************)
(* The operations.                                                         *)
(***************************************************************************)
\* What an operation leaves of file f: g, with these bytes in the buffer and those
\* behind what was on the disk.
Leaves(f, g, kept, written, T) ==
  /\ g \in FileOf(T)
  /\ g.buf = kept
  /\ g.disk = f.disk \o written

\* The data is in the buffer, and nothing was written.
Takes(f, g, data, T) ==
  /\ g \in FileOf(T)
  /\ g.buf = f.buf \o data
  /\ g.disk = f.disk
  /\ g.open = f.open

LEMMA FileFields ==
  ASSUME NEW T, NEW f \in FileOf(T)
  PROVE  f.buf \in Seq(T) /\ f.disk \in Seq(T) /\ f.open \in BOOLEAN
  BY DEF FileOf

\* write(2) hands on a prefix, all of it if the call returns OK, and nothing of it
\* without a descriptor.
LEMMA WriteOutcome ==
  ASSUME NEW T, NEW f \in FileOf(T), NEW data \in Seq(T),
         NEW r \in WriteUnbuffered(f, data)
  PROVE  \E p \in Prefixes(data) :
           /\ Leaves(f, r.file, f.buf, p, T)
           /\ r.file.open = f.open
           /\ r.ok = (p = data)
           /\ ~ f.open => p = <<>>
  <1>1. PICK p \in Prefixes(data) :
          /\ \/ p = data /\ (f.open \/ data = <<>>)
             \/ p # data /\ (IF f.open THEN WritesMayFail ELSE p = <<>>)
          /\ r = [file |-> [f EXCEPT !.disk = @ \o p], ok |-> p = data]
    BY DEF WriteUnbuffered
  <1>2. p \in Seq(T) /\ f.disk \in Seq(T)
    BY PrefixType, FileFields
  <1> DEFINE y == f.disk \o p
  <1>3. y \in Seq(T)
    BY <1>2, ConcatProperties
  <1>4. r.file = [f EXCEPT !.disk = y] /\ r.ok = (p = data)
    BY <1>1
  <1> HIDE DEF y
  <1>5. r.file \in FileOf(T) /\ r.file.buf = f.buf /\ r.file.disk = y /\ r.file.open = f.open
    BY <1>3, <1>4 DEF FileOf
  <1> QED  BY <1>1, <1>4, <1>5 DEF Leaves, y

\* The buffer is empty afterwards, and a prefix of it is on the disk.
LEMMA FlushOutcome ==
  ASSUME NEW T, NEW f \in FileOf(T), NEW r \in FlushBuffer(f)
  PROVE  \E p \in Prefixes(f.buf) :
           /\ Leaves(f, r.file, <<>>, p, T)
           /\ r.file.open = f.open
           /\ r.ok = (p = f.buf)
           /\ ~ f.open => p = <<>>
  <1>1. PICK w \in WriteUnbuffered(f, f.buf) :
          r = [file |-> [w.file EXCEPT !.buf = <<>>], ok |-> w.ok]
    BY DEF FlushBuffer
  <1>2. f.buf \in Seq(T) /\ <<>> \in Seq(T)
    BY FileFields
  <1>3. PICK p \in Prefixes(f.buf) :
          /\ Leaves(f, w.file, f.buf, p, T)
          /\ w.file.open = f.open
          /\ w.ok = (p = f.buf)
          /\ ~ f.open => p = <<>>
    BY <1>2, WriteOutcome
  <1>4. r.file = [w.file EXCEPT !.buf = <<>>] /\ r.ok = w.ok /\ w.file \in FileOf(T)
    BY <1>1, <1>3 DEF Leaves
  <1>5. /\ r.file \in FileOf(T) /\ r.file.buf = <<>>
        /\ r.file.disk = w.file.disk /\ r.file.open = w.file.open
    BY <1>2, <1>4 DEF FileOf
  <1> QED  BY <1>3, <1>4, <1>5 DEF Leaves

\* Close flushes the buffer and gives the descriptor up, whatever it returns.
LEMMA CloseOutcome ==
  ASSUME NEW T, NEW f \in FileOf(T), NEW r \in CloseFile(f)
  PROVE  \E p \in Prefixes(f.buf) :
           /\ Leaves(f, r.file, <<>>, p, T)
           /\ r.file.open = FALSE
           /\ r.ok \in BOOLEAN
           /\ r.ok => p = f.buf
           /\ ~ f.open => p = <<>>
  <1>1. PICK w \in FlushBuffer(f), closed \in BOOLEAN :
          r = [file |-> [w.file EXCEPT !.open = FALSE], ok |-> w.ok /\ closed]
    BY DEF CloseFile, FileOf
  <1>2. PICK p \in Prefixes(f.buf) :
          /\ Leaves(f, w.file, <<>>, p, T)
          /\ w.ok = (p = f.buf)
          /\ ~ f.open => p = <<>>
    BY FlushOutcome
  <1>3. r.file = [w.file EXCEPT !.open = FALSE] /\ r.ok = (w.ok /\ closed)
          /\ w.file \in FileOf(T)
    BY <1>1, <1>2 DEF Leaves
  <1>4. /\ r.file \in FileOf(T) /\ r.file.buf = w.file.buf
        /\ r.file.disk = w.file.disk /\ r.file.open = FALSE
    BY <1>3 DEF FileOf
  <1> QED  BY <1>2, <1>3, <1>4 DEF Leaves

\* Data that fits goes into the buffer, and Append returns OK.
LEMMA AppendFits ==
  ASSUME NEW T, NEW f \in FileOf(T), NEW data \in Seq(T),
         Len(f.buf) + Len(data) <= BufferSize, NEW r \in AppendTo(f, data)
  PROVE  r.ok = TRUE /\ Takes(f, r.file, data, T)
  <1>1. /\ Len(data) \in Nat /\ Len(f.buf) \in Nat /\ BufferSize \in Nat
        /\ f.buf \o data \in Seq(T)
    BY FileFields, LenProperties, ConcatProperties, BufferSizeAssumption
  <1>2. Len(data) <= BufferSize - Len(f.buf)
    BY <1>1
  <1>3. SubSeq(data, 1, Len(data)) = data
    BY SubSeqFull
  <1>4. SubSeq(data, Len(data) + 1, Len(data)) = <<>>
    BY <1>1, SubSeqEmpty
  <1>5. r = [file |-> [f EXCEPT !.buf = @ \o data], ok |-> TRUE]
    BY <1>2, <1>3, <1>4 DEF AppendTo
  <1> DEFINE y == f.buf \o data
  <1>6. r.ok = TRUE /\ r.file = [f EXCEPT !.buf = y]
    BY <1>5
  <1> HIDE DEF y
  <1> QED  BY <1>1, <1>6 DEF FileOf, Takes, y

\* Data that does not fit: the part of it that fills the buffer is flushed with what
\* was there, or a prefix of that; of the rest a prefix is kept or written.  Nothing is
\* written out of order, and never twice.
LEMMA AppendOverflows ==
  ASSUME NEW T, NEW f \in FileOf(T), NEW data \in Seq(T),
         Len(f.buf) <= BufferSize, Len(f.buf) + Len(data) > BufferSize,
         NEW r \in AppendTo(f, data)
  PROVE  LET room == BufferSize - Len(f.buf)
             rest == SubSeq(data, room + 1, Len(data))
         IN  \E p \in Prefixes(f.buf \o SubSeq(data, 1, room)), q \in Prefixes(rest) :
               /\ Leaves(f, r.file, q, p, T) \/ Leaves(f, r.file, <<>>, p \o q, T)
               /\ Len(r.file.buf) <= BufferSize
               /\ r.ok \in BOOLEAN
  <1> DEFINE room == BufferSize - Len(f.buf)
             rest == SubSeq(data, room + 1, Len(data))
             first == SubSeq(data, 1, room)
             full == f.buf \o first
             filled == [f EXCEPT !.buf = full]
             Outcome(p, q) ==
               /\ Leaves(f, r.file, q, p, T) \/ Leaves(f, r.file, <<>>, p \o q, T)
               /\ Len(r.file.buf) <= BufferSize
               /\ r.ok \in BOOLEAN
  <1>1. /\ Len(data) \in Nat /\ Len(f.buf) \in Nat /\ BufferSize \in Nat \ {0}
        /\ f.buf \in Seq(T) /\ f.disk \in Seq(T) /\ <<>> \in Seq(T) /\ Len(<<>>) = 0
    BY FileFields, LenProperties, BufferSizeAssumption
  <1>2. room \in Nat /\ room < Len(data) /\ ~ (Len(data) <= room)
    BY <1>1
  <1> HIDE DEF room
  <1>3. first \in Seq(T)
    <2>1. 0 + 1 = 1 /\ 0 <= room /\ room <= Len(data)
      BY <1>1, <1>2
    <2> QED  BY <1>2, <2>1, SliceType
  <1>4. rest \in Seq(T) /\ rest # <<>> /\ Len(rest) \in Nat
    <2>1. rest \in Seq(T) /\ Len(rest) = Len(data) - room
      BY <1>1, <1>2, SliceType
    <2> HIDE DEF rest
    <2>2. Len(rest) \in Nat /\ Len(rest) # 0
      BY <1>1, <1>2, <2>1
    <2> QED  BY <1>1, <2>1, <2>2
  <1>5. rest \in Prefixes(rest) /\ <<>> \in Prefixes(rest)
    BY <1>4, WholeIsPrefix
  <1>6. full \in Seq(T)
    BY <1>1, <1>3, ConcatProperties
  <1>7. PICK w \in FlushBuffer(filled) :
          r \in IF w.ok THEN {w}
                ELSE IF Len(rest) < BufferSize
                     THEN {[file |-> [w.file EXCEPT !.buf = rest], ok |-> TRUE]}
                     ELSE WriteUnbuffered(w.file, rest)
    BY <1>2, <1>4 DEF AppendTo, room
  <1> HIDE DEF rest, first, full, filled
  <1>8. filled \in FileOf(T) /\ filled.buf = full /\ filled.disk = f.disk
    BY <1>6 DEF filled, FileOf
  <1>9. PICK p \in Prefixes(full) :
          Leaves(filled, w.file, <<>>, p, T) /\ w.ok \in BOOLEAN
    BY <1>8, FlushOutcome
  <1>10. /\ w.file \in FileOf(T) /\ w.file.buf = <<>> /\ w.file.disk = f.disk \o p
         /\ p \in Seq(T)
    BY <1>6, <1>8, <1>9, PrefixType DEF Leaves
  <1>11. \E q \in Prefixes(rest) : Outcome(p, q)
    <2>1. CASE w.ok
      <3>1. r = w
        BY <1>7, <2>1
      <3>2. Leaves(f, r.file, <<>>, p, T) /\ Len(r.file.buf) <= BufferSize
        BY <1>1, <1>10, <3>1 DEF Leaves
      <3> QED  BY <1>5, <1>9, <3>1, <3>2
    <2>2. CASE ~ w.ok /\ Len(rest) < BufferSize
      <3>1. r.file = [w.file EXCEPT !.buf = rest] /\ r.ok = TRUE
        BY <1>7, <2>2
      <3>2. /\ r.file \in FileOf(T) /\ r.file.buf = rest /\ r.file.disk = w.file.disk
        BY <1>4, <1>10, <3>1 DEF FileOf
      <3>3. Leaves(f, r.file, rest, p, T) /\ Len(r.file.buf) <= BufferSize
        BY <1>1, <1>4, <1>10, <2>2, <3>2 DEF Leaves
      <3> QED  BY <1>5, <3>1, <3>3
    <2>3. CASE ~ w.ok /\ ~ (Len(rest) < BufferSize)
      <3>1. r \in WriteUnbuffered(w.file, rest)
        BY <1>7, <2>3
      <3>2. PICK q \in Prefixes(rest) :
              Leaves(w.file, r.file, w.file.buf, q, T) /\ r.ok = (q = rest)
        BY <1>4, <1>10, <3>1, WriteOutcome
      <3>3. p \in Seq(T) /\ q \in Seq(T)
        BY <1>4, <1>10, PrefixType
      <3>4. (f.disk \o p) \o q = f.disk \o (p \o q)
        <4> DEFINE before == f.disk
        <4>1. before \in Seq(T)
          BY <1>1
        <4> HIDE DEF before
        <4>2. (before \o p) \o q = before \o (p \o q)
          BY <3>3, <4>1, Regroup
        <4> QED  BY <4>2 DEF before
      <3>5. Leaves(f, r.file, <<>>, p \o q, T) /\ Len(r.file.buf) <= BufferSize
        BY <1>1, <1>10, <3>2, <3>4 DEF Leaves
      <3> QED  BY <3>2, <3>5
    <2> QED  BY <1>9, <2>1, <2>2, <2>3
  <1> QED  BY <1>11 DEF rest, first, full, room
==================================================================================
