------------------------------ MODULE CurrentFileProofs ------------------------------
(***************************************************************************)
(* SetCurrentFile makes a register of CURRENT, for databases of any name,  *)
(* whatever fails and wherever the process ends; and what Recover opens is *)
(* the manifest that was named last, unless the name has a slash.          *)
(***************************************************************************)
EXTENDS CurrentFile, WritableFileLemmas, WellFoundedInduction

----------------------------------------------------------------------------------
(***************************************************************************)
(* Names.                                                                  *)
(***************************************************************************)
LEMMA LeastNumber ==
  ASSUME NEW S \in SUBSET Nat, S # {}
  PROVE  Min(S) \in S /\ \A n \in S : Min(S) <= n
  <1>1. PICK m \in S : \A n \in S : ~ (<<n, m>> \in OpToRel(<, Nat))
    BY NatLessThanWellFounded, WFMin
  <1>2. \A n \in S : ~ (n < m)
    BY <1>1 DEF OpToRel
  <1>3. \E k \in S : \A n \in S : k <= n
    BY <1>2
  <1> QED  BY <1>3 DEF Min

LEMMA FirstSlashIs ==
  ASSUME NEW text \in Seq(Words)
  PROVE  LET slashes == {i \in 1..Len(text) : text[i] = "/"}
         IN  /\ slashes = {} => FirstSlash(text) = 0
             /\ slashes # {} => /\ FirstSlash(text) \in slashes
                                /\ \A i \in slashes : FirstSlash(text) <= i
  <1> DEFINE slashes == {i \in 1..Len(text) : text[i] = "/"}
  <1>1. FirstSlash(text) = IF slashes # {} THEN Min(slashes) ELSE 0
    BY DEF FirstSlash, SelectInSeq
  <1>2. slashes \in SUBSET Nat
    OBVIOUS
  <1> HIDE DEF slashes
  <1>3. slashes # {} => Min(slashes) \in slashes /\ \A i \in slashes : Min(slashes) <= i
    BY <1>2, LeastNumber
  <1>4. slashes = {} => FirstSlash(text) = 0
    BY <1>1
  <1>5. slashes # {} => /\ FirstSlash(text) \in slashes
                        /\ \A i \in slashes : FirstSlash(text) <= i
    BY <1>1, <1>3
  <1> QED  BY <1>4, <1>5 DEF slashes

\* The path of a manifest.
LEMMA DescriptorType ==
  ASSUME NEW d \in DbNames, NEW n \in Numbers
  PROVE  LET name == DescriptorFileName(d, n)
         IN  /\ d \in Seq(Words) /\ Len(d) \in Nat \ {0}
             /\ name \in Seq(Words)
             /\ Len(name) = Len(d) + 3
             /\ \A i \in 1..Len(d) : name[i] = d[i]
             /\ name[Len(d) + 1] = "/"
             /\ name[Len(d) + 2] = "MANIFEST-"
             /\ name[Len(d) + 3] = n
  <1> DEFINE tail == <<"/", "MANIFEST-", n>>
             name == d \o tail
  <1>1. d \in Seq(Words) /\ d # <<>> /\ n \in Words
    BY NamesAssumption, NumbersAssumption
  <1>2. Len(d) \in Nat \ {0}
    BY <1>1, EmptySeq
  <1>3. tail \in Seq(Words) /\ Len(tail) = 3
          /\ tail[1] = "/" /\ tail[2] = "MANIFEST-" /\ tail[3] = n
    <2>1. "/" \in Words /\ "MANIFEST-" \in Words
      BY WordsAssumption
    <2> QED  BY <1>1, <2>1
  <1> HIDE DEF tail
  <1>4. /\ name \in Seq(Words) /\ Len(name) = Len(d) + 3
        /\ \A i \in 1..(Len(d) + 3) : name[i] = IF i <= Len(d) THEN d[i] ELSE tail[i - Len(d)]
    <2>1. d \in Seq(Words) /\ tail \in Seq(Words)
      BY <1>1, <1>3
    <2>2. /\ d \o tail \in Seq(Words) /\ Len(d \o tail) = Len(d) + Len(tail)
          /\ \A i \in 1..(Len(d) + Len(tail)) :
               (d \o tail)[i] = IF i <= Len(d) THEN d[i] ELSE tail[i - Len(d)]
      BY <2>1, ConcatProperties
    <2>3. Len(tail) = 3
      BY <1>3
    <2> QED  BY <2>2, <2>3
  <1> HIDE DEF name
  <1>5. \A i \in 1..Len(d) : name[i] = d[i]
    BY <1>2, <1>4
  <1>6. name[Len(d) + 1] = tail[1] /\ name[Len(d) + 2] = tail[2] /\ name[Len(d) + 3] = tail[3]
    BY <1>2, <1>4
  <1> QED  BY <1>1, <1>2, <1>3, <1>4, <1>5, <1>6 DEF DescriptorFileName, name, tail

\* The name put into CURRENT: it is not empty and it fits the buffer.
LEMMA ManifestNameType ==
  ASSUME NEW d \in DbNames, NEW n \in Numbers
  PROVE  /\ FirstSlash(DescriptorFileName(d, n)) \in 1..(Len(d) + 1)
         /\ ManifestName(d, n) \in Seq(Words)
         /\ Len(ManifestName(d, n)) = Len(d) + 3 - FirstSlash(DescriptorFileName(d, n))
         /\ \A i \in 1..Len(ManifestName(d, n)) :
              ManifestName(d, n)[i] =
                DescriptorFileName(d, n)[FirstSlash(DescriptorFileName(d, n)) + i]
         /\ ManifestName(d, n) # <<>>
         /\ Len(ManifestName(d, n)) <= BufferSize
  <1> DEFINE name == DescriptorFileName(d, n)
             k == FirstSlash(name)
  <1>1. /\ Len(d) \in Nat \ {0} /\ name \in Seq(Words) /\ Len(name) = Len(d) + 3
        /\ name[Len(d) + 1] = "/"
    BY DescriptorType
  <1> HIDE DEF name
  <1>2. k \in 1..(Len(d) + 1)
    <2> DEFINE slashes == {i \in 1..Len(name) : name[i] = "/"}
    <2>1. Len(d) + 1 \in slashes
      BY <1>1
    <2>2. slashes # {} => k \in slashes /\ \A i \in slashes : k <= i
      BY <1>1, FirstSlashIs
    <2>3. k \in 1..Len(name) /\ k <= Len(d) + 1
      BY <2>1, <2>2
    <2> QED  BY <1>1, <2>3
  <1> HIDE DEF k
  <1>3. k \in Nat /\ Len(d) + 3 \in Nat /\ k <= Len(d) + 3 /\ Len(d) + 3 <= Len(name)
    BY <1>1, <1>2
  <1>4. /\ SubSeq(name, k + 1, Len(d) + 3) \in Seq(Words)
        /\ Len(SubSeq(name, k + 1, Len(d) + 3)) = Len(d) + 3 - k
        /\ \A i \in 1..(Len(d) + 3 - k) :
             SubSeq(name, k + 1, Len(d) + 3)[i] = name[k + i]
    BY <1>1, <1>3, SliceType
  <1>5. ManifestName(d, n) = SubSeq(name, k + 1, Len(d) + 3)
    BY <1>1 DEF ManifestName, name, k
  <1> DEFINE m == ManifestName(d, n)
  <1> HIDE DEF m
  <1>6. /\ m \in Seq(Words) /\ Len(m) = Len(d) + 3 - k
        /\ \A i \in 1..Len(m) : m[i] = name[k + i]
    BY <1>4, <1>5 DEF m
  <1>7. Len(m) # 0 /\ Len(m) <= Len(d) + 3
    BY <1>1, <1>2, <1>6
  <1>8. m # <<>>
    BY <1>7, EmptySeq
  <1>9. Len(m) <= BufferSize
    BY <1>1, <1>2, <1>6, NamesFit, BufferSizeAssumption
  <1> QED  BY <1>2, <1>6, <1>8, <1>9 DEF m, k, name

\* Without a slash in the name of the database, the name in CURRENT is that of the
\* manifest within the database's directory; with one, a part of the database's own
\* name comes first.
LEMMA OpenedIs ==
  ASSUME NEW d \in DbNames, NEW n \in Numbers
  PROVE  d \o <<"/">> \o ManifestName(d, n) = DescriptorFileName(d, n)
           <=> FirstSlash(d) = 0
  <1> DEFINE name == DescriptorFileName(d, n)
             m == ManifestName(d, n)
             k == FirstSlash(name)
             ds == d \o <<"/">>
             opened == ds \o m
  <1>1. /\ d \in Seq(Words) /\ Len(d) \in Nat \ {0}
        /\ name \in Seq(Words) /\ Len(name) = Len(d) + 3
        /\ \A i \in 1..Len(d) : name[i] = d[i]
        /\ name[Len(d) + 1] = "/"
    BY DescriptorType
  <1>2. /\ k \in 1..(Len(d) + 1)
        /\ m \in Seq(Words) /\ Len(m) = Len(d) + 3 - k
        /\ \A i \in 1..Len(m) : m[i] = name[k + i]
    BY ManifestNameType
  <1>3. /\ ds \in Seq(Words) /\ Len(ds) = Len(d) + 1
        /\ \A i \in 1..(Len(d) + 1) : ds[i] = IF i <= Len(d) THEN d[i] ELSE "/"
    <2>1. <<"/">> \in Seq(Words) /\ Len(<<"/">>) = 1 /\ <<"/">>[1] = "/"
      BY WordsAssumption
    <2> DEFINE slash == <<"/">>
    <2> HIDE DEF slash
    <2>2. slash \in Seq(Words) /\ Len(slash) = 1 /\ slash[1] = "/"
      BY <2>1 DEF slash
    <2>3. /\ d \o slash \in Seq(Words) /\ Len(d \o slash) = Len(d) + 1
          /\ \A i \in 1..(Len(d) + 1) :
               (d \o slash)[i] = IF i <= Len(d) THEN d[i] ELSE slash[i - Len(d)]
      <3>1. d \in Seq(Words) /\ slash \in Seq(Words)
        BY <1>1, <2>2
      <3>2. /\ d \o slash \in Seq(Words) /\ Len(d \o slash) = Len(d) + Len(slash)
            /\ \A i \in 1..(Len(d) + Len(slash)) :
                 (d \o slash)[i] = IF i <= Len(d) THEN d[i] ELSE slash[i - Len(d)]
        BY <3>1, ConcatProperties
      <3>3. Len(slash) = 1
        BY <2>2
      <3> QED  BY <3>2, <3>3
    <2>4. \A i \in 1..(Len(d) + 1) : ~ (i <= Len(d)) => i - Len(d) = 1
      BY <1>1
    <2> QED  BY <2>2, <2>3, <2>4 DEF slash
  <1>4. FirstSlash(d) = 0 <=> k = Len(d) + 1
    <2> DEFINE inName == {i \in 1..Len(name) : name[i] = "/"}
               inD == {i \in 1..Len(d) : d[i] = "/"}
    <2> HIDE DEF name
    <2>1. k \in inName /\ \A i \in inName : k <= i
      <3>1. Len(d) + 1 \in inName
        BY <1>1
      <3>2. inName # {} => k \in inName /\ \A i \in inName : k <= i
        BY <1>1, FirstSlashIs
      <3> QED  BY <3>1, <3>2
    <2>2. /\ inD = {} => FirstSlash(d) = 0
          /\ inD # {} => FirstSlash(d) \in inD
      BY <1>1, FirstSlashIs
    <2> HIDE DEF k
    <2>3. CASE inD = {}
      <3>1. ~ (k <= Len(d))
        <4> SUFFICES ASSUME k <= Len(d) PROVE FALSE
          OBVIOUS
        <4>1. k \in 1..Len(d) /\ name[k] = "/"
          BY <1>1, <1>2, <2>1
        <4>2. d[k] = "/"
          BY <1>1, <4>1
        <4> QED  BY <2>3, <4>1, <4>2
      <3> QED  BY <1>1, <1>2, <2>2, <2>3, <3>1
    <2>4. CASE inD # {}
      <3>1. PICK i \in inD : TRUE
        BY <2>4
      <3>2. i \in inName /\ i <= Len(d) /\ i \in Nat
        BY <1>1, <3>1
      <3>3. k # Len(d) + 1
        BY <1>1, <1>2, <2>1, <3>2
      <3>4. FirstSlash(d) # 0
        BY <2>2, <2>4
      <3> QED  BY <3>3, <3>4
    <2> QED  BY <2>3, <2>4
  <1> HIDE DEF name, m, k, ds
  <1>5. /\ opened \in Seq(Words) /\ Len(opened) = (Len(d) + 1) + Len(m)
        /\ \A i \in 1..((Len(d) + 1) + Len(m)) :
             opened[i] = IF i <= Len(d) + 1 THEN ds[i] ELSE m[i - (Len(d) + 1)]
    <2>1. ds \in Seq(Words) /\ m \in Seq(Words)
      BY <1>2, <1>3
    <2>2. /\ ds \o m \in Seq(Words) /\ Len(ds \o m) = Len(ds) + Len(m)
          /\ \A i \in 1..(Len(ds) + Len(m)) :
               (ds \o m)[i] = IF i <= Len(ds) THEN ds[i] ELSE m[i - Len(ds)]
      BY <2>1, ConcatProperties
    <2>3. Len(ds) = Len(d) + 1
      BY <1>3
    <2> QED  BY <2>2, <2>3
  <1> HIDE DEF opened
  <1>6. ASSUME opened = name
        PROVE  k = Len(d) + 1
    BY <1>1, <1>2, <1>5, <1>6
  <1>7. ASSUME k = Len(d) + 1
        PROVE  opened = name
    <2>1. Len(m) = 2 /\ Len(opened) = Len(name)
      BY <1>1, <1>2, <1>5, <1>7
    <2>2. ASSUME NEW i \in 1..Len(opened)
          PROVE  opened[i] = name[i]
      <3>1. i \in 1..((Len(d) + 1) + Len(m)) /\ i \in 1..(Len(d) + 3)
        BY <1>1, <2>1
      <3>2. CASE i <= Len(d)
        BY <1>1, <1>3, <1>5, <3>1, <3>2
      <3>3. CASE i = Len(d) + 1
        BY <1>1, <1>3, <1>5, <3>1, <3>3
      <3>4. CASE i > Len(d) + 1
        <4>1. i - (Len(d) + 1) \in 1..Len(m) /\ k + (i - (Len(d) + 1)) = i
          BY <1>1, <1>7, <2>1, <3>1, <3>4
        <4>2. opened[i] = m[i - (Len(d) + 1)]
          BY <1>1, <1>5, <3>1, <3>4
        <4>3. m[i - (Len(d) + 1)] = name[k + (i - (Len(d) + 1))]
          BY <1>2, <4>1
        <4> QED  BY <4>1, <4>2, <4>3
      <3> QED  BY <1>1, <3>1, <3>2, <3>3, <3>4
    <2> QED  BY <1>1, <1>5, <2>1, <2>2, SeqEqual
  <1> QED  BY <1>4, <1>6, <1>7 DEF name, m, ds, opened

----------------------------------------------------------------------------------
(***************************************************************************)
(* Reading in chunks.                                                      *)
(***************************************************************************)
LEMMA PrefixOf ==
  ASSUME NEW T, NEW s \in Seq(T), NEW t \in Seq(T)
  PROVE  IsPrefix(s, t) <=> s \in Prefixes(t)
  <1>1. Len(s) \in Nat /\ Len(t) \in Nat
    BY LenProperties
  <1>2. SubSeq(s, 1, Len(s)) = s
    BY SubSeqFull
  <1>3. ASSUME IsPrefix(s, t) PROVE s \in Prefixes(t)
    <2>1. Len(s) <= Len(t) /\ s = SubSeq(t, 1, Len(s))
      BY <1>2, <1>3 DEF IsPrefix
    <2>2. Len(s) \in 0..Len(t)
      BY <1>1, <2>1
    <2> QED  BY <2>1, <2>2 DEF Prefixes
  <1>4. ASSUME s \in Prefixes(t) PROVE IsPrefix(s, t)
    <2>1. PICK l \in 0..Len(t) : s = SubSeq(t, 1, l)
      BY <1>4 DEF Prefixes
    <2>2. l \in Nat /\ 0 \in Nat /\ 0 <= l /\ l <= Len(t) /\ 0 + 1 = 1 /\ l - 0 = l
      BY <1>1
    <2>3. Len(s) = l
      BY <2>1, <2>2, SliceType
    <2> QED  BY <1>2, <2>1, <2>2, <2>3 DEF IsPrefix
  <1> QED  BY <1>3, <1>4

\* What has been read is a prefix, and one of what is left follows it.
LEMMA ReadOn ==
  ASSUME NEW T, NEW t \in Seq(T), NEW s \in Seq(T), IsPrefix(s, t),
         NEW p \in Prefixes(SubSeq(t, Len(s) + 1, Len(t)))
  PROVE  /\ s \o p \in Seq(T)
         /\ IsPrefix(s \o p, t)
         /\ SubSeq(t, Len(s) + 1, Len(t)) = <<>> => s = t
  <1> DEFINE rest == SubSeq(t, Len(s) + 1, Len(t))
  <1>1. Len(s) \in Nat /\ Len(t) \in Nat /\ Len(s) <= Len(t)
    BY LenProperties DEF IsPrefix
  <1>2. rest \in Seq(T)
    BY <1>1, SliceType
  <1>3. SubSeq(t, 1, Len(s)) = s /\ SubSeq(t, 1, Len(t)) = t
    BY SubSeqFull DEF IsPrefix
  <1>4. s \o rest = t
    <2> DEFINE k == Len(s)
               n == Len(t)
    <2>1. 1 \in 1..n + 1 /\ k \in 1 - 1..n /\ n \in k..n
      BY <1>1
    <2> HIDE DEF k, n
    <2>2. SubSeq(t, 1, k) \o SubSeq(t, k + 1, n) = SubSeq(t, 1, n)
      BY ONLY t \in Seq(T), n = Len(t), <2>1, ConcatAdjacentSubSeq DEF n
    <2> QED  BY <1>3, <2>2 DEF k, n
  <1> HIDE DEF rest
  <1>5. p \in Prefixes(rest)
    BY DEF rest
  <1>6. p \in Seq(T)
    BY <1>2, <1>5, PrefixType
  <1>7. s \o p \in Prefixes(t)
    BY <1>2, <1>4, <1>5, PrefixBehind
  <1>8. s \o p \in Seq(T)
    BY <1>6, ConcatProperties
  <1>9. IsPrefix(s \o p, t)
    BY <1>7, <1>8, PrefixOf
  <1>10. rest = <<>> => s = t
    BY <1>4, ConcatEmptySeq
  <1> QED  BY <1>8, <1>9, <1>10 DEF rest

----------------------------------------------------------------------------------
(***************************************************************************)
(* The inductive invariant.                                                *)
(***************************************************************************)
\* How far the name has got that is being written: into the buffer, onto the disk, and
\* when CURRENT is to be replaced the temporary file is the whole name.
Written ==
  LET name == ManifestName(dbname, number) IN
  /\ pc = "append" => file.buf = <<>> /\ file.disk = <<>>
  /\ pc = "sync" => file.buf = name /\ file.disk = <<>>
  /\ pc = "close" => file.disk = name /\ file.open
  /\ pc \in {"close", "rename"} /\ number \in DOMAIN tmps => tmps[number] = name

\* CURRENT has the name that was given last.
Named == current # NULL => named \in Numbers /\ current = ManifestName(dbname, named)

\* A read has either come to the end of CURRENT or returns no OK.
ReadOk ==
  /\ pc = "read" => ~ got.ok /\ current # NULL
  /\ got.ok => current # NULL /\ got.data = current
  /\ current # NULL => IsPrefix(got.data, current)
  /\ current = NULL => got.data = <<>>

\* A temporary file is that of the call under way or of one that was cut off.
TmpsKnown == \A m \in DOMAIN tmps : m = number \/ m \in cut

CurrentInv == TypeOK /\ Written /\ Named /\ ReadOk /\ TmpsKnown

LEMMA InitInv == Init => CurrentInv
  <1> SUFFICES ASSUME Init PROVE CurrentInv
    OBVIOUS
  <1>1. <<>> \in Seq(Words) /\ [ok |-> FALSE, data |-> <<>>] \in [ok : BOOLEAN, data : Seq(Words)]
    BY EmptySeq
  <1>2. NewFile \in [buf : Seq(Words), disk : Seq(Words), open : BOOLEAN]
    BY <1>1 DEF NewFile
  <1>3. TypeOK
    BY <1>1, <1>2, NumbersAssumption DEF Init, TypeOK
  <1> QED  BY <1>3 DEF Init, CurrentInv, Written, Named, ReadOk, TmpsKnown

LEMMA TypesInv ==
  ASSUME CurrentInv
  PROVE  /\ dbname \in DbNames /\ DOMAIN tmps \subseteq Numbers
         /\ \A m \in DOMAIN tmps : tmps[m] \in Seq(Words)
         /\ number \in Numbers \union {NULL} /\ NULL \notin Numbers
         /\ number = NULL <=> pc \in {"idle", "read"}
         /\ file \in FileOf(Words)
         /\ file.buf \in Seq(Words) /\ file.disk \in Seq(Words)
         /\ <<>> \in Seq(Words)
  <1>1. file \in FileOf(Words)
    BY DEF CurrentInv, TypeOK, FileOf
  <1>2. file.buf \in Seq(Words) /\ file.disk \in Seq(Words)
    BY <1>1, FileFields
  <1> QED  BY <1>1, <1>2, EmptySeq, NumbersAssumption DEF CurrentInv, TypeOK

LEMMA SetInv == ASSUME CurrentInv, NEW n \in Numbers, SetCurrentFile(n) PROVE CurrentInv'
  <1>1. /\ file' \in FileOf(Words) /\ file'.buf = <<>> /\ file'.disk = <<>>
    <2>1. /\ NewFile \in FileOf(Words)
          /\ [NewFile EXCEPT !.open = FALSE] \in FileOf(Words)
          /\ NewFile.buf = <<>> /\ NewFile.disk = <<>>
          /\ [NewFile EXCEPT !.open = FALSE].buf = <<>>
          /\ [NewFile EXCEPT !.open = FALSE].disk = <<>>
      BY EmptySeq DEF NewFile, FileOf
    <2> QED  BY <2>1 DEF SetCurrentFile
  <1>2. /\ DOMAIN tmps' \subseteq DOMAIN tmps \union {n}
        /\ \A m \in DOMAIN tmps' : tmps'[m] \in Seq(Words)
    BY TypesInv DEF SetCurrentFile, WithTmp
  <1>3. n # NULL /\ number = NULL
    BY TypesInv DEF SetCurrentFile
  <1>4. TypeOK'
    BY <1>1, <1>2, <1>3 DEF CurrentInv, TypeOK, SetCurrentFile, FileOf
  <1>5. Written'
    BY <1>1 DEF Written, SetCurrentFile
  <1>6. Named' /\ ReadOk'
    BY DEF CurrentInv, Named, ReadOk, SetCurrentFile
  <1>7. TmpsKnown'
    BY <1>2, <1>3, TypesInv DEF CurrentInv, TmpsKnown, SetCurrentFile
  <1> QED  BY <1>4, <1>5, <1>6, <1>7 DEF CurrentInv

\* What every call on the temporary file is to leave, for the next one to be made.
LEMMA CallInv ==
  ASSUME CurrentInv, NEW outcomes, NEW next \in {"sync", "close", "rename"},
         Call(outcomes, next), pc \in {"append", "sync", "close"},
         \A r \in outcomes :
           /\ r.file \in FileOf(Words)
           /\ r.ok \in BOOLEAN
           /\ ~ (next = "sync" /\ r.ok) => r.file.buf = <<>>
           /\ r.ok /\ next = "sync" => /\ r.file.buf = ManifestName(dbname, number)
                                       /\ r.file.disk = <<>>
           /\ r.ok /\ next # "sync" => r.file.disk = ManifestName(dbname, number) /\ file.open
           /\ r.ok /\ next = "close" => r.file.open
  PROVE  CurrentInv'
  <1> DEFINE name == ManifestName(dbname, number)
  <1>1. PICK r \in outcomes :
          /\ file' = r.file
          /\ tmps' = IF file.open THEN WithTmp(number, r.file.disk) ELSE tmps
          /\ pc' = IF r.ok THEN next ELSE "delete"
    BY DEF Call
  <1>2. UNCHANGED <<dbname, current, number, status, got, named, cut>>
    BY DEF Call
  <1>3. number \in Numbers /\ pc # "idle" /\ pc # "read"
    BY TypesInv
  <1>4. r.file \in FileOf(Words) /\ r.file.disk \in Seq(Words)
    BY FileFields
  <1>5. /\ DOMAIN tmps' \subseteq DOMAIN tmps \union {number}
        /\ \A m \in DOMAIN tmps' : tmps'[m] \in Seq(Words)
        /\ file.open => tmps'[number] = r.file.disk
    BY <1>1, <1>4, TypesInv DEF WithTmp
  <1>6. pc' \in {next, "delete"} /\ pc' # "idle" /\ pc' # "read" /\ pc' # "append"
    BY <1>1
  <1>7. TypeOK'
    <2>1. pc' \in {"close", "delete", "rename", "cleanup"} => file'.buf = <<>>
      BY <1>1
    <2>2. pc' \in {"sync", "close", "rename", "delete"}
      BY <1>6
    <2>3. dbname' \in DbNames /\ DOMAIN tmps' \subseteq Numbers
      BY <1>2, <1>3, <1>5, TypesInv
    <2> QED  BY <1>1, <1>2, <1>3, <1>4, <1>5, <2>1, <2>2, <2>3
             DEF CurrentInv, TypeOK, FileOf
  <1>8. Written'
    BY <1>1, <1>2, <1>5, <1>6 DEF Written
  <1>9. Named' /\ ReadOk'
    BY <1>2, <1>6 DEF CurrentInv, Named, ReadOk
  <1>10. TmpsKnown'
    BY <1>2, <1>5 DEF CurrentInv, TmpsKnown
  <1> QED  BY <1>7, <1>8, <1>9, <1>10 DEF CurrentInv

\* The name fits the buffer.
LEMMA AppendNameInv == ASSUME CurrentInv, AppendName PROVE CurrentInv'
  <1> DEFINE name == ManifestName(dbname, number)
  <1>1. pc = "append" /\ Call(AppendTo(file, name), "sync")
    BY DEF AppendName
  <1>2. /\ file \in FileOf(Words) /\ number \in Numbers /\ dbname \in DbNames
        /\ file.buf = <<>> /\ file.disk = <<>>
    BY <1>1, TypesInv DEF CurrentInv, Written
  <1>3. name \in Seq(Words) /\ Len(name) <= BufferSize
    BY <1>2, ManifestNameType
  <1> HIDE DEF name
  <1>4. ASSUME NEW r \in AppendTo(file, name)
        PROVE  /\ r.file \in FileOf(Words) /\ r.ok = TRUE
               /\ r.file.buf = name /\ r.file.disk = <<>>
    <2>1. Len(file.buf) + Len(name) <= BufferSize
      BY <1>2, <1>3, EmptySeq, LenProperties
    <2>2. r.ok = TRUE /\ Takes(file, r.file, name, Words)
      BY <1>2, <1>3, <2>1, AppendFits
    <2>3. <<>> \o name = name
      BY <1>3, ConcatEmptySeq
    <2> QED  BY <1>2, <2>2, <2>3 DEF Takes
  <1> QED  BY <1>1, <1>4, CallInv DEF name

\* All of the name is on the disk, or Sync does not return OK.
LEMMA SyncTmpInv == ASSUME CurrentInv, SyncTmp PROVE CurrentInv'
  <1> DEFINE name == ManifestName(dbname, number)
  <1>1. pc = "sync" /\ Call(FlushBuffer(file), "close")
    BY DEF SyncTmp
  <1>2. /\ file \in FileOf(Words) /\ number \in Numbers /\ dbname \in DbNames
        /\ file.buf = name /\ file.disk = <<>> /\ file.open \in BOOLEAN
    BY <1>1, TypesInv, FileFields DEF CurrentInv, Written
  <1>3. name \in Seq(Words) /\ name # <<>>
    BY <1>2, ManifestNameType
  <1> HIDE DEF name
  <1>4. ASSUME NEW r \in FlushBuffer(file)
        PROVE  /\ r.file \in FileOf(Words) /\ r.ok \in BOOLEAN /\ r.file.buf = <<>>
               /\ r.ok => r.file.disk = name /\ file.open /\ r.file.open
    <2>1. PICK p \in Prefixes(file.buf) :
            /\ Leaves(file, r.file, <<>>, p, Words)
            /\ r.file.open = file.open
            /\ r.ok = (p = file.buf)
            /\ ~ file.open => p = <<>>
      BY <1>2, FlushOutcome
    <2>2. <<>> \o name = name
      BY <1>3, ConcatEmptySeq
    <2> QED  BY <1>2, <1>3, <2>1, <2>2 DEF Leaves
  <1> QED  BY <1>1, <1>4, CallInv DEF name

LEMMA CloseTmpInv == ASSUME CurrentInv, CloseTmp PROVE CurrentInv'
  <1> DEFINE name == ManifestName(dbname, number)
  <1>1. pc = "close" /\ Call(CloseFile(file), "rename")
    BY DEF CloseTmp
  <1>2. /\ file \in FileOf(Words) /\ number \in Numbers /\ dbname \in DbNames
        /\ file.buf = <<>> /\ file.disk = name /\ file.open
    BY <1>1, TypesInv DEF CurrentInv, Written, TypeOK
  <1>3. name \in Seq(Words)
    BY <1>2, ManifestNameType
  <1> HIDE DEF name
  <1>4. ASSUME NEW r \in CloseFile(file)
        PROVE  /\ r.file \in FileOf(Words) /\ r.ok \in BOOLEAN /\ r.file.buf = <<>>
               /\ r.file.disk = name
    <2>1. PICK p \in Prefixes(file.buf) :
            Leaves(file, r.file, <<>>, p, Words) /\ r.ok \in BOOLEAN
      BY <1>2, CloseOutcome
    <2>2. p = <<>>
      <3>1. <<>> \in Seq(Words) /\ Len(<<>>) = 0 /\ p \in Prefixes(<<>>)
        BY <1>2, EmptySeq
      <3>2. p \in Seq(Words) /\ Len(p) <= 0
        BY <3>1, PrefixType
      <3> QED  BY <3>2, EmptySeq
    <2>3. name \o <<>> = name
      BY <1>3, ConcatEmptySeq
    <2> QED  BY <1>2, <2>1, <2>2, <2>3 DEF Leaves
  <1> QED  BY <1>1, <1>2, <1>4, CallInv DEF name

\* Nothing but tmps and pc changes, and of tmps only the file of this call.
LEMMA DeleteTmpInv == ASSUME CurrentInv, DeleteTmp PROVE CurrentInv'
  <1>1. /\ DOMAIN tmps' \subseteq DOMAIN tmps
        /\ \A m \in DOMAIN tmps' : tmps'[m] \in Seq(Words)
    BY TypesInv DEF DeleteTmp, Without
  <1>2. TypeOK'
    BY <1>1, TypesInv DEF CurrentInv, TypeOK, DeleteTmp
  <1> QED  BY <1>1, <1>2 DEF CurrentInv, DeleteTmp, Written, Named, ReadOk, TmpsKnown

LEMMA RenameFailsInv == ASSUME CurrentInv, RenameFails PROVE CurrentInv'
  <1>1. TypeOK'
    BY DEF CurrentInv, TypeOK, RenameFails
  <1> QED  BY <1>1 DEF CurrentInv, RenameFails, Written, Named, ReadOk, TmpsKnown

\* A call that returns leaves no temporary file of its own.
LEMMA ReturnsInv ==
  ASSUME CurrentInv, NEW ok \in BOOLEAN, Returns(ok), tmps' = Without(number),
         dbname' = dbname,
         \/ current' = current /\ named' = named
         \/ /\ current' = ManifestName(dbname, number) /\ named' = number
            /\ number \in Numbers
  PROVE  CurrentInv'
  <1>1. /\ DOMAIN tmps' = DOMAIN tmps \ {number}
        /\ \A m \in DOMAIN tmps' : tmps'[m] \in Seq(Words)
    BY TypesInv DEF Without
  <1>2. /\ pc' = "idle" /\ number' = NULL /\ cut' = cut \ {number}
        /\ got' = [ok |-> FALSE, data |-> <<>>] /\ got'.ok = FALSE /\ got'.data = <<>>
        /\ status' = ok /\ file' = NewFile
    BY DEF Returns
  <1>3. Named'
    BY DEF CurrentInv, Named
  <1>4. current' # NULL => current' \in Seq(Words)
    BY TypesInv, ManifestNameType DEF CurrentInv, TypeOK
  <1>5. TypeOK'
    <2>1. NewFile \in [buf : Seq(Words), disk : Seq(Words), open : BOOLEAN]
            /\ got' \in [ok : BOOLEAN, data : Seq(Words)]
      BY <1>2, EmptySeq DEF NewFile
    <2>2. cut' \subseteq Numbers /\ named' \in Numbers \union {NULL}
      BY <1>2 DEF CurrentInv, TypeOK
    <2> QED  BY <1>1, <1>2, <1>4, <2>1, <2>2, TypesInv DEF TypeOK
  <1>6. ReadOk'
    <2>1. current' # NULL => IsPrefix(<<>>, current')
      BY <1>4, EmptySeq, WholeIsPrefix, PrefixOf
    <2> QED  BY <1>2, <2>1 DEF ReadOk
  <1>7. TmpsKnown'
    BY <1>1, <1>2 DEF CurrentInv, TmpsKnown
  <1> QED  BY <1>2, <1>3, <1>5, <1>6, <1>7 DEF CurrentInv, Written

LEMMA RenameTmpInv == ASSUME CurrentInv, RenameTmp PROVE CurrentInv'
  <1>1. current' = ManifestName(dbname, number) /\ number \in Numbers
    BY TypesInv DEF CurrentInv, Written, RenameTmp
  <1> QED  BY <1>1, ReturnsInv DEF RenameTmp

LEMMA CleanupInv == ASSUME CurrentInv, Cleanup PROVE CurrentInv'
  BY ReturnsInv DEF Cleanup

LEMMA ReadCurrentInv == ASSUME CurrentInv, ReadCurrent PROVE CurrentInv'
  <1>1. /\ got' = [ok |-> FALSE, data |-> <<>>] /\ got'.ok = FALSE /\ got'.data = <<>>
        /\ current \in Seq(Words) /\ current # NULL /\ current' = current
    BY DEF CurrentInv, TypeOK, ReadCurrent
  <1>2. got' \in [ok : BOOLEAN, data : Seq(Words)]
    BY <1>1, EmptySeq
  <1>3. IsPrefix(<<>>, current)
    BY <1>1, EmptySeq, WholeIsPrefix, PrefixOf
  <1>4. TypeOK'
    BY <1>1, <1>2, <1>3 DEF CurrentInv, TypeOK, ReadCurrent
  <1>5. ReadOk'
    BY <1>1, <1>3 DEF ReadOk
  <1> QED  BY <1>4, <1>5 DEF CurrentInv, ReadCurrent, Written, Named, TmpsKnown

\* What ReadChunk makes of what was read.
LEMMA ChunkRead ==
  ASSUME CurrentInv, ReadChunk
  PROVE  /\ got' \in [ok : BOOLEAN, data : Seq(Words)]
         /\ IsPrefix(got'.data, current)
         /\ pc' \in {"idle", "read"} /\ got'.ok = (pc' = "idle")
         /\ got'.ok => got'.data = current
  <1> DEFINE rest == SubSeq(current, Len(got.data) + 1, Len(current))
             read == got.data
  <1>1. /\ pc = "read" /\ current \in Seq(Words) /\ read \in Seq(Words)
        /\ IsPrefix(read, current)
    BY DEF CurrentInv, TypeOK, ReadOk, ReadChunk
  <1>2. PICK p \in Prefixes(rest) :
          /\ p = <<>> <=> rest = <<>>
          /\ got' = [ok |-> p = <<>>, data |-> got.data \o p]
          /\ pc' = IF p = <<>> THEN "idle" ELSE "read"
    BY DEF ReadChunk
  <1>3. /\ read \o p \in Seq(Words) /\ IsPrefix(read \o p, current)
        /\ rest = <<>> => read = current
    BY <1>1, ReadOn
  <1>4. got'.ok = (p = <<>>) /\ got'.data = read \o p
    BY <1>2
  <1>5. p = <<>> => read \o p = current
    BY <1>1, <1>2, <1>3, ConcatEmptySeq
  <1>6. got' \in [ok : BOOLEAN, data : Seq(Words)]
    BY <1>2, <1>3
  <1> HIDE DEF rest, read
  <1> QED  BY <1>2, <1>3, <1>4, <1>5, <1>6

LEMMA ReadChunkInv == ASSUME CurrentInv, ReadChunk PROVE CurrentInv'
  <1>1. current \in Seq(Words) /\ current # NULL /\ current' = current
    BY DEF CurrentInv, TypeOK, ReadOk, ReadChunk
  <1>2. TypeOK'
    BY <1>1, ChunkRead DEF CurrentInv, TypeOK, ReadChunk
  <1>3. ReadOk'
    BY <1>1, ChunkRead DEF ReadOk
  <1>4. Written' /\ Named' /\ TmpsKnown'
    BY ChunkRead DEF CurrentInv, ReadChunk, Written, Named, TmpsKnown
  <1> QED  BY <1>2, <1>3, <1>4 DEF CurrentInv

LEMMA ReadFailsInv == ASSUME CurrentInv, ReadFails PROVE CurrentInv'
  <1>1. TypeOK'
    BY DEF CurrentInv, TypeOK, ReadFails
  <1> QED  BY <1>1 DEF CurrentInv, ReadFails, Written, Named, ReadOk, TmpsKnown

\* The file of a call that is cut off is known to be.
LEMMA CrashInv == ASSUME CurrentInv, Crash PROVE CurrentInv'
  <1>1. /\ pc' = "idle" /\ number' = NULL /\ tmps' = tmps /\ file' = NewFile
        /\ current' = current /\ got'.ok = FALSE /\ got'.data = <<>>
        /\ got' = [ok |-> FALSE, data |-> <<>>]
        /\ cut' = IF number = NULL THEN cut ELSE cut \union {number}
    BY DEF Crash
  <1>2. TypeOK'
    <2>1. NewFile \in [buf : Seq(Words), disk : Seq(Words), open : BOOLEAN]
            /\ got' \in [ok : BOOLEAN, data : Seq(Words)]
      BY <1>1, EmptySeq DEF NewFile
    <2>2. cut' \subseteq Numbers
      BY <1>1, TypesInv DEF CurrentInv, TypeOK
    <2> QED  BY <1>1, <2>1, <2>2 DEF CurrentInv, TypeOK, Crash
  <1>3. ReadOk'
    <2>1. current # NULL => IsPrefix(<<>>, current)
      <3>1. current # NULL => current \in Seq(Words)
        BY DEF CurrentInv, TypeOK
      <3> QED  BY <3>1, EmptySeq, WholeIsPrefix, PrefixOf
    <2> QED  BY <1>1, <2>1 DEF ReadOk
  <1>4. TmpsKnown'
    BY <1>1, TypesInv DEF CurrentInv, TmpsKnown
  <1> QED  BY <1>1, <1>2, <1>3, <1>4 DEF CurrentInv, Crash, Written, Named

LEMMA NextInv == CurrentInv /\ [Next]_currentVars => CurrentInv'
  <1> SUFFICES ASSUME CurrentInv, [Next]_currentVars PROVE CurrentInv'
    OBVIOUS
  <1>1. ASSUME NEW n \in Numbers, SetCurrentFile(n) PROVE CurrentInv'
    BY <1>1, SetInv
  <1>2. CASE Setting
    BY <1>2, AppendNameInv, SyncTmpInv, CloseTmpInv, DeleteTmpInv, RenameTmpInv,
       RenameFailsInv, CleanupInv DEF Setting
  <1>3. CASE ReadCurrent
    BY <1>3, ReadCurrentInv
  <1>4. CASE Reading
    BY <1>4, ReadChunkInv, ReadFailsInv DEF Reading
  <1>5. CASE Crash
    BY <1>5, CrashInv
  <1>6. CASE UNCHANGED currentVars
    BY <1>6 DEF currentVars, CurrentInv, TypeOK, Written, Named, ReadOk, TmpsKnown
  <1> QED  BY <1>1, <1>2, <1>3, <1>4, <1>5, <1>6 DEF Next

LEMMA CurrentAlways == Spec => []CurrentInv
  <1> QED  BY InitInv, NextInv, PTL DEF Spec

----------------------------------------------------------------------------------
(***************************************************************************)
(* Theorems.                                                               *)
(***************************************************************************)
\* Every variable is always of its type, and the buffer is empty once the file has been
\* flushed.
THEOREM CurrentTypes == Spec => []TypeOK
  <1>1. CurrentInv => TypeOK
    BY DEF CurrentInv
  <1> QED  BY <1>1, CurrentAlways, PTL

\* Temporary files are left behind by the end of the process only: both WriteStringToFileSync
\* and SetCurrentFile remove theirs, whichever of their calls fails.
THEOREM TmpsOnlyOfCrashes == Spec => []TmpsOfCrashes
  <1>1. CurrentInv => TmpsOfCrashes
    BY TypesInv DEF CurrentInv, TmpsKnown, TmpsOfCrashes
  <1> QED  BY <1>1, CurrentAlways, PTL

\* What Recover reads without an error leads it to the manifest named last, if and only
\* if the name of the database has no slash.
THEOREM RecoverOpensManifest == Spec => []RecoverOpens
  <1>1. CurrentInv => RecoverOpens
    <2> SUFFICES ASSUME CurrentInv, got.ok
                 PROVE  Opened = DescriptorFileName(dbname, named) <=> FirstSlash(dbname) = 0
      BY DEF RecoverOpens
    <2>1. /\ got.data = ManifestName(dbname, named)
          /\ named \in Numbers /\ dbname \in DbNames
      BY TypesInv DEF CurrentInv, ReadOk, Named
    <2>2. Opened = dbname \o <<"/">> \o ManifestName(dbname, named)
      BY <2>1 DEF Opened
    <2> QED  BY <2>1, <2>2, OpenedIs
  <1> QED  BY <1>1, CurrentAlways, PTL

\* SetCurrentFile is one step of a register: the value changes where CURRENT is replaced,
\* a call that fails or is cut off leaves it alone, and a read that ends without an error
\* has read the whole of it.
THEOREM CurrentIsRegister == Spec => RegisterSpec
  <1> DEFINE attempted == IF number = NULL THEN NULL ELSE ManifestName(dbname, number)
             read == IF pc = "read" THEN [ok |-> FALSE, data |-> <<>>] ELSE got
  <1>1. Init => R!Init
    BY DEF Init, R!Init, R!Nothing
  <1>2. CurrentInv /\ [Next]_currentVars => [R!Next]_(R!registerVars)
    <2> SUFFICES ASSUME CurrentInv, [Next]_currentVars
                 PROVE  [R!Next]_(R!registerVars)
      OBVIOUS
    <2>1. number # NULL => attempted # NULL /\ number \in Numbers /\ dbname \in DbNames
      BY TypesInv, NullAssumption
    <2>2. ASSUME NEW n \in Numbers, SetCurrentFile(n) PROVE R!Next
      <3>1. number = NULL /\ number' = n /\ n # NULL /\ pc = "idle" /\ pc' = "append"
            /\ UNCHANGED <<dbname, current, status, got>>
        BY <2>2, TypesInv DEF SetCurrentFile
      <3>2. attempted = NULL /\ attempted' = ManifestName(dbname, n) /\ read' = read
        BY <3>1
      <3>3. R!Set(ManifestName(dbname, n))
        BY <3>1, <3>2 DEF R!Set
      <3>4. ManifestName(dbname, n) \in {ManifestName(d, m) : d \in DbNames, m \in Numbers}
        BY TypesInv
      <3> QED  BY <3>3, <3>4 DEF R!Next
    <2>3. ASSUME NEW ok \in BOOLEAN, Returns(ok), dbname' = dbname, number # NULL,
                 current' = IF ok THEN attempted ELSE current
          PROVE  R!Next
      <3>1. number' = NULL /\ pc' = "idle" /\ got' = [ok |-> FALSE, data |-> <<>>]
            /\ status' = ok
        BY <2>3 DEF Returns
      <3>2. attempted' = NULL /\ read' = [ok |-> FALSE, data |-> <<>>]
        BY <3>1
      <3>3. R!Ends(ok)
        BY <2>1, <2>3, <3>1, <3>2 DEF R!Ends, R!Nothing
      <3> QED  BY <3>3 DEF R!Next
    <2>4. CASE Setting
      <3>1. ASSUME NEW outcomes, NEW next, Call(outcomes, next), pc # "read",
                   next # "read"
            PROVE  UNCHANGED R!registerVars
        <4>1. UNCHANGED <<dbname, current, number, status, got>> /\ pc' # "read"
          BY <3>1 DEF Call
        <4> QED  BY <3>1, <4>1 DEF R!registerVars
      <3>2. CASE AppendName \/ SyncTmp \/ CloseTmp
        BY <3>1, <3>2 DEF AppendName, SyncTmp, CloseTmp
      <3>3. CASE DeleteTmp \/ RenameFails
        BY <3>3 DEF DeleteTmp, RenameFails, R!registerVars
      <3>4. CASE RenameTmp
        <4>1. Returns(TRUE) /\ dbname' = dbname /\ number # NULL /\ current' = attempted
          BY <3>4, TypesInv DEF RenameTmp, CurrentInv, Written
        <4> QED  BY <2>3, <4>1
      <3>5. CASE Cleanup
        <4>1. Returns(FALSE) /\ dbname' = dbname /\ number # NULL /\ current' = current
          BY <3>5, TypesInv DEF Cleanup
        <4> QED  BY <2>3, <4>1
      <3> QED  BY <2>4, <3>2, <3>3, <3>4, <3>5 DEF Setting
    <2>5. CASE ReadCurrent
      <3>1. pc' = "read" /\ number = NULL /\ number' = number
            /\ UNCHANGED <<dbname, current, status>>
        BY <2>5, TypesInv DEF ReadCurrent
      <3>2. R!Read
        BY <3>1 DEF R!Read, R!Nothing
      <3> QED  BY <3>2 DEF R!Next
    <2>6. CASE ReadChunk
      <3>1. /\ pc = "read" /\ number = NULL /\ number' = number /\ current # NULL
            /\ UNCHANGED <<dbname, current, status>>
        BY <2>6, TypesInv DEF ReadChunk, CurrentInv, ReadOk
      <3>2. CASE pc' = "read"
        BY <3>1, <3>2 DEF R!registerVars
      <3>3. CASE pc' = "idle"
        <4>1. got' \in [ok : BOOLEAN, data : Seq(Words)] /\ got'.ok = TRUE
              /\ got'.data = current
          BY <2>6, <3>3, ChunkRead
        <4>2. got' = [ok |-> TRUE, data |-> current]
          BY <4>1
        <4>3. read' = [ok |-> TRUE, data |-> current]
          BY <3>3, <4>2
        <4>4. R!Read
          BY <3>1, <4>3 DEF R!Read
        <4> QED  BY <4>4 DEF R!Next
      <3> QED  BY <2>6, <3>2, <3>3, ChunkRead
    <2>7. CASE ReadFails
      <3>1. /\ pc' = "idle" /\ number = NULL /\ number' = number /\ current # NULL
            /\ UNCHANGED <<dbname, current, status, got>>
        BY <2>7, TypesInv DEF ReadFails, CurrentInv, ReadOk
      <3>2. /\ got \in [ok : BOOLEAN, data : Seq(Words)] /\ got.ok = FALSE
            /\ current \in Seq(Words) /\ IsPrefix(got.data, current)
        BY <2>7, <3>1 DEF ReadFails, CurrentInv, ReadOk, TypeOK
      <3>3. got = [ok |-> FALSE, data |-> got.data] /\ got.data \in Prefixes(current)
        <4>1. got.data \in Seq(Words)
          BY <3>2
        <4>2. got.data \in Prefixes(current)
          BY <3>2, <4>1, PrefixOf
        <4> QED  BY <3>2, <4>2
      <3>4. read' = got
        BY <3>1
      <3>5. \E p \in Prefixes(current) : read' = [ok |-> FALSE, data |-> p]
        BY <3>3, <3>4, Zenon
      <3>6. attempted = NULL /\ attempted' = NULL
        BY <3>1
      <3> HIDE DEF read, attempted
      <3>7. R!Read
        <4>1. R!Prefixes(current) = Prefixes(current)
          BY DEF Prefixes, R!Prefixes
        <4> QED  BY <3>1, <3>5, <3>6, <4>1 DEF R!Read, read, attempted
      <3> QED  BY <3>7 DEF R!Next
    <2>8. CASE Crash
      <3>1. pc' = "idle" /\ number' = NULL /\ got' = [ok |-> FALSE, data |-> <<>>]
            /\ UNCHANGED <<current, status>>
        BY <2>8 DEF Crash
      <3>2. R!Crash
        BY <3>1 DEF R!Crash, R!Nothing
      <3> QED  BY <3>2 DEF R!Next
    <2>9. CASE UNCHANGED currentVars
      BY <2>9 DEF currentVars, R!registerVars
    <2> QED  BY <2>2, <2>4, <2>5, <2>6, <2>7, <2>8, <2>9 DEF Next, Reading
  <1> QED  BY <1>1, <1>2, CurrentAlways, PTL DEF Spec, RegisterSpec, R!Spec
==================================================================================
