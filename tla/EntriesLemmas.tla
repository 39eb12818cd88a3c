------------------------------- MODULE EntriesLemmas -------------------------------
(***************************************************************************)
(* The order of memtable entries, the first and the last entry of a set,   *)
(* and what lookups in a memtable find.  For all keys and values.          *)
(***************************************************************************)
EXTENDS Entries, FiniteSetTheorems, WellFoundedInduction, TLAPS

\* What the types of an entry's fields come to, for arithmetic.
LEMMA EntryFields ==
  ASSUME NEW e \in Entry
  PROVE  /\ e.key \in Key /\ e.key[1] \in Nat /\ e.key[2] \in Nat
         /\ e.seq \in Nat /\ e.type \in Nat /\ e.value \in Nat
<1>1. e.key \in Key /\ e.seq \in Nat /\ e.type \in {0, 1} /\ e.value \in Value \union {0}
  BY DEF Entry, kTypeDeletion, kTypeValue, EmptyValue
<1>2. e.key \in Nat \X Nat
  BY <1>1, KeyAssumption
<1>3. e.key[1] \in Nat /\ e.key[2] \in Nat
  BY <1>2
<1>4. e.type \in Nat
  BY <1>1
<1>5. e.value \in Nat
  <2>1. e.value \in Value \/ e.value = 0
    BY <1>1
  <2>2. CASE e.value \in Value
    BY ONLY <2>2, ValueAssumption, Zenon
  <2> QED BY <2>1, <2>2
<1> QED BY <1>1, <1>3, <1>4, <1>5

\* The order of encoded entries: lexicographic.
LEMMA BeforeIs ==
  ASSUME NEW a \in Entry, NEW b \in Entry
  PROVE  Before(a, b) <=>
           \/ a.key[1] < b.key[1]
           \/ a.key[1] = b.key[1] /\ a.key[2] < b.key[2]
           \/ a.key[1] = b.key[1] /\ a.key[2] = b.key[2] /\ a.seq < b.seq
           \/ /\ a.key[1] = b.key[1] /\ a.key[2] = b.key[2] /\ a.seq = b.seq
              /\ a.type < b.type
           \/ /\ a.key[1] = b.key[1] /\ a.key[2] = b.key[2] /\ a.seq = b.seq
              /\ a.type = b.type /\ a.value < b.value
<1> DEFINE A == Encoded(a)
           B == Encoded(b)
<1>1. /\ A[1] = a.key[1] /\ A[2] = a.key[2] /\ A[3] = a.seq /\ A[4] = a.type /\ A[5] = a.value
      /\ B[1] = b.key[1] /\ B[2] = b.key[2] /\ B[3] = b.seq /\ B[4] = b.type /\ B[5] = b.value
  BY DEF Encoded
<1>2. Before(a, b) <=> \E i \in 1..5 : A[i] < B[i] /\ \A j \in 1..(i - 1) : A[j] = B[j]
  BY DEF Before
<1> HIDE DEF A, B
<1>3. /\ \A i : i \in 1..5 <=> i = 1 \/ i = 2 \/ i = 3 \/ i = 4 \/ i = 5
      /\ 1..(1 - 1) = {} /\ 1..(2 - 1) = {1} /\ 1..(3 - 1) = {1, 2}
      /\ 1..(4 - 1) = {1, 2, 3} /\ 1..(5 - 1) = {1, 2, 3, 4}
  OBVIOUS
<1> DEFINE Differ(i) == A[i] < B[i] /\ \A j \in 1..(i - 1) : A[j] = B[j]
<1>4. /\ Differ(1) <=> A[1] < B[1]
      /\ Differ(2) <=> A[1] = B[1] /\ A[2] < B[2]
      /\ Differ(3) <=> A[1] = B[1] /\ A[2] = B[2] /\ A[3] < B[3]
      /\ Differ(4) <=> A[1] = B[1] /\ A[2] = B[2] /\ A[3] = B[3] /\ A[4] < B[4]
      /\ Differ(5) <=> /\ A[1] = B[1] /\ A[2] = B[2] /\ A[3] = B[3] /\ A[4] = B[4]
                       /\ A[5] < B[5]
  BY <1>3
<1>5. Before(a, b) <=> Differ(1) \/ Differ(2) \/ Differ(3) \/ Differ(4) \/ Differ(5)
  BY <1>2, <1>3
<1> HIDE DEF Differ
<1> QED BY <1>1, <1>4, <1>5

\* An entry is not before itself, nor are two before each other.
LEMMA BeforeOrders ==
  ASSUME NEW a \in Entry, NEW b \in Entry
  PROVE  ~ (Before(a, b) /\ Before(b, a)) /\ ~ Before(a, a)
BY BeforeIs, EntryFields

\* FirstEntry of a set that has an entry before all the others.
LEMMA FirstEntryIs ==
  ASSUME NEW S \in SUBSET Entry, NEW e \in S, \A f \in S \ {e} : Before(e, f)
  PROVE  FirstEntry(S) = e
<1>1. e \in S /\ \A f \in S \ {e} : Before(e, f)
  OBVIOUS
<1>2. \A a \in S : (\A b \in S \ {a} : Before(a, b)) => a = e
  BY BeforeOrders
<1>3. (CHOOSE a \in S : \A b \in S \ {a} : Before(a, b)) = e
  BY ONLY <1>1, <1>2, Zenon
<1> QED BY <1>3, Zenon DEF FirstEntry

\* LastEntry of a set that has an entry after all the others.
LEMMA LastEntryIs ==
  ASSUME NEW S \in SUBSET Entry, NEW e \in S, \A f \in S \ {e} : Before(f, e)
  PROVE  LastEntry(S) = e
<1>1. e \in S /\ \A f \in S \ {e} : Before(f, e)
  OBVIOUS
<1>2. \A a \in S : (\A b \in S \ {a} : Before(b, a)) => a = e
  BY BeforeOrders
<1>3. (CHOOSE a \in S : \A b \in S \ {a} : Before(b, a)) = e
  BY ONLY <1>1, <1>2, Zenon
<1> QED BY <1>3, Zenon DEF LastEntry

LEMMA BeforeTransitive ==
  ASSUME NEW a \in Entry, NEW b \in Entry, NEW c \in Entry, Before(a, b), Before(b, c)
  PROVE  Before(a, c)
BY BeforeIs, EntryFields

\* Two entries that agree in all that is encoded are one.
LEMMA BeforeTotal ==
  ASSUME NEW a \in Entry, NEW b \in Entry, ~ Before(a, b), ~ Before(b, a)
  PROVE  a = b
<1>1. /\ a.key[1] = b.key[1] /\ a.key[2] = b.key[2]
      /\ a.seq = b.seq /\ a.type = b.type /\ a.value = b.value
  BY BeforeIs, EntryFields
<1>2. a.key = b.key
  BY <1>1, EntryFields, KeyAssumption
<1> QED BY <1>1, <1>2 DEF Entry

\* A finite set of entries that is not empty has a first and a last one.
LEMMA FirstExists ==
  ASSUME NEW S \in SUBSET Entry, S # {}, IsFiniteSet(S)
  PROVE  /\ \E e \in S : \A f \in S \ {e} : Before(e, f)
         /\ \E e \in S : \A f \in S \ {e} : Before(f, e)
<1> DEFINE Earlier(e) == {f \in S : Before(f, e)}
           rank == [e \in S |-> Cardinality(Earlier(e))]
           N == Cardinality(S)
<1>1. ASSUME NEW e \in S
      PROVE  IsFiniteSet(Earlier(e)) /\ rank[e] \in 0..N
  <2>1. Earlier(e) \in SUBSET S
    OBVIOUS
  <2> HIDE DEF Earlier
  <2>2. /\ IsFiniteSet(Earlier(e))
        /\ Cardinality(Earlier(e)) \in Nat /\ Cardinality(Earlier(e)) <= N
    BY <2>1, FS_Subset, FS_CardinalityType
  <2> QED BY <2>2, FS_CardinalityType
<1>2. N \in Nat
  BY FS_CardinalityType
<1>3. ASSUME NEW e \in S, NEW f \in S, Before(e, f)
      PROVE  rank[e] < rank[f]
  <2>1. e \notin Earlier(e) /\ e \in Earlier(f)
    BY <1>3, BeforeOrders
  <2>2. Earlier(e) \subseteq Earlier(f)
    BY <1>3, BeforeTransitive
  <2>3. Earlier(e) # Earlier(f)
    BY <2>1
  <2>4. rank[e] = Cardinality(Earlier(e)) /\ rank[f] = Cardinality(Earlier(f))
    OBVIOUS
  <2> HIDE DEF Earlier, rank
  <2>5. rank[e] <= rank[f] /\ rank[e] # rank[f]
    BY <1>1, <2>2, <2>3, <2>4, FS_Subset
  <2> QED BY <1>1, <2>5
<1> HIDE DEF rank, N
<1>4. ASSUME NEW e \in S, NEW f \in S, rank[e] <= rank[f], e # f
      PROVE  Before(e, f)
  <2>1. rank[e] \in 0..N /\ rank[f] \in 0..N
    BY <1>1
  <2>2. ~ Before(f, e)
    BY <1>2, <1>3, <1>4, <2>1
  <2> QED BY <1>4, <2>2, BeforeTotal
<1>5. \A T \in SUBSET Nat : T # {} => \E r \in T : \A q \in T : r <= q
  <2> SUFFICES ASSUME NEW T \in SUBSET Nat, T # {}
               PROVE  \E r \in T : \A q \in T : r <= q
    OBVIOUS
  <2>1. PICK r \in T : \A q \in T : ~ (<<q, r>> \in OpToRel(<, Nat))
    BY NatLessThanWellFounded, WFMin
  <2>2. \A q \in T : ~ (q < r)
    BY <2>1 DEF OpToRel
  <2> QED BY <2>2
<1>6. \A e \in S : rank[e] \in Nat /\ N - rank[e] \in Nat
  <2>1. \A e \in S : rank[e] \in 0..N
    BY <1>1
  <2> QED BY <1>2, <2>1
<1>7. \E e \in S : \A f \in S : rank[e] <= rank[f]
  <2> DEFINE T == {rank[e] : e \in S}
  <2>1. T \in SUBSET Nat /\ T # {}
    BY <1>6
  <2>2. PICK r \in T : \A q \in T : r <= q
    BY <1>5, <2>1
  <2>3. PICK e \in S : r = rank[e]
    OBVIOUS
  <2>4. \A f \in S : rank[f] \in T
    OBVIOUS
  <2> QED BY <2>2, <2>3, <2>4
<1>8. \E e \in S : \A f \in S : rank[f] <= rank[e]
  <2> DEFINE T == {N - rank[e] : e \in S}
  <2>1. T \in SUBSET Nat /\ T # {}
    BY <1>6
  <2>2. PICK r \in T : \A q \in T : r <= q
    BY <1>5, <2>1
  <2>3. PICK e \in S : r = N - rank[e]
    OBVIOUS
  <2>4. \A f \in S : N - rank[f] \in T
    OBVIOUS
  <2>5. \A f \in S : N - rank[e] <= N - rank[f]
    BY <2>2, <2>3, <2>4
  <2> QED BY <1>2, <1>6, <2>5
<1>9. \E e \in S : \A f \in S \ {e} : Before(e, f)
  BY <1>4, <1>7
<1>10. \E e \in S : \A f \in S \ {e} : Before(f, e)
  BY <1>4, <1>8
<1> QED BY <1>9, <1>10

\* FirstEntry and LastEntry of such a set.
LEMMA FirstAndLast ==
  ASSUME NEW S \in SUBSET Entry, S # {}, IsFiniteSet(S)
  PROVE  /\ FirstEntry(S) \in S /\ \A f \in S \ {FirstEntry(S)} : Before(FirstEntry(S), f)
         /\ LastEntry(S) \in S /\ \A f \in S \ {LastEntry(S)} : Before(f, LastEntry(S))
BY FirstExists DEF FirstEntry, LastEntry

\* The only entry of a key in a memtable, if it has sequence 0 and a value, is what a
\* lookup finds: no other key comes between it and the key looked up.
LEMMA OnlyEntryFound ==
  ASSUME NEW S \in SUBSET Entry, NEW k \in Key, NEW v \in Value \union {EmptyValue},
         {e \in S : e.key = k} = EntriesOf(<<PutOp(k, v)>>)
  PROVE  MemTableGet(S, k) = v
<1> DEFINE mine == [key |-> k, seq |-> 0, type |-> kTypeValue, value |-> v]
           sought == LookupKey(k)
           found == {e \in S : ~ Before(e, sought)}
<1>1. EntriesOf(<<PutOp(k, v)>>) = {mine}
  BY DEF EntriesOf, PutOp
<1>2. mine \in S /\ \A e \in S : e.key = k => e = mine
  BY <1>1
<1>3. mine \in Entry /\ sought \in Entry
  BY DEF Entry, LookupKey, EmptyValue
<1>4. /\ mine.key = k /\ mine.seq = 0 /\ mine.type = kTypeValue /\ mine.value = v
      /\ sought.key = k /\ sought.seq = 0 /\ sought.type = kTypeValue /\ sought.value = 0
  BY DEF LookupKey, EmptyValue
<1> HIDE DEF mine, sought
<1>5. mine \in found
  <2>1. v \in Nat
    BY ValueAssumption DEF EmptyValue
  <2>2. ~ Before(mine, sought)
    BY <1>3, <1>4, <2>1, BeforeIs, EntryFields
  <2> QED BY <1>2, <2>2
<1>6. ASSUME NEW e \in found \ {mine} PROVE Before(mine, e)
  <2>1. e \in Entry /\ ~ Before(e, sought) /\ e.key # k /\ e.key \in Key
    BY <1>2, EntryFields
  <2>2. e.key[1] # k[1] \/ e.key[2] # k[2]
    BY <2>1, KeyAssumption
  <2> QED BY <1>3, <1>4, <2>1, <2>2, BeforeIs, EntryFields
<1>7. FirstEntry(found) = mine
  BY <1>5, <1>6, FirstEntryIs
<1>8. MemTableGet(S, k) = IF found = {} \/ FirstEntry(found).type = kTypeDeletion
                          THEN NULL ELSE FirstEntry(found).value
  BY Zenon DEF MemTableGet, found, sought
<1> HIDE DEF found
<1> QED BY <1>4, <1>5, <1>7, <1>8 DEF kTypeDeletion, kTypeValue

\* A lookup in a memtable finds the first entry of its key, if that is a value.
LEMMA FirstValueFound ==
  ASSUME NEW S \in SUBSET Entry, IsFiniteSet(S), NEW k \in Key, NEW mine \in SUBSET S,
         mine = {e \in S : e.key = k}, mine # {}, FirstEntry(mine).type = kTypeValue
  PROVE  MemTableGet(S, k) = FirstEntry(mine).value
<1> DEFINE first == FirstEntry(mine)
           sought == LookupKey(k)
           found == {e \in S : ~ Before(e, sought)}
<1>1. first \in mine /\ \A f \in mine \ {first} : Before(first, f)
  BY FS_Subset, FirstAndLast
<1>2. sought \in Entry
  BY DEF Entry, LookupKey, EmptyValue
<1>3. sought.key = k /\ sought.seq = 0 /\ sought.type = kTypeValue /\ sought.value = 0
  BY DEF LookupKey, EmptyValue
<1>4. first \in S /\ first \in Entry /\ first.key = k /\ first.type = kTypeValue
  BY <1>1
<1> HIDE DEF first, sought
<1>5. first \in found
  <2>1. ~ Before(first, sought)
    BY <1>2, <1>3, <1>4, BeforeIs, EntryFields
  <2> QED BY <1>4, <2>1
<1>6. ASSUME NEW e \in found \ {first} PROVE Before(first, e)
  <2>1. CASE e.key = k
    BY <1>1, <2>1
  <2>2. CASE e.key # k
    <3>1. e \in Entry /\ ~ Before(e, sought) /\ e.key \in Key
      BY EntryFields
    <3>2. e.key[1] # k[1] \/ e.key[2] # k[2]
      BY <2>2, <3>1, KeyAssumption
    <3> QED BY <1>2, <1>3, <1>4, <3>1, <3>2, BeforeIs, EntryFields
  <2> QED BY <2>1, <2>2
<1>7. FirstEntry(found) = first
  BY <1>5, <1>6, FirstEntryIs
<1>8. MemTableGet(S, k) = IF found = {} \/ FirstEntry(found).type = kTypeDeletion
                          THEN NULL ELSE FirstEntry(found).value
  BY Zenon DEF MemTableGet, found, sought
<1> HIDE DEF found
<1> QED BY <1>4, <1>5, <1>7, <1>8 DEF first, kTypeDeletion, kTypeValue
==================================================================================
