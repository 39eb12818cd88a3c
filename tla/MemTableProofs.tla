------------------------------- MODULE MemTableProofs -------------------------------
(***************************************************************************)
(* A memtable uses its arena as ArenaSpec says and its list as             *)
(* SkipListSpec does, so that what is proved of both holds for it.  Its    *)
(* list is an ordered set and Get finds what DB takes it to find, whatever *)
(* is added and looked up, and for towers of any height.                   *)
(***************************************************************************)
EXTENDS MemTable, FiniteSetTheorems, TLAPS

----------------------------------------------------------------------------------
(***************************************************************************)
(* The arena: the pieces it hands out lie in its blocks, aligned, and do   *)
(* not overlap, for all sizes of blocks and pieces and every alignment.    *)
(***************************************************************************)
Aligned(n) == n % kAlign = 0

LEMMA ModBound ==
  ASSUME NEW a \in Nat \ {0}, NEW p \in Nat
  PROVE  p % a \in Nat /\ p % a < a
  BY Z3

LEMMA NextMultiple ==
  ASSUME NEW a \in Nat \ {0}, NEW p \in Nat
  PROVE  (p + (a - (p % a))) % a = 0
  BY ModBound, Z3

\* The next piece of the block in use begins aligned, as a block does.
LEMMA SlopAligns ==
  ASSUME alloc_ptr \in Nat
  PROVE  slop \in Nat /\ Aligned(alloc_ptr + slop) /\ Aligned(0)
  <1> DEFINE a == kAlign
             p == alloc_ptr
  <1>0. a \in Nat \ {0} /\ p \in Nat
    BY ArenaAssumption
  <1> HIDE DEF a, p
  <1>1. p % a \in Nat /\ p % a < a
    BY <1>0, ModBound
  <1>2. (p + (a - (p % a))) % a = 0
    BY <1>0, NextMultiple
  <1>3. 0 % a = 0
    BY <1>0, Z3
  <1>4. p % a = 0 => (p + 0) % a = 0
    BY <1>0, Z3
  <1>5. slop = IF p % a = 0 THEN 0 ELSE a - (p % a)
    BY DEF slop, a, p
  <1>6. slop \in Nat
    BY <1>0, <1>1, <1>5
  <1>7. (p + slop) % a = 0
    BY <1>2, <1>4, <1>5
  <1> QED  BY <1>3, <1>6, <1>7 DEF Aligned, a, p

\* A block of the arena holds the pieces that were cut from it in front of alloc_ptr,
\* and alloc_bytes_remaining bytes behind it.
Within(p, sizes, block, ptr) ==
  /\ p.at + p.size <= sizes[p.block]
  /\ Aligned(p.at)
  /\ p.block = block => p.at + p.size <= ptr

InPlace(p) == Within(p, blocks, alloc_block, alloc_ptr)

StaysInPlace(p) == Within(p, blocks', alloc_block', alloc_ptr')

BlockInUse ==
  IF alloc_block = 0 THEN alloc_bytes_remaining = 0
  ELSE alloc_ptr + alloc_bytes_remaining <= blocks[alloc_block]

Apart(p, q) == p.block = q.block => p.at + p.size <= q.at \/ q.at + q.size <= p.at

ArenaInv ==
  /\ ArenaTypeOK
  /\ BlockInUse
  /\ \A i \in DOMAIN allocated : InPlace(allocated[i])
  /\ \A i \in DOMAIN allocated : \A j \in DOMAIN allocated \ {i} :
       Apart(allocated[i], allocated[j])

LEMMA InvImpliesSound == ArenaInv => PiecesSound
  BY DEF ArenaInv, PiecesSound, InPlace, Within, Aligned, Apart

LEMMA ArenaInitInv == ArenaInit => ArenaInv
  BY DEF ArenaInit, ArenaInv, ArenaTypeOK, BlockInUse

Pieces(m) == [block : 1..m, at : Nat, size : Nat]

\* ArenaTypeOK, but for the pieces.
MemoryTypeOK ==
  /\ alloc_block \in 0..Len(blocks)
  /\ alloc_ptr \in Nat
  /\ alloc_bytes_remaining \in Nat
  /\ blocks \in Seq(Nat)
  /\ memory_usage \in Nat

\* What is to be shown of an allocation: the new piece is in place and apart from the
\* others, which stay in place.
LEMMA NewPiece ==
  ASSUME ArenaInv, MemoryTypeOK', BlockInUse', Len(blocks) <= Len(blocks'),
         NEW p \in Pieces(Len(blocks')),
         allocated' = Append(allocated, p),
         StaysInPlace(p),
         \A i \in DOMAIN allocated : StaysInPlace(allocated[i]) /\ Apart(allocated[i], p)
  PROVE  ArenaInv'
  <1> DEFINE n == Len(allocated) + 1
  <1>0. ArenaTypeOK'
    <2>1. Len(blocks) \in Nat /\ Len(blocks') \in Nat
      BY DEF ArenaInv, ArenaTypeOK, MemoryTypeOK
    <2>2. Pieces(Len(blocks)) \subseteq Pieces(Len(blocks'))
      BY <2>1 DEF Pieces
    <2>3. allocated \in Seq(Pieces(Len(blocks)))
      BY DEF ArenaInv, ArenaTypeOK, Pieces
    <2>4. allocated' \in Seq(Pieces(Len(blocks')))
      BY <2>2, <2>3
    <2> QED  BY <2>4 DEF ArenaTypeOK, MemoryTypeOK, Pieces
  <1>1. /\ n \in Nat
        /\ DOMAIN allocated = 1..(n - 1)
        /\ DOMAIN allocated' = 1..n
        /\ allocated'[n] = p
        /\ \A i \in DOMAIN allocated : allocated'[i] = allocated[i]
    <2> DEFINE T == Pieces(Len(blocks))
               a == allocated
    <2>1. a \in Seq(T) /\ allocated' = Append(a, p)
      BY DEF ArenaInv, ArenaTypeOK, Pieces
    <2> HIDE DEF a, T
    <2> QED  BY ONLY <2>1, SMTT(30) DEF a
  <1>2. \A i \in DOMAIN allocated' : StaysInPlace(allocated'[i])
    <2> SUFFICES ASSUME NEW i \in DOMAIN allocated' PROVE StaysInPlace(allocated'[i])
      OBVIOUS
    <2>1. CASE i = n
      BY <1>1, <2>1
    <2>2. CASE i # n
      BY <1>1, <2>2
    <2> QED  BY <2>1, <2>2
  <1>3. \A i \in DOMAIN allocated' : \A j \in DOMAIN allocated' \ {i} :
          Apart(allocated'[i], allocated'[j])
    <2> SUFFICES ASSUME NEW i \in DOMAIN allocated', NEW j \in DOMAIN allocated' \ {i}
                 PROVE  Apart(allocated'[i], allocated'[j])
      OBVIOUS
    <2>1. CASE i # n /\ j # n
      BY <1>1, <2>1 DEF ArenaInv
    <2>2. CASE j = n
      BY <1>1, <2>2
    <2>3. CASE i = n
      BY <1>1, <2>3 DEF Apart
    <2> QED  BY <2>1, <2>2, <2>3
  <1> QED  BY <1>0, <1>2, <1>3 DEF ArenaInv, StaysInPlace, InPlace, Within

LEMMA PieceTypes ==
  ASSUME ArenaInv
  PROVE  \A i \in DOMAIN allocated :
           /\ allocated[i].block \in 1..Len(blocks)
           /\ allocated[i].at \in Nat
           /\ allocated[i].size \in Nat
           /\ InPlace(allocated[i])
  <1>1. allocated \in Seq(Pieces(Len(blocks)))
    BY DEF ArenaInv, ArenaTypeOK, Pieces
  <1>2. \A i \in DOMAIN allocated : allocated[i] \in Pieces(Len(blocks))
    BY <1>1
  <1> QED  BY <1>2 DEF ArenaInv, Pieces

\* A block is added.
LEMMA NewBlock ==
  ASSUME ArenaInv, NEW size \in Nat, blocks' = Append(blocks, size)
  PROVE  /\ Len(blocks') = Len(blocks) + 1
         /\ blocks' \in Seq(Nat)
         /\ blocks'[Len(blocks) + 1] = size
         /\ \A b \in 1..Len(blocks) : blocks'[b] = blocks[b] /\ b # Len(blocks) + 1
         /\ Len(blocks) \in Nat
  <1>1. blocks \in Seq(Nat)
    BY DEF ArenaInv, ArenaTypeOK
  <1>2. Len(blocks) \in Nat
    BY <1>1
  <1>3. Len(blocks') = Len(blocks) + 1 /\ blocks' \in Seq(Nat)
    BY <1>1
  <1>4. blocks'[Len(blocks) + 1] = size
    BY <1>1, <1>2
  <1>5. \A b \in 1..Len(blocks) : blocks'[b] = blocks[b] /\ b # Len(blocks) + 1
    BY <1>1, <1>2
  <1> QED  BY <1>2, <1>3, <1>4, <1>5

LEMMA ArenaStepInv == ArenaInv /\ [ArenaNext]_arenaVars => ArenaInv'
  <1> SUFFICES ASSUME ArenaInv, [ArenaNext]_arenaVars PROVE ArenaInv'
    OBVIOUS
  <1> USE ArenaAssumption
  <1>1. ASSUME NEW bytes \in Sizes, AllocateFromBlock(bytes)
        PROVE  ArenaInv'
    <2> DEFINE at == alloc_ptr + slop
               p == Piece(alloc_block, at, bytes)
    <2>1. slop \in Nat /\ Aligned(at)
      BY SlopAligns DEF ArenaInv, ArenaTypeOK
    <2>2. bytes \in Nat \ {0} /\ bytes + slop <= alloc_bytes_remaining
      BY <1>1 DEF AllocateFromBlock, Fits
    <2>3. alloc_block \in 1..Len(blocks)
      BY <2>1, <2>2 DEF ArenaInv, ArenaTypeOK, BlockInUse
    <2>4. /\ alloc_ptr' = at + bytes
          /\ alloc_bytes_remaining' = alloc_bytes_remaining - (bytes + slop)
          /\ allocated' = Append(allocated, p)
          /\ UNCHANGED <<alloc_block, blocks, memory_usage>>
          /\ alloc_ptr \in Nat /\ alloc_bytes_remaining \in Nat /\ at \in Nat
      BY <1>1, <2>1, <2>2 DEF AllocateFromBlock, ArenaInv, ArenaTypeOK
    <2>5. MemoryTypeOK' /\ BlockInUse'
      BY <2>1, <2>2, <2>3, <2>4 DEF ArenaInv, ArenaTypeOK, MemoryTypeOK, BlockInUse
    <2>6. p \in Pieces(Len(blocks')) /\ Len(blocks) <= Len(blocks')
      BY <2>2, <2>3, <2>4 DEF Piece, Pieces, ArenaInv, ArenaTypeOK
    <2>7. StaysInPlace(p)
      BY <2>1, <2>2, <2>3, <2>4 DEF Piece, StaysInPlace, Within, ArenaInv, ArenaTypeOK, BlockInUse
    <2>8. ASSUME NEW i \in DOMAIN allocated
          PROVE  StaysInPlace(allocated[i]) /\ Apart(allocated[i], p)
      BY <2>1, <2>2, <2>4, PieceTypes DEF Piece, StaysInPlace, InPlace, Within, Apart
    <2> QED  BY <2>4, <2>5, <2>6, <2>7, <2>8, NewPiece
  <1>2. ASSUME NEW bytes \in Sizes, AllocateOwnBlock(bytes)
        PROVE  ArenaInv'
    <2> DEFINE p == Piece(Len(blocks) + 1, 0, bytes)
    <2>1. /\ blocks' = Append(blocks, bytes)
          /\ memory_usage' = memory_usage + (bytes + kPointer)
          /\ allocated' = Append(allocated, p)
          /\ UNCHANGED <<alloc_block, alloc_ptr, alloc_bytes_remaining>>
          /\ bytes \in Nat
      BY <1>2 DEF AllocateOwnBlock, AllocateNewBlock
    <2>2. /\ Len(blocks') = Len(blocks) + 1
          /\ blocks' \in Seq(Nat)
          /\ blocks'[Len(blocks) + 1] = bytes
          /\ \A b \in 1..Len(blocks) : blocks'[b] = blocks[b] /\ b # Len(blocks) + 1
          /\ Len(blocks) \in Nat
      BY <2>1, NewBlock
    <2>3. MemoryTypeOK' /\ BlockInUse'
      BY <2>1, <2>2 DEF ArenaInv, ArenaTypeOK, MemoryTypeOK, BlockInUse
    <2>4. p \in Pieces(Len(blocks')) /\ Len(blocks) <= Len(blocks')
      BY <2>1, <2>2 DEF Piece, Pieces
    <2>5. alloc_block # Len(blocks) + 1 /\ Aligned(0)
      BY <2>2, SlopAligns DEF ArenaInv, ArenaTypeOK
    <2>6. StaysInPlace(p)
      BY <2>1, <2>2, <2>5 DEF Piece, StaysInPlace, Within
    <2>7. ASSUME NEW i \in DOMAIN allocated
          PROVE  StaysInPlace(allocated[i]) /\ Apart(allocated[i], p)
      BY <2>1, <2>2, PieceTypes DEF Piece, StaysInPlace, InPlace, Within, Apart
    <2> QED  BY <2>1, <2>3, <2>4, <2>6, <2>7, NewPiece
  <1>3. ASSUME NEW bytes \in Sizes, AllocateInNewBlock(bytes)
        PROVE  ArenaInv'
    <2> DEFINE p == Piece(Len(blocks) + 1, 0, bytes)
    <2>0. bytes \in Nat /\ bytes <= kBlockSize /\ kBlockSize \in Nat
      BY <1>3 DEF AllocateInNewBlock, Large
    <2>1. /\ blocks' = Append(blocks, kBlockSize)
          /\ memory_usage' = memory_usage + (kBlockSize + kPointer)
          /\ allocated' = Append(allocated, p)
          /\ alloc_block' = Len(blocks) + 1
          /\ alloc_ptr' = bytes
          /\ alloc_bytes_remaining' = kBlockSize - bytes
      BY <1>3 DEF AllocateInNewBlock, AllocateNewBlock
    <2>2. /\ Len(blocks') = Len(blocks) + 1
          /\ blocks' \in Seq(Nat)
          /\ blocks'[Len(blocks) + 1] = kBlockSize
          /\ \A b \in 1..Len(blocks) : blocks'[b] = blocks[b] /\ b # Len(blocks) + 1
          /\ Len(blocks) \in Nat
      BY <2>0, <2>1, NewBlock
    <2>3. MemoryTypeOK' /\ BlockInUse'
      BY <2>0, <2>1, <2>2 DEF ArenaInv, ArenaTypeOK, MemoryTypeOK, BlockInUse
    <2>4. p \in Pieces(Len(blocks')) /\ Len(blocks) <= Len(blocks')
      BY <2>0, <2>2 DEF Piece, Pieces
    <2>5. Aligned(0)
      BY SlopAligns DEF ArenaInv, ArenaTypeOK
    <2>6. StaysInPlace(p)
      BY <2>0, <2>1, <2>2, <2>5 DEF Piece, StaysInPlace, Within
    <2>7. ASSUME NEW i \in DOMAIN allocated
          PROVE  StaysInPlace(allocated[i]) /\ Apart(allocated[i], p)
      BY <2>0, <2>1, <2>2, PieceTypes DEF Piece, StaysInPlace, InPlace, Within, Apart
    <2> QED  BY <2>1, <2>3, <2>4, <2>6, <2>7, NewPiece
  <1>4. CASE UNCHANGED arenaVars
    BY <1>4 DEF arenaVars, ArenaInv, ArenaTypeOK, BlockInUse, InPlace, Within
  <1> QED  BY <1>1, <1>2, <1>3, <1>4 DEF ArenaNext, AllocateAligned

\* Nodes and entries of a memtable are within the arena's blocks, aligned, and apart.
THEOREM ArenaSound == ArenaSpec => []PiecesSound
  BY ArenaInitInv, ArenaStepInv, InvImpliesSound, PTL DEF ArenaSpec

\* What is left of the block in use has been counted when the block was.
UsageInv ==
  /\ IsFiniteSet(Taken)
  /\ Cardinality(Taken) + alloc_bytes_remaining <= memory_usage

\* A piece of a block is as large as the interval of its offsets.
LEMMA RowSize ==
  ASSUME NEW b, NEW I, IsFiniteSet(I)
  PROVE  IsFiniteSet({b} \X I) /\ Cardinality({b} \X I) = Cardinality(I)
  <1>1. IsFiniteSet({b}) /\ Cardinality({b}) = 1
    BY FS_Singleton
  <1>2. IsFiniteSet({b} \X I) /\ Cardinality({b} \X I) = Cardinality({b}) * Cardinality(I)
    BY <1>1, FS_Product
  <1>3. Cardinality(I) \in Nat
    BY FS_CardinalityType
  <1> QED BY <1>1, <1>2, <1>3

\* One more piece takes at most its size.
LEMMA TakenGrows ==
  ASSUME ArenaInv, IsFiniteSet(Taken), NEW b \in Nat, NEW at \in Nat, NEW size \in Nat \ {0},
         allocated' = Append(allocated, Piece(b, at, size))
  PROVE  /\ IsFiniteSet(Taken') /\ Cardinality(Taken) \in Nat /\ Cardinality(Taken') \in Nat
         /\ Cardinality(Taken') <= Cardinality(Taken) + size
  <1> DEFINE p == Piece(b, at, size)
             T == Pieces(Len(blocks))
             a == allocated
             longer == allocated'
             n == Len(a)
  <1>1. a \in Seq(T) /\ longer = Append(a, p)
    BY DEF ArenaInv, ArenaTypeOK, Pieces
  <1>2. /\ n \in Nat /\ DOMAIN a = 1..n /\ DOMAIN longer = 1..(n + 1)
        /\ longer[n + 1] = p /\ \A i \in 1..n : longer[i] = a[i]
    <2> HIDE DEF a, T, longer, p
    <2> QED BY <1>1
  <1>3. Taken' = Taken \union Bytes(p)
    <2> HIDE DEF p, n, T
    <2>1. 1..(n + 1) = 1..n \union {n + 1}
      BY <1>2
    <2>2. Taken' = UNION {Bytes(longer[i]) : i \in 1..n \union {n + 1}}
      BY <1>2, <2>1 DEF Taken
    <2>3. Taken = UNION {Bytes(a[i]) : i \in 1..n}
      BY <1>2 DEF Taken
    <2> HIDE DEF a, longer
    <2> QED BY <1>2, <2>2, <2>3
  <1>4. IsFiniteSet(Bytes(p)) /\ Cardinality(Bytes(p)) = size
    <2> DEFINE I == at..(at + size - 1)
    <2>1. IsFiniteSet(I) /\ Cardinality(I) = size
      BY FS_Interval
    <2>2. Bytes(p) = {b} \X I
      BY DEF Bytes, Piece
    <2> HIDE DEF I, p
    <2>3. IsFiniteSet({b} \X I) /\ Cardinality({b} \X I) = Cardinality(I)
      BY <2>1, RowSize
    <2> QED BY <2>1, <2>2, <2>3
  <1> HIDE DEF p
  <1>5. IsFiniteSet(Taken \cap Bytes(p))
    BY <1>4, FS_Intersection
  <1>6. Cardinality(Taken \cap Bytes(p)) \in Nat /\ Cardinality(Taken) \in Nat
    BY <1>5, FS_CardinalityType
  <1>7. /\ IsFiniteSet(Taken \union Bytes(p))
        /\ Cardinality(Taken \union Bytes(p)) =
             Cardinality(Taken) + Cardinality(Bytes(p)) - Cardinality(Taken \cap Bytes(p))
    BY <1>4, FS_Union
  <1>8. Cardinality(Taken \union Bytes(p)) \in Nat
    BY <1>7, FS_CardinalityType
  <1> QED BY <1>3, <1>4, <1>6, <1>7, <1>8

\* Every allocation counts what it takes: from what is left of a block, or with a block.
LEMMA UsageStep == ASSUME ArenaInv, UsageInv, [ArenaNext]_arenaVars PROVE UsageInv'
  <1> USE ArenaAssumption
  <1>1. IsFiniteSet(Taken) /\ alloc_bytes_remaining \in Nat /\ memory_usage \in Nat
        /\ alloc_ptr \in Nat /\ slop \in Nat /\ alloc_block \in Nat
        /\ Len(blocks) + 1 \in Nat /\ kPointer \in Nat
    BY SlopAligns DEF UsageInv, ArenaInv, ArenaTypeOK
  <1>2. ASSUME NEW bytes \in Sizes, AllocateFromBlock(bytes) PROVE UsageInv'
    <2>1. bytes \in Nat \ {0} /\ alloc_ptr + slop \in Nat
      BY <1>1
    <2>2. /\ allocated' = Append(allocated, Piece(alloc_block, alloc_ptr + slop, bytes))
          /\ alloc_bytes_remaining' = alloc_bytes_remaining - (bytes + slop)
          /\ memory_usage' = memory_usage
      BY <1>2 DEF AllocateFromBlock
    <2>3. /\ IsFiniteSet(Taken') /\ Cardinality(Taken) \in Nat /\ Cardinality(Taken') \in Nat
          /\ Cardinality(Taken') <= Cardinality(Taken) + bytes
      BY <1>1, <2>1, <2>2, TakenGrows
    <2> QED BY <1>1, <2>1, <2>2, <2>3 DEF UsageInv
  <1>3. ASSUME NEW bytes \in Sizes, AllocateOwnBlock(bytes) PROVE UsageInv'
    <2>1. bytes \in Nat \ {0}
      OBVIOUS
    <2>2. /\ allocated' = Append(allocated, Piece(Len(blocks) + 1, 0, bytes))
          /\ alloc_bytes_remaining' = alloc_bytes_remaining
          /\ memory_usage' = memory_usage + (bytes + kPointer)
      BY <1>3 DEF AllocateOwnBlock, AllocateNewBlock
    <2>3. /\ IsFiniteSet(Taken') /\ Cardinality(Taken) \in Nat /\ Cardinality(Taken') \in Nat
          /\ Cardinality(Taken') <= Cardinality(Taken) + bytes
      BY <1>1, <2>1, <2>2, TakenGrows
    <2> QED BY <1>1, <2>1, <2>2, <2>3 DEF UsageInv
  <1>4. ASSUME NEW bytes \in Sizes, AllocateInNewBlock(bytes) PROVE UsageInv'
    <2>1. bytes \in Nat \ {0} /\ kBlockSize \in Nat
      OBVIOUS
    <2>2. /\ allocated' = Append(allocated, Piece(Len(blocks) + 1, 0, bytes))
          /\ alloc_bytes_remaining' = kBlockSize - bytes
          /\ memory_usage' = memory_usage + (kBlockSize + kPointer)
      BY <1>4 DEF AllocateInNewBlock, AllocateNewBlock
    <2>3. /\ IsFiniteSet(Taken') /\ Cardinality(Taken) \in Nat /\ Cardinality(Taken') \in Nat
          /\ Cardinality(Taken') <= Cardinality(Taken) + bytes
      BY <1>1, <2>1, <2>2, TakenGrows
    <2> QED BY <1>1, <2>1, <2>2, <2>3 DEF UsageInv
  <1>5. CASE UNCHANGED arenaVars
    BY <1>5 DEF arenaVars, UsageInv, Taken
  <1> QED BY <1>2, <1>3, <1>4, <1>5 DEF ArenaNext, AllocateAligned

\* Usage covers every byte the arena has handed out, for all sizes of blocks and pieces.
THEOREM ArenaUsageCovers == ArenaSpec => []UsageCovers
  <1>1. ArenaInit => UsageInv
    <2>1. ArenaInit => Taken = {}
      BY DEF ArenaInit, Taken
    <2> QED BY <2>1, FS_EmptySet DEF ArenaInit, UsageInv
  <1>2. ArenaInv /\ UsageInv => UsageCovers
    BY FS_CardinalityType DEF ArenaInv, ArenaTypeOK, UsageInv, UsageCovers
  <1> QED BY <1>1, <1>2, UsageStep, ArenaInitInv, ArenaStepInv, PTL DEF ArenaSpec

----------------------------------------------------------------------------------
(***************************************************************************)
(* The list: its links are right at every moment, for any keys in any      *)
(* total order, towers of any height and any calls.                        *)
(***************************************************************************)
\* Node n is linked at level l to the first of the nodes behind it.
LinkRight(l, n) ==
  IF next[l][n] = Nil
  THEN \A m \in OnLevel(l) : ~ After(n, m)
  ELSE /\ next[l][n] \in OnLevel(l)
       /\ After(n, next[l][n])
       /\ \A m \in OnLevel(l) : After(n, m) => m = next[l][n] \/ Less(next[l][n], m)

LinksRight == \A l \in Levels : \A n \in OnLevel(l) : LinkRight(l, n)

HeightsBounded ==
  /\ height[head_] = kMaxHeight
  /\ \A k \in K : height[k] <= max_height

\* A search has gone past node n rightly.
Passed(n) == n = head_ \/ op = "SeekToLast" \/ Less(n, target)

\* It is at a node of its level, and has left all levels above at the place of the key.
SearchSound == pc = "search" =>
  /\ op # "none"
  /\ op # "SeekToLast" => target \in K
  /\ op = "Prev" => target = node_
  /\ level < max_height
  /\ x \in OnLevel(level) /\ Passed(x)
  /\ op = "Insert" =>
       \A l \in (level + 1)..(max_height - 1) :
         prev[l] \in OnLevel(l) /\ Passed(prev[l]) /\ ~ Follows(next[l][prev[l]])

IteratorSound == node_ # Nil => node_ \in Members

SkipInv == SkipListTypeOK /\ LinksRight /\ HeightsBounded /\ SearchSound /\ IteratorSound

LEMMA NilIsNoNode == Nil \notin Nodes
  BY NodesAssumption DEF Nodes

\* Levels 0 to kMaxHeight - 1.
LEMMA LevelFacts ==
  /\ kMaxHeight \in Nat \ {0}
  /\ 0 \in Levels
  /\ Levels \subseteq Nat
  /\ \A l \in Levels : l < kMaxHeight
  /\ \A l \in Levels : \A i \in 0..l : i \in Levels
  BY HeightAssumption DEF Levels

LEMMA InvImpliesSorted == SkipInv => LevelsSorted
  <1> SUFFICES ASSUME SkipInv,
                      NEW l \in Levels, NEW n \in OnLevel(l)
               PROVE  LET later == {m \in OnLevel(l) : After(n, m)}
                      IN  IF later = {} THEN next[l][n] = Nil
                          ELSE /\ next[l][n] \in later
                               /\ \A m \in later :
                                    m = next[l][n] \/ Less(next[l][n], m)
    BY DEF LevelsSorted
  <1>1. LinkRight(l, n)
    BY DEF SkipInv, LinksRight
  <1> QED  BY <1>1, NilIsNoNode DEF LinkRight, OnLevel

LEMMA SkipInitInv == SkipListInit => SkipInv
  <1> SUFFICES ASSUME SkipListInit PROVE SkipInv
    OBVIOUS
  <1>1. SkipListTypeOK
    <2>1. height \in [Nodes -> 0..kMaxHeight] /\ max_height \in 1..kMaxHeight
      BY LevelFacts DEF SkipListInit
    <2>2. next \in [Levels -> [Nodes -> K \union {Nil}]]
      BY DEF SkipListInit
    <2>3. level \in Levels /\ x \in Nodes
      BY LevelFacts DEF SkipListInit, Nodes
    <2>4. prev \in [Levels -> Nodes \union {Nil}]
      BY DEF SkipListInit
    <2> QED  BY <2>1, <2>2, <2>3, <2>4 DEF SkipListInit, SkipListTypeOK
  <1>2. \A l \in Levels : OnLevel(l) = {head_}
    <2> SUFFICES ASSUME NEW l \in Levels PROVE OnLevel(l) = {head_}
      OBVIOUS
    <2>1. l \in Nat /\ l < kMaxHeight
      BY LevelFacts
    <2>2. \A n \in Nodes : height[n] > l <=> n = head_
      BY <2>1, LevelFacts DEF SkipListInit
    <2> QED  BY <2>2 DEF OnLevel, Nodes
  <1>3. LinksRight
    BY <1>2 DEF SkipListInit, LinksRight, LinkRight, After, Nodes
  <1>4. HeightsBounded
    BY NodesAssumption, LevelFacts DEF SkipListInit, HeightsBounded, Nodes
  <1>5. SearchSound /\ IteratorSound
    BY DEF SkipListInit, SearchSound, IteratorSound
  <1> QED  BY <1>1, <1>3, <1>4, <1>5 DEF SkipInv

\* The head is as high as a node may be.
LEMMA HeadOnLevel ==
  ASSUME SkipInv, NEW l \in Levels
  PROVE  head_ \in OnLevel(l)
  BY LevelFacts DEF SkipInv, HeightsBounded, OnLevel, Nodes

LEMMA HeightNat ==
  ASSUME SkipInv, NEW n \in Nodes
  PROVE  height[n] \in Nat
  <1>1. height \in [Nodes -> 0..kMaxHeight]
    BY DEF SkipInv, SkipListTypeOK
  <1>2. height[n] \in 0..kMaxHeight
    BY <1>1
  <1> QED  BY <1>2, LevelFacts

\* What leaves the list alone leaves the links right.
LEMMA ListKept ==
  ASSUME SkipInv, UNCHANGED list
  PROVE  LinksRight' /\ HeightsBounded' /\ Members' = Members
  <1>1. \A l \in Levels : OnLevel(l)' = OnLevel(l)
    BY DEF list, OnLevel
  <1>2. LinksRight'
    BY <1>1 DEF SkipInv, LinksRight, LinkRight, list
  <1> QED  BY <1>2 DEF SkipInv, HeightsBounded, Members, list

\* The end of a call: nothing is searched for any more.
LEMMA EndsSound ==
  ASSUME Ends
  PROVE  /\ SearchSound'
         /\ pc' = "idle" /\ op' = "none" /\ target' = Nil /\ x' = head_ /\ level' \in Levels
         /\ prev' \in [Levels -> Nodes \union {Nil}]
  BY LevelFacts DEF Ends, SearchSound

----------------------------------------------------------------------------------
(***************************************************************************)
(* The searches.                                                           *)
(***************************************************************************)
LEMMA BeginInv ==
  ASSUME SkipInv, NEW call \in {"Insert", "Contains", "Seek", "SeekToLast", "Prev"},
         NEW k \in K \union {Nil}, Begin(call, k),
         call # "SeekToLast" => k \in K,
         call = "Prev" => k = node_
  PROVE  SkipInv'
  <1> USE DEF Begin
  <1>1. UNCHANGED list
    OBVIOUS
  <1>2. max_height \in 1..kMaxHeight /\ max_height - 1 \in Levels
    BY LevelFacts DEF SkipInv, SkipListTypeOK, Levels
  <1>3. SkipListTypeOK'
    BY <1>2 DEF SkipInv, SkipListTypeOK, list, Nodes
  <1>4. SearchSound'
    <2>1. head_ \in OnLevel(max_height - 1)
      BY <1>2, HeadOnLevel
    <2>2. (x \in OnLevel(level) /\ Passed(x))'
      BY <2>1 DEF OnLevel, Passed, list
    <2>3. ((level + 1)..(max_height - 1) = {} /\ level < max_height)'
      BY <1>2 DEF list
    <2>4. (op # "none" /\ (op # "SeekToLast" => target \in K) /\ (op = "Prev" => target = node_))'
      OBVIOUS
    <2> QED  BY <2>2, <2>3, <2>4 DEF SearchSound
  <1>5. IteratorSound'
    BY <1>1, ListKept DEF SkipInv, IteratorSound
  <1> QED  BY <1>1, <1>3, <1>4, <1>5, ListKept DEF SkipInv

\* The node to the right of one on its level is on that level.
LEMMA RightOnLevel ==
  ASSUME SkipInv, NEW l \in Levels, NEW n \in OnLevel(l), next[l][n] # Nil
  PROVE  next[l][n] \in OnLevel(l) /\ After(n, next[l][n])
  BY DEF SkipInv, LinksRight, LinkRight

LEMMA RightInv == ASSUME SkipInv, Right PROVE SkipInv'
  <1> USE DEF Right
  <1>1. UNCHANGED list
    OBVIOUS
  <1>2. level \in Levels /\ x \in OnLevel(level) /\ next[level][x] # Nil
    BY DEF SkipInv, SearchSound, SkipListTypeOK, Follows
  <1>3. x' \in OnLevel(level)
    BY <1>2, RightOnLevel
  <1>4. SkipListTypeOK'
    BY <1>3 DEF SkipInv, SkipListTypeOK, list, OnLevel
  <1>5. SearchSound'
    <2>1. (x \in OnLevel(level) /\ Passed(x))'
      BY <1>3 DEF OnLevel, Passed, Follows, list
    <2>2. (op = "Insert" =>
             \A l \in (level + 1)..(max_height - 1) :
               prev[l] \in OnLevel(l) /\ Passed(prev[l]) /\ ~ Follows(next[l][prev[l]]))'
      BY DEF SkipInv, SearchSound, Passed, Follows, OnLevel, list
    <2> QED  BY <2>1, <2>2 DEF SkipInv, SearchSound, list
  <1>6. IteratorSound'
    BY <1>1, ListKept DEF SkipInv, IteratorSound
  <1> QED  BY <1>1, <1>4, <1>5, <1>6, ListKept DEF SkipInv

LEMMA DownInv == ASSUME SkipInv, Down PROVE SkipInv'
  <1> USE DEF Down
  <1>1. UNCHANGED list
    OBVIOUS
  <1>2. /\ level \in Levels /\ level > 0 /\ level \in Nat
        /\ x \in OnLevel(level) /\ x \in Nodes
        /\ prev \in [Levels -> Nodes \union {Nil}]
        /\ max_height \in Nat
        /\ height \in [Nodes -> 0..kMaxHeight]
    BY LevelFacts DEF SkipInv, SearchSound, SkipListTypeOK
  <1>3. level - 1 \in Levels
    BY <1>2, LevelFacts
  <1>4. prev' \in [Levels -> Nodes \union {Nil}]
    BY <1>2
  <1>5. SkipListTypeOK'
    BY <1>3, <1>4 DEF SkipInv, SkipListTypeOK, list
  <1>6. SearchSound'
    <2>1. x \in OnLevel(level - 1)
      BY <1>2, LevelFacts DEF OnLevel
    <2>2. (x \in OnLevel(level) /\ Passed(x))'
      BY <2>1 DEF OnLevel, Passed, SkipInv, SearchSound, list
    <2>3. ASSUME op = "Insert", NEW l \in level..(max_height - 1)
          PROVE  /\ prev'[l] \in OnLevel(l)
                 /\ Passed(prev'[l])
                 /\ ~ Follows(next[l][prev'[l]])
      <3>1. l \in Levels
        BY <1>2, LevelFacts DEF Levels, SkipInv, SkipListTypeOK
      <3>2. CASE l = level
        BY <1>2, <2>3, <3>2 DEF SkipInv, SearchSound
      <3>3. CASE l # level
        <4>1. l \in (level + 1)..(max_height - 1) /\ prev'[l] = prev[l]
          BY <1>2, <2>3, <3>1, <3>3
        <4> QED  BY <2>3, <4>1 DEF SkipInv, SearchSound
      <3> QED  BY <3>2, <3>3
    <2>4. (op = "Insert" =>
             \A l \in (level + 1)..(max_height - 1) :
               prev[l] \in OnLevel(l) /\ Passed(prev[l]) /\ ~ Follows(next[l][prev[l]]))'
      BY <1>2, <2>3 DEF OnLevel, Passed, Follows, list
    <2>5. (level < max_height)'
      BY <1>2 DEF SkipInv, SearchSound, list
    <2> QED  BY <2>2, <2>4, <2>5 DEF SkipInv, SearchSound
  <1>7. IteratorSound'
    BY <1>1, ListKept DEF SkipInv, IteratorSound
  <1> QED  BY <1>1, <1>5, <1>6, <1>7, ListKept DEF SkipInv

----------------------------------------------------------------------------------
(***************************************************************************)
(* Insert.                                                                 *)
(***************************************************************************)
\* The place of the key on a level: behind node n, which is before it, and in front of
\* the node that n is linked to.
Place(l, n) ==
  /\ n \in OnLevel(l)
  /\ n = head_ \/ Less(n, target)
  /\ next[l][n] # Nil => ~ Less(next[l][n], target)

\* Insert finds the place of the key on every level.
LEMMA PredecessorsPlaced ==
  ASSUME SkipInv, Found("Insert"), NEW l \in Levels
  PROVE  Place(l, Predecessors[l])
  <1> USE DEF Found
  <1>1. Predecessors[l] =
          IF l >= max_height THEN head_ ELSE IF l = 0 THEN x ELSE prev[l]
    BY DEF Predecessors
  <1>2. l \in Nat /\ max_height \in Nat /\ 0 \in Levels
    BY LevelFacts DEF SkipInv, SkipListTypeOK
  <1>3. CASE l >= max_height
    <2>1. ASSUME NEW k \in K PROVE k \notin OnLevel(l)
      <3>1. height[k] \in Nat /\ height[k] <= max_height
        BY HeightNat DEF SkipInv, HeightsBounded, Nodes
      <3> QED  BY <1>2, <1>3, <3>1 DEF OnLevel
    <2>2. next[l][head_] = Nil
      BY <2>1, HeadOnLevel, RightOnLevel, NodesAssumption DEF OnLevel, Nodes, After
    <2> QED  BY <1>1, <1>3, <2>2, HeadOnLevel DEF Place
  <1>4. CASE l < max_height /\ l = 0
    BY <1>1, <1>2, <1>4 DEF SkipInv, SearchSound, Passed, Follows, Place
  <1>5. CASE l < max_height /\ l # 0
    <2>1. l \in (level + 1)..(max_height - 1)
      BY <1>2, <1>5
    <2> QED  BY <1>1, <1>2, <1>5, <2>1 DEF SkipInv, SearchSound, Passed, Follows, Place
  <1> QED  BY <1>2, <1>3, <1>4, <1>5

\* A key whose place is in front of another key is not in the list.
LEMMA TargetNew ==
  ASSUME SkipInv, Found("Insert"), next[0][x] # target
  PROVE  target \in K /\ height[target] = 0
  <1> USE DEF Found
  <1>1. target \in K /\ 0 \in Levels /\ x \in OnLevel(0)
    BY LevelFacts DEF SkipInv, SearchSound
  <1>2. After(x, target) /\ (next[0][x] # Nil => ~ Less(next[0][x], target))
    BY <1>1, NodesAssumption DEF SkipInv, SearchSound, Passed, Follows, After
  <1>3. target \notin OnLevel(0)
    BY <1>1, <1>2 DEF SkipInv, LinksRight, LinkRight
  <1>4. height[target] \in Nat
    BY <1>1, LevelFacts DEF SkipInv, SkipListTypeOK, Nodes
  <1> QED  BY <1>1, <1>3, <1>4 DEF OnLevel, Nodes

\* The links of one level once the key is put in its place.
LEMMA LinkedRight ==
  ASSUME SkipInv, NEW h \in Heights, NEW l \in Levels, l < h,
         target \in K, height[target] = 0,
         NEW p, Place(l, p),
         next'[l] = [next[l] EXCEPT ![target] = next[l][p], ![p] = target],
         height' = [height EXCEPT ![target] = h]
  PROVE  \A n \in OnLevel(l)' : LinkRight(l, n)'
  <1>1. /\ next[l] \in [Nodes -> K \union {Nil}]
        /\ target \in Nodes /\ target # Nil /\ target # head_ /\ p \in Nodes /\ p # target
        /\ height \in [Nodes -> 0..kMaxHeight]
        /\ l \in Nat /\ h \in Nat
    <2>1. next \in [Levels -> [Nodes -> K \union {Nil}]] /\ height \in [Nodes -> 0..kMaxHeight]
      BY DEF SkipInv, SkipListTypeOK
    <2>2. target \in Nodes /\ target # Nil /\ target # head_
      BY NodesAssumption DEF Nodes
    <2>3. l \in Nat /\ h \in Nat
      BY LevelFacts DEF Heights
    <2>4. p \in Nodes /\ p # target
      BY <2>3 DEF Place, OnLevel
    <2> QED  BY <2>1, <2>2, <2>3, <2>4
  <1>2. OnLevel(l)' = OnLevel(l) \union {target}
    BY <1>1 DEF OnLevel
  <1>3. next'[l][target] = next[l][p] /\ next'[l][p] = target
        /\ \A n \in Nodes \ {target, p} : next'[l][n] = next[l][n]
    BY <1>1
  <1>4. \A n \in OnLevel(l) : LinkRight(l, n) /\ n # target /\ n \in Nodes
    BY <1>1 DEF SkipInv, LinksRight, OnLevel
  <1> DEFINE after == next[l][p]
  <1>5. /\ p \in OnLevel(l) /\ After(p, target)
        /\ after # Nil => After(target, after) /\ after \in OnLevel(l)
    BY <1>1, <1>4, OrderAssumption, NodesAssumption
       DEF Place, LinkRight, After, OnLevel, Nodes
  <1> SUFFICES ASSUME NEW n \in OnLevel(l) \union {target} PROVE LinkRight(l, n)'
    BY <1>2
  <1>6. CASE n = target
    BY <1>1, <1>2, <1>3, <1>4, <1>5, <1>6, OrderAssumption, NodesAssumption
       DEF LinkRight, After, OnLevel, Nodes
  <1>7. CASE n = p
    BY <1>1, <1>2, <1>3, <1>4, <1>5, <1>7, OrderAssumption, NodesAssumption
       DEF LinkRight, After, OnLevel, Nodes
  <1>8. CASE n # target /\ n # p
    BY <1>1, <1>2, <1>3, <1>4, <1>5, <1>8, OrderAssumption, NodesAssumption
       DEF LinkRight, After, OnLevel, Nodes
  <1> QED  BY <1>6, <1>7, <1>8

LEMMA InsertEndsInv ==
  ASSUME SkipInv, NEW h \in Heights, InsertEnds(h)
  PROVE  SkipInv' /\ Members' = Members \union {target} /\ target \in K \ Members
  <1>1. /\ Found("Insert") /\ next[0][x] # target /\ Ends /\ UNCHANGED <<node_, answer>>
        /\ next' = Linked(Predecessors, h)
        /\ height' = [height EXCEPT ![target] = h]
        /\ max_height' = IF h > max_height THEN h ELSE max_height
    BY DEF InsertEnds
  <1>2. target \in K /\ height[target] = 0
    BY <1>1, TargetNew
  <1>3. /\ h \in 1..kMaxHeight /\ h \in Nat /\ kMaxHeight \in Nat
        /\ target \in Nodes /\ target # head_ /\ target # Nil
        /\ height \in [Nodes -> 0..kMaxHeight]
        /\ next \in [Levels -> [Nodes -> K \union {Nil}]]
        /\ max_height \in 1..kMaxHeight
    BY <1>2, NodesAssumption, LevelFacts DEF Heights, Nodes, SkipInv, SkipListTypeOK
  <1>4. \A l \in Levels : Place(l, Predecessors[l])
    BY <1>1, PredecessorsPlaced
  <1>5. ASSUME NEW l \in Levels
        PROVE  next'[l] =
                 IF l < h
                 THEN [next[l] EXCEPT ![target] = next[l][Predecessors[l]],
                                      ![Predecessors[l]] = target]
                 ELSE next[l]
    BY <1>1 DEF Linked
  <1>6. LinksRight'
    <2> SUFFICES ASSUME NEW l \in Levels PROVE \A n \in OnLevel(l)' : LinkRight(l, n)'
      BY DEF LinksRight
    <2>1. CASE l < h
      BY <1>1, <1>2, <1>4, <1>5, <2>1, LinkedRight
    <2>2. CASE ~ l < h
      <3>1. OnLevel(l)' = OnLevel(l)
        BY <1>1, <1>2, <1>3, <2>2, LevelFacts DEF OnLevel
      <3> QED  BY <1>5, <2>2, <3>1 DEF SkipInv, LinksRight, LinkRight
    <2> QED  BY <2>1, <2>2
  <1>7. HeightsBounded'
    BY <1>1, <1>2, <1>3 DEF SkipInv, HeightsBounded, Nodes
  <1>8. next' \in [Levels -> [Nodes -> K \union {Nil}]]
    <2>1. \A l \in Levels : Predecessors[l] \in Nodes
      BY <1>4 DEF Place, OnLevel
    <2>2. ASSUME NEW l \in Levels PROVE next'[l] \in [Nodes -> K \union {Nil}]
      <3>1. next[l] \in [Nodes -> K \union {Nil}] /\ Predecessors[l] \in Nodes
        BY <1>3, <2>1
      <3>2. next[l][Predecessors[l]] \in K \union {Nil}
        BY <3>1
      <3> QED  BY <1>2, <1>5, <3>1, <3>2
    <2> QED  BY <1>1, <2>2 DEF Linked
  <1>9. height' \in [Nodes -> 0..kMaxHeight] /\ max_height' \in 1..kMaxHeight
    BY <1>1, <1>3
  <1>10. SkipListTypeOK'
    BY <1>1, <1>8, <1>9, EndsSound, NodesAssumption DEF SkipInv, SkipListTypeOK, Nodes
  <1>11. Members' = Members \union {target} /\ target \in K \ Members
    BY <1>1, <1>2, <1>3 DEF Members, Nodes
  <1>12. IteratorSound'
    BY <1>1, <1>11 DEF SkipInv, IteratorSound
  <1> QED  BY <1>1, <1>6, <1>7, <1>10, <1>11, <1>12, EndsSound DEF SkipInv

----------------------------------------------------------------------------------
(***************************************************************************)
(* The other calls, and the theorem.                                       *)
(***************************************************************************)
\* The lowest level has all the members, each linked to the next.
LEMMA LowestLevel ==
  ASSUME SkipInv
  PROVE  /\ Members \subseteq K
         /\ OnLevel(0) = Members \union {head_}
         /\ \A n \in Members \union {head_} :
              /\ next[0][n] \in Members \union {Nil}
              /\ LinkRight(0, n)
  <1>1. OnLevel(0) = Members \union {head_}
    BY HeadOnLevel, LevelFacts DEF OnLevel, Members, Nodes
  <1>2. \A n \in OnLevel(0) : LinkRight(0, n)
    BY LevelFacts DEF SkipInv, LinksRight
  <1>3. \A n \in OnLevel(0) : next[0][n] \in Members \union {Nil}
    BY <1>1, <1>2 DEF LinkRight, After
  <1> QED  BY <1>1, <1>2, <1>3 DEF Members

LEMMA ReadEndsInv ==
  ASSUME SkipInv, ContainsEnds \/ SeekEnds \/ BackEnds
  PROVE  SkipInv'
  <1>1. /\ Ends /\ UNCHANGED list
        /\ answer' \in BOOLEAN
        /\ pc = "search" /\ level = 0
    BY DEF ContainsEnds, SeekEnds, BackEnds, Found, SkipInv, SkipListTypeOK
  <1>2. node_' \in Members \union {Nil}
    <2>1. CASE ContainsEnds
      BY <2>1 DEF ContainsEnds, SkipInv, IteratorSound
    <2>2. CASE SeekEnds
      BY <1>1, <2>2, LowestLevel DEF SeekEnds, Found, SkipInv, SearchSound
    <2>3. CASE BackEnds
      BY <1>1, <2>3, LowestLevel DEF BackEnds, Found, SkipInv, SearchSound
    <2> QED  BY <2>1, <2>2, <2>3
  <1>3. SkipListTypeOK' /\ IteratorSound'
    BY <1>1, <1>2, EndsSound, ListKept, LowestLevel, NodesAssumption
       DEF SkipInv, SkipListTypeOK, IteratorSound, list, Nodes
  <1> QED  BY <1>1, <1>3, EndsSound, ListKept DEF SkipInv

LEMMA IteratorMovesInv ==
  ASSUME SkipInv, SeekToFirst \/ IterNext
  PROVE  SkipInv'
  <1>1. UNCHANGED list /\ UNCHANGED <<answer, pc, op, target, x, level, prev>> /\ pc = "idle"
    BY DEF SeekToFirst, IterNext, search
  <1>2. node_' \in Members \union {Nil}
    BY LowestLevel DEF SeekToFirst, IterNext, SkipInv, IteratorSound
  <1>3. SkipListTypeOK' /\ IteratorSound'
    BY <1>1, <1>2, ListKept, LowestLevel DEF SkipInv, SkipListTypeOK, IteratorSound, list
  <1>4. SearchSound'
    BY <1>1 DEF SearchSound
  <1> QED  BY <1>1, <1>3, <1>4, ListKept DEF SkipInv

LEMMA SkipStepInv == SkipInv /\ [SkipListNext]_skipVars => SkipInv'
  <1> SUFFICES ASSUME SkipInv, [SkipListNext]_skipVars PROVE SkipInv'
    OBVIOUS
  <1>1. ASSUME NEW k \in K, Begin("Insert", k) \/ Begin("Contains", k) \/ Begin("Seek", k)
        PROVE  SkipInv'
    BY <1>1, BeginInv
  <1>2. CASE Begin("SeekToLast", Nil)
    BY <1>2, BeginInv
  <1>3. CASE node_ # Nil /\ Begin("Prev", node_)
    <2>1. node_ \in K
      BY <1>3 DEF SkipInv, SkipListTypeOK
    <2> QED  BY <1>3, <2>1, BeginInv
  <1>4. CASE SeekToFirst \/ IterNext
    BY <1>4, IteratorMovesInv
  <1>5. CASE Right
    BY <1>5, RightInv
  <1>6. CASE Down
    BY <1>6, DownInv
  <1>7. CASE InsertAborts
    BY <1>7, ListKept DEF InsertAborts, search, list, SkipInv, SkipListTypeOK, SearchSound,
                          IteratorSound
  <1>8. CASE ContainsEnds \/ SeekEnds \/ BackEnds
    BY <1>8, ReadEndsInv
  <1>9. ASSUME NEW h \in Heights, InsertEnds(h) PROVE SkipInv'
    BY <1>9, InsertEndsInv
  <1>10. CASE UNCHANGED skipVars
    <2>1. UNCHANGED <<list, node_, answer, pc, op, target, x, level, prev>>
      BY <1>10 DEF skipVars, search
    <2>2. SkipListTypeOK' /\ IteratorSound' /\ SearchSound'
      BY <2>1, ListKept
         DEF SkipInv, SkipListTypeOK, IteratorSound, SearchSound, Passed, Follows, OnLevel, list
    <2> QED  BY <2>1, <2>2, ListKept DEF SkipInv
  <1> QED  BY <1>1, <1>2, <1>3, <1>4, <1>5, <1>6, <1>7, <1>8, <1>9, <1>10
           DEF SkipListNext, Reads, Searching

\* At every level each node is linked to the next that is as high, in the middle of an
\* Insert and of every search as well: what Insert links behind, it has found.
THEOREM LinksAlwaysSorted == SkipListSpec => []LevelsSorted
  BY SkipInitInv, SkipStepInv, InvImpliesSorted, PTL DEF SkipListSpec

----------------------------------------------------------------------------------
(***************************************************************************)
(* The memtable uses its arena as ArenaSpec says and its list as           *)
(* SkipListSpec does.                                                      *)
(***************************************************************************)
LEMMA EntrySizeAsked == ASSUME NEW e \in Inserts PROVE EntrySize(e) \in Sizes
  BY SizesAssumption

LEMMA NodeSizeAsked == ASSUME NEW h \in 1..kMaxHeight PROVE NodeSize(h) \in Sizes
  BY SizesAssumption

\* Every step allocates once or not at all.
LEMMA StepAllocates == [Next]_memVars => [ArenaNext]_arenaVars
  <1> SUFFICES ASSUME [Next]_memVars PROVE [ArenaNext]_arenaVars
    OBVIOUS
  <1>1. CASE Construct
    <2>1. NodeSize(kMaxHeight) \in Sizes
      BY HeightAssumption, NodeSizeAsked
    <2> QED  BY <1>1, <2>1 DEF Construct, ArenaNext
  <1>2. ASSUME NEW e \in Inserts, Add(e)
        PROVE  ArenaNext
    BY <1>2, EntrySizeAsked DEF Add, ArenaNext
  <1>3. ASSUME NEW h \in Heights, AddEnds(h)
        PROVE  ArenaNext
    BY <1>3, NodeSizeAsked DEF AddEnds, ArenaNext, Heights
  <1>4. ASSUME NEW k \in Key, Get(k)
        PROVE  UNCHANGED arenaVars
    BY <1>4 DEF Get
  <1>5. CASE Read
    BY <1>5 DEF Read
  <1>6. CASE Search
    BY <1>6 DEF Search
  <1>7. CASE UNCHANGED memVars
    BY <1>7 DEF memVars
  <1> QED  BY <1>1, <1>2, <1>3, <1>4, <1>5, <1>6, <1>7 DEF Next

\* The nodes and the entries of a memtable lie in blocks of its arena, aligned, and
\* never on each other: AllocateAligned is used by Add and newNode alone.
THEOREM MemorySound == Spec => []PiecesSound
  <1>1. Init => ArenaInit
    BY DEF Init
  <1>2. ArenaInit /\ [][ArenaNext]_arenaVars => []PiecesSound
    BY ArenaSound DEF ArenaSpec
  <1> QED  BY <1>1, <1>2, StepAllocates, PTL DEF Spec

\* Usage of a memtable, which tells DB when to flush it, covers all it has taken.
THEOREM MemoryCovered == Spec => []UsageCovers
  <1>1. Init => ArenaInit
    BY DEF Init
  <1>2. ArenaInit /\ [][ArenaNext]_arenaVars => []UsageCovers
    BY ArenaUsageCovers DEF ArenaSpec
  <1> QED  BY <1>1, <1>2, StepAllocates, PTL DEF Spec

----------------------------------------------------------------------------------
(***************************************************************************)
(* The list.                                                               *)
(***************************************************************************)
LEMMA KeysLookedUp ==
  /\ Inserts \subseteq K
  /\ \A k \in Key : LookupKey(k) \in K
  /\ Nil = NULL
  BY MemTableAssumption

LEMMA StepSearches == [Next]_memVars => [SkipListNext]_skipVars
  <1> SUFFICES ASSUME [Next]_memVars PROVE [SkipListNext]_skipVars
    OBVIOUS
  <1>1. CASE Construct
    BY <1>1 DEF Construct
  <1>2. ASSUME NEW e \in Inserts, Add(e)
        PROVE  SkipListNext
    BY <1>2, KeysLookedUp DEF Add, SkipListNext
  <1>3. ASSUME NEW h \in Heights, AddEnds(h)
        PROVE  SkipListNext
    BY <1>3 DEF AddEnds, SkipListNext
  <1>4. ASSUME NEW k \in Key, Get(k)
        PROVE  SkipListNext
    BY <1>4, KeysLookedUp DEF Get, SkipListNext, Reads
  <1>5. CASE Read
    BY <1>5 DEF Read, SkipListNext
  <1>6. CASE Search
    BY <1>6 DEF Search, SkipListNext
  <1>7. CASE UNCHANGED memVars
    BY <1>7 DEF memVars
  <1> QED  BY <1>1, <1>2, <1>3, <1>4, <1>5, <1>6, <1>7 DEF Next

LEMMA ListSound == Spec => []SkipInv
  <1>1. Init => SkipInv
    BY SkipInitInv DEF Init
  <1>2. SkipInv /\ [Next]_memVars => SkipInv'
    BY SkipStepInv, StepSearches
  <1> QED  BY <1>1, <1>2, PTL DEF Spec

\* The links of the list of a memtable are right at every moment.
THEOREM MemTableSorted == Spec => []LevelsSorted
  BY ListSound, InvImpliesSorted, PTL

----------------------------------------------------------------------------------
(***************************************************************************)
(* The list is an ordered set.                                             *)
(***************************************************************************)
IsFirst(n, S) ==
  IF S = {} THEN n = Nil ELSE n \in S /\ \A m \in S \ {n} : Less(n, m)

IsLast(n, S) ==
  IF S = {} THEN n = Nil ELSE n \in S /\ \A m \in S \ {n} : Less(m, n)

LEMMA FirstIs ==
  ASSUME NEW S \in SUBSET K, NEW n, IsFirst(n, S)
  PROVE  OS!First(S) = n
  <1>1. CASE S = {}
    BY <1>1 DEF IsFirst, OS!First
  <1>2. CASE S # {}
    <2>1. n \in S /\ \A m \in S \ {n} : Less(n, m)
      BY <1>2 DEF IsFirst
    <2>2. \A a \in S : (\A b \in S \ {a} : Less(a, b)) => a = n
      BY <2>1, OrderAssumption
    <2>3. n \in S /\ \A b \in S \ {n} : Less(n, b)
      BY <2>1
    <2>4. (CHOOSE a \in S : \A b \in S \ {a} : Less(a, b)) = n
      BY ONLY <2>2, <2>3, Zenon
    <2> QED  BY <1>2, <2>4, Zenon DEF OS!First
  <1> QED  BY <1>1, <1>2

LEMMA LastIs ==
  ASSUME NEW S \in SUBSET K, NEW n, IsLast(n, S)
  PROVE  OS!Last(S) = n
  <1>1. CASE S = {}
    BY <1>1 DEF IsLast, OS!Last
  <1>2. CASE S # {}
    <2>1. n \in S /\ \A m \in S \ {n} : Less(m, n)
      BY <1>2 DEF IsLast
    <2>2. \A a \in S : (\A b \in S \ {a} : Less(b, a)) => a = n
      BY <2>1, OrderAssumption
    <2>3. n \in S /\ \A b \in S \ {n} : Less(b, n)
      BY <2>1
    <2>4. (CHOOSE a \in S : \A b \in S \ {a} : Less(b, a)) = n
      BY ONLY <2>2, <2>3, Zenon
    <2> QED  BY <1>2, <2>4, Zenon DEF OS!Last
  <1> QED  BY <1>1, <1>2

\* A link of the lowest level leads to the first member behind its node.
LEMMA LinkIsFirst ==
  ASSUME SkipInv, NEW n \in Members \union {head_}
  PROVE  IsFirst(next[0][n], {m \in Members : After(n, m)})
  <1>1. LinkRight(0, n) /\ OnLevel(0) = Members \union {head_} /\ Members \subseteq K
    BY LowestLevel
  <1>2. \A m \in OnLevel(0) : After(n, m) => m \in Members
    BY <1>1 DEF After
  <1> QED  BY <1>1, <1>2, NodesAssumption DEF LinkRight, IsFirst, After

\* Where a Seek ends: at the first member that is not before the key.
LEMMA SeekFinds ==
  ASSUME SkipInv, Found("Seek")
  PROVE  IsFirst(next[0][x], {m \in Members : ~ Less(m, target)})
  <1>1. /\ target \in K
        /\ x \in Members \union {head_} /\ (x = head_ \/ Less(x, target))
        /\ next[0][x] # Nil => ~ Less(next[0][x], target)
    BY LowestLevel DEF Found, Follows, SkipInv, SearchSound, Passed
  <1>2. IsFirst(next[0][x], {m \in Members : After(x, m)})
    BY <1>1, LinkIsFirst
  <1>3. Members \subseteq K /\ head_ \notin K
    BY LowestLevel, NodesAssumption
  <1> DEFINE behind == {m \in Members : After(x, m)}
             found == {m \in Members : ~ Less(m, target)}
  <1>4. found \subseteq behind
    BY <1>1, <1>3, OrderAssumption DEF After
  <1>5. CASE behind = {}
    BY <1>2, <1>4, <1>5 DEF IsFirst
  <1>6. CASE behind # {}
    <2>1. next[0][x] \in behind /\ \A m \in behind \ {next[0][x]} : Less(next[0][x], m)
      BY <1>2, <1>6 DEF IsFirst
    <2>2. next[0][x] \in found
      BY <1>1, <1>3, <2>1, NodesAssumption
    <2> QED  BY <1>4, <2>1, <2>2 DEF IsFirst
  <1> QED  BY <1>5, <1>6

\* Where SeekToLast and Prev end.
LEMMA BackFinds ==
  ASSUME SkipInv, BackEnds
  PROVE  IsLast(node_', {m \in Members : op = "SeekToLast" \/ Less(m, target)})
  <1>1. /\ op # "SeekToLast" => target \in K
        /\ x \in Members \union {head_}
        /\ x = head_ \/ op = "SeekToLast" \/ Less(x, target)
        /\ next[0][x] # Nil => op # "SeekToLast" /\ ~ Less(next[0][x], target)
    BY LowestLevel DEF BackEnds, Found, Follows, SkipInv, SearchSound, Passed
  <1>2. IsFirst(next[0][x], {m \in Members : After(x, m)})
    BY <1>1, LinkIsFirst
  <1>3. Members \subseteq K /\ head_ \notin K /\ node_' = IF x = head_ THEN Nil ELSE x
    BY LowestLevel, NodesAssumption DEF BackEnds
  <1> DEFINE passed == {m \in Members : op = "SeekToLast" \/ Less(m, target)}
  <1>4. \A m \in passed : m = x \/ ~ After(x, m)
    <2> SUFFICES ASSUME NEW m \in passed, After(x, m)
                 PROVE  FALSE
      OBVIOUS
    <2>1. /\ next[0][x] \in Members /\ next[0][x] # Nil
          /\ m = next[0][x] \/ Less(next[0][x], m)
      BY <1>2, <1>3, NodesAssumption DEF IsFirst
    <2>2. op # "SeekToLast" /\ ~ Less(next[0][x], target) /\ target \in K
      BY <1>1, <2>1
    <2>3. Less(m, target)
      BY <2>2
    <2> QED  BY <1>3, <2>1, <2>2, <2>3, OrderAssumption
  <1>5. CASE x = head_
    <2>1. passed = {}
      BY <1>3, <1>4, <1>5 DEF After
    <2> QED  BY <1>3, <1>5, <2>1 DEF IsLast
  <1>6. CASE x # head_
    <2>1. x \in passed
      BY <1>1, <1>6
    <2>2. \A m \in passed \ {x} : Less(m, x)
      BY <1>3, <1>4, <1>6, <2>1, OrderAssumption DEF After
    <2> QED  BY <1>3, <1>6, <2>1, <2>2 DEF IsLast
  <1> QED  BY <1>5, <1>6

\* A step that leaves members, cursor and answer alone is a stutter of the set.
LEMMA StutterMaps ==
  ASSUME SkipInv, UNCHANGED <<list, node_, answer>>
  PROVE  UNCHANGED OS!setVars
  BY ListKept DEF OS!setVars

LEMMA StepMaps == SkipInv /\ [SkipListNext]_skipVars => [OS!Next]_(OS!setVars)
  <1> SUFFICES ASSUME SkipInv, [SkipListNext]_skipVars PROVE [OS!Next]_(OS!setVars)
    OBVIOUS
  <1>0. Members \subseteq K
    BY LowestLevel
  <1>1. ASSUME NEW call, NEW k, Begin(call, k)
        PROVE  UNCHANGED OS!setVars
    BY <1>1, StutterMaps DEF Begin
  <1>2. CASE Right \/ Down \/ InsertAborts \/ UNCHANGED skipVars
    BY <1>2, StutterMaps DEF Right, Down, InsertAborts, skipVars
  <1>3. CASE SeekToFirst
    <2>1. {m \in Members : After(head_, m)} = Members
      BY <1>0, NodesAssumption DEF After
    <2>2. node_' = OS!First(Members)
      BY <1>0, <1>3, <2>1, LinkIsFirst, FirstIs DEF SeekToFirst
    <2> QED  BY <1>3, <2>2, ListKept DEF SeekToFirst, OS!Next, OS!SeekToFirst, OS!MoveTo
  <1>4. CASE IterNext
    <2>1. node_ \in Members /\ node_ # head_
      BY <1>0, <1>4, NodesAssumption DEF IterNext, SkipInv, IteratorSound
    <2>2. {m \in Members : After(node_, m)} = {m \in Members : Less(node_, m)}
      BY <1>0, <2>1, NodesAssumption DEF After
    <2>3. node_' = OS!First({m \in Members : Less(node_, m)})
      BY <1>0, <1>4, <2>1, <2>2, LinkIsFirst, FirstIs DEF IterNext
    <2> QED  BY <1>4, <2>3, ListKept DEF IterNext, OS!Next, OS!Advance, OS!MoveTo
  <1>5. CASE SeekEnds
    <2>1. Found("Seek") /\ node_' = next[0][x] /\ UNCHANGED <<list, answer>>
      BY <1>5 DEF SeekEnds
    <2>2. node_' = OS!First({m \in Members : ~ Less(m, target)})
      BY <1>0, <2>1, SeekFinds, FirstIs
    <2>3. target \in K
      BY <2>1 DEF Found, SkipInv, SearchSound
    <2> QED  BY <2>1, <2>2, <2>3, ListKept DEF OS!Next, OS!Seek, OS!MoveTo
  <1>6. CASE BackEnds
    <2>1. node_' = OS!Last({m \in Members : op = "SeekToLast" \/ Less(m, target)})
      BY <1>0, <1>6, BackFinds, LastIs
    <2>2. UNCHANGED <<list, answer>> /\ (op = "SeekToLast" \/ op = "Prev")
      BY <1>6 DEF BackEnds, Found
    <2>3. CASE op = "SeekToLast"
      BY <2>1, <2>2, <2>3, ListKept DEF OS!Next, OS!SeekToLast, OS!MoveTo
    <2>4. CASE op = "Prev"
      <3>1. target = node_ /\ node_ # Nil
        BY <1>6, <2>4, NodesAssumption DEF BackEnds, Found, SkipInv, SearchSound
      <3> QED  BY <2>1, <2>2, <2>4, <3>1, ListKept DEF OS!Next, OS!StepBack, OS!MoveTo
    <2> QED  BY <2>2, <2>3, <2>4
  <1>7. CASE ContainsEnds
    <2>1. /\ UNCHANGED <<list, node_>> /\ answer' = (next[0][x] = target) /\ target \in K
          /\ x \in Members \union {head_} /\ (x = head_ \/ Less(x, target))
          /\ next[0][x] # Nil => ~ Less(next[0][x], target)
      BY <1>7, LowestLevel DEF ContainsEnds, Found, Follows, SkipInv, SearchSound, Passed
    <2>2. IsFirst(next[0][x], {m \in Members : After(x, m)})
      BY <2>1, LinkIsFirst
    <2>3. (next[0][x] = target) <=> target \in Members
      BY <1>0, <2>1, <2>2, OrderAssumption, NodesAssumption DEF IsFirst, After
    <2>4. answer' = (target \in Members)
      BY <2>1, <2>3
    <2> QED  BY <2>1, <2>4, ListKept DEF OS!Next, OS!Contains
  <1>8. ASSUME NEW h \in Heights, InsertEnds(h)
        PROVE  OS!Next
    <2>1. UNCHANGED <<node_, answer>>
      BY <1>8 DEF InsertEnds
    <2> QED  BY <1>8, <2>1, InsertEndsInv DEF OS!Next, OS!Insert
  <1> QED  BY <1>1, <1>2, <1>3, <1>4, <1>5, <1>6, <1>7, <1>8 DEF SkipListNext, Reads, Searching

\* The list of a memtable and its iterator are an ordered set with a cursor: whatever
\* was inserted since the iterator was placed, it moves on to what is next now.
THEOREM ListIsOrderedSet == Spec => OrderedSetSpec
  <1>1. Init => OS!Init
    <2>1. Init => Members = {}
      BY NodesAssumption DEF Init, SkipListInit, Members, Nodes
    <2> QED  BY <2>1 DEF Init, SkipListInit, OS!Init
  <1>2. SkipInv /\ [Next]_memVars => [OS!Next]_(OS!setVars)
    BY StepSearches, StepMaps
  <1> QED  BY <1>1, <1>2, ListSound, PTL DEF Spec, OrderedSetSpec, OS!Spec

----------------------------------------------------------------------------------
(***************************************************************************)
(* Get.                                                                    *)
(***************************************************************************)
\* While looking is a key the search is Get's, and afterwards the iterator stays where
\* Get left it: Add and the other uses of the list give looking up.
LookInv == looking # NULL =>
  /\ looking \in Key
  /\ pc = "search" => op = "Seek" /\ target = LookupKey(looking)
  /\ pc = "idle" => IsFirst(node_, {m \in Members : ~ Less(m, LookupKey(looking))})

LEMMA LookStep == SkipInv /\ LookInv /\ [Next]_memVars => LookInv'
  <1> SUFFICES ASSUME SkipInv, LookInv, [Next]_memVars PROVE LookInv'
    OBVIOUS
  <1>1. CASE Construct \/ UNCHANGED memVars
    <2>1. UNCHANGED <<skipVars, looking>>
      BY <1>1 DEF Construct, memVars
    <2>2. Members' = Members
      BY <2>1 DEF Members, skipVars, list
    <2> QED  BY <2>1, <2>2 DEF LookInv, IsFirst, skipVars, search
  <1>2. ASSUME NEW e \in Inserts, Add(e)
        PROVE  LookInv'
    BY <1>2 DEF Add, LookInv
  <1>3. ASSUME NEW h \in Heights, AddEnds(h)
        PROVE  LookInv'
    <2>1. pc = "search" /\ op = "Insert" /\ UNCHANGED looking
      BY <1>3 DEF AddEnds, InsertEnds, Found
    <2> QED  BY <2>1 DEF LookInv
  <1>4. ASSUME NEW k \in Key, Get(k)
        PROVE  LookInv'
    BY <1>4 DEF Get, Begin, LookInv
  <1>5. CASE Read
    BY <1>5 DEF Read, LookInv
  <1>6. CASE Search
    <2> SUFFICES ASSUME looking # NULL
                 PROVE  LookInv'
      BY <1>6 DEF Search, LookInv
    <2>1. /\ pc = "search" /\ op = "Seek" /\ target = LookupKey(looking)
          /\ looking \in Key /\ UNCHANGED looking
      BY <1>6 DEF Search, Searching, Right, Down, InsertAborts, ContainsEnds, SeekEnds,
                  BackEnds, Found, LookInv
    <2>2. CASE Right \/ Down
      BY <2>1, <2>2 DEF Right, Down, LookInv
    <2>3. CASE SeekEnds
      <3>1. Members' = Members
        BY <2>3 DEF SeekEnds, Members, list
      <3>2. IsFirst(node_, {m \in Members : ~ Less(m, LookupKey(looking))})'
        BY <2>1, <2>3, <3>1, SeekFinds DEF SeekEnds, IsFirst
      <3> QED  BY <2>1, <2>3, <3>2 DEF SeekEnds, Ends, LookInv
    <2> QED  BY <1>6, <2>1, <2>2, <2>3
             DEF Search, Searching, InsertAborts, ContainsEnds, BackEnds, Found
  <1> QED  BY <1>1, <1>2, <1>3, <1>4, <1>5, <1>6 DEF Next

\* The first entry of a set of nodes, if the set has one that is before all others.
LEMMA FirstEntryIs ==
  ASSUME NEW S \in SUBSET K, NEW n \in S, \A m \in S \ {n} : Less(n, m)
  PROVE  FirstEntry(S) = n
  <1>1. n \in S /\ \A m \in S \ {n} : Before(n, m)
    BY MemTableAssumption
  <1>2. \A a \in S : (\A b \in S \ {a} : Before(a, b)) => a = n
    <2> SUFFICES ASSUME NEW a \in S, \A b \in S \ {a} : Before(a, b), a # n
                 PROVE  FALSE
      OBVIOUS
    <2>1. Before(a, n) /\ a \in K /\ n \in K
      OBVIOUS
    <2>2. Less(a, n) /\ Less(n, a)
      BY <2>1, MemTableAssumption
    <2> QED  BY <2>1, <2>2, OrderAssumption
  <1>3. (CHOOSE a \in S : \A b \in S \ {a} : Before(a, b)) = n
    BY ONLY <1>1, <1>2, Zenon
  <1> QED  BY <1>3, Zenon DEF FirstEntry

LEMMA LookedUp ==
  ASSUME SkipInv, LookInv, pc = "idle", looking # NULL
  PROVE  GetResult = MemTableGet(Members, looking)
  <1> DEFINE found == {m \in Members : ~ Less(m, LookupKey(looking))}
  <1>1. Members \subseteq K /\ LookupKey(looking) \in K /\ NULL \notin K
    BY LowestLevel, KeysLookedUp, NodesAssumption DEF LookInv
  <1>2. found = {e \in Members : ~ Before(e, LookupKey(looking))}
    BY <1>1, MemTableAssumption
  <1>3. IsFirst(node_, found)
    BY DEF LookInv
  <1>4. MemTableGet(Members, looking) =
          IF found = {} \/ FirstEntry(found).type = kTypeDeletion
          THEN NULL ELSE FirstEntry(found).value
    BY <1>2, Zenon DEF MemTableGet
  <1>5. CASE found = {}
    BY <1>3, <1>4, <1>5, KeysLookedUp DEF IsFirst, GetResult
  <1>6. CASE found # {}
    <2>1. node_ \in found /\ \A m \in found \ {node_} : Less(node_, m)
      BY <1>3, <1>6 DEF IsFirst
    <2>2. FirstEntry(found) = node_
      BY <1>1, <2>1, FirstEntryIs
    <2>3. node_ # NULL
      BY <1>1, <2>1
    <2> HIDE DEF found
    <2> QED  BY <1>4, <1>6, <2>2, <2>3 DEF GetResult
  <1> QED  BY <1>5, <1>6

\* MemTable::Get returns what MemTableGet says for the entries that are in the list,
\* which is what DB, DBDurability and the runs of DB take a lookup for.
THEOREM GetIsMemTableGet == Spec => []GetsAsMemTableGet
  <1>1. Init => LookInv
    BY DEF Init, LookInv
  <1>2. SkipInv /\ LookInv => GetsAsMemTableGet
    BY LookedUp DEF GetsAsMemTableGet
  <1> QED  BY <1>1, <1>2, LookStep, ListSound, PTL DEF Spec

----------------------------------------------------------------------------------
\* The variables of the arena, of the list and of Get keep their types.
THEOREM MemTableTypes == Spec => []TypeOK
  <1>1. ArenaSpec => []ArenaTypeOK
    <2>1. ArenaInv => ArenaTypeOK
      BY DEF ArenaInv
    <2> QED  BY <2>1, ArenaInitInv, ArenaStepInv, PTL DEF ArenaSpec
  <1>2. Init => ArenaInit /\ looking \in Key \union {NULL}
    BY DEF Init
  <1>3. looking \in Key \union {NULL} /\ [Next]_memVars => (looking \in Key \union {NULL})'
    BY DEF Next, memVars, Construct, Add, AddEnds, Get, Read, Search
  <1>4. SkipInv => SkipListTypeOK
    BY DEF SkipInv
  <1> QED  BY <1>1, <1>2, <1>3, <1>4, StepAllocates, ListSound, PTL DEF Spec, ArenaSpec, TypeOK
==================================================================================
