----------------------------------- MODULE Arena -----------------------------------
(***************************************************************************)
(* util::Arena, the memory of a memtable: pieces are cut from blocks that  *)
(* operator new[] returns and that are given back all at once.             *)
(*                                                                         *)
(* operator new[] returns aligned memory that overlaps with no other, so   *)
(* an address is a block and an offset in it.  Everything is about what    *)
(* the arena does within its blocks.                                       *)
(***************************************************************************)
EXTENDS Naturals, Sequences, FiniteSets

CONSTANTS
  kBlockSize,
  kAlign,     \* the "align" of AllocateAligned
  kPointer,   \* sizeof(char*)
  Sizes       \* what is asked for

ASSUME ArenaAssumption ==
  /\ kBlockSize \in Nat
  /\ kAlign \in Nat \ {0}
  /\ kPointer \in Nat
  /\ Sizes \subseteq Nat \ {0}

VARIABLES
  alloc_block, alloc_ptr,  \* alloc_ptr_: its block, 0 for nullptr, and the offset in it
  alloc_bytes_remaining,   \* alloc_bytes_remaining_
  blocks,                  \* blocks_: the size of each
  memory_usage,            \* memory_usage_
  allocated                \* history: the pieces handed out

arenaVars ==
  <<alloc_block, alloc_ptr, alloc_bytes_remaining, blocks, memory_usage, allocated>>

Piece(block, at, size) == [block |-> block, at |-> at, size |-> size]

slop == IF alloc_ptr % kAlign = 0 THEN 0 ELSE kAlign - (alloc_ptr % kAlign)

Fits(bytes) == bytes + slop <= alloc_bytes_remaining

Large(bytes) == bytes > kBlockSize \div 4

\* Mutant: the pointer moves by what was asked for.
AllocateFromBlockSlopless(bytes) ==
  /\ Fits(bytes)
  /\ allocated' = Append(allocated, Piece(alloc_block, alloc_ptr + slop, bytes))
  /\ alloc_ptr' = alloc_ptr + bytes
  /\ alloc_bytes_remaining' = alloc_bytes_remaining - bytes
  /\ UNCHANGED <<alloc_block, blocks, memory_usage>>

AllocateFromBlock(bytes) ==
  /\ Fits(bytes)
  /\ allocated' = Append(allocated, Piece(alloc_block, alloc_ptr + slop, bytes))
  /\ alloc_ptr' = alloc_ptr + (bytes + slop)
  /\ alloc_bytes_remaining' = alloc_bytes_remaining - (bytes + slop)
  /\ UNCHANGED <<alloc_block, blocks, memory_usage>>

\* allocateNewBlock.
AllocateNewBlock(bytes) ==
  /\ blocks' = Append(blocks, bytes)
  /\ memory_usage' = memory_usage + (bytes + kPointer)

\* Mutant: a block of its own is not counted.
AllocateOwnBlockUncounted(bytes) ==
  /\ ~ Fits(bytes)
  /\ Large(bytes)
  /\ blocks' = Append(blocks, bytes)
  /\ allocated' = Append(allocated, Piece(Len(blocks) + 1, 0, bytes))
  /\ UNCHANGED <<alloc_block, alloc_ptr, alloc_bytes_remaining, memory_usage>>

\* allocateFallback: a block of its own for a large piece.
AllocateOwnBlock(bytes) ==
  /\ ~ Fits(bytes)
  /\ Large(bytes)
  /\ AllocateNewBlock(bytes)
  /\ allocated' = Append(allocated, Piece(Len(blocks) + 1, 0, bytes))
  /\ UNCHANGED <<alloc_block, alloc_ptr, alloc_bytes_remaining>>

\* allocateFallback: the rest of the block is given up for a new one.
AllocateInNewBlock(bytes) ==
  /\ ~ Fits(bytes)
  /\ ~ Large(bytes)
  /\ AllocateNewBlock(kBlockSize)
  /\ alloc_block' = Len(blocks) + 1
  /\ alloc_ptr' = bytes
  /\ alloc_bytes_remaining' = kBlockSize - bytes
  /\ allocated' = Append(allocated, Piece(Len(blocks) + 1, 0, bytes))

AllocateAligned(bytes) ==
  \/ AllocateFromBlock(bytes)
  \/ AllocateOwnBlock(bytes)
  \/ AllocateInNewBlock(bytes)

ArenaInit ==
  /\ alloc_block = 0
  /\ alloc_ptr = 0
  /\ alloc_bytes_remaining = 0
  /\ blocks = <<>>
  /\ memory_usage = 0
  /\ allocated = <<>>

ArenaNext == \E bytes \in Sizes : AllocateAligned(bytes)

ArenaSpec == ArenaInit /\ [][ArenaNext]_arenaVars

----------------------------------------------------------------------------------
ArenaTypeOK ==
  /\ alloc_block \in 0..Len(blocks)
  /\ alloc_ptr \in Nat
  /\ alloc_bytes_remaining \in Nat
  /\ blocks \in Seq(Nat)
  /\ memory_usage \in Nat
  /\ allocated \in Seq([block : 1..Len(blocks), at : Nat, size : Nat])

\* What the arena hands out lies in one of its blocks, aligned, and no two pieces
\* overlap: neither nodes nor entries of a memtable are ever written over.
PiecesSound ==
  \A i \in DOMAIN allocated :
    LET a == allocated[i]
    IN  /\ a.at + a.size <= blocks[a.block]
        /\ a.at % kAlign = 0
        /\ \A j \in DOMAIN allocated \ {i} :
             LET b == allocated[j]
             IN  a.block = b.block => a.at + a.size <= b.at \/ b.at + b.size <= a.at

\* The bytes of a piece, and all that have been handed out.
Bytes(piece) == {piece.block} \X (piece.at..(piece.at + piece.size - 1))

Taken == UNION {Bytes(allocated[i]) : i \in DOMAIN allocated}

\* Usage(), which tells DB when a memtable is full, covers every byte handed out, in
\* shared blocks, in blocks of their own and in those of which the rest was given up.
UsageCovers == Cardinality(Taken) <= memory_usage
==================================================================================
