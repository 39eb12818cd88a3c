\* Up to three entries of four, in any order, with towers of up to three levels; one
\* entry is too large for a shared block of the arena.
SPECIFICATION FairSpec
CONSTANTS
  NULL = NULL
  Nil = NULL
  head_ = head_
  Key <- TwoKeys
  Value <- TwoLengths
  Inserts <- SomeInserts
  K <- SomeNodes
  Less <- Before
  Sizes <- SomeSizes
  MaxAdds = 3
  kMaxHeight = 3
  kBlockSize = 40
  kAlign = 2
  kPointer = 2
  EntryOverhead = 4
  NodeBytes = 6
INVARIANT TypeOK
INVARIANT PiecesSound
INVARIANT UsageCovers
INVARIANT LevelsSorted
INVARIANT GetsAsMemTableGet
PROPERTY OrderedSetSpec
PROPERTY SearchEnds
CHECK_DEADLOCK FALSE
