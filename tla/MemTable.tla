--------------------------------- MODULE MemTable ---------------------------------
(***************************************************************************)
(* table::MemTable: entries and the nodes of a SkipList, all in the memory *)
(* of one Arena.  Add copies the encoded entry and inserts it; Get and the *)
(* iterator that SSTable::Put runs search the list.                        *)
(***************************************************************************)
EXTENDS Entries, Arena, SkipList

CONSTANTS
  Inserts,         \* the entries that are added
  MaxAdds,         \* bound: how many of them
  EntryOverhead,   \* what EncodeMemTable takes besides the key and the value
  NodeBytes        \* sizeof(Node), with one link

ASSUME MemTableAssumption ==
  /\ Inserts \subseteq Entry
  /\ K = Inserts \union {LookupKey(k) : k \in Key}
  /\ \A a, b \in K : Less(a, b) <=> Before(a, b)
  /\ Nil = NULL
  /\ MaxAdds \in Nat

VARIABLE looking   \* the key of the Get that moved the iterator; NULL if something else did

\* A value's place in the order of values serves as its length.
EntrySize(e) == EntryOverhead + e.key[1] + e.value
NodeSize(h) == NodeBytes + kPointer * (h - 1)

ASSUME SizesAssumption ==
  Sizes = {EntrySize(e) : e \in Inserts} \union {NodeSize(h) : h \in 1..kMaxHeight}

memVars == <<arenaVars, skipVars, looking>>

----------------------------------------------------------------------------------
Constructed == allocated # <<>>

\* The constructor of the SkipList makes the head; nothing else happens before.
Construct ==
  /\ ~ Constructed
  /\ AllocateAligned(NodeSize(kMaxHeight))
  /\ UNCHANGED <<skipVars, looking>>

\* Add up to the search: the entry is encoded and copied.
Add(e) ==
  /\ Constructed
  /\ Len(allocated) < 2 * MaxAdds
  /\ Begin("Insert", e)
  /\ AllocateAligned(EntrySize(e))
  /\ looking' = NULL

\* The end of Insert, with the node it allocates.
AddEnds(h) ==
  /\ InsertEnds(h)
  /\ AllocateAligned(NodeSize(h))
  /\ UNCHANGED looking

\* Get up to the search, with an iterator of its own.
Get(k) ==
  /\ Constructed
  /\ Begin("Seek", LookupKey(k))
  /\ looking' = k
  /\ UNCHANGED arenaVars

\* What Get returns once its iterator is where it should be; NULL: false.
GetResult ==
  IF node_ = NULL \/ node_.type = kTypeDeletion THEN NULL ELSE node_.value

\* Other uses of the list and of an iterator.
Read ==
  /\ Constructed
  /\ Reads
  /\ looking' = NULL
  /\ UNCHANGED arenaVars

Search ==
  /\ Searching
  /\ UNCHANGED <<arenaVars, looking>>

Init == ArenaInit /\ SkipListInit /\ looking = NULL

Next ==
  \/ Construct
  \/ \E e \in Inserts : Add(e)
  \/ \E h \in Heights : AddEnds(h)
  \/ \E k \in Key : Get(k)
  \/ Read
  \/ Search

Spec == Init /\ [][Next]_memVars

\* A search is a loop that waits for nothing.
FairSpec == Spec /\ WF_memVars(Search \/ \E h \in Heights : AddEnds(h))

----------------------------------------------------------------------------------
TypeOK == ArenaTypeOK /\ SkipListTypeOK /\ looking \in Key \union {NULL}

\* The list and its iterator are an ordered set with a cursor: Insert, Contains, all
\* the moves of the iterator, also over entries that were added after it was placed.
OS == INSTANCE OrderedSet WITH members <- Members, cursor <- node_

OrderedSetSpec == OS!Spec

\* MemTable::Get, search and all, finds what Entries!MemTableGet says, which is what DB
\* takes a lookup for.
GetsAsMemTableGet ==
  pc = "idle" /\ looking # NULL => GetResult = MemTableGet(Members, looking)

\* Every search comes to an end, or to the assert in Insert.
SearchEnds == pc = "search" ~> pc # "search"
==================================================================================
