---------------------------------- MODULE SkipList ----------------------------------
(***************************************************************************)
(* lsm::SkipList and one SkipListIterator.  A node has a tower of links,   *)
(* one per level, each to the next node that is as high; a search goes     *)
(* right as long as it may and then one level down.  One turn of a search  *)
(* loop is one step.                                                       *)
(*                                                                         *)
(* A node is known by its key, which the assert in Insert makes unique.    *)
(* Level n here is next_[n] in the code, the lowest being 0.               *)
(***************************************************************************)
EXTENDS Naturals

CONSTANTS
  K, Less(_, _),  \* the keys, and whether Compare says less of two of them
  kMaxHeight,
  head_, Nil      \* head_ and nullptr

ASSUME OrderAssumption ==
  \A a, b, c \in K :
    /\ ~ Less(a, a)
    /\ Less(a, b) /\ Less(b, c) => Less(a, c)
    /\ a = b \/ Less(a, b) \/ Less(b, a)

ASSUME NodesAssumption == head_ \notin K /\ Nil \notin K /\ head_ # Nil
ASSUME HeightAssumption == kMaxHeight \in Nat \ {0}

VARIABLES
  next,        \* next[l][n]: the link of node n at level l
  height,      \* the height of a node's tower; 0 for a key that has no node
  max_height,  \* max_height_
  node_,       \* the node the iterator is at
  answer,      \* what the last Contains returned
  pc,          \* "idle", "search", "aborted"
  op, target,  \* the call that searches, and the key it is after
  x, level,    \* the locals of a search
  prev         \* Insert's array; Nil is an element that has not been written

list == <<next, height, max_height>>
search == <<op, target, x, level, prev>>
skipVars == <<list, node_, answer, pc, search>>

Levels == 0..(kMaxHeight - 1)
Nodes == K \union {head_}

\* Mutant: the search runs on over a node that equals the key.
FollowsEqual(n) == n # Nil /\ (op # "SeekToLast" => ~ Less(target, n))

\* findGreaterOrEqual and findLessThan go on to nodes before the key, findLast to any.
Follows(n) == n # Nil /\ (op # "SeekToLast" => Less(n, target))

----------------------------------------------------------------------------------
(***************************************************************************)
(* The search.                                                             *)
(***************************************************************************)
Begin(call, k) ==
  /\ pc = "idle"
  /\ pc' = "search"
  /\ op' = call
  /\ target' = k
  /\ x' = head_
  /\ level' = max_height - 1
  /\ prev' = [l \in Levels |-> Nil]
  /\ UNCHANGED <<list, node_, answer>>

Right ==
  /\ pc = "search"
  /\ Follows(next[level][x])
  /\ x' = next[level][x]
  /\ UNCHANGED <<list, node_, answer, pc, op, target, level, prev>>

\* Mutant: the level is not left.
DownNowhere ==
  /\ pc = "search"
  /\ ~ Follows(next[level][x])
  /\ level > 0
  /\ prev' = IF op = "Insert" THEN [prev EXCEPT ![level] = x] ELSE prev
  /\ UNCHANGED <<list, node_, answer, pc, op, target, x, level>>

Down ==
  /\ pc = "search"
  /\ ~ Follows(next[level][x])
  /\ level > 0
  /\ level' = level - 1
  /\ prev' = IF op = "Insert" THEN [prev EXCEPT ![level] = x] ELSE prev
  /\ UNCHANGED <<list, node_, answer, pc, op, target, x>>

Found(call) ==
  /\ pc = "search"
  /\ op = call
  /\ level = 0
  /\ ~ Follows(next[0][x])

\* The call returns, and its locals are gone.
Ends ==
  /\ pc' = "idle"
  /\ op' = "none"
  /\ target' = Nil
  /\ x' = head_
  /\ level' = 0
  /\ prev' = [l \in Levels |-> Nil]

----------------------------------------------------------------------------------
(***************************************************************************)
(* Insert and Contains.                                                    *)
(***************************************************************************)
\* Mutant: one more than the tower of the head has room for.
HeightsPastMax == 1..(kMaxHeight + 1)

\* What randomHeight may return.
Heights == 1..kMaxHeight

\* Mutant: the links that lead to the node are set on its lowest level only.
LinkedBottom(p, h) ==
  [l \in Levels |->
     IF l < h
     THEN [next[l] EXCEPT ![target] = next[l][p[l]], ![p[l]] = IF l = 0 THEN target ELSE @]
     ELSE next[l]]

\* The links once a node of height h is put behind the nodes p.
Linked(p, h) ==
  [l \in Levels |->
     IF l < h THEN [next[l] EXCEPT ![target] = next[l][p[l]], ![p[l]] = target]
     ELSE next[l]]

\* The levels above max_height_ have no node but the head.
Predecessors ==
  [l \in Levels |-> IF l >= max_height THEN head_ ELSE IF l = 0 THEN x ELSE prev[l]]

InsertEnds(h) ==
  /\ Found("Insert")
  /\ next[0][x] # target
  /\ next' = Linked(Predecessors, h)
  /\ height' = [height EXCEPT ![target] = h]
  /\ max_height' = IF h > max_height THEN h ELSE max_height
  /\ Ends
  /\ UNCHANGED <<node_, answer>>

\* assert(x == nullptr || !equal(key, x->key)).
InsertAborts ==
  /\ Found("Insert")
  /\ next[0][x] = target
  /\ pc' = "aborted"
  /\ UNCHANGED <<list, node_, answer, search>>

ContainsEnds ==
  /\ Found("Contains")
  /\ answer' = (next[0][x] = target)
  /\ Ends
  /\ UNCHANGED <<list, node_>>

----------------------------------------------------------------------------------
(***************************************************************************)
(* The iterator.                                                           *)
(***************************************************************************)
SeekToFirst ==
  /\ pc = "idle"
  /\ node_' = next[0][head_]
  /\ UNCHANGED <<list, answer, pc, search>>

\* Next of an iterator that is valid.
IterNext ==
  /\ pc = "idle"
  /\ node_ # Nil
  /\ node_' = next[0][node_]
  /\ UNCHANGED <<list, answer, pc, search>>

SeekEnds ==
  /\ Found("Seek")
  /\ node_' = next[0][x]
  /\ Ends
  /\ UNCHANGED <<list, answer>>

\* Mutant: the head is taken for a node with a key.
BackEndsAtHead ==
  /\ Found("SeekToLast") \/ Found("Prev")
  /\ node_' = x
  /\ Ends
  /\ UNCHANGED <<list, answer>>

\* SeekToLast and Prev.
BackEnds ==
  /\ Found("SeekToLast") \/ Found("Prev")
  /\ node_' = IF x = head_ THEN Nil ELSE x
  /\ Ends
  /\ UNCHANGED <<list, answer>>

----------------------------------------------------------------------------------
SkipListInit ==
  /\ next = [l \in Levels |-> [n \in Nodes |-> Nil]]
  /\ height = [n \in Nodes |-> IF n = head_ THEN kMaxHeight ELSE 0]
  /\ max_height = 1
  /\ node_ = Nil
  /\ answer = FALSE
  /\ pc = "idle"
  /\ op = "none"
  /\ target = Nil
  /\ x = head_
  /\ level = 0
  /\ prev = [l \in Levels |-> Nil]

\* What a caller may do with the list and with the iterator besides Insert.
Reads ==
  \/ \E k \in K : Begin("Contains", k) \/ Begin("Seek", k)
  \/ SeekToFirst \/ IterNext
  \/ Begin("SeekToLast", Nil)
  \/ node_ # Nil /\ Begin("Prev", node_)

\* The steps of a search that change nothing but locals, the iterator and the answer.
Searching == Right \/ Down \/ InsertAborts \/ ContainsEnds \/ SeekEnds \/ BackEnds

SkipListNext ==
  \/ Reads
  \/ Searching
  \/ \E k \in K : Begin("Insert", k)
  \/ \E h \in Heights : InsertEnds(h)

SkipListSpec == SkipListInit /\ [][SkipListNext]_skipVars

----------------------------------------------------------------------------------
SkipListTypeOK ==
  /\ next \in [Levels -> [Nodes -> K \union {Nil}]]
  /\ height \in [Nodes -> 0..kMaxHeight]
  /\ max_height \in 1..kMaxHeight
  /\ node_ \in K \union {Nil}
  /\ answer \in BOOLEAN
  /\ pc \in {"idle", "search", "aborted"}
  /\ op \in {"none", "Insert", "Contains", "Seek", "SeekToLast", "Prev"}
  /\ target \in K \union {Nil}
  /\ x \in Nodes
  /\ level \in Levels
  /\ prev \in [Levels -> Nodes \union {Nil}]

Members == {k \in K : height[k] > 0}

OnLevel(l) == {n \in Nodes : height[n] > l}

After(n, m) == m # head_ /\ (n = head_ \/ Less(n, m))

\* At every level each node is linked to the next node that is as high, which is what
\* a search that comes down from above relies on.
LevelsSorted ==
  \A l \in Levels : \A n \in OnLevel(l) :
    LET later == {m \in OnLevel(l) : After(n, m)}
    IN  IF later = {} THEN next[l][n] = Nil
        ELSE next[l][n] \in later /\ \A m \in later : m = next[l][n] \/ Less(next[l][n], m)
==================================================================================
