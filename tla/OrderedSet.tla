-------------------------------- MODULE OrderedSet --------------------------------
(***************************************************************************)
(* What a SkipList with one iterator promises: a set in the order of its   *)
(* comparator, and a cursor that moves through it, over what has been      *)
(* inserted meanwhile as well.                                             *)
(***************************************************************************)
CONSTANTS K, Less(_, _), Nil

VARIABLES
  members,
  cursor,   \* a member, or Nil: the iterator is not valid
  answer    \* of the last Contains

setVars == <<members, cursor, answer>>

\* The first and the last member of S, Nil if there is none.
First(S) == IF S = {} THEN Nil ELSE CHOOSE a \in S : \A b \in S \ {a} : Less(a, b)
Last(S)  == IF S = {} THEN Nil ELSE CHOOSE a \in S : \A b \in S \ {a} : Less(b, a)

Init == members = {} /\ cursor = Nil /\ answer = FALSE

Insert(k) ==
  /\ k \notin members
  /\ members' = members \union {k}
  /\ UNCHANGED <<cursor, answer>>

Contains(k) ==
  /\ answer' = (k \in members)
  /\ UNCHANGED <<members, cursor>>

MoveTo(k) == cursor' = k /\ UNCHANGED <<members, answer>>

SeekToFirst == MoveTo(First(members))
SeekToLast == MoveTo(Last(members))

\* The first member that is not before k.
Seek(k) == MoveTo(First({m \in members : ~ Less(m, k)}))

Advance == cursor # Nil /\ MoveTo(First({m \in members : Less(cursor, m)}))
StepBack == cursor # Nil /\ MoveTo(Last({m \in members : Less(m, cursor)}))

Next ==
  \/ \E k \in K : Insert(k) \/ Contains(k) \/ Seek(k)
  \/ SeekToFirst \/ SeekToLast \/ Advance \/ StepBack

Spec == Init /\ [][Next]_setVars
==================================================================================
