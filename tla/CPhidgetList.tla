---------------------------- MODULE CPhidgetList ----------------------------
(***************************************************************************)
(* The linked lists of cphidgetlist.c as sequences, head first.  The        *)
(* comparison function of a call and the element it is given are the set    *)
(* "same" of the elements that compare equal to that one.                  *)
(***************************************************************************)
EXTENDS Naturals, Sequences, FiniteSets

inList(list, same) == \E i \in 1 .. Len(list) : list[i] \in same

\* CList_findInList: the first element of the list that compares equal.
findInList(list, same) ==
  list[CHOOSE i \in 1 .. Len(list) :
         list[i] \in same /\ \A j \in 1 .. Len(list) : list[j] \in same => i <= j]

\* CList_addToList: refuses an element that compares equal to one in the list.
addToList(list, x, same) ==
  IF inList(list, same) THEN list ELSE Append(list, x)

\* The elements at the places in I, in their order: SelectSeq, as a function of
\* the places.
elementsAt(list, I) ==
  LET rank(i) == Cardinality({j \in I : j <= i})
  IN [k \in 1 .. Cardinality(I) |-> list[CHOOSE i \in I : rank(i) = k]]

\* CList_removeFromList: the loop stops once it has removed the head, and
\* otherwise removes every element that compares equal.
removeFromList(list, same) ==
  IF list # <<>> /\ Head(list) \in same
  THEN Tail(list)
  ELSE elementsAt(list, {i \in 1 .. Len(list) : list[i] \notin same})
=============================================================================
