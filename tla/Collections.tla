---------------------------- MODULE Collections ----------------------------
(***************************************************************************)
(* What every container of data-structures/ promises of the elements it      *)
(* holds, however it arranges them: an operation adds one element, drops     *)
(* one, changes one, or empties the container; every other element stays as  *)
(* it was.                                                                   *)
(***************************************************************************)
EXTENDS Integers

CONSTANTS Ids,      \* the elements (a range of integers)
          Absent    \* the value of an element that is not in the container

VARIABLE content    \* the value of each element

Init == content \in [Ids -> Nat \cup {Absent}]

\* The step from the value old to the value new, where the elements of changed
\* differ.
\* insert, push, makeTree, join() (of the element between the trees)
Add(old, new, changed) == \E i \in changed : changed = {i} /\ old[i] = Absent
\* remove, extractMin, pop
Drop(old, new, changed) == \E i \in changed : changed = {i} /\ new[i] = Absent
\* decrease
Change(old, new, changed) ==
    \E i \in changed : changed = {i} /\ Absent \notin {old[i], new[i]}
\* clear
Wipe(old, new, changed) == \A i \in Ids : new[i] = Absent

Next == LET old == content
            new == content'
            changed == {i \in Ids : new[i] # old[i]}
        IN  \/ Add(old, new, changed)
            \/ Drop(old, new, changed)
            \/ Change(old, new, changed)
            \/ Wipe(old, new, changed)
Spec == Init /\ [][Next]_content
=============================================================================
