---------------------------- MODULE SegmentTree ----------------------------
(***************************************************************************)
(* data-structures/segment_tree.h with its sum_node_t: sums of the ranges of *)
(* an array under assignment to, and addition over, a range.  What a node    *)
(* has not yet passed to its sons is pushed down by the next walk through it, *)
(* queries included, so a query writes.                                      *)
(***************************************************************************)
EXTENDS Integers, FiniteSetsExt

CONSTANTS ArrayLength,
          Amounts,      \* what is assigned or added
          ArrayMax      \* bound on an element

ASSUME ArrayAssumption == ArrayLength \in Nat \ {0} /\ Amounts \subseteq Int

VARIABLES tree,         \* the vector of nodes
          array,        \* a history: what they stand for
          asked         \* a history: the last step if it was a query, and its answer

treeVars == <<tree, array, asked>>

Positions == 0 .. ArrayLength - 1
Half(n) == (n + 1) \div 2
Greater(a, b) == IF a > b THEN a ELSE b
Lesser(a, b) == IF a < b THEN a ELSE b

\* The vector: room[n] is 1 << dep for an array of length n.
room[n \in 1 .. ArrayLength] == IF n > 1 THEN 2 * room[Half(n)] ELSE 2
TreeNodes == 0 .. room[ArrayLength] - 2

Node == [covered : BOOLEAN, s : Int, v : Int, add : Int]
Trees == [TreeNodes -> Node]

\* The sons of a node; the positions it stands for, which the code carries down the tree
\* as low and high.
ll(i) == 2 * i + 1
rr(i) == 2 * i + 2
father(i) == (i - 1) \div 2
middle(range) == (range.low + range.high) \div 2
span[i \in TreeNodes] ==
    IF i = 0 THEN [low |-> 0, high |-> ArrayLength - 1]
    ELSE LET f == span[father(i)]
         IN  IF i = ll(father(i)) THEN [low |-> f.low, high |-> middle(f)]
             ELSE [low |-> middle(f) + 1, high |-> f.high]

\* The nodes in use: some of the vector's lie below a leaf.
Used == {i \in TreeNodes : i = 0 \/ span[father(i)].low < span[father(i)].high}

Nothing == [start |-> 0, end |-> -1, sum |-> 0]

TreeInit == /\ tree = [i \in TreeNodes |-> [covered |-> FALSE, s |-> 0, v |-> 0, add |-> 0]]
            /\ array = [k \in Positions |-> 0]
            /\ asked = Nothing

\* Mutant: an addition that waits counts once, not once for each element.
getSumOnce(node, low, high) ==
    (IF node.covered THEN (high + 1 - low) * node.v ELSE node.s) + node.add

getSum(node, low, high) ==
    (IF node.covered THEN (high + 1 - low) * node.v ELSE node.s) + (high + 1 - low) * node.add

\* What a node holds back goes to its sons.
Covering(x, v) == [x EXCEPT !.v = v, !.covered = TRUE, !.add = 0]
Adding(x, add) == [x EXCEPT !.add = @ + add]
Given(x, son) == IF x.covered THEN Covering(son, x.v + x.add) ELSE Adding(son, x.add)
Emptied(x) == IF x.covered THEN [x EXCEPT !.covered = FALSE, !.v = @ + x.add, !.add = 0]
              ELSE [x EXCEPT !.add = 0]
Passed(t, i) ==
    [t EXCEPT ![i] = Emptied(@), ![ll(i)] = Given(t[i], @), ![rr(i)] = Given(t[i], @)]

\* sum_node_t::update(): then its sum is taken from theirs.
pushDown(t, i) ==
    LET u == Passed(t, i)
        mid == middle(span[i])
    IN  [u EXCEPT ![i].s = getSum(u[ll(i)], span[i].low, mid)
                         + getSum(u[rr(i)], mid + 1, span[i].high)]

\* sum_node_t::rewrite(): new is an assignment (covered) or an addition.
rewrite(node, new) ==
    IF new.covered THEN Covering(node, new.v) ELSE Adding(node, new.v)

\* A call of one of the helpers: the tree it finds, the positions it is about, its node.
Call(t, start, end, i) == [t |-> t, start |-> start, end |-> end, i |-> i]
Calls == {x \in [t : Trees, start : Positions, end : Positions, i : Used] :
            span[x.i].low <= x.start /\ x.start <= x.end /\ x.end <= span[x.i].high}
Exact(x) == x.start = span[x.i].low /\ x.end = span[x.i].high

\* The tree after the positions start .. end were rewritten.
update_helper(t, start, end, new) ==
    LET w[x \in Calls] ==
          LET mid == middle(span[x.i])
              a == pushDown(x.t, x.i)
              b == IF x.start <= mid
                   THEN w[Call(a, x.start, Lesser(mid, x.end), ll(x.i))] ELSE a
              c == IF x.end > mid
                   THEN w[Call(b, Greater(x.start, mid + 1), x.end, rr(x.i))] ELSE b
          IN  IF Exact(x) THEN [x.t EXCEPT ![x.i] = rewrite(@, new)] ELSE pushDown(c, x.i)
    IN  w[Call(t, start, end, 0)]

\* The tree after the walk, and the sum of start .. end.
query_helper(t, start, end) ==
    LET w[x \in Calls] ==
          LET mid == middle(span[x.i])
              a == pushDown(x.t, x.i)
              b == IF x.start <= mid THEN w[Call(a, x.start, mid, ll(x.i))]
                   ELSE [t |-> a, sum |-> 0]
              c == w[Call(b.t, Greater(x.start, mid + 1), x.end, rr(x.i))]
          IN  IF Exact(x)
              THEN [t |-> x.t, sum |-> getSum(x.t[x.i], span[x.i].low, span[x.i].high)]
              ELSE IF mid >= x.end THEN w[Call(a, x.start, x.end, ll(x.i))]
              ELSE [t |-> c.t, sum |-> b.sum + c.sum]
    IN  w[Call(t, start, end, 0)]

Changed(a, start, end, new) ==
    [k \in Positions |-> IF k \notin start .. end THEN a[k]
                         ELSE IF new.covered THEN new.v ELSE a[k] + new.v]
Total(a, start, end) == MapThenSumSet(LAMBDA k : a[k], start .. end)

Update(start, end, new) ==
    /\ \A k \in Positions : Changed(array, start, end, new)[k] <= ArrayMax
    /\ tree' = update_helper(tree, start, end, new)
    /\ array' = Changed(array, start, end, new)
    /\ asked' = Nothing
Query(start, end) ==
    /\ tree' = query_helper(tree, start, end).t
    /\ asked' = [start |-> start, end |-> end, sum |-> query_helper(tree, start, end).sum]
    /\ UNCHANGED array

TreeNext == \E start \in Positions : \E end \in start .. ArrayLength - 1 :
               \/ \E covered \in BOOLEAN, v \in Amounts :
                     Update(start, end, [covered |-> covered, v |-> v])
               \/ Query(start, end)
TreeSpec == TreeInit /\ [][TreeNext]_treeVars

-----------------------------------------------------------------------------
TreeTypeOK == /\ tree \in Trees
              /\ array \in [Positions -> Int]
              /\ asked \in [start : Int, end : Int, sum : Int]

\* segment_tree.h: a query answers the sum of the elements, whatever waits at the nodes
\* above them, in whatever order it came.
SumsRight == asked.sum = Total(array, asked.start, asked.end)
=============================================================================
