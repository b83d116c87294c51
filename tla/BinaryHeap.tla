----------------------------- MODULE BinaryHeap -----------------------------
(***************************************************************************)
(* The indexed binary heap of graph-algorithms/minCostFlow.cpp, as Dijkstra  *)
(* uses it: the items are vertices, less by mindis, which the caller writes   *)
(* before it pushes an item, or lowers before it calls adjustUp.  heap is the *)
(* sequence of the hs first entries of the array, at 0 .. hs-1 there;         *)
(* hpos[v] is where v stands, or stood last.                                  *)
(***************************************************************************)
EXTENDS Integers, Sequences, FiniteSets

CONSTANTS HeapItems, HeapCosts

ASSUME HeapAssumption == IsFiniteSet(HeapItems) /\ HeapCosts \subseteq Int

VARIABLES heap, hpos, mindis
heapVars == <<heap, hpos, mindis>>

HeapInit == /\ heap = <<>> /\ hpos = [v \in HeapItems |-> 0]
            /\ mindis \in [HeapItems -> HeapCosts]

\* The operators are over a record [heap, hpos] and what the comparator compares.
At(h, pos) == h.heap[pos + 1]
Put(h, pos, v) == [heap |-> [h.heap EXCEPT ![pos + 1] = v], hpos |-> [h.hpos EXCEPT ![v] = pos]]
Father(pos) == (pos - 1) \div 2

\* A loop carries the hole that its key is to fill.
Hole(h, pos) == [heap |-> h.heap, hpos |-> h.hpos, pos |-> pos]
Filled(g, key) == Put(g, g.pos, key)

\* Mutant: the position of what moves is not stored.
MovedUnnoted(g, q) == [heap |-> Put(g, g.pos, At(g, q)).heap, hpos |-> g.hpos, pos |-> q]

\* What is at q moves into the hole, which is then at q.
Moved(g, q) == Hole(Put(g, g.pos, At(g, q)), q)

\* The turns of a loop, as many as could be: one that has stopped stays.
Climb(g, key, c) ==
    IF g.pos > 0 /\ c[key] < c[At(g, Father(g.pos))] THEN Moved(g, Father(g.pos)) ELSE g

\* adjustUp(key): the ancestors of greater cost come down.
adjustUp(h, key, c) ==
    LET g[i \in 0 .. Len(h.heap)] ==
          IF i = 0 THEN Hole(h, h.hpos[key]) ELSE Climb(g[i - 1], key, c)
    IN  Filled(g[Len(h.heap)], key)

LesserSon(g, c) ==
    LET l == 2 * g.pos + 1
    IN  IF l + 1 < Len(g.heap) /\ c[At(g, l + 1)] < c[At(g, l)] THEN l + 1 ELSE l

Sink(g, key, c) ==
    IF 2 * g.pos + 1 < Len(g.heap) /\ ~(c[key] < c[At(g, LesserSon(g, c))])
    THEN Moved(g, LesserSon(g, c)) ELSE g

\* adjustDown(key): the lesser son comes up, unless key is less than it.
adjustDown(h, key, c) ==
    LET g[i \in 0 .. Len(h.heap)] ==
          IF i = 0 THEN Hole(h, h.hpos[key]) ELSE Sink(g[i - 1], key, c)
    IN  Filled(g[Len(h.heap)], key)

WithoutLast(h) == [heap |-> SubSeq(h.heap, 1, Len(h.heap) - 1), hpos |-> h.hpos]

\* Mutant: the last item takes the first place and stays there.
popUnsifted(h, c) ==
    LET last == h.heap[Len(h.heap)]
    IN  IF Len(h.heap) = 1 THEN WithoutLast(h) ELSE Put(WithoutLast(h), 0, last)

\* The first item leaves; the last takes its place, and sinks.
popHeap(h, c) ==
    LET last == h.heap[Len(h.heap)]
    IN  IF Len(h.heap) = 1 THEN WithoutLast(h)
        ELSE adjustDown(Put(WithoutLast(h), 0, last), last, c)

pushHeap(h, key, c) ==
    adjustUp([heap |-> Append(h.heap, key), hpos |-> [h.hpos EXCEPT ![key] = Len(h.heap)]],
             key, c)

Queue == [heap |-> heap, hpos |-> hpos]
InHeap(v) == \E i \in 1 .. Len(heap) : heap[i] = v
Inside == {v \in HeapItems : InHeap(v)}
SetTo(h) == heap' = h.heap /\ hpos' = h.hpos

Push(v, c) == /\ ~InHeap(v)
              /\ mindis' = [mindis EXCEPT ![v] = c]
              /\ SetTo(pushHeap(Queue, v, mindis'))
Lower(v, c) == /\ InHeap(v) /\ c < mindis[v]
               /\ mindis' = [mindis EXCEPT ![v] = c]
               /\ SetTo(adjustUp(Queue, v, mindis'))
Pop == heap # <<>> /\ SetTo(popHeap(Queue, mindis)) /\ UNCHANGED mindis
clear == heap' = <<>> /\ UNCHANGED <<hpos, mindis>>

HeapNext == \/ \E v \in HeapItems, c \in HeapCosts : Push(v, c) \/ Lower(v, c)
            \/ Pop
            \/ clear

HeapSpec == HeapInit /\ [][HeapNext]_heapVars

-----------------------------------------------------------------------------
HeapTypeOK ==
    /\ heap \in Seq(HeapItems)
    /\ hpos \in [HeapItems -> Nat]
    /\ mindis \in [HeapItems -> HeapCosts]

\* adjustUp, adjustDown, popHeap, pushHeap: no item costs less than its father, hpos
\* finds every item (the asserts of both loops), and the array is not longer than the
\* items are many, as its size S supposes.
IndexedHeapSound ==
    /\ \A pos \in 0 .. Len(heap) - 1 :
         /\ hpos[At(Queue, pos)] = pos
         /\ pos > 0 => mindis[At(Queue, Father(pos))] <= mindis[At(Queue, pos)]
    /\ Len(heap) <= Cardinality(HeapItems)

\* To the caller it is a set of items that wait with a cost: Pop takes out one of
\* the least, the others stay as they were.
Waiting == INSTANCE PriorityQueue WITH queue <- [v \in Inside |-> mindis[v]]
ImplementsQueue == Waiting!Spec
=============================================================================
