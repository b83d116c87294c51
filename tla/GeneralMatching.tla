-------------------------- MODULE GeneralMatching --------------------------
(***************************************************************************)
(* graph-algorithms/General_matching.cpp: maximum matching in a general      *)
(* graph.  A depth-first search for an augmenting path keeps its path on a   *)
(* stack; an odd cycle is contracted to a new vertex, numbered from n on, and *)
(* expanded when the path found runs through it.                             *)
(*                                                                           *)
(* The state g of a search: edge (a symmetric set of pairs), match, removed  *)
(* (the contracted vertices), flower and root (the cycle of a contracted     *)
(* vertex, the vertex it was contracted to), stack, instack, pedge, color,   *)
(* father, n (the next new vertex), found, ok (no assertion failed).         *)
(***************************************************************************)
EXTENDS Integers, Sequences, SequencesExt, FiniteSetsExt

\* contract(): the new vertex g.n gets the edges that leave the cycle `list'.
contract(g, list) ==
    LET n == g.n
        removed == g.removed \cup ToSet(list)
        out == {j \in 0..n - 1 : j \notin removed /\ \E i \in ToSet(list) : <<i, j>> \in g.edge}
    IN  [g EXCEPT !.edge = {e \in @ : n \notin {e[1], e[2]}} \cup {<<n, j>> : j \in out}
                             \cup {<<j, n>> : j \in out},
                  !.removed = removed, !.flower[n] = list, !.n = n + 1,
                  !.root = [v \in DOMAIN @ |-> IF v \in ToSet(list) THEN n
                                               ELSE IF v = n THEN -1 ELSE @[v]],
                  !.ok = @ /\ Len(list) % 2 = 1]

\* Mutant: the flower is always walked forwards.
PetalsForward(g, super, x) ==
    LET list == g.flower[super]
        i == CHOOSE i \in 1..Len(list) : <<list[i], x>> \in g.edge
    IN  SubSeq(list, 1, i)
\* The part of a flower on the even side from its stem to the vertex that has
\* an edge to x.
Petals(g, super, x) ==
    LET list == g.flower[super]
        i == CHOOSE i \in 1..Len(list) :
                 <<list[i], x>> \in g.edge /\ \A j \in 1..i - 1 : <<list[j], x>> \notin g.edge
    IN  IF i % 2 = 1 THEN SubSeq(list, 1, i)
        ELSE <<list[1]>> \o Reverse(SubSeq(list, i, Len(list)))

\* augment(): the path is read from its end; f says whether the vertex v at hand
\* is matched with the one before it.  A contracted vertex before v is expanded
\* in place, from the side of v or from that of its predecessor; it is joined to v,
\* an odd cycle, and one of its vertices is joined to the neighbour.
RECURSIVE expand(_, _, _, _)
expand(g, s, path, f) ==
    LET v == Last(path)
        rest == Front(path)
        super == Last(rest)
        below == Front(rest)
        next == IF f THEN v ELSE IF below = <<>> THEN s ELSE Last(below)
        petals == Petals(g, super, next)
        asserted == /\ <<super, v>> \in g.edge /\ Len(g.flower[super]) % 2 = 1
                    /\ \E x \in ToSet(g.flower[super]) : <<x, next>> \in g.edge
    IN  IF super < g.nn THEN [path |-> rest, ok |-> TRUE]
        ELSE IF ~asserted THEN [path |-> rest, ok |-> FALSE]
        ELSE expand(g, s, below \o (IF f THEN petals ELSE Reverse(petals)) \o <<v>>, f)
RECURSIVE augment(_, _, _, _)
augment(g, s, path, f) ==
    LET v == Last(path)
        rest == expand(g, s, path, f)
        u == Last(rest.path)
        h == IF f THEN [g EXCEPT !.match[v] = u, !.match[u] = v] ELSE g
    IN  IF Len(path) = 1 THEN [g EXCEPT !.found = TRUE]
        ELSE IF v >= g.nn \/ ~rest.ok THEN [g EXCEPT !.ok = FALSE]
        ELSE augment([h EXCEPT !.ok = @ /\ <<v, h.match[v]>> \in g.edge], s, rest.path, ~f)

RECURSIVE getroot(_, _)
getroot(g, v) == IF g.root[v] = -1 THEN v ELSE getroot(g, g.root[v])

Push(g, v, col, from) ==
    [g EXCEPT !.stack = Append(@, v), !.color[v] = col, !.father[v] = from, !.pedge[v] = 0]

\* u was reached from v, both even: the cycle they close is contracted.
closeCycle(g, v, u) ==
    LET at == CHOOSE i \in 1..Len(g.stack) : /\ g.stack[i] = u
                                             /\ \A j \in i + 1..Len(g.stack) : g.stack[j] # u
        up(x) == LET y == g.father[getroot(g, x)] IN IF y = -1 THEN -1 ELSE getroot(g, y)
        RECURSIVE forward(_)
        forward(x) == <<x>> \o IF x \in {v, -1} \cup g.removed THEN <<>> ELSE forward(up(x))
        cut == IF g.instack[u] THEN at - 1 ELSE Len(g.stack) - 1
        list == IF g.instack[u] THEN SubSeq(g.stack, at, Len(g.stack))
                ELSE Reverse(forward(u))
        h == contract([g EXCEPT !.stack = SubSeq(@, 1, cut),
                                !.ok = @ /\ (g.instack[u] \/ (v >= g.nn /\ list[1] = v))], list)
    IN  [Push(h, g.n, "EVEN", IF cut > 0 THEN h.stack[cut] ELSE -1)
            EXCEPT !.instack[g.n] = TRUE]

RECURSIVE search(_, _)
search(g, s) ==
    LET v == Last(g.stack)
        p == [g EXCEPT !.stack = Front(@), !.instack[v] = FALSE]
        u == Min({x \in g.pedge[v]..g.n - 1 : /\ <<v, x>> \in g.edge /\ x \notin g.removed
                                              /\ g.color[x] # "ODD"} \cup {g.n})
        h == [g EXCEPT !.instack[v] = TRUE, !.pedge[v] = u + 1, !.ok = @ /\ g.color[v] = "EVEN"]
        odd == [Push(h, u, "ODD", v) EXCEPT !.instack[u] = TRUE]
    IN  IF g.stack = <<>> THEN g
        ELSE IF g.color[v] = "ODD" THEN search(p, s)
        ELSE IF u = g.n THEN search([p EXCEPT !.pedge[v] = u], s)
        ELSE IF g.color[u] = "EVEN" THEN search(closeCycle(h, v, u), s)
        ELSE IF g.match[u] = -1 THEN augment(odd, s, odd.stack, TRUE)
        ELSE IF g.color[g.match[u]] # "WHITE" THEN [g EXCEPT !.ok = FALSE]
        ELSE search(Push(odd, g.match[u], "EVEN", u), s)

\* findPath(s, n): the search starts afresh but for edge, match and instack.
findPath(g, s) ==
    search([g EXCEPT !.removed = {}, !.n = g.nn, !.stack = <<s>>, !.found = FALSE,
                     !.color = [v \in DOMAIN @ |-> IF v = s THEN "EVEN" ELSE "WHITE"],
                     !.root = [v \in DOMAIN @ |-> -1], !.pedge[s] = 0, !.father[s] = -1], s)

\* myindex, the order in which the vertices look for a mate, is shuffled.
generalMaximumMatching(n, edge, myindex) ==
    LET all(x) == [v \in 0..2 * n - 1 |-> x]
        one(g, v) ==
            LET h == findPath(g, v) IN
            IF g.match[v] # -1 THEN g
            ELSE IF h.found THEN [h EXCEPT !.re = @ + 1] ELSE h
    IN  FoldLeft(one, [edge |-> edge, match |-> all(-1), removed |-> {}, flower |-> all(<<>>),
                       root |-> all(-1), stack |-> <<>>, instack |-> all(FALSE),
                       pedge |-> all(0), color |-> all("WHITE"), father |-> all(-1), n |-> n,
                       nn |-> n, found |-> FALSE, ok |-> TRUE, re |-> 0], myindex)
=============================================================================
