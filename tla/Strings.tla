------------------------------- MODULE Strings -------------------------------
(***************************************************************************)
(* string-algorithms/string-algorithms.cpp: matching and two automata.        *)
(* A string is a function of 0..n-1, or a sequence, an automaton a            *)
(* record of functions of its nodes.                                         *)
(***************************************************************************)
EXTENDS Integers, FiniteSets, SequencesExt, FiniteSetsExt

Loop(a, b) == [i \in 1..b - a + 1 |-> a + i - 1]    \* for (i = a; i <= b; i++)

-----------------------------------------------------------------------------
\* Mutant: after an occurrence the search starts afresh, and misses one that
\* overlaps it.
KMPmatchApart(text, n, pattern, m) ==
    LET at(i) == \A j \in 0..m - 1 : pattern[j] = text[i + j]
        scan(s, i) == IF i >= s.next /\ i + m <= n /\ at(i)
                      THEN [next |-> i + m, ret |-> Append(s.ret, i)] ELSE s
    IN  FoldLeft(scan, [next |-> 0, ret |-> <<>>], Loop(0, n - 1)).ret
\* KMP.  k is the last matched position of the pattern, -1 for none.
KMPmatch(text, n, pattern, m) ==
    LET RECURSIVE back(_, _, _)
        back(fail, k, c) == IF k # -1 /\ pattern[k + 1] # c THEN back(fail, fail[k], c) ELSE k
        advance(fail, k, c) == LET j == back(fail, k, c) IN IF pattern[j + 1] = c THEN j + 1 ELSE j
        build(s, i) == LET k == advance(s.fail, s.k, pattern[i])
                       IN  [k |-> k, fail |-> [s.fail EXCEPT ![i] = k]]
        fail == FoldLeft(build, [k |-> -1, fail |-> [i \in 0..m - 1 |-> -1]], Loop(1, m - 1)).fail
        scan(s, i) == LET k == advance(fail, s.k, text[i])
                      IN  IF k = m - 1 THEN [k |-> fail[k], ret |-> Append(s.ret, i - m + 1)]
                          ELSE [s EXCEPT !.k = k]
    IN  FoldLeft(scan, [k |-> -1, ret |-> <<>>], Loop(0, n - 1)).ret

\* The window [idx, reach] is the one that reaches furthest right so far.
extended_kmp(pattern, n) ==
    LET RECURSIVE extend(_, _)
        extend(p, i) == IF p + i < n /\ pattern[p] = pattern[p + i] THEN extend(p + 1, i) ELSE p
        step(s, i) ==
            LET p == extend(IF s.reach >= i THEN Min({s.reach + 1 - i, s.ext[i - s.idx]}) ELSE 0, i)
                t == [s EXCEPT !.ext[i] = p]
            IN  IF p + i - 1 > s.reach THEN [t EXCEPT !.reach = p + i - 1, !.idx = i] ELSE t
    IN  FoldLeft(step, [reach |-> 0, idx |-> 0, ext |-> [i \in 0..n - 1 |-> n]], Loop(1, n - 1)).ext
\* text is read up to text[m], which is past its end, and overwritten in place by
\* the answers; an answer is written only after the last read of its cell.
longest_common_prefix(pattern, n, text, m) ==
    LET ext == extended_kmp(pattern, n)
        RECURSIVE extend(_, _, _)
        extend(t, p, i) == IF p - i < n /\ pattern[p - i] = t[p] THEN extend(t, p + 1, i) ELSE p
        step(s, i) ==
            LET p == extend(s.text, IF s.reach >= i THEN Min({s.reach + 1, ext[i - s.idx] + i}) ELSE i, i)
                t == [s EXCEPT !.text[i] = p - i]
            IN  IF s.reach < p - 1 THEN [t EXCEPT !.reach = p - 1, !.idx = i] ELSE t
    IN  FoldLeft(step, [reach |-> -1, idx |-> -1, text |-> text], Loop(0, m - 1)).text
palindrom_extend(str, n) ==
    LET RECURSIVE extend(_, _)
        extend(len, i) == IF i - len - 1 >= 0 /\ i + len + 1 < n /\ str[i - len - 1] = str[i + len + 1]
                          THEN extend(len + 1, i) ELSE len
        step(s, i) ==
            LET len == extend(IF s.reach > i THEN Min({s.reach - i, s.ext[2 * s.idx - i]}) ELSE 0, i)
                t == [s EXCEPT !.ext[i] = len]
            IN  IF s.reach < len + i THEN [t EXCEPT !.reach = len + i, !.idx = i] ELSE t
    IN  FoldLeft(step, [reach |-> 0, idx |-> 0, ext |-> [i \in 0..n - 1 |-> 0]], Loop(1, n - 1)).ext

-----------------------------------------------------------------------------
\* StringsAutomaton over the characters 0..ALPHA-1: node 1 is the root, next is 0
\* where there is no edge; clearNode's values are those of a new node.
clearNode(ALPHA) == [next |-> [c \in 0..ALPHA - 1 |-> 0], end |-> FALSE, count |-> 0, dep |-> 0, fail |-> 0]
removeAll(ALPHA) == <<clearNode(ALPHA)>>
addTrie(nodes, word, ALPHA) ==
    LET step(s, c) ==
            LET counted == [s.nodes EXCEPT ![s.r].count = @ + 1]
                top == Len(counted) + 1
                new == [clearNode(ALPHA) EXCEPT !.dep = counted[s.r].dep + 1]
            IN  IF counted[s.r].next[c] # 0 THEN [nodes |-> counted, r |-> counted[s.r].next[c]]
                ELSE [nodes |-> Append([counted EXCEPT ![s.r].next[c] = top], new), r |-> top]
        s == FoldLeft(step, [nodes |-> nodes, r |-> 1], word)
    IN  IF s.nodes[s.r].end THEN s.nodes
        ELSE [s.nodes EXCEPT ![s.r].end = TRUE, ![s.r].count = @ + 1]
constructAutomaton(nodes, ALPHA) ==
    LET kids(ns, v) == SelectSeq(Loop(0, ALPHA - 1), LAMBDA c : ns[v].next[c] # 0)
        RECURSIVE fall(_, _, _), search(_)
        fall(ns, p, c) == IF p # 1 /\ ns[p].next[c] = 0 THEN fall(ns, ns[p].fail, c)
                          ELSE IF ns[p].next[c] # 0 THEN ns[p].next[c] ELSE p
        search(x) ==            \* x: nodes, the queue, those served
            LET v == Head(x.qq)
                serve(y, c) == LET u == y.nodes[v].next[c] IN
                    [y EXCEPT !.qq = Append(@, u),
                              !.nodes[u].fail = IF v = 1 THEN 1 ELSE fall(y.nodes, y.nodes[v].fail, c)]
            IN  IF x.qq = <<>> THEN x
                ELSE search(FoldLeft(serve, [x EXCEPT !.qq = Tail(@), !.served = Append(@, v)],
                                     kids(x.nodes, v)))
        linked == search([nodes |-> [nodes EXCEPT ![1].fail = 1], qq |-> <<1>>, served |-> <<>>])
        fill(ns, v) ==
            [ns EXCEPT ![v].end = @ \/ (v # 1 /\ ns[ns[v].fail].end),
                       ![v].next = [c \in DOMAIN @ |-> IF @[c] # 0 THEN @[c]
                                        ELSE IF v = 1 THEN 1 ELSE ns[ns[v].fail].next[c]]]
    IN  FoldLeft(fill, linked.nodes, linked.served)

\* AC_automaton_t: node 0 is the root, edge a sequence of <<character, node>>;
\* sorted, it is searched by lower_bound.
node_t(dep) == [dep |-> dep, count |-> 0, sum |-> 0, failed |-> 0, edge |-> <<>>]
find_next(node, c) == LET hits == SelectSeq(node.edge, LAMBDA e : e[1] = c) IN
                      IF hits = <<>> THEN -1 ELSE hits[1][2]
add_str(nodes, str, sum) ==
    LET step(s, c) ==
            LET counted == [s.nodes EXCEPT ![s.pos].count = @ + 1]
                idx == Cardinality(DOMAIN counted)
            IN  IF find_next(counted[s.pos], c) # -1
                THEN [nodes |-> counted, pos |-> find_next(counted[s.pos], c)]
                ELSE [pos |-> idx,
                      nodes |-> [i \in 0..idx |->
                        IF i = idx THEN node_t(counted[s.pos].dep + 1)
                        ELSE IF i = s.pos THEN [counted[i] EXCEPT !.edge = Append(@, <<c, idx>>)]
                        ELSE counted[i]]]
        s == FoldLeft(step, [nodes |-> nodes, pos |-> 0], str)
    IN  [s.nodes EXCEPT ![s.pos].sum = @ + sum]
RECURSIVE go_next(_, _, _)
go_next(nodes, st, c) ==
    IF st = -1 THEN 0
    ELSE IF find_next(nodes[st], c) # -1 THEN find_next(nodes[st], c)
    ELSE go_next(nodes, nodes[st].failed, c)
construct_automaton(nodes) ==
    LET sorted == [i \in DOMAIN nodes |-> [nodes[i] EXCEPT !.edge = SortSeq(@, LAMBDA x, y : x[1] < y[1])]]
        RECURSIVE search(_, _)
        search(ns, qq) ==
            LET pos == Head(qq)
                serve(m, e) == LET f == go_next(m, m[pos].failed, e[1]) IN
                               [m EXCEPT ![e[2]].failed = f, ![e[2]].sum = @ + m[f].sum]
            IN  IF qq = <<>> THEN ns
                ELSE search(FoldLeft(serve, ns, ns[pos].edge),
                            Tail(qq) \o [i \in DOMAIN ns[pos].edge |-> ns[pos].edge[i][2]])
    IN  search([sorted EXCEPT ![0].failed = -1], <<0>>)
=============================================================================
