-------------------------- MODULE SuffixStructures --------------------------
(***************************************************************************)
(* string-algorithms/suffixArray2.cpp (prefix doubling, with the LCP queries), *)
(* suffixArray.cpp (the linear algorithm) and suffixTree.cpp (McCreight).      *)
(* A string is a function of 0..n-1; a counting sort is a stable sort.         *)
(***************************************************************************)
EXTENDS Integers, FiniteSets, SequencesExt, FiniteSetsExt

UpTo(n) == [i \in 1..n |-> i - 1]
\* The members of array in the order of their keys, equal keys in their old order.
countingSort(array, key(_)) ==
    LET place == SortSeq([i \in DOMAIN array |-> i],
                         LAMBDA i, j : \/ key(array[i]) < key(array[j])
                                       \/ key(array[i]) = key(array[j]) /\ i < j)
    IN  [i \in DOMAIN array |-> array[place[i]]]

-----------------------------------------------------------------------------
\* suffixArray2.cpp.  A sentinel greater than every character is appended, so n
\* counts it.  getRank numbers the classes of equal neighbours.
getRank(suffix, same(_, _)) ==
    LET value[i \in DOMAIN suffix] ==
            IF i = 1 THEN 0 ELSE value[i - 1] + IF same(suffix[i], suffix[i - 1]) THEN 0 ELSE 1
    IN  [v \in ToSet(suffix) |-> value[CHOOSE i \in DOMAIN suffix : suffix[i] = v]]
WithSentinel(num, n) == [i \in 0..n |-> IF i < n THEN num[i] ELSE Max({num[j] : j \in 0..n - 1}) + 1]
sortSuffix(num, n) ==
    LET array == WithSentinel(num, n)
        RECURSIVE double(_, _, _)
        double(suffix, rank, t) ==
            LET tmp == [i \in 0..n |-> IF i + t < n + 1 THEN rank[i + t] ELSE n]
                next == countingSort(countingSort(suffix, LAMBDA i : tmp[i]), LAMBDA i : rank[i])
            IN  IF t >= n + 1 THEN suffix
                ELSE double(next, getRank(next, LAMBDA a, b : rank[a] = rank[b] /\ rank[a + t] = rank[b + t]),
                            2 * t)
        first == countingSort(UpTo(n + 1), LAMBDA i : array[i])
    IN  double(first, getRank(first, LAMBDA a, b : array[a] = array[b]), 1)

\* height[r] is the common prefix of the suffixes of rank r and r + 1; suffix[r + 1]
\* is the suffix of rank r, and rank its inverse.
RankOf(suffix) == [v \in ToSet(suffix) |-> (CHOOSE i \in DOMAIN suffix : suffix[i] = v) - 1]
LCP(array, suffix, n) ==
    LET rank == RankOf(suffix)
        RECURSIVE extend(_, _, _)
        extend(pre, i, j) == IF array[i + pre] = array[j + pre] THEN extend(pre + 1, i, j) ELSE pre
        step(s, i) == LET pre == extend(IF s.pre > 0 THEN s.pre - 1 ELSE 0, i, suffix[rank[i] + 2])
                      IN  [pre |-> pre, height |-> [s.height EXCEPT ![rank[i]] = pre]]
    IN  FoldLeft(step, [pre |-> 0, height |-> [r \in 0..n - 1 |-> 0]], UpTo(n)).height
\* rmq[i][j] is the least of the 2^i heights from j on.
RMQpreprocess(height, n) ==
    LET least[x \in {x \in (0..n) \X (0..n - 1) : x[2] + 2^x[1] <= n}] ==
            IF x[1] = 0 THEN height[x[2]]
            ELSE Min({least[<<x[1] - 1, x[2]>>], least[<<x[1] - 1, x[2] + 2^(x[1] - 1)>>]})
    IN  least
Log(len) == CHOOSE k \in 0..len : 2^k <= len /\ 2^(k + 1) > len
queryLCP(suffix, rmq, x, y) ==
    LET rank == RankOf(suffix)
        a == Min({rank[x], rank[y]})
        b == Max({rank[x], rank[y]}) - 1
        k == Log(b + 1 - a)
    IN  Min({rmq[k, a], rmq[k, b - 2^k + 1]})

-----------------------------------------------------------------------------
\* suffixArray.cpp: kk is the greatest rank; the three cells after the string
\* are set to kk + 1, except in a string of less than three characters, where
\* `past' stands for what they hold.
RECURSIVE sort_suffix(_, _, _, _)
sort_suffix(rank, n, kk, past) ==
    LET at(i) == IF i < n THEN rank[i] ELSE IF n < 3 THEN past ELSE kk + 1
        RECURSIVE suffix_cmp(_, _, _)
        suffix_cmp(a, b, i) == i <= n + 1 /\ IF at(a + i) # at(b + i) THEN at(a + i) < at(b + i)
                                             ELSE suffix_cmp(a, b, i + 1)
        triple(i) == (at(i) * (kk + 2) + at(i + 1)) * (kk + 2) + at(i + 2)
        third(r, last) == SelectSeq(UpTo(last + 1), LAMBDA i : i % 3 = r)
        n1 == (n + 2) \div 3
        place(i) == (IF i % 3 = 1 THEN 0 ELSE n1) + i \div 3
        suf_less(srank, a, b) ==
            \/ at(a) < at(b)
            \/ /\ at(a) = at(b)
               /\ IF b % 3 = 1 THEN srank[a + 1] < srank[b + 1]
                  ELSE at(a + 1) < at(b + 1) \/ (at(a + 1) = at(b + 1) /\ srank[a + 2] < srank[b + 2])
        RECURSIVE merge(_, _, _)
        merge(srank, p, q) ==
            IF p = <<>> \/ q = <<>> THEN p \o q
            ELSE IF suf_less(srank, Head(p), Head(q)) THEN <<Head(p)>> \o merge(srank, Tail(p), q)
            ELSE <<Head(q)>> \o merge(srank, p, Tail(q))
        \* class numbers the triples of the suffixes tsa; deep sorts the string of
        \* those numbers, sorted are the suffixes its answer stands for.
        subproblem(tsa, class) ==
            sort_suffix([p \in 0..Len(tsa) - 1 |-> class[CHOOSE i \in ToSet(tsa) : place(i) = p]],
                        Len(tsa), class[Last(tsa)], past)
        ranked(tsa) == subproblem(tsa, getRank(tsa, LAMBDA a, b : triple(a) = triple(b)))
        original(deep) == [k \in DOMAIN deep |-> IF deep[k] < n1 THEN 3 * deep[k] + 1
                                                 ELSE 3 * (deep[k] - n1) + 2]
        together(srank, sorted) ==
            merge(srank, countingSort(countingSort(third(0, n - 1), LAMBDA i : srank[i + 1]), at),
                  SelectSeq(sorted, LAMBDA i : i < n))
        finish(sorted) == together(RankOf(sorted), sorted)
    IN  IF n < 3 THEN SortSeq(UpTo(n), LAMBDA a, b : suffix_cmp(a, b, 0))
        ELSE finish(original(ranked(countingSort(third(1, n) \o third(2, n), triple))))

-----------------------------------------------------------------------------
\* suffixTree.cpp.  A son is -1 (none), a node of snode, or -k - 2 for the leaf k
\* of enode.  x is [snode, enode]; new nodes are appended to them.
clearSnode(M) == [next |-> [c \in M |-> -1], link |-> -1, begin |-> 0, end |-> 0, parent |-> 0]
Top(f) == Cardinality(DOMAIN f)
Extended(f, v) == [i \in 0..Top(f) |-> IF i = Top(f) THEN v ELSE f[i]]
Edge(x, son) == IF son <= -2 THEN x.enode[-son - 2] ELSE x.snode[son]
\* The edge to head's son by ind is cut after len characters.
addInternalNode(x, head, len, ind, str) ==
    LET son == x.snode[head].next[ind]
        b == Edge(x, son).begin
        top == Top(x.snode)
        new == [clearSnode(DOMAIN x.snode[0].next) EXCEPT
                    !.parent = head, !.begin = b, !.end = b + len - 1, !.next[str[b + len]] = son]
        nodes == Extended([x.snode EXCEPT ![head].next[ind] = top], new)
    IN  IF son <= -2
        THEN [snode |-> nodes,
              enode |-> [x.enode EXCEPT ![-son - 2].parent = top, ![-son - 2].begin = b + len]]
        ELSE [x EXCEPT !.snode = [nodes EXCEPT ![son].parent = top, ![son].begin = b + len]]
\* Down from prefix by str[pos..headPos - 1], which is known to be there; the
\* lengths of the edges are enough.  <<x, the node reached>>.
RECURSIVE suffixRescan(_, _, _, _, _)
suffixRescan(x, prefix, pos, headPos, str) ==
    LET son == x.snode[prefix].next[str[pos]]
        len == Edge(x, son).end - Edge(x, son).begin + 1
    IN  IF pos >= headPos THEN <<x, prefix>>
        ELSE IF pos + len > headPos
        THEN <<addInternalNode(x, prefix, headPos - pos, str[pos], str), Top(x.snode)>>
        ELSE suffixRescan(x, son, pos + len, headPos, str)
\* Down from head by the characters from headPos on, as far as they match.
RECURSIVE suffixScan(_, _, _, _)
suffixScan(x, head, headPos, str) ==
    LET son == x.snode[head].next[str[headPos]]
        e == Edge(x, son)
        alike == Max({k \in 1..e.end - e.begin + 1 :
                        \A j \in 0..k - 1 : str[e.begin + j] = str[headPos + j]})
    IN  IF son = -1 THEN <<x, head, headPos>>
        ELSE IF e.begin + alike <= e.end
        THEN <<addInternalNode(x, head, alike, str[e.begin], str), Top(x.snode), headPos + alike>>
        ELSE suffixScan(x, son, headPos + alike, str)

constructSuffixTree(str, n, M) ==
    LET root == [clearSnode(M) EXCEPT !.link = 0, !.end = -1]
        link(s, at) ==
            LET node == s.x.snode[s.head]
                pos == at - (node.end - node.begin + 1)
                r == suffixRescan(s.x, s.x.snode[node.parent].link, IF pos < s.i THEN s.i ELSE pos, at, str)
            IN  IF node.link # -1 THEN s.x ELSE [r[1] EXCEPT !.snode[s.head].link = r[2]]
        insert(s, i) ==
            LET at == Max({s.headPos, i})
                x == link([s EXCEPT !.i = i], at)
                r == suffixScan(x, x.snode[s.head].link, at, str)
                leaf == [suffixIndex |-> i, parent |-> r[2], begin |-> r[3], end |-> n - 1]
            IN  [i |-> i, head |-> r[2], headPos |-> r[3],
                 x |-> [snode |-> [r[1].snode EXCEPT ![r[2]].next[str[r[3]]] = -Top(r[1].enode) - 2],
                        enode |-> Extended(r[1].enode, leaf)]]
    IN  FoldLeft(insert, [i |-> 0, head |-> 0, headPos |-> 0,
                          x |-> [snode |-> [k \in {0} |-> root], enode |-> <<>>]], UpTo(n)).x

-----------------------------------------------------------------------------
\* What the answers are compared with.
SuffixLess(str, n, a, b) ==     \* the end is greater than every character
    \E k \in 0..n : /\ \A j \in 0..k - 1 : a + j < n /\ b + j < n /\ str[a + j] = str[b + j]
                    /\ a + k < n /\ (b + k >= n \/ str[a + k] < str[b + k])
CommonPrefix(str, n, a, b) ==
    Max({k \in 0..n : \A j \in 0..k - 1 : a + j < n /\ b + j < n /\ str[a + j] = str[b + j]})
IsSuffixArray(sa, str, n) == /\ ToSet(sa) = 0..n - 1 /\ Len(sa) = n
                             /\ \A i \in 1..n - 1 : SuffixLess(str, n, sa[i], sa[i + 1])
\* The string on the way from the root to a node of the tree.
RECURSIVE Spelt(_, _, _)
Spelt(x, son, str) == IF son = 0 THEN <<>>
    ELSE LET e == Edge(x, son) IN
         Spelt(x, e.parent, str) \o [j \in 1..e.end - e.begin + 1 |-> str[e.begin + j - 1]]
IsSuffixTree(x, str, n) ==
    /\ Top(x.enode) = n
    /\ \A k \in DOMAIN x.enode : /\ x.enode[k].suffixIndex = k
                                 /\ Spelt(x, -k - 2, str) = [j \in 1..n - k |-> str[k + j - 1]]
    /\ \A v \in DOMAIN x.snode :
          /\ \A c \in DOMAIN x.snode[v].next : LET u == x.snode[v].next[c] IN
                u # -1 => /\ Edge(x, u).parent = v /\ str[Edge(x, u).begin] = c
                          /\ Edge(x, u).begin <= Edge(x, u).end
          /\ v # 0 => Cardinality({c \in DOMAIN x.snode[v].next : x.snode[v].next[c] # -1}) > 1
          /\ (v # 0 /\ x.snode[v].link # -1) =>
                Spelt(x, x.snode[v].link, str) = Tail(Spelt(x, v, str))
=============================================================================
