------------------------------- MODULE ACAuto -------------------------------
(***************************************************************************)
(* string-algorithms/ACAuto.cpp, an Aho-Corasick automaton in a double array, *)
(* and 2DMatcher.h, which uses two of them.                                   *)
(*                                                                           *)
(* A cell is [check, base, dep, fail, link, match, info].  The child of the   *)
(* state st by the character i is base[st] + i, when check of that cell is st. *)
(* The free cells form a list from the cell 1: a negative check is the one     *)
(* before, a negative base the one after, both negated.  An automaton is       *)
(* [array, edge, hash, strs, infos], hash the characters met, in their order.  *)
(***************************************************************************)
EXTENDS Integers, FiniteSets, SequencesExt, FiniteSetsExt

Cell(check, base) == [check |-> check, base |-> base, dep |-> 0, fail |-> 0, link |-> 0,
                      match |-> FALSE, info |-> 0]
SizeOf(array) == Cardinality(DOMAIN array)
ACAutoOf(size) ==
    [array |-> [i \in 0..Max({2, size}) - 1 |-> IF i = 0 THEN Cell(0, 0)
                    ELSE Cell(IF i = 1 THEN -1 ELSE -(i - 1), -(i + 1))],
     edge |-> [i \in {} |-> <<>>], hash |-> <<>>, strs |-> <<>>, infos |-> <<>>, ok |-> TRUE]

\* Convertor: a character is numbered when it is first met.
GetCharIndex(hash, ch) == IF ch \in ToSet(hash) THEN hash ELSE Append(hash, ch)
getCharIndex(hash, ch) == IF ch \in ToSet(hash) THEN (CHOOSE i \in DOMAIN hash : hash[i] = ch) - 1 ELSE -1
insertString(a, str, info) ==
    LET hash == FoldLeft(GetCharIndex, a.hash, str) IN
    [a EXCEPT !.hash = hash, !.infos = Append(@, info),
              !.strs = Append(@, [i \in DOMAIN str |-> getCharIndex(hash, str[i])])]

removeCell(array, pos) ==
    LET pre == -array[pos].check
        next == -array[pos].base
        cut == [array EXCEPT ![pre].base = -next, ![pos].check = 0]
    IN  IF next < SizeOf(array) THEN [cut EXCEPT ![next].check = -pre] ELSE cut
\* The new cells go to the end of the free list; its last cell is looked for from
\* the top of the array and from the head of the list at once.
enlarge(array, size) ==
    LET old == SizeOf(array)
        RECURSIVE last(_, _)
        last(tail, head) == IF array[tail].check >= 0 /\ -array[head].base < old
                            THEN last(tail - 1, -array[head].base)
                            ELSE IF array[tail].check < 0 THEN tail ELSE head
        pre == last(old - 1, 1)
    IN  [i \in 0..size - 1 |->
            IF i >= old THEN Cell(IF i = old THEN -pre ELSE -(i - 1), -(i + 1))
            ELSE IF i = pre THEN [array[i] EXCEPT !.base = -old] ELSE array[i]]

\* <<array, base>>: the first base, over the free cells in their order, at which
\* the cells of all the characters `have' are free.
RECURSIVE findBase(_, _, _, _)
findBase(array, cell, have, cnt) ==
    LET base == Max({cell - have[1], 0})
        big == IF base + cnt > SizeOf(array) THEN enlarge(array, base + cnt) ELSE array
    IN  IF \E i \in DOMAIN have : big[base + have[i]].check >= 0
        THEN findBase(big, -big[cell].base, have, cnt)
        ELSE <<big, base>>

\* The strings vidx share their first dep characters and parent is their state.
RECURSIVE construct_helper(_, _, _, _)
construct_helper(a, vidx, parent, dep) ==
    LET at(v) == a.strs[v][dep + 1]
        have == SortSeq(SetToSeq({at(v) : v \in ToSet(vidx)}), LAMBDA x, y : x < y)
        found == findBase(a.array, -a.array[1].base, have, Len(a.hash))
        base == found[2]
        claim(array, c) == [removeCell(array, base + c) EXCEPT ![base + c].check = parent,
                                                               ![base + c].dep = dep + 1]
        claimed == FoldLeft(claim, [found[1] EXCEPT ![parent].base = base], have)
        child(b, c) ==
            LET ends == SelectSeq(vidx, LAMBDA v : at(v) = c /\ Len(a.strs[v]) = dep + 1)
                son == SelectSeq(vidx, LAMBDA v : at(v) = c /\ Len(a.strs[v]) > dep + 1)
            IN  construct_helper(
                    IF ends = <<>> THEN b
                    ELSE [b EXCEPT !.array[base + c].match = TRUE,
                                   !.array[base + c].info = a.infos[Last(ends)]],
                    son, base + c, dep + 1)
    IN  IF vidx = <<>> THEN [a EXCEPT !.array[parent].base = 0]
        ELSE FoldLeft(child, [a EXCEPT !.array = claimed,
                                       !.ok = @ /\ found[1][parent].check >= 0 /\ claimed[1].base < 0,
                                       !.edge = [p \in DOMAIN @ \cup {parent} |->
                                                    IF p = parent THEN have ELSE @[p]]],
                      have)

\* Breadth first: a state fails to the child, by its character, of the first state
\* on its parent's chain of failures that has one, else to 0.
construct_link(a) ==
    LET RECURSIVE fall(_, _, _), search(_, _)
        fall(array, st, c) ==
            LET next == array[st].base + c IN
            IF array[next].check = st THEN next ELSE IF st = 0 THEN 0 ELSE fall(array, array[st].fail, c)
        search(array, qq) ==
            LET parent == Head(qq)
                have == IF parent \in DOMAIN a.edge THEN a.edge[parent] ELSE <<>>
                serve(m, c) ==
                    LET son == m[parent].base + c
                        f == IF parent = 0 THEN 0 ELSE fall(m, m[parent].fail, c)
                    IN  [m EXCEPT ![son].fail = f,
                                  ![son].link = IF m[f].match THEN f ELSE m[f].link]
            IN  IF qq = <<>> THEN array
                ELSE search(FoldLeft(serve, array, have),
                            Tail(qq) \o [i \in DOMAIN have |-> array[parent].base + have[i]])
    IN  search(a.array, <<0>>)
construct(a) ==
    LET b == construct_helper(a, [i \in DOMAIN a.strs |-> i], 0, 0) IN
    IF a.strs = <<>> THEN a
    ELSE [b EXCEPT !.array = construct_link(b), !.edge = [i \in {} |-> <<>>],
                   !.strs = <<>>, !.infos = <<>>]

goNext(a, st, ch) ==
    LET idx == getCharIndex(a.hash, ch)
        pos == a.array[st].base + idx
    IN  IF idx >= 0 /\ a.array[pos].check = st THEN pos ELSE -1
RECURSIVE getNext(_, _, _)
getNext(a, st, ch) ==
    LET pos == a.array[st].base + getCharIndex(a.hash, ch) IN
    IF getCharIndex(a.hash, ch) < 0 THEN 0
    ELSE IF a.array[pos].check = st THEN pos
    ELSE IF st = 0 THEN 0 ELSE getNext(a, a.array[st].fail, ch)
\* The states of the words that end here, the longest first.
RECURSIVE Links(_, _)
Links(a, st) == IF st = 0 THEN <<>>
                ELSE (IF a.array[st].match THEN <<st>> ELSE <<>>) \o Links(a, a.array[st].link)

-----------------------------------------------------------------------------
\* twoDMatcher: text and the patterns are sequences of rows, all patterns of the
\* same width.  The rows of the patterns are the words of `tree', the columns of
\* its states those of one_tree.  The answer is a sequence of <<r, c, idx>>, from 0.
walk(a, word) == FoldLeft(LAMBDA st, ch : goNext(a, st, ch), 0, word)
\* The matches in the columns of text from the m-th on, of the patterns of one_tree.
Scan(text, pat, tree, one_tree) ==
    LET m == Len(pat[1][1])
        at(idx, r, c) == <<r - Len(pat[idx]), c - m, idx>>
        found(links, r, c) == [k \in DOMAIN links |-> at(one_tree.array[links[k]].info, r, c)]
        meet(t, st, r, c) == [st |-> st, res |-> t.res \o found(Links(one_tree, st), r, c)]
        rows(res, compact, c) ==
            FoldLeft(LAMBDA t, r : meet(t, getNext(one_tree, t.st, compact[r]), r, c),
                     [st |-> 0, res |-> res], [r \in DOMAIN text |-> r]).res
        down(s, compact, c) == [compact |-> compact, res |-> IF c < m THEN s.res ELSE rows(s.res, compact, c)]
        column(s, c) == down(s, [r \in DOMAIN text |-> getNext(tree, s.compact[r], text[r][c])], c)
    IN  FoldLeft(column, [compact |-> [r \in DOMAIN text |-> 0], res |-> <<>>],
                 [c \in DOMAIN text[1] |-> c]).res
\* Mutant: only the last of the patterns that are alike is reported.
WithoutTwins(res, pat_stat) == res
\* Patterns that are alike end in one state, which has the info of the last: each
\* match is repeated for its twins.
WithTwins(res, pat_stat) ==
    LET twins(x) == SelectSeq([j \in DOMAIN pat_stat |-> j],
                              LAMBDA j : j # x[3] /\ pat_stat[j] = pat_stat[x[3]])
    IN  FoldLeft(LAMBDA all, x : all \o [k \in DOMAIN twins(x) |-> <<x[1], x[2], twins(x)[k]>>],
                 res, Reverse(res))
twoDMatcher(text, pat) ==
    LET automaton(words, infos) ==
            construct(FoldLeft(LAMBDA a, i : insertString(a, words[i], infos[i]), ACAutoOf(2),
                               [i \in DOMAIN words |-> i]))
        index == [i \in DOMAIN pat |-> i]
        matches(tree, one_tree, oneD_pat) ==
            WithTwins(Scan(text, pat, tree, one_tree), [i \in DOMAIN pat |-> walk(one_tree, oneD_pat[i])])
        columns(tree, oneD_pat) == matches(tree, automaton(oneD_pat, index), oneD_pat)
        reduced(tree) == columns(tree, [i \in DOMAIN pat |-> [j \in DOMAIN pat[i] |-> walk(tree, pat[i][j])]])
    IN  reduced(automaton(FlattenSeq(pat), FlattenSeq([i \in DOMAIN pat |-> [j \in DOMAIN pat[i] |-> i]])))

-----------------------------------------------------------------------------
\* What the automata must be: the free cells are one list, the others a tree with
\* one cell for each prefix of a word, and fail is the longest proper suffix.
RECURSIVE Spelt(_, _)
Spelt(a, st) == IF st = 0 THEN <<>>
                ELSE Append(Spelt(a, a.array[st].check), st - a.array[a.array[st].check].base)
DoubleArraySound(a, words) ==
    LET array == a.array
        used == {i \in DOMAIN array : array[i].check >= 0}
        index(w) == [i \in DOMAIN w |-> getCharIndex(a.hash, w[i])]
        prefixes == UNION {{SubSeq(index(w), 1, k) : k \in 0..Len(w)} : w \in words}
        RECURSIVE free(_)
        free(i) == IF i >= SizeOf(array) THEN {} ELSE {i} \cup free(-array[i].base)
    IN  /\ a.ok
        /\ free(1) = DOMAIN array \ used
        /\ {Spelt(a, st) : st \in used} = prefixes /\ Cardinality(used) = Cardinality(prefixes)
        /\ \A st \in used \ {0} :
              /\ array[st].dep = Len(Spelt(a, st))
              /\ Spelt(a, array[st].fail) = CHOOSE w \in (Suffixes(Tail(Spelt(a, st))) \cap prefixes) :
                    \A v \in Suffixes(Tail(Spelt(a, st))) \cap prefixes : Len(v) <= Len(w)
              /\ array[st].match = (Spelt(a, st) \in {index(w) : w \in words})
Occurs(text, p, r, c) ==
    /\ r + Len(p) <= Len(text) /\ c + Len(p[1]) <= Len(text[1])
    /\ \A i \in DOMAIN p, j \in DOMAIN p[1] : text[r + i][c + j] = p[i][j]
=============================================================================
