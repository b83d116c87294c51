------------------------------- MODULE Numbers -------------------------------
(***************************************************************************)
(* numeric-algorithms/Number.cpp, fraction.cpp, prime_generator.cpp, and the  *)
(* evaluator of language-features/calculator.cpp.  Integers are           *)
(* mathematical: the inputs stay far from the width of llint.  Division and   *)
(* remainder are those of C++, which truncate.                               *)
(***************************************************************************)
EXTENDS Integers, FiniteSets, SequencesExt, FiniteSetsExt

Sign(a) == IF a < 0 THEN -1 ELSE 1
Div(a, b) == Sign(a) * Sign(b) * ((a * Sign(a)) \div (b * Sign(b)))
Rem(a, b) == a - b * Div(a, b)
UpTo(n) == [i \in 1..n |-> i - 1]
Below(n) == 0..n - 1

\* Mutant: the division of the machine.
intTruncate(A, B) == Div(A, B)
intFloor(A, B) == LET a == A * Sign(B)  b == B * Sign(B)
                  IN  IF a > 0 THEN Div(a, b) ELSE Div(a - b + 1, b)

\* Extended Euclid: <<g, a, b>> with a * n + b * m = g.
gcd(n, m) ==
    LET RECURSIVE step(_, _, _, _, _, _)
        step(x, y, a, b, a1, b1) ==
            LET c == Div(x, y) IN
            IF y = 0 THEN <<x, a, b>> ELSE step(y, x - y * c, a1, b1, a - c * a1, b - c * b1)
    IN  step(n, m, 1, 0, 0, 1)
lcm(number) == FoldLeft(LAMBDA res, x : res * Div(x, gcd(x, res)[1]), 1, number)

\* [lower, upper] is cut by a * x <= b.
update_interval(a, b, lower, upper) ==
    IF a = 0 THEN IF 0 <= b THEN <<lower, upper>> ELSE <<0, -1>>
    ELSE IF a > 0 THEN <<lower, Min({upper, IF b >= 0 THEN Div(b, a) ELSE Div(b - a + 1, a)})>>
    ELSE <<Max({lower, IF -b >= 0 THEN Div(-b - a - 1, -a) ELSE Div(-b, -a)}), upper>>

generateInverse(p, n) ==
    FoldLeft(LAMBDA inv, i : [inv EXCEPT ![i] = Rem(p - Rem(inv[p % i] * Div(p, i), p), p)],
             [i \in 1..n |-> 1], [j \in 1..Min({n, p - 1}) - 1 |-> j + 1])
getReverse(a, p) == Rem(Rem(gcd(a, p)[2], p) + p, p)
modPower(a, n, m) ==
    LET RECURSIVE loop(_, _, _)
        loop(re, t, k) == IF k = 0 THEN re
                          ELSE loop(IF k % 2 = 1 THEN (re * t) % m ELSE re, (t * t) % m, k \div 2)
    IN  loop(1, a, n)
getReverseByEuler(a, p) == modPower(a, p - 2, p)

-----------------------------------------------------------------------------
factorize(n) ==
    LET RECURSIVE divide(_, _, _), from(_, _)
        divide(k, t, cnt) == IF k % t = 0 THEN divide(k \div t, t, cnt + 1) ELSE <<k, cnt>>
        from(t, k) == LET d == divide(k, t, 0) IN
                      IF t * t > k THEN IF k > 1 THEN <<<<k, 1>>>> ELSE <<>>
                      ELSE IF d[2] > 0 THEN <<<<t, d[2]>>>> \o from(t + 1, d[1])
                      ELSE from(t + 1, k)
    IN  from(2, n)

\* factor[i] is 0 for a prime; each composite is struck once.
primeSieve(n) ==
    LET strike(i, prime, factor) ==
            FoldLeft(LAMBDA f, j : IF prime[j] * i > n \/ \E k \in 1..j - 1 : i % prime[k] = 0 THEN f
                                   ELSE [f EXCEPT ![prime[j] * i] = prime[j]],
                     factor, [j \in DOMAIN prime |-> j])
        sieve(s, i) ==
            LET prime == IF s.factor[i] = 0 THEN Append(s.prime, i) ELSE s.prime IN
            [prime |-> prime, factor |-> strike(i, prime, s.factor)]
    IN  FoldLeft(sieve, [prime |-> <<>>, factor |-> [x \in 0..n |-> IF x = 1 THEN 1 ELSE 0]],
                 [j \in 1..n - 1 |-> j + 1])
is_prime(n) == n # 1 /\ \A t \in 2..n : t * t <= n => n % t # 0

\* Lucas: the digits of n and m to base p; the factorials of the digits are
\* multiplied up as i runs to p - 1, here in one product.
binomial_mod(n, m, p) ==
    LET RECURSIVE digits(_, _)
        digits(a, b) == IF a = 0 /\ b = 0 THEN <<>>
                        ELSE <<<<a % p, b % p>>>> \o digits(a \div p, b \div p)
        d == digits(n, m)
        used == SelectSeq(d, LAMBDA x : x[1] > x[2] /\ x[2] # 0)
        fact[i \in 0..p - 1] == IF i = 0 THEN 1 ELSE (fact[i - 1] * i) % p
        term(res, x) == (res * fact[x[1]] * getReverse(fact[x[2]], p) * getReverse(fact[x[1] - x[2]], p)) % p
    IN  IF \E i \in DOMAIN d : d[i][1] < d[i][2] THEN 0 ELSE FoldLeft(term, 1, used)
\* Mutant: the sign Wilson's theorem gives is left out.
factorialUnsigned(n, p) ==
    LET table[i \in 0..p - 1] == IF i = 0 THEN 1 ELSE (table[i - 1] * i) % p
        RECURSIVE loop(_, _, _)
        loop(k, res, deg) == IF k = 0 THEN <<res % p, deg>>
                             ELSE loop(k \div p, (res * table[k % p]) % p, deg + k \div p)
    IN  loop(n, 1, 0)
\* n! without its factors p, and their number.
factorial_mod(n, p) ==
    LET table[i \in 0..p - 1] == IF i = 0 THEN 1 ELSE (table[i - 1] * i) % p
        RECURSIVE loop(_, _, _)
        loop(k, res, deg) ==
            LET q == k \div p IN
            IF k = 0 THEN <<res % p, deg>>
            ELSE loop(q, ((IF q % 2 = 1 THEN p - res ELSE res) * table[k % p]) % p, deg + q)
    IN  loop(n, 1, 0)

-----------------------------------------------------------------------------
Product(q) == FoldLeft(LAMBDA x, y : x * y, 1, q)
\* The first modulus that shares a factor with the others ends the loop with an
\* empty vector, the first whose assertion fails with an abort, ok = FALSE.
Chinese_remainder(mod) ==
    LET rest(i) == Product(mod) \div mod[i]
        res == [i \in DOMAIN mod |-> rest(i) * getReverse(rest(i), mod[i])]
        shared == {i \in DOMAIN mod : gcd(mod[i], rest(i))[1] > 1}
        failed == {i \in DOMAIN mod \ shared : Rem(res[i], mod[i]) # 1}
    IN  [ok |-> failed = {} \/ \E i \in shared : i < Min(failed),
         basis |-> IF shared = {} THEN res ELSE <<>>]

NoSolution == [ok |-> FALSE, x0 |-> 0, d |-> 0]
solveModule(a, b, p) ==
    LET g == gcd(Rem(a, p), p)
        d == Div(p, g[1])
    IN  IF Rem(Rem(b, p), g[1]) # 0 THEN NoSolution
        ELSE [ok |-> TRUE, d |-> d, x0 |-> Rem(Rem(Rem(g[2], d) + d, d) * Div(Rem(b, p), g[1]), p)]

\* x == aa[i] mod mm[i]: the equations are joined to the first one by one.
solveModuleEquations(aa, mm) ==
    LET join(s, i) ==
            LET g == gcd(s.m, mm[i])
                m == Div(mm[i], g[1])
                xx == Rem(Rem(g[2] * Div(aa[i] - s.a, g[1]), m) + m, m)
            IN  IF ~s.ok \/ Rem(aa[i] - s.a, g[1]) # 0 THEN [s EXCEPT !.ok = FALSE]
                ELSE [ok |-> TRUE, m |-> s.m * m, a |-> Rem(s.m * xx + s.a, s.m * m)]
        r == FoldLeft(join, [ok |-> TRUE, m |-> mm[1], a |-> aa[1]], [j \in 1..Len(aa) - 1 |-> j + 1])
    IN  IF r.ok THEN r.a ELSE -1

\* moduleEquation::solve, aa[0] * x0 + aa[1] * x1 + .. == b mod p, unknown by
\* unknown from the last; an unknown whose coefficient is 0 is left unset.
Negated(b, p) == IF b = 0 THEN 0 ELSE p - b
solveLinear(aa, b, p) ==
    LET n == Len(aa)
        gg[i \in 0..n] == IF i = 0 THEN p ELSE gcd(gg[i - 1], aa[i])[1]
        unknown(s, i) ==
            LET r == solveModule(aa[i], Negated(Rem(s.b, gg[i - 1]), gg[i - 1]), gg[i - 1]) IN
            IF ~s.ok \/ aa[i] = 0 THEN s
            ELSE IF ~r.ok THEN [s EXCEPT !.ok = FALSE]
            ELSE [s EXCEPT !.ans[i] = r.x0, !.b = Rem(s.b + r.x0 * aa[i], p)]
        start == [ok |-> TRUE, b |-> Negated(Rem(b, p), p), ans |-> [i \in 1..n |-> 0]]
    IN  IF Max(ToSet(aa)) = 0 THEN [start EXCEPT !.ok = start.b = 0]
        ELSE FoldLeft(unknown, start, Reverse([i \in 1..n |-> i]))

-----------------------------------------------------------------------------
\* Square matrices are functions of pairs.
mult(a, b, n, p) ==
    [e \in Below(n) \X Below(n) |-> FoldLeft(LAMBDA c, k : Rem(c + a[e[1], k] * b[k, e[2]], p), 0, UpTo(n))]
Unit(n) == [e \in Below(n) \X Below(n) |-> IF e[1] = e[2] THEN 1 ELSE 0]
matrixPower(mat, n, m, p) ==
    LET RECURSIVE loop(_, _, _)
        loop(ans, table, k) ==
            IF k = 0 THEN ans
            ELSE loop(IF k % 2 = 1 THEN mult(ans, table, n, p) ELSE ans, mult(table, table, n, p), k \div 2)
    IN  loop(Unit(n), mat, m)
\* base^0 + .. + base^m, from the power of a matrix of twice the size.
matrixPowerSum(mat, n, m, p) ==
    LET base_ == [e \in Below(2 * n) \X Below(2 * n) |->
                    IF e[1] < n /\ e[2] < n THEN mat[e]
                    ELSE IF e[2] = e[1] + n \/ (e[1] >= n /\ e[1] = e[2]) THEN 1 ELSE 0]
        ans_ == matrixPower(base_, 2 * n, m, p)
    IN  [e \in Below(n) \X Below(n) |-> Rem(ans_[e] + ans_[e[1], e[2] + n], p)]

matrixDet(mat, n, mod) ==
    LET eliminate(s, k) ==
            LET pivots == {i \in k..n - 1 : s.mat[i, k] # 0}
                ind == Min(pivots)
                swap(i) == IF i = k THEN ind ELSE IF i = ind THEN k ELSE i
                m == [e \in DOMAIN s.mat |-> IF e[2] >= k THEN s.mat[swap(e[1]), e[2]] ELSE s.mat[e]]
                mm(i) == (getReverse(m[k, k], mod) * m[i, k]) % mod
                re == IF ind = k THEN s.re ELSE Rem(mod - s.re, mod)
            IN  IF s.re = 0 \/ pivots = {} THEN [s EXCEPT !.re = 0]
                ELSE [re |-> Rem(re * m[k, k], mod),
                      mat |-> [e \in DOMAIN m |->
                        IF e[1] > k /\ e[2] >= k /\ mm(e[1]) # 0
                        THEN Rem(m[e] + mod - Rem(mm(e[1]) * m[k, e[2]], mod), mod) ELSE m[e]]]
    IN  FoldLeft(eliminate, [re |-> 1, mat |-> mat], UpTo(n)).re

-----------------------------------------------------------------------------
\* RobinMiller.  The first 19 primes are tried, then random witnesses.
modMult(a, b, m) ==
    LET RECURSIVE half(_)
        half(k) == IF k = 0 THEN 0 ELSE (((2 * half(k \div 2)) % m) + (k % 2) * a) % m
    IN  half(b)
witness(a, n) ==
    LET RECURSIVE odd(_, _), square(_, _)
        odd(k, t) == IF k % 2 = 0 THEN odd(k \div 2, t + 1) ELSE <<k, t>>
        square(x, t) == LET x1 == modMult(x, x, n) IN
                        IF t = 0 THEN x # 1
                        ELSE (x1 = 1 /\ x # 1 /\ x # n - 1) \/ square(x1, t - 1)
        s == odd(n - 1, 0)
    IN  square(modPower(a, s[1], n), s[2])
base == {2, 3, 5, 7, 11, 13, 17, 19, 23, 29, 31, 37, 41, 43, 47, 53, 59, 61, 67}
\* R are the values of rand(): with none of the base below it, 2 comes to the
\* division by n - 2, ok = FALSE.
robinMiller(n, R) ==
    LET drawn == IF n = 2 THEN {} ELSE {2 + (r % (n - 2)) : r \in R} IN
    [ok |-> n # 2 \/ R = {},
     prime |-> n # 1 /\ \A a \in {b \in base : b < n} \cup drawn : ~witness(a, n)]
\* pollard draws x and a; it may go round a cycle for ever, and `steps' cuts it.
pollard(n, x0, a, steps) ==
    LET RECURSIVE loop(_, _, _, _)
        loop(i, k, x, y) ==
            LET z == (modMult(x, x, n) + a) % n
                d == gcd(IF y > z THEN y - z ELSE z - y, n)[1]
            IN  IF i > steps THEN 0
                ELSE IF d # 1 /\ d # n THEN d
                ELSE IF i + 1 = k THEN loop(i + 1, 2 * k, z, z) ELSE loop(i + 1, k, z, y)
    IN  loop(1, 2, x0, x0)

-----------------------------------------------------------------------------
\* Permutations of 0..n-1 as numbers: p replaces i among the values left.
Factorial(n) == Product([i \in 1..n |-> i])
Identity == [i \in Below(10) |-> i]
Replace(s, i, p) == [s EXCEPT !.map[s.rmap[i]] = p, !.rmap[p] = s.rmap[i]]
encode_factorial(per, n) ==
    FoldLeft(LAMBDA s, i : LET p == s.map[per[i]] IN
                 [Replace(s, i, p) EXCEPT !.res = @ + p * Factorial(i)],
             [map |-> Identity, rmap |-> Identity, res |-> 0], Reverse(UpTo(n))).res
decode_factorial(n, code) ==
    FoldLeft(LAMBDA s, i : LET p == s.res \div Factorial(i) IN
                 [Replace(s, i, p) EXCEPT !.per[i] = s.rmap[p], !.res = @ - p * Factorial(i)],
             [map |-> Identity, rmap |-> Identity, res |-> code, per |-> [i \in Below(n) |-> 0]],
             Reverse(UpTo(n))).per
\* init_bino fills j <= i only; what lies above is what the caller's array held.
init_bino(n, unset) ==
    LET com[i \in Below(n), j \in Below(n)] ==
            IF j > i THEN unset ELSE IF j \in {0, i} THEN 1 ELSE com[i - 1, j - 1] + com[i - 1, j]
    IN  com
bino_encode(pick, com) ==
    FoldLeft(LAMBDA res, i : res + com[pick[i], i], 0, [i \in DOMAIN pick |-> i])
bino_decode(n, m, code, com) ==
    FoldLeft(LAMBDA s, i : IF s.code < com[i, s.m] THEN s
                           ELSE [code |-> s.code - com[i, s.m], m |-> s.m - 1, pick |-> <<i>> \o s.pick],
             [code |-> code, m |-> m, pick |-> <<>>], Reverse(UpTo(n))).pick

\* Sum of floor((A * i + B) / M) for i in 0..C.
RECURSIVE floorSummation(_, _, _, _)
floorSummation(A, B, C, M) ==
    LET a == Rem(A, M)
        b == Rem(B, M)
        pairs == Div(C * (C + 1), 2)
        a1 == IF a < 0 THEN a + M ELSE a
        b1 == IF b < 0 THEN b + M ELSE b
        res == Div(A, M) * pairs + (C + 1) * Div(B, M) - (IF a < 0 THEN pairs ELSE 0)
                   - (IF b < 0 THEN C + 1 ELSE 0)
        upper == Div(a1 * C + b1, M)
    IN  IF C < 0 THEN 0
        ELSE IF a1 = 0 THEN (C + 1) * Div(b1, M) + res
        ELSE res + (C + 1) * upper - floorSummation(M, M + a1 - 1 - b1, upper - 1, a1)
-----------------------------------------------------------------------------
\* fraction.cpp: <<a, b>> in lowest terms, b > 0.  Dividing by 0 never returns.
Abs(x) == x * Sign(x)
simplify(f) == LET g == gcd(Abs(f[1]), Abs(f[2]))[1] * Sign(f[2]) IN <<Div(f[1], g), Div(f[2], g)>>
plus(f, h) == LET g == gcd(Abs(f[2]), Abs(h[2]))[1] IN
              simplify(<<f[1] * Div(h[2], g) + h[1] * Div(f[2], g), Div(f[2], g) * h[2]>>)
minus(f, h) == LET g == gcd(Abs(f[2]), Abs(h[2]))[1] IN
               simplify(<<f[1] * Div(h[2], g) - h[1] * Div(f[2], g), Div(f[2], g) * h[2]>>)
times(f, h) == LET g1 == gcd(Abs(f[1]), Abs(h[2]))[1]
                   g2 == gcd(Abs(h[1]), Abs(f[2]))[1]
               IN  simplify(<<Div(f[1], g1) * Div(h[1], g2), Div(f[2], g2) * Div(h[2], g1)>>)
over(f, h) == LET g1 == gcd(Abs(f[1]), Abs(h[1]))[1]
                  g2 == gcd(Abs(h[2]), Abs(f[2]))[1]
              IN  simplify(<<Div(f[1], g1) * Div(h[2], g2), Div(f[2], g2) * Div(h[1], g1)>>)

-----------------------------------------------------------------------------
\* prime_generator.cpp: a sieve that keeps one bit for each number prime to the
\* wheel p, at (its turn) * euler + (its place in the turn).  `set' is the bits,
\* `prime' the primes up to sq, ok that no bit was set twice.
isPrime(n) == n >= 2 /\ \A x \in 2..n : x * x <= n => n % x # 0
generate_seed_prime(k) ==
    LET RECURSIVE from(_, _)
        from(x, q) == IF Len(q) = k THEN q ELSE from(x + 1, IF isPrime(x) THEN Append(q, x) ELSE q)
    IN  from(2, <<>>)
generate_prime(n, seeds) ==
    LET p == Product(generate_seed_prime(seeds))
        mod == SelectSeq([x \in 1..p - 1 |-> x], LAMBDA x : gcd(x, p)[1] = 1)
        euler == Len(mod)
        hash(r) == (CHOOSE i \in 1..euler : mod[i] = r) - 1
        sq == (CHOOSE r \in 0..n : r * r <= n /\ (r + 1) * (r + 1) > n) + 1
        RECURSIVE strike(_, _, _)
        strike(s, y, j) ==
            LET m == y * s.prime[j]
                bidx == (m \div p) * euler + hash(m % p)
                t == [s EXCEPT !.ok = @ /\ bidx \notin s.set, !.set = @ \cup {bidx}]
            IN  IF j > Len(s.prime) \/ n \div y < s.prime[j] THEN s
                ELSE IF y % s.prime[j] # 0 THEN strike(t, y, j + 1) ELSE t
        visit(s, idx) ==
            LET y == (idx \div euler) * p + mod[(idx % euler) + 1]
                new == idx \notin s.set
            IN  IF y > n THEN s
                ELSE strike([s EXCEPT !.prime = IF new /\ y <= sq THEN Append(@, y) ELSE @,
                                      !.out = IF new THEN @ \cup {y} ELSE @], y, 1)
    IN  FoldLeft(visit, [set |-> {0}, prime |-> <<>>, ok |-> TRUE,
                         out |-> ToSet(generate_seed_prime(seeds))],
                 UpTo((n \div p + 1) * euler))

-----------------------------------------------------------------------------
\* calculator.cpp: the operands and the operators wait on two stacks.  A token is
\* a number or one of + - * / ( ), written as <<"n", value>> and <<"+">> ...
priority(op) == CASE op = ")" -> 0 [] op \in {"+", "-"} -> 1 [] op \in {"*", "/"} -> 2 [] op = "(" -> 3
eval(a, b, op) == CASE op = "-" -> a - b [] op = "+" -> a + b [] op = "*" -> a * b [] op = "/" -> Div(a, b)
\* An operator waits until the next one does not bind tighter.
RECURSIVE reduce(_, _)
reduce(s, ch) ==
    LET top == Last(s.operat)
        k == Len(s.operand)
    IN  IF s.operat = <<>> \/ s.error \/ priority(top) < priority(ch) THEN s
        ELSE IF top = "(" THEN IF ch = ")" THEN [s EXCEPT !.operat = Front(@)] ELSE s
        ELSE IF k < 2 THEN [s EXCEPT !.error = TRUE]
        ELSE reduce([s EXCEPT !.operat = Front(@),
                              !.operand = Append(SubSeq(@, 1, k - 2), eval(@[k - 1], @[k], top))], ch)
read(s, token) ==
    IF token[1] = "n" THEN [s EXCEPT !.operand = Append(@, token[2])]
    ELSE LET t == reduce(s, token[1]) IN
         IF token[1] = ")" THEN t ELSE [t EXCEPT !.operat = Append(@, token[1])]
calculate(tokens) ==
    FoldLeft(read, [operand |-> <<>>, operat |-> <<"(">>, error |-> FALSE], Append(tokens, <<")">>))
=============================================================================
