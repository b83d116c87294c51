--------------------------- MODULE NumberProblems ---------------------------
(***************************************************************************)
(* Calls of the routines of Numbers: an initial state is a call with its      *)
(* arguments, the step that answers it the routine.                           *)
(***************************************************************************)
EXTENDS Numbers

CONSTANT Reach        \* bound on the integers tried, either way

VARIABLES problem,    \* <<routine, arguments...>>
          answer      \* <<>>, then <<what the routine returned>>

Near == -Reach..Reach
Fractions == {f \in (-3..3) \X (-3..3) : f[2] # 0}
Bijections(n) == {f \in [Below(n) -> Below(n)] : \A i, j \in Below(n) : i # j => f[i] # f[j]}
Picked(S) == SelectSeq(UpTo(6), LAMBDA i : i \in S)

\* Expressions with their value; fewest parentheses.
Ops == {"+", "-", "*", "/"}
Atom(k) == [tokens |-> <<<<"n", k>>>>, value |-> k, binds |-> 3]
Wrapped(x, yes) == IF yes THEN <<<<"(">>>> \o x.tokens \o <<<<")">>>> ELSE x.tokens
Joined(x, op, y) == [tokens |-> Wrapped(x, x.binds < priority(op)) \o <<<<op>>>>
                                    \o Wrapped(y, y.binds <= priority(op)),
                     value |-> eval(x.value, y.value, op), binds |-> priority(op)]
Grown(E) == E \cup {Joined(e[1], e[2], e[3]) :
                    e \in {e \in E \X Ops \X E : e[2] # "/" \/ e[3].value # 0}}
Expressions == Grown(Grown({Atom(2), Atom(7)}))

Init ==
    /\ answer = <<>>
    /\ \/ \E a, b \in Near : problem = <<"euclid", a, b>>
       \/ \E a, b \in Near, p \in 1..Reach : problem = <<"module", a, b, p>>
       \/ \E A, B \in -5..5, C \in -1..3, M \in 1..4 : problem = <<"floors", A, B, C, M>>
       \/ \E f, h \in Fractions : problem = <<"fractions", f, h>>
       \/ \E a \in 0..3, b \in 0..3, c \in 0..4, p, q \in 1..5, r \in {2, 4, 5} :
              problem = <<"system", <<a % p, b % q, c % r>>, <<p, q, r>>>>
       \/ \E a, b, c \in 0..3, r \in -2..4, p \in 1..4 : problem = <<"linear", <<a, b, c>>, r, p>>
       \/ \E n, m \in 0..26, p \in {2, 3, 5} : problem = <<"binomial", n, m, p>>
       \/ \E n \in 1..32 \cup {49, 50, 125} : problem = <<"primes", n>>
       \/ \E f \in [Below(2) \X Below(2) -> 0..2], m \in 0..5 : problem = <<"power", f, m>>
       \/ \E f \in [Below(3) \X Below(3) -> 0..2] :
              f[0, 0] # 1 /\ f[2, 2] # 1 /\ f[0, 2] # 1 /\ problem = <<"determinant", f>>
       \/ \E f \in Bijections(4) : problem = <<"permutation", f>>
       \/ \E S \in SUBSET Below(6) : problem = <<"combination", Picked(S)>>
       \/ \E n \in 1..36, r \in 0..33 : r < Max({n - 2, 1}) /\ problem = <<"miller", n, r>>
       \/ \E e \in Expressions : problem = <<"expression", e.tokens, e.value>>

Call(routine) == problem[1] = routine /\ answer = <<>> /\ UNCHANGED problem
Euclid == /\ Call("euclid")
          /\ answer' = <<[floor |-> IF problem[3] = 0 THEN 0 ELSE intFloor(problem[2], problem[3]),
                          gcd |-> gcd(problem[2], problem[3]),
                          cut |-> update_interval(problem[2], problem[3], -9, 9)]>>
Modules == Call("module") /\ answer' = <<solveModule(problem[2], problem[3], problem[4])>>
Floors == /\ Call("floors")
          /\ answer' = <<floorSummation(problem[2], problem[3], problem[4], problem[5])>>
FractionSums ==
    LET f == simplify(problem[2])
        h == simplify(problem[3]) IN
    /\ Call("fractions")
    /\ answer' = <<[sum |-> plus(f, h), difference |-> minus(f, h), product |-> times(f, h),
                    quotient |-> IF h[1] = 0 THEN f ELSE over(f, h)]>>
Systems == Call("system") /\ answer' = <<[x |-> solveModuleEquations(problem[2], problem[3]),
                                          basis |-> Chinese_remainder(problem[3])]>>
Linear == Call("linear") /\ answer' = <<solveLinear(problem[2], problem[3], problem[4])>>
Binomials == /\ Call("binomial")
             /\ answer' = <<[lucas |-> binomial_mod(problem[2], problem[3], problem[4]),
                             factorial |-> factorial_mod(problem[3], problem[4])]>>
Primes ==
    LET n == problem[2] IN
    /\ Call("primes")
    /\ answer' = <<[sieve |-> primeSieve(n).factor, one |-> is_prime(n), factors |-> factorize(n),
                    wheel |-> generate_prime(n, 2), 
                    inverse |-> IF is_prime(n) THEN generateInverse(n, n) ELSE <<>>]>>
Powers == Call("power") /\ answer' = <<[power |-> matrixPower(problem[2], 2, problem[3], 3),
                                        sum |-> matrixPowerSum(problem[2], 2, problem[3], 3)]>>
Determinant == Call("determinant") /\ answer' = <<matrixDet(problem[2], 3, 3)>>
Permutation == Call("permutation") /\ answer' = <<encode_factorial(problem[2], 4)>>
Combination == Call("combination") /\ answer' = <<bino_encode(problem[2], init_bino(7, 0))>>
Miller == /\ Call("miller")
          /\ answer' = <<[test |-> robinMiller(problem[2], {problem[3]}),
                          divisors |-> {pollard(problem[2], problem[3] % problem[2], a % problem[2], 40) :
                                       a \in 0..3}]>>
Expression == Call("expression") /\ answer' = <<calculate(problem[2])>>
Next == \/ Euclid \/ Modules \/ Floors \/ FractionSums \/ Systems \/ Linear \/ Binomials
        \/ Primes \/ Powers \/ Determinant \/ Permutation \/ Combination \/ Miller \/ Expression

-----------------------------------------------------------------------------
Answered(routine) == problem[1] = routine /\ answer # <<>>
FloorOf(a, b) == IF b > 0 THEN a \div b ELSE (-a) \div (-b)
Prime(n) == n > 1 /\ \A d \in 2..n - 1 : n % d # 0
Choose(n, m) == IF m > n THEN 0
                ELSE FoldLeft(LAMBDA acc, i : (acc * (n - i + 1)) \div i, 1, [i \in 1..m |-> i])
RECURSIVE Stripped(_, _, _)
Stripped(v, p, c) == IF v % p = 0 THEN Stripped(v \div p, p, c + 1) ELSE <<v % p, c>>
Det3(f) == f[0, 0] * (f[1, 1] * f[2, 2] - f[1, 2] * f[2, 1]) - f[0, 1] * (f[1, 0] * f[2, 2] - f[1, 2] * f[2, 0])
               + f[0, 2] * (f[1, 0] * f[2, 1] - f[1, 1] * f[2, 0])
Equals(r, n, d) == r[1] * d = n * r[2] /\ r[2] > 0 /\ Abs(gcd(r[1], r[2])[1]) = 1
Congruent(a, b, p) == Rem(a - b, p) = 0
PowerTo(f) == LET pw[k \in 0..5] == IF k = 0 THEN Unit(2) ELSE mult(pw[k - 1], f, 2, 3) IN pw

IntegersRight ==
    /\ Answered("euclid") =>
           LET a == problem[2]
               b == problem[3]
               r == answer[1] IN
           /\ b # 0 => r.floor = FloorOf(a, b)
           /\ r.gcd[2] * a + r.gcd[3] * b = r.gcd[1]
           /\ r.gcd[1] # 0 => Rem(a, r.gcd[1]) = 0 /\ Rem(b, r.gcd[1]) = 0
           /\ \A v \in -9..9 : v \in r.cut[1]..r.cut[2] <=> a * v <= b
    /\ Answered("floors") =>
           answer[1] = MapThenSumSet(LAMBDA i : FloorOf(problem[2] * i + problem[3], problem[5]), 0..problem[4])
    /\ Answered("fractions") =>
           LET f == problem[2]
               h == problem[3]
               r == answer[1] IN
           /\ Equals(r.sum, f[1] * h[2] + h[1] * f[2], f[2] * h[2])
           /\ Equals(r.difference, f[1] * h[2] - h[1] * f[2], f[2] * h[2])
           /\ Equals(r.product, f[1] * h[1], f[2] * h[2])
           /\ h[1] # 0 => Equals(r.quotient, f[1] * h[2], f[2] * h[1])
    /\ Answered("expression") =>
           answer[1] = [operand |-> <<problem[3]>>, operat |-> <<>>, error |-> FALSE]

CongruencesRight ==
    /\ Answered("module") =>
           LET solutions == {v \in -20..20 : Congruent(problem[2] * v, problem[3], problem[4])}
               r == answer[1] IN
           solutions = {v \in -20..20 : r.ok /\ Congruent(v, r.x0, r.d)}
    /\ Answered("system") =>
           LET mod == problem[3]
               solutions == {v \in 0..Abs(lcm(mod)) - 1 : \A i \in 1..3 : v % mod[i] = problem[2][i]}
               basis == answer[1].basis.basis
               coprime == \A i, j \in 1..3 : i # j => gcd(mod[i], mod[j])[1] = 1 IN
           /\ answer[1].x \in IF solutions = {} THEN {-1} ELSE solutions
           /\ IF answer[1].basis.ok
              THEN /\ DOMAIN basis = IF coprime THEN 1..3 ELSE {}
                   /\ \A i \in DOMAIN basis, j \in 1..3 :
                          basis[i] % mod[j] = IF i = j THEN 1 ELSE 0
              ELSE \E i \in 1..3 : mod[i] = 1
    /\ Answered("linear") =>
           LET aa == problem[2]
               p == problem[4]
               solves(x) == Congruent(aa[1] * x[1] + aa[2] * x[2] + aa[3] * x[3], problem[3], p)
               r == answer[1] IN
           /\ r.ok <=> \E u, v, w \in 0..p - 1 : solves(<<u, v, w>>)
           /\ r.ok => solves(r.ans)
    /\ Answered("power") =>
           LET pw == PowerTo(problem[2])
               m == problem[3] IN
           /\ answer[1].power = pw[m]
           /\ \A e \in DOMAIN problem[2] :
                  answer[1].sum[e] = MapThenSumSet(LAMBDA k : pw[k][e], 0..m) % 3
    /\ Answered("determinant") => answer[1] = Det3(problem[2]) % 3

PrimesRight ==
    /\ Answered("binomial") =>
           LET m == problem[3]
               p == problem[4] IN
           /\ answer[1].lucas = Choose(problem[2], m) % p
           /\ m <= 10 => answer[1].factorial = Stripped(Factorial(m), p, 0)
    /\ Answered("primes") =>
           LET n == problem[2]
               r == answer[1]
               primes == {i \in 2..n : Prime(i)} IN
           /\ {i \in 2..n : r.sieve[i] = 0} = primes
           /\ r.one <=> n \in primes
           /\ \A i \in DOMAIN r.factors : Prime(r.factors[i][1])
           /\ Product([i \in DOMAIN r.factors |-> r.factors[i][1]^r.factors[i][2]]) = n
           /\ r.wheel.ok /\ r.wheel.out = {2, 3} \cup primes
           /\ n \in primes => \A i \in 1..n - 1 :
                  \A inv \in {r.inverse[i], getReverse(i, n), getReverseByEuler(i, n)} : (inv * i) % n = 1
    /\ Answered("miller") =>
           /\ IF answer[1].test.ok THEN answer[1].test.prime <=> Prime(problem[2])
                                   ELSE problem[2] = 2
           /\ ~Prime(problem[2]) => \A d \in answer[1].divisors \ {0} : d \in 2..problem[2] - 1 /\ problem[2] % d = 0
    /\ Answered("permutation") => /\ answer[1] \in 0..23
                                  /\ decode_factorial(4, answer[1]) = problem[2]
    /\ Answered("combination") =>
           LET m == Len(problem[2])
               com == init_bino(7, 0) IN
           answer[1] \in 0..com[6, m] - 1 /\ bino_decode(6, m, answer[1], com) = problem[2]
Right == IntegersRight /\ CongruencesRight /\ PrimesRight
Spec == Init /\ [][Next]_<<problem, answer>>
=============================================================================
