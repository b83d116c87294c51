----------------------------- MODULE BitCounter -----------------------------
(***************************************************************************)
(* src/ibm-ponder-this/2015-10.py: a network of seven gates, each with     *)
(* five inputs and two outputs, that counts the ones of twelve bits.  The  *)
(* wires are numbered as Index numbers the letters a .. z; a gate is its   *)
(* five input wires and the table of its two output bits.                  *)
(***************************************************************************)
EXTENDS Integers, Sequences, FiniteSets, SequencesExt

Shr(x, n) == x \div 2 ^ n           \* x >> n
LowBits(x, n) == x % (2 ^ n)        \* x & ((1 << n) - 1)
Bit(x, n) == LowBits(Shr(x, n), 1)

RECURSIVE CountBits(_)
CountBits(x) == IF x = 0 THEN 0 ELSE LowBits(x, 1) + CountBits(Shr(x, 1))

(* The tables are indexed by the five input bits read as a number. *)
SumAndCountMod4(a, b) ==
  [x \in 0 .. 31 |-> LET y == Shr(x, 5 - a - b) IN (CountBits(LowBits(y, b)) + Shr(y, b)) % 4]

Sum2(a, b) ==
  [x \in 0 .. 31 |-> LET y == Shr(x, 5 - a - b) IN (LowBits(y, b) + Shr(y, b)) % 4]

carry(x) ==
  LET prefix == Bit(x, 3) + Shr(x, 4)
      suffix == LowBits(Shr(x, 1), 2)
  IN  IF (prefix = 1 /\ suffix = 0) \/ (prefix = 2 /\ suffix <= 1) THEN 1 ELSE 0

Ones(c) == IF c THEN 1 ELSE 0

Set1 == [x \in 0 .. 31 |-> carry(x) + Ones(Bit(x, 2) = 1 /\ Bit(x, 0) = 0)]

Set2 == [x \in 0 .. 31 |-> Ones(LowBits(Shr(x, 2), 2) > LowBits(x, 2))
                             + Ones(Shr(x, 4) = 1 /\ Bit(x, 3) = 0)]

(* a .. l are wires 1 .. 12; gate g drives the wires 11 + 2g and 12 + 2g.  *)
answer == << [wires |-> << 1, 2, 3, 4, 5 >>,      table |-> SumAndCountMod4(0, 5)],
             [wires |-> << 13, 14, 6, 7, 1 >>,    table |-> SumAndCountMod4(2, 2)],
             [wires |-> << 15, 16, 8, 9, 1 >>,    table |-> SumAndCountMod4(2, 2)],
             [wires |-> << 17, 18, 10, 11, 12 >>, table |-> SumAndCountMod4(2, 3)],
             [wires |-> << 1, 2, 13, 14, 15 >>,   table |-> Set1],
             [wires |-> << 15, 17, 18, 19, 20 >>, table |-> Set2],
             [wires |-> << 21, 22, 23, 24, 1 >>,  table |-> Sum2(2, 2)] >>

output == << 25, 26, 19, 20 >>

Read(ram, wires) == FoldLeft(LAMBDA x, w : 2 * x + ram[w], 0, wires)

(* evaluate: the inputs on the wires 12 .. 1, every gate in turn, and the  *)
(* number the output wires spell.                                          *)
evaluate(x) ==
  LET inputs == [w \in 1 .. 12 |-> Bit(x, 12 - w)]
      fire(ram, gate) == LET v == gate.table[Read(ram, gate.wires)]
                         IN  ram \o << Shr(v, 1), LowBits(v, 1) >>
  IN  Read(FoldLeft(fire, inputs, answer), output)
=============================================================================
