------------------------------- MODULE Bits -------------------------------
(* Words of a few bits as natural numbers: what the predictors' XOR        *)
(* folding and the history's rotations compute.                            *)
EXTENDS Integers, FiniteSets, FiniteSetsExt

Words(n) == 0 .. 2^n - 1

Bit(v, b) == (v \div 2^b) % 2

Word(P(_), n) == MapThenSumSet(LAMBDA b : IF P(b) THEN 2^b ELSE 0, 0 .. n - 1)

Xor(u, v, n) == Word(LAMBDA b : Bit(u, b) # Bit(v, b), n)

(* An n-bit word cut into pieces of w bits that are XORed together.        *)
FoldTo(v, n, w) ==
  Word(LAMBDA j : Cardinality({b \in 0 .. n - 1 : b % w = j /\ Bit(v, b) = 1}) % 2 = 1, w)

Rotate(v, w, k) == Word(LAMBDA b : Bit(v, (b - k) % w) = 1, w)
=============================================================================
