----------------------------- MODULE Bitarithm -----------------------------
(***************************************************************************)
(* core/bitarithm.c and core/include/bitarithm.h.  A 32-bit word is the    *)
(* set of its bits that are 1.  sched_run finds the highest ready priority *)
(* with bitarithm_lsb.                                                     *)
(***************************************************************************)
EXTENDS Integers, FiniteSets, FiniteSetsExt

CONSTANT MaxBits   \* how many bits of a word are 1

VARIABLE word      \* the argument

ShiftRight(w, n) == {b - n : b \in {x \in w : x >= n}}
ShiftLeft(w, n) == {b + n : b \in {x \in w : x + n < 32}}
Lowest(w) == CHOOSE b \in w : \A x \in w : b <= x
(* Word arithmetic: w - 1 and -w for a word that is not 0. *)
MinusOne(w) == (w \ {Lowest(w)}) \cup (0 .. Lowest(w) - 1)
Negated(w) == {Lowest(w)} \cup {b \in Lowest(w) + 1 .. 31 : b \notin w}
Value(w) == SumSet({2^b : b \in w})

(* (w > 2^n - 1) << log2(n), for n = 16, 8, 4, 2 *)
Halve(w, n) == IF \E b \in w : b >= n THEN n ELSE 0

(* bitarithm_msb with a 32-bit unsigned: the shifts are different powers   *)
(* of two, so |= adds them.                                                *)
msb_32(w) ==
    LET r16 == Halve(w, 16)
        w16 == ShiftRight(w, r16)
        r8 == Halve(w16, 8)
        w8 == ShiftRight(w16, r8)
        r4 == Halve(w8, 4)
        w4 == ShiftRight(w8, r4)
        r2 == Halve(w4, 2)
        w2 == ShiftRight(w4, r2)
    IN  r16 + r8 + r4 + r2 + Value(ShiftRight(w2, 1))

(* bitarithm_msb otherwise: r counts the shifts until nothing is left. *)
RECURSIVE msb_loop(_)
msb_loop(w) == IF ShiftRight(w, 1) = {} THEN 0 ELSE 1 + msb_loop(ShiftRight(w, 1))

RECURSIVE bitarithm_bits_set(_)
bitarithm_bits_set(w) ==
    IF w = {} THEN 0 ELSE 1 + bitarithm_bits_set(w \cap MinusOne(w))

MultiplyDeBruijnBitPosition ==
    << 0, 1, 28, 2, 29, 14, 24, 3, 30, 22, 20, 15, 25, 17, 4, 8,
       31, 27, 13, 23, 21, 19, 16, 7, 26, 12, 18, 6, 11, 5, 10, 9 >>

(* 0x077CB531U *)
DeBruijn == {0, 4, 5, 8, 10, 12, 13, 15, 18, 19, 20, 21, 22, 24, 25, 26}

(* Mutation: the index is taken from the low bits of the product.          *)
lsb_lookup_LowBits(w) ==
    LET product == ShiftLeft(DeBruijn, Lowest(w \cap Negated(w)))
    IN  MultiplyDeBruijnBitPosition[Value(product \cap 0 .. 4) + 1]

(* bitarithm_lsb with BITARITHM_LSB_LOOKUP: v & -v has one bit, so the     *)
(* product is a shift, modulo 2^32.                                        *)
lsb_lookup(w) ==
    LET product == ShiftLeft(DeBruijn, Lowest(w \cap Negated(w)))
    IN  MultiplyDeBruijnBitPosition[Value(ShiftRight(product, 27)) + 1]

(* bitarithm_lsb otherwise, on a word that is not 0. *)
RECURSIVE lsb_loop(_)
lsb_loop(w) == IF 0 \in w THEN 0 ELSE 1 + lsb_loop(ShiftRight(w, 1))

-----------------------------------------------------------------------------
BitInit == word = {}
BitNext == \/ \E b \in (0 .. 31) \ word : Cardinality(word) < MaxBits /\ word' = word \cup {b}
           \/ \E b \in word : word' = word \ {b}
BitSpec == BitInit /\ [][BitNext]_word

(* The two builds of bitarithm_lsb that have code of their own return the  *)
(* lowest bit of every word that is not 0 (the priority sched_run takes    *)
(* from the bit cache is the highest ready one), the two of bitarithm_msb  *)
(* the highest, and bitarithm_bits_set counts the bits, those of 0         *)
(* included.  Where bitarithm_lsb is the compiler's __builtin_ffs          *)
(* (bitarithm.h:142) there is nothing of the kernel to check.              *)
BitFunctionsExact ==
  /\ word # {} => /\ lsb_lookup(word) = Min(word) /\ lsb_loop(word) = Min(word)
                  /\ msb_32(word) = Max(word) /\ msb_loop(word) = Max(word)
  /\ bitarithm_bits_set(word) = Cardinality(word)
=============================================================================
