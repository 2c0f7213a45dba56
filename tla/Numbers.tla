------------------------------- MODULE Numbers -------------------------------
(***************************************************************************)
(* The integers of the language: a small one is a machine word kept within  *)
(* SmallBits, every other is a big integer.  A program computes with one    *)
(* number, operation by operation.  Widths are parameters: 48, 64 and 61 in *)
(* the code.                                                                *)
(***************************************************************************)
EXTENDS Integers, Sequences

CONSTANTS
  SmallBits,     \* width of a small integer
  WordBits,      \* width of the machine words its operations compute in, and
                 \* of the limbs of a big integer
  HashBits,      \* hashes are residues modulo 2^HashBits - 1
  Operands,      \* the numbers that are operands
  MaxMagnitude,  \* bound: the absolute value of a result
  MaxBase,       \* bound: the absolute value of the base of a power
  MaxExponent    \* bound: its exponent

ASSUME NumberAssumption ==
  /\ SmallBits \in Nat \ {0} /\ HashBits \in Nat \ {0}
  /\ WordBits = HashBits + 3
  /\ 2 * SmallBits > WordBits /\ WordBits > SmallBits + 1

VARIABLES
  number,     \* form and value of the number
  exact,      \* history: what arithmetic says it is
  error       \* the ArithError that ended the program, or none

arithmetic == <<number, exact, error>>

Small(v) == [form |-> "small", v |-> v]
Big(v) == [form |-> "big", v |-> v]

FitsBits(v, bits) == -(2^(bits - 1)) <= v /\ v < 2^(bits - 1)
fits_in_small(v) == FitsBits(v, SmallBits)

demote(n) == IF fits_in_small(n.v) THEN Small(n.v) ELSE Big(n.v)

\* Construction from a literal, and the views of a number as an operand.
from_int(v) == IF fits_in_small(v) THEN Small(v) ELSE Big(v)

AllSmall(a, b) == a.form = "small" /\ b.form = "small"

Checked_faulty_word(a, b, result) ==
  IF AllSmall(a, b) /\ FitsBits(result, WordBits) THEN Small(result) ELSE demote(Big(result))

\* The word operation where both operands are small and the word holds the
\* result, the big one everywhere else.
Checked(a, b, result) ==
  demote(IF AllSmall(a, b) /\ FitsBits(result, WordBits) THEN Small(result) ELSE Big(result))

----------------------------------------------------------------------------
(* Division.  The machine truncates towards zero, the language rounds down. *)

Magnitude(v) == IF v < 0 THEN -v ELSE v
Truncated(a, b) ==
  LET q == Magnitude(a) \div Magnitude(b) IN IF (a < 0) = (b < 0) THEN q ELSE -q
Remainder(a, b) == a - b * Truncated(a, b)
Uneven(a, b) == Remainder(a, b) # 0 /\ (Remainder(a, b) < 0) # (b < 0)

floor_div_word(a, b) == Truncated(a, b) - (IF Uneven(a, b) THEN 1 ELSE 0)
floor_mod_word(a, b) == Remainder(a, b) + (IF Uneven(a, b) THEN b ELSE 0)

\* The greatest q with b * q not beyond a, and what is left.
Floor(a, b) == IF b > 0 THEN a \div b ELSE (-a) \div (-b)

floordiv(a, b) ==
  demote(IF AllSmall(a, b) THEN Small(floor_div_word(a.v, b.v)) ELSE Big(Floor(a.v, b.v)))
mod_(a, b) ==
  demote(IF AllSmall(a, b) THEN Small(floor_mod_word(a.v, b.v))
         ELSE Big(a.v - b.v * Floor(a.v, b.v)))

----------------------------------------------------------------------------
(* Shifts.                                                                  *)

\* A left shift of at most the word is done in two words.
shl(a, shift) ==
  LET r == a.v * 2^shift
  IN demote(IF a.form = "small" /\ shift < WordBits /\ FitsBits(r, WordBits)
            THEN Small(r) ELSE Big(r))

\* A right shift keeps the sign; the word cannot be shifted by its own width.
shr(a, shift) ==
  LET least == IF a.form = "small" /\ shift > WordBits - 1 THEN WordBits - 1 ELSE shift
  IN demote([a EXCEPT !.v = @ \div 2^least])

----------------------------------------------------------------------------
(* Hashes: a residue modulo 2^HashBits - 1, computed without a division.    *)

Modulus == 2^HashBits - 1

mod_mersenne(x) ==
  LET r == (x % (Modulus + 1)) + x \div (Modulus + 1)
  IN IF r >= Modulus THEN r - Modulus ELSE r

\* The product of two residues is folded twice.
mod_mersenne_wide(x) ==
  mod_mersenne((x % (Modulus + 1)) + x \div (Modulus + 1))

Signed(h, v) == LET s == IF v < 0 THEN -h ELSE h IN IF s = -1 THEN -2 ELSE s

hash_small(v) == Signed(mod_mersenne(Magnitude(v)), v)

\* Limb by limb from the lowest: a limb weighs 8 times the one before, for
\* 2^WordBits is 8 modulo 2^HashBits - 1.
RECURSIVE hash_limbs(_, _, _)
hash_limbs(v, weight, h) ==
  IF v = 0 THEN h
  ELSE hash_limbs(v \div 2^WordBits, mod_mersenne(8 * weight),
         mod_mersenne(h + mod_mersenne_wide(mod_mersenne(v % 2^WordBits) * weight)))

hash_big(v) == Signed(hash_limbs(Magnitude(v), 1, 0), v)

number_hash(n) == IF n.form = "small" THEN hash_small(n.v) ELSE hash_big(n.v)

----------------------------------------------------------------------------
(* The program.  A result beyond the bound is not computed.                 *)

NumberInit ==
  /\ \E v \in Operands : number = from_int(v) /\ exact = v
  /\ error = "none"

Becomes(n, v) ==
  /\ Magnitude(v) <= MaxMagnitude
  /\ number' = n /\ exact' = v /\ error' = "none"

Fails(e) == error' = e /\ UNCHANGED <<number, exact>>

add(b) == Becomes(Checked(number, b, number.v + b.v), exact + b.v)
sub(b) == Becomes(Checked(number, b, number.v - b.v), exact - b.v)
mul(b) == Becomes(Checked(number, b, number.v * b.v), exact * b.v)
neg == Becomes(Checked(number, number, -number.v), -exact)
abs == Becomes(Checked(number, number, Magnitude(number.v)), Magnitude(exact))
invert == Becomes(demote([number EXCEPT !.v = -@ - 1]), -exact - 1)

Power(a, e) == IF e = 0 THEN 1 ELSE a ^ e

\* Always in big integers; a negative exponent makes a float.
pow(e) ==
  /\ e.v \in 0 .. MaxExponent
  /\ Magnitude(exact) <= MaxBase
  /\ Becomes(demote(Big(Power(number.v, e.v))), Power(exact, e.v))

divide(b) ==
  IF b.v = 0 THEN Fails("DivByZero")
  ELSE \/ Becomes(floordiv(number, b), Floor(exact, b.v))
       \/ Becomes(mod_(number, b), exact - b.v * Floor(exact, b.v))

\* An amount that is no unsigned word is called negative, a huge one as well.
NoShiftAmount(b) == b.v < 0 \/ b.v >= 2^WordBits

shift_left(b) ==
  IF NoShiftAmount(b) THEN Fails("NegativeShift")
  ELSE /\ exact = 0 \/ 2^b.v <= MaxMagnitude
       /\ Becomes(shl(number, b.v), exact * 2^b.v)

shift_right(b) ==
  IF NoShiftAmount(b) THEN Fails("NegativeShift")
  ELSE Becomes(shr(number, b.v), exact \div 2^b.v)

\* An error ends the program.
NumberNext ==
  \/ error = "none" /\ (neg \/ abs \/ invert)
  \/ error = "none" /\ \E v \in Operands :
       LET b == from_int(v)
       IN add(b) \/ sub(b) \/ mul(b) \/ pow(b) \/ divide(b) \/ shift_left(b) \/ shift_right(b)

----------------------------------------------------------------------------
(* Arithmetic crosses the widths without a trace: the number is what        *)
(* integers make it, small exactly if it fits (demote), and its hash is the *)
(* same residue whichever form computes it (hash_small_i64, hash_bigint).   *)
NumbersExact ==
  /\ number = from_int(exact)
  /\ number_hash(number) = Signed(Magnitude(exact) % Modulus, exact)
  /\ fits_in_small(exact) => hash_small(exact) = hash_big(exact)
=============================================================================
