----------------------------- MODULE WrappingAge -----------------------------
(***************************************************************************)
(* The age of something last used in one generation, seen from another one *)
(* (helicoid-helixserver, center.rs, wrapping_age).  The code computes on  *)
(* u16 and i16; here a word has 4 * Quarter values, so Quarter is 2^14 in  *)
(* the program, and a small number where TLC enumerates words.             *)
(***************************************************************************)
EXTENDS Integers

CONSTANTS
    Quarter,    \* a quarter of the values of a word
    NoAge       \* the None of wrapping_age

ASSUME QuarterAssumption == Quarter \in Nat \ {0}
ASSUME NoAgeAssumption == NoAge \notin Int

Word == 0 .. 4 * Quarter - 1

QuarterOf(x) == x \div Quarter

WrappingAdd(x, y) == (x + y) % (4 * Quarter)

\* "as i16": the upper half of the words stands for the negative numbers.
Signed(x) == IF x < 2 * Quarter THEN x ELSE x - 4 * Quarter

\* The subtraction of two i16, in a build that lets it wrap around.
WrappingDifference(x, y) == Signed((Signed(x) - Signed(y)) % (4 * Quarter))

\* The same subtraction overflows, which a debug build turns into a panic.
Overflows(x, y) == Signed(x) - Signed(y) \notin -2 * Quarter .. 2 * Quarter - 1

\* u16::MAX >> 2, which is one less than a quarter.
Shift == (4 * Quarter - 1) \div 4

\* Words are only comparable when their quarters are neighbours.
Comparable(a, b) ==
    \/ QuarterOf(a) = QuarterOf(b)
    \/ QuarterOf(a) = (QuarterOf(b) + 1) % 4
    \/ (QuarterOf(a) + 1) % 4 = QuarterOf(b)

\* Next to the point where words wrap around, both are shifted off it first.
NearWrap(a, b) == {QuarterOf(a), QuarterOf(b)} \cap {0, 3} # {}

Operand(x, shifted) == IF shifted THEN WrappingAdd(x, Shift) ELSE x

wrapping_subtract(a, b) ==
    IF ~Comparable(a, b) THEN NoAge
    ELSE WrappingDifference(Operand(a, NearWrap(a, b)), Operand(b, NearWrap(a, b)))

wrapping_age(individual, generation) == wrapping_subtract(generation, individual)
==============================================================================
