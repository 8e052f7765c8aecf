----------------------------- MODULE FloatNumbers -----------------------------
(***************************************************************************)
(* The numbers of a double and of a float, and the conversion from one to  *)
(* the other that json/decode.c and patch/patch.c leave to the compiler.   *)
(* Numbers are counted in a unit for which a double holds every integer    *)
(* between the infinities, a float only the even ones up to FloatMax.      *)
(***************************************************************************)
EXTENDS Integers

CONSTANTS NaN,          \* the number that is none
          FloatMax,     \* FLT_MAX
          Infinity

\* The mantissa of FLT_MAX is odd: halfway behind it is already infinity.
ASSUME FloatAssumption ==
  /\ FloatMax \in Nat /\ FloatMax % 4 = 2
  /\ Infinity \in Nat /\ Infinity > FloatMax + 1
  /\ NaN \in Int /\ (NaN > Infinity \/ NaN < -Infinity)

Finite(v) == v \notin {NaN, Infinity, -Infinity}
FloatNumber(v) == Finite(v) => v % 2 = 0 /\ -FloatMax <= v /\ v <= FloatMax

\* Mutant: a number in the middle is rounded up.
ToFloatUp(v) == IF Finite(v) THEN 2 * ((v + 1) \div 2) ELSE v

\* (float)v: to the nearest number, in the middle to the one with the even mantissa;
\* beyond the largest one to infinity.
ToFloat(v) ==
  LET even == IF v % 2 = 0 THEN v ELSE 4 * ((v + 2) \div 4)
  IN  CASE ~Finite(v) -> v
        [] Finite(v) /\ even > FloatMax -> Infinity
        [] Finite(v) /\ even < -FloatMax -> -Infinity
        [] OTHER -> even

Distance(a, b) == IF a < b THEN b - a ELSE a - b

\* What a reader of a float may rely on: s is a float that no other is nearer to v than;
\* out of the range of a float s is the last number or the infinity on that side.
Nearest(s, v) ==
  /\ FloatNumber(s)
  /\ ~Finite(v) => s = v
  /\ v \in -FloatMax..FloatMax =>
       \A t \in -FloatMax..FloatMax : FloatNumber(t) => Distance(s, v) <= Distance(t, v)
  /\ Finite(v) /\ v > FloatMax => s \in {FloatMax, Infinity}
  /\ Finite(v) /\ v < -FloatMax => s \in {-FloatMax, -Infinity}
=============================================================================
