----------------------------- MODULE NumericOps -----------------------------
(***************************************************************************)
(* The operators of src/wasm/ThreadOps.cc and the opcodes of Thread.cpp    *)
(* that apply them.  Values are what ToRep makes of them: naturals below 2 *)
(* to the width of their type.  A float is its bits, and what the hardware *)
(* computes with floats (+, *, rounding, sqrt, int to float) is left out.  *)
(*                                                                         *)
(* The widths are constants, so that every pair of operands can be tried.  *)
(* What the limits of conversions are relative to the widths is as in the  *)
(* code: all i32 are f64, but not all are f32, nor all i64 f64.            *)
(***************************************************************************)
EXTENDS Integers, FiniteSetsExt, Bitwise

CONSTANTS Width,     \* the bits of "i32" and "i64", powers of 2
          Mantissa,  \* kSigBits of "f32" and "f64"
          Exponent,  \* the bits of their exponents
          Bias

Ok(value) == [trap |-> "", value |-> value]
Trap(name) == [trap |-> name, value |-> 0]
Truth(b) == IF b THEN 1 ELSE 0
-----------------------------------------------------------------------------
(* Integers *)

\* FromRep of a signed type, and ToRep.
Signed(w, x) == IF x < 2 ^ (w - 1) THEN x ELSE x - 2 ^ w
Rep(w, v) == v % 2 ^ w

\* Division in C++ is towards zero.
Magnitude(v) == IF v < 0 THEN -v ELSE v
Quotient(a, b) == IF (a < 0) = (b < 0) THEN Magnitude(a) \div Magnitude(b)
                  ELSE -(Magnitude(a) \div Magnitude(b))

IsNormalDivRemS(w, a, b) == ~(a = -(2 ^ (w - 1)) /\ b = -1)

IntDivS(w, x, y) ==
    LET a == Signed(w, x)
        b == Signed(w, y)
    IN IF b = 0 THEN Trap("IntegerDivideByZero")
       ELSE IF ~IsNormalDivRemS(w, a, b) THEN Trap("IntegerOverflow")
       ELSE Ok(Rep(w, Quotient(a, b)))

\* Mutant: the remainder has the sign of the divisor.
IntRemFloor(w, x, y) ==
    IF Signed(w, y) = 0 THEN Trap("IntegerDivideByZero")
    ELSE Ok(Rep(w, Signed(w, x) % Magnitude(Signed(w, y))))

IntRemS(w, x, y) ==
    LET a == Signed(w, x)
        b == Signed(w, y)
    IN IF b = 0 THEN Trap("IntegerDivideByZero")
       ELSE Ok(IF IsNormalDivRemS(w, a, b) THEN Rep(w, a - b * Quotient(a, b)) ELSE 0)

IntDivU(x, y) == IF y = 0 THEN Trap("IntegerDivideByZero") ELSE Ok(x \div y)
IntRemU(x, y) == IF y = 0 THEN Trap("IntegerDivideByZero") ELSE Ok(x % y)

\* Shifts and rotations take the count modulo the width.
Amount(w, y) == y & (w - 1)
IntShl(w, x, y) == Rep(w, x * 2 ^ Amount(w, y))
IntShrU(w, x, y) == x \div 2 ^ Amount(w, y)
IntShrS(w, x, y) == Rep(w, Signed(w, x) \div 2 ^ Amount(w, y))
IntRotl(w, x, y) ==
    LET n == Amount(w, y) IN IF n = 0 THEN x ELSE Rep(w, x * 2 ^ n) | (x \div 2 ^ (w - n))
IntRotr(w, x, y) ==
    LET n == Amount(w, y) IN IF n = 0 THEN x ELSE (x \div 2 ^ n) | Rep(w, x * 2 ^ (w - n))

IntExtendS(w, x, e) == Rep(w, Signed(e, Rep(e, x)))

\* Of 0 all bits are counted, which the builtins leave open.
Clz(w, x) == IF x = 0 THEN w ELSE CHOOSE n \in 0 .. w - 1 : x \div 2 ^ (w - 1 - n) = 1
Ctz(w, x) == IF x = 0 THEN w ELSE Max({n \in 0 .. w - 1 : x % 2 ^ n = 0})
Popcount(w, x) == Cardinality({n \in 0 .. w - 1 : (x \div 2 ^ n) % 2 = 1})

\* The opcodes of an integer type.
IntBinops == {"add", "sub", "mul", "div_s", "div_u", "rem_s", "rem_u", "and", "or", "xor", "shl",
              "shr_s", "shr_u", "rotl", "rotr", "lt_s", "lt_u", "le_s", "le_u", "gt_s", "gt_u",
              "ge_s", "ge_u", "eq", "ne"}
IntUnops == {"clz", "ctz", "popcnt", "eqz"}

IntBinary(op, w, x, y) ==
    LET a == Signed(w, x)
        b == Signed(w, y)
    IN CASE op = "add" -> Ok(Rep(w, x + y))     [] op = "sub" -> Ok(Rep(w, x - y))
         [] op = "mul" -> Ok(Rep(w, x * y))
         [] op = "div_s" -> IntDivS(w, x, y)     [] op = "div_u" -> IntDivU(x, y)
         [] op = "rem_s" -> IntRemS(w, x, y)     [] op = "rem_u" -> IntRemU(x, y)
         [] op = "and" -> Ok(x & y)              [] op = "or" -> Ok(x | y)
         [] op = "xor" -> Ok(x ^^ y)             [] op = "shl" -> Ok(IntShl(w, x, y))
         [] op = "shr_s" -> Ok(IntShrS(w, x, y)) [] op = "shr_u" -> Ok(IntShrU(w, x, y))
         [] op = "rotl" -> Ok(IntRotl(w, x, y))  [] op = "rotr" -> Ok(IntRotr(w, x, y))
         [] op = "lt_s" -> Ok(Truth(a < b))      [] op = "lt_u" -> Ok(Truth(x < y))
         [] op = "le_s" -> Ok(Truth(a <= b))     [] op = "le_u" -> Ok(Truth(x <= y))
         [] op = "gt_s" -> Ok(Truth(a > b))      [] op = "gt_u" -> Ok(Truth(x > y))
         [] op = "ge_s" -> Ok(Truth(a >= b))     [] op = "ge_u" -> Ok(Truth(x >= y))
         [] op = "eq" -> Ok(Truth(x = y))        [] op = "ne" -> Ok(Truth(x # y))
IntUnary(op, w, x) ==
    CASE op = "clz" -> Clz(w, x) [] op = "ctz" -> Ctz(w, x) [] op = "popcnt" -> Popcount(w, x)
      [] op = "eqz" -> Truth(x = 0)
-----------------------------------------------------------------------------
(* Floats *)

\* The fields of a float, and the constants of FloatTraits.
SignMask(f) == 2 ^ (Exponent + Mantissa[f])
Inf(f) == (2 ^ Exponent - 1) * 2 ^ Mantissa[f]
NegInf(f) == SignMask(f) + Inf(f)
QuietNanBit(f) == 2 ^ (Mantissa[f] - 1)
QuietNan(f) == Inf(f) + QuietNanBit(f)
Sign(f, b) == b & SignMask(f)
IsNan(f, b) == (b > Inf(f) /\ b < SignMask(f)) \/ b > NegInf(f)
IsZero(f, b) == b = 0 \/ b = SignMask(f)

\* The value of a float that is not a NaN, as a multiple of the least there is;
\* infinity is more than all, as hardware compares it.
One(f) == 2 ^ (Bias - 1 + Mantissa[f])
Value(f, b) ==
    LET positive == b % SignMask(f)
        exponent == positive \div 2 ^ Mantissa[f]
        fraction == positive % 2 ^ Mantissa[f]
        value == IF exponent = 0 THEN fraction
                 ELSE (2 ^ Mantissa[f] + fraction) * 2 ^ (exponent - 1)
    IN IF b < SignMask(f) THEN value ELSE -value

\* The bits of positive integers, which the code has as literals.
Floats == DOMAIN Mantissa
Literals == {2 ^ (Width[t] - 1) : t \in DOMAIN Width} \cup {2 ^ Width[t] : t \in DOMAIN Width}
            \cup {1, 2 ^ (Width["i32"] - 1) - 1, 2 ^ Width["i32"] - 1}
BitsOf == [f \in Floats |-> [v \in Literals |->
             LET same == {b \in 0 .. Inf(f) - 1 : Value(f, b) = v * One(f)}
             IN IF same = {} THEN Inf(f) ELSE Min(same)]]
NegBits(f, v) == SignMask(f) + BitsOf[f][v]

\* Mutant: the least integer is taken for out of range.
OpenRange(t, s, f, b) ==
    IF s THEN \/ b < BitsOf[f][2 ^ (Width[t] - 1)]
              \/ b >= SignMask(f) /\ b < NegBits(f, 2 ^ (Width[t] - 1))
    ELSE b < BitsOf[f][2 ^ Width[t]] \/ (b >= SignMask(f) /\ b < NegBits(f, 1))

\* IsConversionInRange for the integer type t, signed or not: below the power of 2
\* that is too much, but from f64 to i32 at most the greatest integer.
IsConversionInRange(t, s, f, b) ==
    LET power == IF s THEN 2 ^ (Width[t] - 1) ELSE 2 ^ Width[t]
    IN \/ IF f = "f64" /\ t = "i32" THEN b <= BitsOf[f][power - 1] ELSE b < BitsOf[f][power]
       \/ /\ b >= SignMask(f)
          /\ IF s THEN b <= NegBits(f, power) ELSE b < NegBits(f, 1)

\* static_cast to an integer is towards zero.
Truncated(f, b) == Quotient(Value(f, b), One(f))

IntTrunc(t, s, f, b) ==
    IF IsNan(f, b) THEN Trap("InvalidConversionToInteger")
    ELSE IF ~IsConversionInRange(t, s, f, b) THEN Trap("IntegerOverflow")
    ELSE Ok(Rep(Width[t], Truncated(f, b)))

Least(t, s) == IF s THEN -(2 ^ (Width[t] - 1)) ELSE 0
Greatest(t, s) == IF s THEN 2 ^ (Width[t] - 1) - 1 ELSE 2 ^ Width[t] - 1

IntTruncSat(t, s, f, b) ==
    IF IsNan(f, b) THEN 0
    ELSE IF IsConversionInRange(t, s, f, b) THEN Rep(Width[t], Truncated(f, b))
    ELSE Rep(Width[t], IF Sign(f, b) # 0 THEN Least(t, s) ELSE Greatest(t, s))

\* max instead of min of the bits of zeros: the sign bit makes the value larger.
FloatMin(f, x, y) ==
    IF IsNan(f, x) THEN x | QuietNanBit(f)
    ELSE IF IsNan(f, y) THEN y | QuietNanBit(f)
    ELSE IF IsZero(f, x) /\ IsZero(f, y) THEN Max({x, y})
    ELSE IF Value(f, y) < Value(f, x) THEN y ELSE x
FloatMax(f, x, y) ==
    IF IsNan(f, x) THEN x | QuietNanBit(f)
    ELSE IF IsNan(f, y) THEN y | QuietNanBit(f)
    ELSE IF IsZero(f, x) /\ IsZero(f, y) THEN Min({x, y})
    ELSE IF Value(f, x) < Value(f, y) THEN y ELSE x

\* FloatDiv by a zero; by anything else the hardware divides.
DivByZero(f, x, y) ==
    IF IsNan(f, x) THEN x | QuietNan(f)
    ELSE IF IsZero(f, x) THEN QuietNan(f)
    ELSE (Sign(f, x) ^^ Sign(f, y)) | Inf(f)

FloatAbs(f, x) == x % SignMask(f)
FloatNeg(f, x) == x ^^ SignMask(f)
FloatCopySign(f, x, y) == (x % SignMask(f)) | Sign(f, y)

\* A NaN is different from all, itself included; zeros are equal.
FloatComparisons == {"eq", "ne", "lt", "le", "gt", "ge"}
FloatCompare(op, f, x, y) ==
    LET a == Value(f, x)
        b == Value(f, y)
    IN Truth(IF IsNan(f, x) \/ IsNan(f, y) THEN op = "ne"
             ELSE CASE op = "eq" -> a = b  [] op = "ne" -> a # b [] op = "lt" -> a < b
                    [] op = "le" -> a <= b [] op = "gt" -> a > b [] op = "ge" -> a >= b)

\* F32DemoteF64 of what is not in the range of f32, else the hardware rounds.
MaxOf(f) == Inf(f) - 1
Widen(b) == CHOOSE d \in 0 .. Inf("f64") - 1 : Value("f64", d) * One("f32") = Value("f32", b) * One("f64")
MaxAsF64 == Widen(MaxOf("f32"))
IsInF32Range(b) == b % SignMask("f64") <= MaxAsF64
HalfUlp == 2 ^ (Mantissa["f64"] - Mantissa["f32"] - 1)
RoundsToMax(b) == b > MaxAsF64 /\ b < MaxAsF64 + HalfUlp
DemoteOutOfRange(b) ==
    LET sign == Truth(Sign("f64", b) # 0) * SignMask("f32")
        magnitude == b % SignMask("f64")
        payload == (magnitude \div 2 ^ (Mantissa["f64"] - Mantissa["f32"])) % 2 ^ Mantissa["f32"]
    IN IF RoundsToMax(magnitude) THEN sign + MaxOf("f32")
       ELSE sign + (Inf("f32") | IF IsNan("f64", b) THEN QuietNanBit("f32") | payload ELSE 0)

\* What a numeric opcode i makes of its operands, the first below the second.
Apply(i, args) ==
    LET x == args[1]
        y == args[2]
    IN CASE i.op = "trunc" -> IntTrunc(i.type, i.signed, i.from, x)
         [] i.op = "trunc_sat" -> Ok(IntTruncSat(i.type, i.signed, i.from, x))
         [] i.op = "extend_s" -> Ok(IntExtendS(Width[i.type], x, i.bits))
         [] i.op = "demote" -> Ok(DemoteOutOfRange(x))
         [] i.op = "min" -> Ok(FloatMin(i.type, x, y))
         [] i.op = "max" -> Ok(FloatMax(i.type, x, y))
         [] i.op = "div_by_zero" -> Ok(DivByZero(i.type, x, y))
         [] i.op = "copysign" -> Ok(FloatCopySign(i.type, x, y))
         [] i.op = "abs" -> Ok(FloatAbs(i.type, x))
         [] i.op = "neg" -> Ok(FloatNeg(i.type, x))
         [] i.op \in FloatComparisons /\ i.type \in Floats ->
              Ok(FloatCompare(i.op, i.type, x, y))
         [] i.op \in IntUnops -> Ok(IntUnary(i.op, Width[i.type], x))
         [] i.op \in IntBinops /\ i.type \notin Floats -> IntBinary(i.op, Width[i.type], x, y)
=============================================================================
