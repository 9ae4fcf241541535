---------------------------- MODULE OpcodeMeaning ----------------------------
(***************************************************************************)
(* What the numeric opcodes mean, said without the steps of                *)
(* ThreadOps.cc: integers are sets of bits or what a product or a          *)
(* remainder makes them, floats the numbers they stand for.                *)
(***************************************************************************)
EXTENDS NumericOps

Bits(w, x) == {n \in 0 .. w - 1 : (x \div 2 ^ n) % 2 = 1}
OfBits(bits) == MapThenSumSet(LAMBDA n : 2 ^ n, bits)

\* The quotient that leaves a remainder less than b, with the sign of a.
Divided(a, b) ==
    CHOOSE q \in -Magnitude(a) .. Magnitude(a) :
       LET r == a - q * b IN Magnitude(r) < Magnitude(b) /\ (r # 0 => (r < 0) = (a < 0))

Division(rem, signed, w, x, y) ==
    LET a == IF signed THEN Signed(w, x) ELSE x
        b == IF signed THEN Signed(w, y) ELSE y
        q == Divided(a, b)
        highest == IF signed THEN 2 ^ (w - 1) - 1 ELSE 2 ^ w - 1
    IN IF b = 0 THEN Trap("IntegerDivideByZero")
       ELSE IF rem THEN Ok((a - q * b) % 2 ^ w)
       ELSE IF q > highest THEN Trap("IntegerOverflow") ELSE Ok(q % 2 ^ w)

\* A bit of the result is the bit n places off: none, the sign or the one from the other end.
Moved(w, x, n, fill) ==
    OfBits({m \in 0 .. w - 1 :
              CASE fill = "zero" -> m + n \in Bits(w, x)
                [] fill = "sign" -> (IF m + n < w THEN m + n ELSE w - 1) \in Bits(w, x)
                [] fill = "ring" -> (m + n) % w \in Bits(w, x)})

\* The order of signed integers is that of naturals with the sign bit turned.
Turned(w, x) == (x + 2 ^ (w - 1)) % 2 ^ w

IntegerMeaning(op, w, x, y) ==
    LET a == Signed(w, x)
        b == Signed(w, y)
    IN CASE op = "add" -> Ok((a + b) % 2 ^ w)
         [] op = "sub" -> Ok((a - b) % 2 ^ w)
         [] op = "mul" -> Ok((a * b) % 2 ^ w)
         [] op \in {"div_s", "div_u"} -> Division(FALSE, op = "div_s", w, x, y)
         [] op \in {"rem_s", "rem_u"} -> Division(TRUE, op = "rem_s", w, x, y)
         [] op = "and" -> Ok(OfBits(Bits(w, x) \cap Bits(w, y)))
         [] op = "or" -> Ok(OfBits(Bits(w, x) \cup Bits(w, y)))
         [] op = "xor" -> Ok(OfBits((Bits(w, x) \cup Bits(w, y)) \ (Bits(w, x) \cap Bits(w, y))))
         [] op = "shl" -> Ok(Moved(w, x, -(y % w), "zero"))
         [] op = "shr_u" -> Ok(Moved(w, x, y % w, "zero"))
         [] op = "shr_s" -> Ok(Moved(w, x, y % w, "sign"))
         [] op = "rotl" -> Ok(Moved(w, x, -(y % w), "ring"))
         [] op = "rotr" -> Ok(Moved(w, x, y % w, "ring"))
         [] op = "eq" -> Ok(Truth(Bits(w, x) = Bits(w, y)))
         [] op = "ne" -> Ok(Truth(Bits(w, x) # Bits(w, y)))
         [] op = "lt_s" -> Ok(Truth(Turned(w, x) < Turned(w, y)))
         [] op = "ge_s" -> Ok(Truth(Turned(w, x) >= Turned(w, y)))
         [] op = "gt_s" -> Ok(Truth(Turned(w, y) < Turned(w, x)))
         [] op = "le_s" -> Ok(Truth(Turned(w, y) >= Turned(w, x)))
         [] op = "lt_u" -> Ok(Truth(\E d \in 1 .. 2 ^ w : x + d = y))
         [] op = "ge_u" -> Ok(Truth(\E d \in 0 .. 2 ^ w : y + d = x))
         [] op = "gt_u" -> Ok(Truth(\E d \in 1 .. 2 ^ w : y + d = x))
         [] op = "le_u" -> Ok(Truth(\E d \in 0 .. 2 ^ w : x + d = y))

UnaryMeaning(op, w, x) ==
    CASE op = "clz" -> IF Bits(w, x) = {} THEN w ELSE w - 1 - Max(Bits(w, x))
      [] op = "ctz" -> IF Bits(w, x) = {} THEN w ELSE Min(Bits(w, x))
      [] op = "popcnt" -> Cardinality(Bits(w, x))
      [] op = "eqz" -> Truth(Bits(w, x) = {})
-----------------------------------------------------------------------------
\* The integers of type t that are v without its fraction, v a multiple of 1/one.
WithoutFraction(t, s, v, one) ==
    {n \in Least(t, s) .. Greatest(t, s) :
       /\ Magnitude(n) * one <= Magnitude(v) /\ Magnitude(v) < (Magnitude(n) + 1) * one
       /\ n = 0 \/ (n < 0) = (v < 0)}

\* What may come of truncating b: an f64 whose integer part is the last of i32 or
\* u32 and that has a fraction may also trap, as it does in this code and not in WebAssembly.
Truncations(t, s, f, b) ==
    LET v == Value(f, b)
        whole == WithoutFraction(t, s, v, One(f))
        limits == {Greatest(t, s)} \cup (IF s THEN {Least(t, s)} ELSE {})
    IN IF IsNan(f, b) THEN {Trap("InvalidConversionToInteger")}
       ELSE {Ok(n % 2 ^ Width[t]) : n \in whole}
            \cup (IF whole = {} \/ (f = "f64" /\ t = "i32" /\ v % One(f) # 0 /\ whole \subseteq limits)
                  THEN {Trap("IntegerOverflow")} ELSE {})

Saturated(t, s, f, b) ==
    LET v == Value(f, b)
        whole == WithoutFraction(t, s, v, One(f))
    IN IF IsNan(f, b) THEN 0
       ELSE (IF whole # {} THEN CHOOSE n \in whole : TRUE
             ELSE IF v < 0 THEN Least(t, s) ELSE Greatest(t, s)) % 2 ^ Width[t]

\* The floats that are not NaNs in order, -0 before +0.
Order(f, b) == IF b >= SignMask(f) THEN -(b % SignMask(f)) - 1 ELSE b
IsQuiet(f, b) == IsNan(f, b) /\ (b \div QuietNanBit(f)) % 2 = 1
Negative(f, b) == b \div SignMask(f) = 1

\* A NaN comes of a NaN, and is quiet; else one operand is the result.
Chosen(f, x, y, r, least) ==
    IF IsNan(f, x) \/ IsNan(f, y)
    THEN IsQuiet(f, r) /\ \E n \in {x, y} : IsNan(f, n) /\ r \in {n, n + QuietNanBit(f)}
    ELSE /\ r \in {x, y}
         /\ \A n \in {x, y} :
               IF least THEN Order(f, r) <= Order(f, n) ELSE Order(f, n) <= Order(f, r)

\* The nearer of the greatest f32 and the number after it, which stands for infinity.
Demoted(b, r) ==
    LET v == Magnitude(Value("f64", b)) * One("f32")
        max == Value("f32", MaxOf("f32")) * One("f64")
        next == Value("f32", Inf("f32")) * One("f64")
    IN /\ Negative("f32", r) = Negative("f64", b)
       /\ IF IsNan("f64", b) THEN IsQuiet("f32", r)
          ELSE r % SignMask("f32") = IF v - max < next - v THEN MaxOf("f32") ELSE Inf("f32")

\* Floats compare as their places in the order do, where -0 and 0 are one.
Ordered(f, b) == IF b = SignMask(f) THEN 0 ELSE Order(f, b)
Compared(f, x, y) ==
    LET a == Ordered(f, x)
        b == Ordered(f, y)
    IN IF IsNan(f, x) \/ IsNan(f, y) THEN {"ne"}
       ELSE IF a = b THEN {"eq", "le", "ge"}
       ELSE IF a < b THEN {"ne", "lt", "le"} ELSE {"ne", "gt", "ge"}

FloatMeaning(op, f, x, y, r) ==
    CASE op = "min" -> Chosen(f, x, y, r, TRUE)
      [] op = "max" -> Chosen(f, x, y, r, FALSE)
      [] op = "div_by_zero" -> IF IsNan(f, x) \/ Value(f, x) = 0 THEN IsQuiet(f, r)
                               ELSE /\ r % SignMask(f) = Inf(f)
                                    /\ Negative(f, r) = (Negative(f, x) # Negative(f, y))
      [] op = "abs" -> r % SignMask(f) = x % SignMask(f) /\ ~Negative(f, r)
      [] op = "neg" -> r % SignMask(f) = x % SignMask(f) /\ Negative(f, r) = ~Negative(f, x)
      [] op = "copysign" -> r % SignMask(f) = x % SignMask(f) /\ Negative(f, r) = Negative(f, y)

\* r is what the opcode i may make of args.
Means(i, args, r) ==
    LET x == args[1]
        y == args[2]
        exact == r.trap = "" /\ r.value >= 0
    IN CASE i.op = "trunc" -> r \in Truncations(i.type, i.signed, i.from, x)
         [] i.op = "trunc_sat" -> r = Ok(Saturated(i.type, i.signed, i.from, x))
         [] i.op = "extend_s" ->
              LET w == Width[i.type]
                  n == w - i.bits
              IN r = Ok(Moved(w, x * 2 ^ n % 2 ^ w, n, "sign"))
         [] i.op = "demote" -> exact /\ Demoted(x, r.value)
         [] i.op \in {"min", "max", "div_by_zero", "copysign", "abs", "neg"} ->
              exact /\ FloatMeaning(i.op, i.type, x, y, r.value)
         [] i.op \in FloatComparisons /\ i.type \in Floats ->
              r = Ok(Truth(i.op \in Compared(i.type, x, y)))
         [] i.op \in IntUnops -> r = Ok(UnaryMeaning(i.op, Width[i.type], x))
         [] i.op \in IntBinops /\ i.type \notin Floats ->
              r = IntegerMeaning(i.op, Width[i.type], x, y)
=============================================================================
